-------------------------- MODULE MCStorageParity --------------------------
(***************************************************************************)
(* Instances of StorageParity for TLC.                                     *)
(***************************************************************************)
EXTENDS StorageParity

CONSTANTS i1, i2, r1, r2, r3, r4
=============================================================================
