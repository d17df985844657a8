---------------------------- MODULE MCMailboxes ----------------------------
(***************************************************************************)
(* Instances of Mailboxes for TLC.                                         *)
(***************************************************************************)
EXTENDS Mailboxes

CONSTANTS a, r1, r2, g1, p1, p2, t1, t2

(* Each requester has published a package. *)
OneEach == {<<r1, p1>>, <<r2, p2>>}

OfFirst == {<<r1, p1>>}
=============================================================================
