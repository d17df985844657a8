--------------------------- MODULE MCRateLimiter ---------------------------
(***************************************************************************)
(* Instances of RateLimiter for TLC.                                       *)
(***************************************************************************)
EXTENDS RateLimiter

CONSTANTS k1, k2, t1, t2

(* One thread serves both keys, another one the first key as well. *)
Shared == {<<t1, k1>>, <<t1, k2>>, <<t2, k1>>}
=============================================================================
