--------------------------- MODULE MCKeyPackages ---------------------------
(***************************************************************************)
(* Instances of KeyPackages for TLC.                                       *)
(***************************************************************************)
EXTENDS KeyPackages

CONSTANTS i1, i2, t1, t2, r1, r2, l1, l2, l3, s1

(* r1, r2 are references of regular packages and l1, l2, l3 of last-resort *)
(* ones of i1, s1 of a last-resort one of i2, who also uses r1.  Every     *)
(* identity sends one request at a time.                                   *)
OneThreadEach ==
    {<<t1, i1, r1, FALSE>>, <<t1, i1, l1, TRUE>>, <<t1, i1, l2, TRUE>>,
     <<t1, i1, l3, TRUE>>, <<t2, i2, r1, FALSE>>, <<t2, i2, s1, TRUE>>}

(* Anybody asks for the removal of anything. *)
RemoveAny == {t1} \X {i1} \X {l1, s1} \cup {t2} \X {i2} \X {r1, s1}

NoRemoval == {}

(* One identity publishes on two threads at once. *)
TwoThreads == {<<t1, i1, r1, FALSE>>, <<t2, i1, r2, FALSE>>}

(* What a file holds: a sequence of i1's references. *)
FileOf(refs) ==
    [n \in 1 .. Len(refs) |->
       [stable_pubkey |-> i1, key_package_ref |-> refs[n],
        is_last_resort |-> refs[n] \in {l1, l2, l3}, serial |-> n]]

NewFile == {<<>>}

(* Over limits of two and two, in one count and in both; in the last case  *)
(* with a regular package, for which a new last-resort one is refused      *)
(* after others were displaced for it.                                     *)
FilesOutgrown == {<<>>, FileOf(<<l1, l2, l3>>), FileOf(<<l3, l1, r1, l2>>)}
=============================================================================
