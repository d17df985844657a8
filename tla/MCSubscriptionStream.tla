------------------------ MODULE MCSubscriptionStream ------------------------
(***************************************************************************)
(* Instance of SubscriptionStream for TLC.                                 *)
(***************************************************************************)
EXTENDS SubscriptionStream

CONSTANTS g1, p1, m1, m2, c1

OneWriter == {<<p1, g1>>}

OnlyGroup == <<g1>>

(* What a client with any cursors asks for. *)
Resumes == {ResumeFrom(after) : after \in [Groups -> 0 .. MaxLog]}
=============================================================================
