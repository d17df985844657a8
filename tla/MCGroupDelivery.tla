-------------------------- MODULE MCGroupDelivery --------------------------
(***************************************************************************)
(* Instances of GroupDelivery for TLC.                                     *)
(***************************************************************************)
EXTENDS GroupDelivery

CONSTANTS g1, g2, p1, p2, m1, m2

From(g, c) == [group_id |-> g, after_cursor |-> c]

(* Each group has one poster of its own. *)
OwnGroup == {<<p1, g1>>, <<p2, g2>>}

OneWriter == {<<p1, g1>>}

(* Both posters post to the first group. *)
SameGroup == {<<p1, g1>>, <<p2, g1>>}

(* ... and one of them to the second as well. *)
Shared == SameGroup \cup {<<p2, g2>>}

(* One group from the start, the other from a cursor that its log may not  *)
(* have reached yet.                                                       *)
EachGroupOnce == {<<From(g1, 0), From(g2, 1)>>}

(* Two groups, and the same group twice from different cursors. *)
WithRepeats == {<<From(g1, 0), From(g2, 0)>>, <<From(g1, 1), From(g1, 0)>>}

OneGroup == {<<From(g1, 0)>>, <<From(g1, 1)>>}
=============================================================================
