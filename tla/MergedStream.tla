---------------------------- MODULE MergedStream ----------------------------
(***************************************************************************)
(* What a merged subscription promises, without registry, buffers, locks   *)
(* or posting threads: per group there is one growing log, and an open     *)
(* stream moves along the log of every group it asked for, from the        *)
(* requested cursor on, one message at a time.  Which group moves next,    *)
(* and which of the open streams move together, is left open.              *)
(***************************************************************************)
EXTENDS Integers, Sequences, FiniteSets

CONSTANTS Groups, Messages, Ids

VARIABLES
    log,     \* the messages of a group
    status,  \* per stream: none, open or closed
    from,    \* per stream: the requested cursor of every group it asked for
    stream   \* per stream: the records delivered so far

vars == <<log, status, from, stream>>

(* The cursor of the next record of a group that a stream is owed. *)
Due(id, g) ==
    from[id][g] + Cardinality({i \in DOMAIN stream[id] : stream[id][i].group_id = g}) + 1

Init ==
    /\ log = [g \in Groups |-> <<>>]
    /\ status = [id \in Ids |-> "none"]
    /\ from = [id \in Ids |-> <<>>]
    /\ stream = [id \in Ids |-> <<>>]

Post(g, m) ==
    /\ log' = [log EXCEPT ![g] = Append(@, m)]
    /\ UNCHANGED <<status, from, stream>>

Open(id) ==
    /\ status[id] = "none"
    /\ status' = [status EXCEPT ![id] = "open"]
    /\ DOMAIN from'[id] \in (SUBSET Groups) \ {{}}
    /\ \A g \in DOMAIN from'[id] : from'[id][g] \in Nat
    /\ from' = [from EXCEPT ![id] = from'[id]]
    /\ UNCHANGED <<log, stream>>

(* Open streams that asked for g and are not at its end get its next record. *)
Deliver(g, ids) ==
    /\ \A id \in ids : /\ status[id] = "open"
                       /\ g \in DOMAIN from[id]
                       /\ Due(id, g) <= Len(log[g])
    /\ stream' = [id \in Ids |->
                    IF id \in ids
                    THEN Append(stream[id], [group_id |-> g, cursor |-> Due(id, g),
                                             opaque_message |-> log[g][Due(id, g)]])
                    ELSE stream[id]]
    /\ UNCHANGED <<log, status, from>>

Close(id) ==
    /\ status[id] = "open"
    /\ status' = [status EXCEPT ![id] = "closed"]
    /\ UNCHANGED <<log, from, stream>>

Next ==
    \/ \E g \in Groups, m \in Messages : Post(g, m)
    \/ \E id \in Ids : Open(id) \/ Close(id)
    \/ \E g \in Groups, ids \in (SUBSET Ids) \ {{}} : Deliver(g, ids)

Spec == Init /\ [][Next]_vars
=============================================================================
