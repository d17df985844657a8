------------------------ MODULE GroupDeliveryProofs ------------------------
(***************************************************************************)
(* Proofs about GroupDelivery, in three parts, each with an inductive      *)
(* invariant of its own that builds on the one before: DeliveryInv, for    *)
(* what every subscription is promised, BacklogInv and WriterInv.          *)
(*                                                                         *)
(* DeliveryInv is shown inductive conjunct by conjunct, the types and the  *)
(* registry first, then what is in flight to a channel, then what the      *)
(* channels hold; the theorems of the first part follow.                   *)
(***************************************************************************)
EXTENDS GroupDelivery, SequenceTheorems, FiniteSetTheorems, WellFoundedInduction, TLAPS

(* A non-empty set of indices of a sequence has a largest one. *)
LEMMA LargestIndex ==
    ASSUME NEW n \in Nat, NEW T \in SUBSET (1 .. n), T # {}
    PROVE  \E k \in T : \A j \in T : j <= k
<1> DEFINE D == {n - k : k \in T}
<1>1. D \subseteq Nat
  OBVIOUS
<1>2. D # {}
  <2>1. PICK k \in T : TRUE
    OBVIOUS
  <2>2. n - k \in D
    OBVIOUS
  <2> QED  BY <2>2
<1>3. PICK d \in D : \A e \in D : ~ (<<e, d>> \in OpToRel(<, Nat))
  <2> HIDE DEF D
  <2> QED  BY <1>1, <1>2, WFMin, NatLessThanWellFounded
<1>4. \A e \in D : ~ (e < d)
  BY <1>1, <1>3 DEF OpToRel
<1>5. PICK k \in T : d = n - k
  OBVIOUS
<1>6. \A j \in T : j <= k
  <2> SUFFICES ASSUME NEW j \in T PROVE j <= k
    OBVIOUS
  <2>1. n - j \in D
    OBVIOUS
  <2> QED  BY <2>1, <1>4, <1>5
<1> QED  BY <1>6

-----------------------------------------------------------------------------
(* What the request's cursor map is worth. *)
LEMMA CursorsType ==
    ASSUME NEW req \in Seq(FetchInput)
    PROVE  /\ Cursors(req) \in [Groups -> Nat]
           /\ GroupIds(req) \subseteq Groups
<1>1. \A k \in DOMAIN req : req[k] \in FetchInput
  BY ElementOfSeq, LenProperties
<1>2. GroupIds(req) \subseteq Groups
  BY <1>1 DEF GroupIds, FetchInput
<1>3. ASSUME NEW g \in Groups,
             NEW at, at = {k \in DOMAIN req : req[k].group_id = g}, at # {}
      PROVE  req[CHOOSE k \in at : \A j \in at : j <= k].after_cursor \in Nat
  <2>1. \E k \in at : \A j \in at : j <= k
    BY <1>3, LargestIndex, LenProperties
  <2>2. (CHOOSE k \in at : \A j \in at : j <= k) \in at
    BY <2>1
  <2> QED  BY <2>2, <1>1, <1>3 DEF FetchInput
<1> QED  BY <1>2, <1>3 DEF Cursors

(* The live tail of one group starts from nothing. *)
LEMMA LiveTailCursors ==
    ASSUME NEW h \in Groups, NEW g \in Groups
    PROVE  Cursors(<<[group_id |-> h, after_cursor |-> 0]>>)[g] = 0
<1> DEFINE req == <<[group_id |-> h, after_cursor |-> 0]>>
           at == {k \in DOMAIN req : req[k].group_id = g}
<1>1. DOMAIN req = {1} /\ req[1].after_cursor = 0
  OBVIOUS
<1>2. CASE at = {}
  BY <1>2 DEF Cursors
<1>3. CASE at # {}
  <2>1. at = {1}
    BY <1>1, <1>3
  <2>2. (CHOOSE k \in at : \A j \in at : j <= k) = 1
    BY <2>1
  <2>3. Cursors(req)[g] = req[CHOOSE k \in at : \A j \in at : j <= k].after_cursor
    BY <1>3 DEF Cursors
  <2> QED  BY <2>2, <2>3, <1>1
<1> QED  BY <1>2, <1>3

(* The number of groups a request names is a natural number. *)
LEMMA GroupIdsFinite ==
    ASSUME NEW gids \in SUBSET Groups
    PROVE  Cardinality(gids) \in Nat
BY GroupsFinite, FS_Subset, FS_CardinalityType

(* emit_if_new: how it changes a subscriber. *)
LEMMA NotedProperties ==
    ASSUME NEW sub \in Subscriber, NEW rec \in GroupMessageRecord
    PROVE  /\ Noted(sub, rec) \in Subscriber
           /\ Noted(sub, rec).dedup = sub.dedup
           /\ Noted(sub, rec).buffer = sub.buffer
           /\ Noted(sub, rec).buffering = sub.buffering
           /\ \A g \in Groups : sub.cursors_by_group[g] <= Noted(sub, rec).cursors_by_group[g]
           /\ sub.dedup /\ IsNew(sub, rec) =>
                Noted(sub, rec).cursors_by_group[rec.group_id] = rec.cursor
<1> DEFINE noted == [sub EXCEPT !.cursors_by_group[rec.group_id] = rec.cursor]
<1>1. rec.group_id \in Groups /\ rec.cursor \in Nat
  BY DEF GroupMessageRecord
<1>2. CASE sub.dedup /\ IsNew(sub, rec)
  <2>1. Noted(sub, rec) = noted
    BY <1>2 DEF Noted
  <2>2. /\ noted \in Subscriber
        /\ noted.dedup = sub.dedup
        /\ noted.buffer = sub.buffer
        /\ noted.buffering = sub.buffering
        /\ noted.cursors_by_group = [sub.cursors_by_group EXCEPT ![rec.group_id] = rec.cursor]
    BY <1>1 DEF Subscriber
  <2>3. rec.cursor > sub.cursors_by_group[rec.group_id]
    BY <1>2 DEF IsNew
  <2>4. sub.cursors_by_group \in [Groups -> Nat]
    BY DEF Subscriber
  <2> QED  BY <1>1, <2>1, <2>2, <2>3, <2>4
<1>3. CASE ~ (sub.dedup /\ IsNew(sub, rec))
  <2>1. Noted(sub, rec) = sub
    BY <1>3 DEF Noted
  <2>2. sub.cursors_by_group \in [Groups -> Nat]
    BY DEF Subscriber
  <2> QED  BY <1>3, <2>1, <2>2
<1> QED  BY <1>2, <1>3

(* What push does to a subscriber: it appends to the buffer while           *)
(* buffering, and is emit_if_new otherwise.                                 *)
LEMMA PushProperties ==
    ASSUME NEW sub \in Subscriber, NEW rec \in GroupMessageRecord
    PROVE  /\ Push(sub, rec) \in Subscriber
           /\ Push(sub, rec).dedup = sub.dedup
           /\ sub.buffering => /\ Push(sub, rec).buffer = Append(sub.buffer, rec)
                               /\ Push(sub, rec).cursors_by_group = sub.cursors_by_group
           /\ ~ sub.buffering => Push(sub, rec) = Noted(sub, rec)
<1>1. Append(sub.buffer, rec) \in Seq(GroupMessageRecord)
  BY DEF Subscriber
<1>2. CASE sub.buffering
  BY <1>1, <1>2 DEF Push, Subscriber
<1>3. CASE ~ sub.buffering
  BY <1>3, NotedProperties DEF Push
<1> QED  BY <1>2, <1>3

(* Replacing buffer and flag leaves the rest of a subscriber alone.         *)
LEMMA ExceptBuffer ==
    ASSUME NEW sub \in Subscriber, NEW flag \in BOOLEAN,
           NEW seq \in Seq(GroupMessageRecord)
    PROVE  LET new == [sub EXCEPT !.buffering = flag, !.buffer = seq]
           IN  /\ new \in Subscriber
               /\ new.dedup = sub.dedup
               /\ new.cursors_by_group = sub.cursors_by_group
               /\ new.buffer = seq
BY DEF Subscriber

(* finish_buffering empties the buffer and keeps the cursors.               *)
LEMMA FinishProperties ==
    ASSUME NEW sub \in Subscriber
    PROVE  LET new == [sub EXCEPT !.buffering = FALSE, !.buffer = <<>>]
           IN  /\ new \in Subscriber
               /\ new.dedup = sub.dedup
               /\ new.cursors_by_group = sub.cursors_by_group
               /\ new.buffer = <<>>
<1>1. <<>> \in Seq(GroupMessageRecord)
  OBVIOUS
<1> QED  BY <1>1, ExceptBuffer

(* A fetch returns records of the log, all of the group it names. *)
LEMMA FetchProperties ==
    ASSUME TypeOK, NEW g \in Groups, NEW after \in Nat
    PROVE  /\ FetchGroupMessages(g, after) \in Seq(GroupMessageRecord)
           /\ \A i \in DOMAIN FetchGroupMessages(g, after) :
                /\ InLog(log, FetchGroupMessages(g, after)[i])
                /\ FetchGroupMessages(g, after)[i].group_id = g
<1>1. log[g] \in Seq(Messages) /\ Len(log[g]) \in Nat
  BY LenProperties DEF TypeOK
<1>2. ASSUME NEW i \in 1 .. (Len(log[g]) - after)
      PROVE  /\ after + i \in 1 .. Len(log[g])
             /\ RecordAt(g, after + i) \in GroupMessageRecord
             /\ RecordAt(g, after + i).group_id = g
             /\ InLog(log, RecordAt(g, after + i))
  <2>1. after + i \in 1 .. Len(log[g])
    BY <1>1
  <2>2. log[g][after + i] \in Messages
    BY <1>1, <2>1, ElementOfSeq
  <2> QED  BY <2>1, <2>2 DEF RecordAt, GroupMessageRecord, InLog
<1> DEFINE n == IF Len(log[g]) >= after THEN Len(log[g]) - after ELSE 0
<1>3. n \in Nat /\ 1 .. (Len(log[g]) - after) = 1 .. n
  BY <1>1
<1>4. FetchGroupMessages(g, after) \in [1 .. n -> GroupMessageRecord]
  BY <1>2, <1>3 DEF FetchGroupMessages
<1>5. FetchGroupMessages(g, after) \in Seq(GroupMessageRecord)
  BY <1>3, <1>4, IsASeq
<1> QED  BY <1>2, <1>5 DEF FetchGroupMessages

-----------------------------------------------------------------------------
(* Type correctness of the three registry operations. *)
RegistryTypeOK ==
    /\ DOMAIN group_subscribers \subseteq Groups
    /\ group_subscribers \in [DOMAIN group_subscribers -> SUBSET Ids]
    /\ DOMAIN subscribers \subseteq Ids
    /\ subscribers \in [DOMAIN subscribers -> Subscriber]
    /\ DOMAIN refcounts \subseteq Ids
    /\ refcounts \in [DOMAIN refcounts -> Nat]
    /\ next_id \in Nat \ {0}

(* register preserves the types of the registry.                            *)
LEMMA RegisterType ==
    ASSUME RegistryTypeOK, NEW id \in Ids, NEW gids \in SUBSET Groups,
           NEW sub \in Subscriber, Register(id, gids, sub)
    PROVE  RegistryTypeOK'
<1>1. Cardinality(gids) \in Nat
  BY GroupIdsFinite
<1>2. id + 1 \in Nat \ {0}
  BY BoundsAssumption DEF Ids
<1>3. DOMAIN group_subscribers' \subseteq Groups /\ group_subscribers' \in [DOMAIN group_subscribers' -> SUBSET Ids]
  BY DEF Register, RegistryTypeOK
<1>4. DOMAIN subscribers' \subseteq Ids /\ subscribers' \in [DOMAIN subscribers' -> Subscriber]
  BY DEF Register, RegistryTypeOK
<1>5. DOMAIN refcounts' \subseteq Ids /\ refcounts' \in [DOMAIN refcounts' -> Nat]
  BY <1>1 DEF Register, RegistryTypeOK
<1> QED  BY <1>2, <1>3, <1>4, <1>5 DEF Register, RegistryTypeOK

(* remove_subscriber preserves the types of the registry.                   *)
LEMMA RemoveType ==
    ASSUME RegistryTypeOK, NEW id \in Ids, NEW gids \in SUBSET Groups,
           RemoveSubscriber(id, gids)
    PROVE  RegistryTypeOK'
<1>1. Cardinality(gids) \in Nat
  BY GroupIdsFinite
<1>3. DOMAIN group_subscribers' \subseteq Groups /\ group_subscribers' \in [DOMAIN group_subscribers' -> SUBSET Ids]
  BY DEF RemoveSubscriber, RegistryTypeOK
<1>4. DOMAIN subscribers' \subseteq Ids /\ subscribers' \in [DOMAIN subscribers' -> Subscriber]
  BY DEF RemoveSubscriber, RegistryTypeOK
<1>5. DOMAIN refcounts' \subseteq Ids /\ refcounts' \in [DOMAIN refcounts' -> Nat]
  BY <1>1 DEF RemoveSubscriber, RegistryTypeOK
<1> QED  BY <1>3, <1>4, <1>5 DEF RemoveSubscriber, RegistryTypeOK

(* publish_live preserves the types of the registry and of the channels.    *)
LEMMA PublishType ==
    ASSUME RegistryTypeOK, channel \in [Ids -> Seq(GroupMessageRecord)],
           NEW rec \in GroupMessageRecord, PublishLive(rec)
    PROVE  RegistryTypeOK' /\ channel' \in [Ids -> Seq(GroupMessageRecord)]
<1>1. \A i \in DOMAIN subscribers : Push(subscribers[i], rec) \in Subscriber
  BY PushProperties DEF RegistryTypeOK
<1>2. \A i \in Ids : Pushed(subscribers[i], channel[i], rec) \in Seq(GroupMessageRecord)
  BY DEF Pushed, Emitted
<1>3. subscribers' \in [DOMAIN subscribers -> Subscriber]
  BY <1>1 DEF PublishLive, RegistryTypeOK
<1>4. channel' \in [Ids -> Seq(GroupMessageRecord)]
  BY <1>2 DEF PublishLive
<1> QED  BY <1>3, <1>4 DEF PublishLive, RegistryTypeOK

-----------------------------------------------------------------------------
(* The empty registry and the empty logs satisfy the invariant.             *)
LEMMA InitInv == Init => DeliveryInv
<1> SUFFICES ASSUME Init PROVE DeliveryInv
  OBVIOUS
<1>1. TypeOK
  BY BoundsAssumption DEF Init, TypeOK, Ids, Free
<1>2. RegistryConsistent
  BY DEF Init, RegistryConsistent, Open
<1>3. CallsInv
  BY BoundsAssumption DEF Init, CallsInv, Ids
<1>4. InFlightInv
  BY DEF Init, InFlightInv, Stored
<1>5. CursorInv /\ StreamFaithful /\ StreamOrdered
  BY DEF Init, CursorInv, StreamFaithful, StreamOrdered, Faithful, Ordered
<1> QED  BY <1>1, <1>2, <1>3, <1>4, <1>5 DEF DeliveryInv

(* The items of the constants that a step picks are well typed. *)
LEMMA RequestType ==
    ASSUME NEW req \in Requests
    PROVE  req \in Seq(FetchInput) /\ req # <<>>
BY RequestsAssumption

(* Every step of a poster, a call or a handle preserves the types.          *)
LEMMA TypeStep == DeliveryInv /\ Next => TypeOK'
<1> SUFFICES ASSUME DeliveryInv, Next PROVE TypeOK'
  OBVIOUS
<1>0. TypeOK /\ RegistryTypeOK
  BY DEF DeliveryInv, TypeOK, RegistryTypeOK
<1>1. ASSUME NEW p \in Posters, NEW g \in Groups, NEW m \in Messages, PostAppend(p, g, m)
      PROVE  TypeOK'
  <2>1. log[g] \in Seq(Messages) /\ Len(log[g]) \in Nat
    BY <1>0, LenProperties DEF TypeOK
  <2>2. log' \in [Groups -> Seq(Messages)]
    BY <1>0, <1>1, <2>1 DEF PostAppend, TypeOK
  <2>3. posting' \in [Posters -> GroupMessageRecord \cup {NoRecord}]
    BY <1>0, <1>1, <2>1 DEF PostAppend, TypeOK, GroupMessageRecord
  <2> QED  BY <1>0, <1>1, <2>2, <2>3 DEF PostAppend, TypeOK, registry, call
<1>2. ASSUME NEW p \in Posters, PostPublish(p)
      PROVE  TypeOK'
  <2>1. posting[p] \in GroupMessageRecord
    BY <1>0, <1>2 DEF PostPublish, TypeOK
  <2>2. RegistryTypeOK' /\ channel' \in [Ids -> Seq(GroupMessageRecord)]
    BY <1>0, <1>2, <2>1, PublishType DEF PostPublish, TypeOK
  <2> QED  BY <1>0, <1>2, <2>2 DEF PostPublish, TypeOK, RegistryTypeOK, call
<1>3. ASSUME NEW g \in LiveTailGroups, SubscribeLiveTail(g)
      PROVE  TypeOK'
  <2> DEFINE sub == [dedup |-> FALSE, cursors_by_group |-> [h \in Groups |-> 0],
                     buffering |-> FALSE, buffer |-> <<>>]
  <2>1. g \in Groups /\ next_id \in Ids
    BY <1>3, LiveTailAssumption DEF SubscribeLiveTail
  <2>2. sub \in Subscriber
    BY DEF Subscriber
  <2>3. RegistryTypeOK'
    BY <1>0, <1>3, <2>1, <2>2, RegisterType DEF SubscribeLiveTail
  <2>4. request' \in [Ids -> Seq(FetchInput)]
    <3> DEFINE req == <<[group_id |-> g, after_cursor |-> 0]>>
    <3>1. req \in Seq(FetchInput)
      BY <2>1 DEF FetchInput
    <3>2. request' = [request EXCEPT ![next_id] = req]
      BY <1>3 DEF SubscribeLiveTail
    <3> HIDE DEF req
    <3> QED  BY <1>0, <3>1, <3>2 DEF TypeOK
  <2>5. pc' = [pc EXCEPT ![next_id] = "live"]
    BY <1>3 DEF SubscribeLiveTail
  <2> QED  BY <1>0, <1>3, <2>1, <2>3, <2>4, <2>5 DEF SubscribeLiveTail, TypeOK, RegistryTypeOK
<1>4. ASSUME NEW req \in Requests, SubscribeMany(req)
      PROVE  TypeOK'
  <2> DEFINE sub == [dedup |-> TRUE, cursors_by_group |-> Cursors(req),
                     buffering |-> TRUE, buffer |-> <<>>]
  <2>1. req \in Seq(FetchInput) /\ next_id \in Ids
    BY <1>4, RequestType DEF SubscribeMany
  <2>2. sub \in Subscriber
    BY <2>1, CursorsType DEF Subscriber
  <2>3. RegistryTypeOK'
    BY <1>0, <1>4, <2>1, <2>2, RegisterType, CursorsType DEF SubscribeMany
  <2>4. request' \in [Ids -> Seq(FetchInput)]
    BY <1>0, <1>4, <2>1 DEF SubscribeMany, TypeOK
  <2>5. pc' = [pc EXCEPT ![next_id] = "fetch"]
    BY <1>4 DEF SubscribeMany
  <2> QED  BY <1>0, <1>4, <2>1, <2>3, <2>4, <2>5 DEF SubscribeMany, TypeOK, RegistryTypeOK
<1>5. ASSUME NEW id \in Ids, FetchEntry(id)
      PROVE  TypeOK'
  <2>1. entry[id] + 1 \in 1 .. Len(request[id])
    BY <1>0, <1>5, LenProperties DEF FetchEntry, TypeOK, DeliveryInv, CallsInv
  <2>2. request[id][entry[id] + 1] \in FetchInput
    BY <1>0, <2>1, ElementOfSeq DEF TypeOK
  <2>3. records' \in [Ids -> Seq(GroupMessageRecord)]
    BY <1>0, <1>5, <2>2, FetchProperties, ConcatProperties DEF FetchEntry, TypeOK, FetchInput
  <2>4. snapshot' \in [Ids -> [Groups -> Nat]]
    BY <1>0, <1>5, LenProperties DEF FetchEntry, TypeOK
  <2>5. entry' \in [Ids -> Nat] /\ storage_lock' \in Ids \cup {Free}
    BY <1>0, <1>5 DEF FetchEntry, TypeOK
  <2> QED  BY <1>0, <1>5, <2>3, <2>4, <2>5 DEF FetchEntry, TypeOK, registry
<1>6. ASSUME NEW id \in Ids, FetchFails(id)
      PROVE  TypeOK'
  BY <1>0, <1>6 DEF FetchFails, TypeOK, registry
<1>7. ASSUME NEW id \in Ids, UnregisterFailed(id)
      PROVE  TypeOK'
  <2>1. RegistryTypeOK'
    BY <1>0, <1>7, RemoveType, CursorsType DEF UnregisterFailed, TypeOK
  <2> QED  BY <1>0, <1>7, <2>1 DEF UnregisterFailed, TypeOK, RegistryTypeOK
<1>8. ASSUME NEW id \in Ids, LockForReplay(id)
      PROVE  TypeOK'
  BY <1>0, <1>8 DEF LockForReplay, TypeOK, registry
<1>9. ASSUME NEW id \in Ids, EmitNext(id)
      PROVE  TypeOK'
  <2>1. Head(records[id]) \in GroupMessageRecord /\ Tail(records[id]) \in Seq(GroupMessageRecord)
    BY <1>0, <1>9, HeadTailProperties DEF EmitNext, TypeOK
  <2>2. id \in DOMAIN subscribers /\ subscribers[id] \in Subscriber
    BY <1>0, <1>9 DEF EmitNext, TypeOK, DeliveryInv, RegistryConsistent, Open
  <2>3. Noted(subscribers[id], Head(records[id])) \in Subscriber
    BY <2>1, <2>2, NotedProperties
  <2>4. Emitted(subscribers[id], channel[id], Head(records[id])) \in Seq(GroupMessageRecord)
    BY <1>0, <2>1 DEF Emitted, TypeOK
  <2>5. DOMAIN subscribers' = DOMAIN subscribers /\ subscribers' \in [DOMAIN subscribers -> Subscriber]
    BY <1>0, <1>9, <2>2, <2>3 DEF EmitNext, TypeOK
  <2>6. channel' \in [Ids -> Seq(GroupMessageRecord)]
    BY <1>0, <1>9, <2>4 DEF EmitNext, TypeOK
  <2>7. records' \in [Ids -> Seq(GroupMessageRecord)]
    BY <1>0, <1>9, <2>1 DEF EmitNext, TypeOK
  <2> QED  BY <1>0, <1>9, <2>5, <2>6, <2>7 DEF EmitNext, TypeOK
<1>10. ASSUME NEW id \in Ids, FinishBuffering(id)
       PROVE  TypeOK'
  <2>1. id \in DOMAIN subscribers /\ subscribers[id] \in Subscriber
    BY <1>0, <1>10 DEF FinishBuffering, TypeOK, DeliveryInv, RegistryConsistent, Open
  <2>2. [subscribers[id] EXCEPT !.buffering = FALSE, !.buffer = <<>>] \in Subscriber
    BY <2>1, FinishProperties
  <2>3. DOMAIN subscribers' = DOMAIN subscribers /\ subscribers' \in [DOMAIN subscribers -> Subscriber]
    BY <1>0, <1>10, <2>1, <2>2 DEF FinishBuffering, TypeOK
  <2>4. records' \in [Ids -> Seq(GroupMessageRecord)]
    BY <1>0, <1>10, <2>1 DEF FinishBuffering, TypeOK, Subscriber
  <2> QED  BY <1>0, <1>10, <2>3, <2>4 DEF FinishBuffering, TypeOK
<1>11. ASSUME NEW id \in Ids, ReturnHandle(id)
       PROVE  TypeOK'
  BY <1>0, <1>11 DEF ReturnHandle, TypeOK, registry
<1>12. ASSUME NEW id \in Ids, Recv(id)
       PROVE  TypeOK'
  BY <1>0, <1>12 DEF Recv, TypeOK, registry, call
<1>13. ASSUME NEW id \in Ids, RecvNone(id)
       PROVE  TypeOK'
  BY <1>0, <1>13 DEF RecvNone, TypeOK, registry
<1>14. ASSUME NEW id \in Ids, Unsubscribe(id)
       PROVE  TypeOK'
  <2>1. RegistryTypeOK'
    BY <1>0, <1>14, RemoveType, CursorsType DEF Unsubscribe, TypeOK
  <2> QED  BY <1>0, <1>14, <2>1 DEF Unsubscribe, TypeOK, RegistryTypeOK
<1> QED
  BY <1>1, <1>2, <1>3, <1>4, <1>5, <1>6, <1>7, <1>8, <1>9, <1>10, <1>11, <1>12,
     <1>13, <1>14 DEF Next, Post, SubscribeStep

-----------------------------------------------------------------------------
(* The registry follows the calls and handles. *)
LEMMA RegisterConsistent ==
    ASSUME TypeOK, RegistryConsistent, NEW id \in Ids, ~ Open(id), NEW req, NEW sub,
           NEW to \in {"fetch", "live"},
           Register(id, GroupIds(req), sub),
           pc' = [pc EXCEPT ![id] = to], request' = [request EXCEPT ![id] = req]
    PROVE  RegistryConsistent'
<1>1. id \notin DOMAIN subscribers /\ id \notin DOMAIN refcounts
  BY DEF RegistryConsistent
<1>2. \A i \in Ids : Open(i)' <=> (i = id \/ Open(i))
  BY DEF Open, TypeOK
<1>3. DOMAIN subscribers' = DOMAIN subscribers \cup {id} /\ DOMAIN refcounts' = DOMAIN refcounts \cup {id}
  BY DEF Register
<1>4. DOMAIN subscribers' = {i \in Ids : Open(i)'} /\ DOMAIN refcounts' = DOMAIN subscribers'
  BY <1>2, <1>3 DEF RegistryConsistent
<1>5. /\ request'[id] = req
      /\ \A i \in DOMAIN subscribers : request'[i] = request[i]
  BY <1>1 DEF TypeOK
<1>6. \A i \in DOMAIN refcounts' : refcounts'[i] = Cardinality(GroupIds(request'[i]))
  BY <1>1, <1>3, <1>5 DEF Register, RegistryConsistent
<1>7. DOMAIN group_subscribers' = UNION {GroupIds(request'[i]) : i \in DOMAIN subscribers'}
  <2>1. DOMAIN group_subscribers' = DOMAIN group_subscribers \cup GroupIds(req)
    BY DEF Register
  <2>2. \A i \in DOMAIN subscribers : GroupIds(request'[i]) = GroupIds(request[i])
    BY <1>5
  <2>3. DOMAIN group_subscribers = UNION {GroupIds(request[i]) : i \in DOMAIN subscribers}
    BY DEF RegistryConsistent
  <2>4. ASSUME NEW g PROVE g \in DOMAIN group_subscribers' <=>
                           \E i \in DOMAIN subscribers' : g \in GroupIds(request'[i])
    BY <1>3, <1>5, <2>1, <2>2, <2>3
  <2> QED  BY <2>4
<1>8. ASSUME NEW g \in DOMAIN group_subscribers'
      PROVE  group_subscribers'[g] = {i \in DOMAIN subscribers' : g \in GroupIds(request'[i])}
  <2>1. group_subscribers'[g] =
          (IF g \in DOMAIN group_subscribers THEN group_subscribers[g] ELSE {})
             \cup (IF g \in GroupIds(req) THEN {id} ELSE {})
    BY <1>8 DEF Register
  <2>2. (IF g \in DOMAIN group_subscribers THEN group_subscribers[g] ELSE {})
          = {i \in DOMAIN subscribers : g \in GroupIds(request[i])}
    BY DEF RegistryConsistent
  <2>3. {i \in DOMAIN subscribers' : g \in GroupIds(request'[i])}
          = {i \in DOMAIN subscribers : g \in GroupIds(request[i])}
              \cup (IF g \in GroupIds(req) THEN {id} ELSE {})
    BY <1>3, <1>5
  <2> QED  BY <2>1, <2>2, <2>3
<1> QED  BY <1>4, <1>6, <1>7, <1>8 DEF RegistryConsistent

(* remove_subscriber, called when a call fails or a handle closes, keeps    *)
(* the registry maps in agreement.                                          *)
LEMMA RemoveConsistent ==
    ASSUME TypeOK, RegistryConsistent, NEW id \in Ids, Open(id), ~ Open(id)',
           \A i \in Ids \ {id} : Open(i)' <=> Open(i),
           RemoveSubscriber(id, GroupIds(request[id])), request' = request
    PROVE  RegistryConsistent'
<1> DEFINE gids == GroupIds(request[id])
<1>1. id \in DOMAIN subscribers /\ id \in DOMAIN refcounts /\ refcounts[id] = Cardinality(gids)
  BY DEF RegistryConsistent
<1>2. refcounts[id] <= Cardinality(gids)
  BY <1>1 DEF TypeOK
<1>3. /\ DOMAIN subscribers' = DOMAIN subscribers \ {id}
      /\ DOMAIN refcounts' = DOMAIN refcounts \ {id}
      /\ \A i \in DOMAIN refcounts' : refcounts'[i] = refcounts[i]
  BY <1>1, <1>2 DEF RemoveSubscriber
<1>4. DOMAIN subscribers' = {i \in Ids : Open(i)'} /\ DOMAIN refcounts' = DOMAIN subscribers'
  BY <1>3 DEF RegistryConsistent
<1>5. \A i \in DOMAIN refcounts' : refcounts'[i] = Cardinality(GroupIds(request'[i]))
  BY <1>3 DEF RegistryConsistent
<1> DEFINE rest(g) == IF g \in gids THEN group_subscribers[g] \ {id} ELSE group_subscribers[g]
           kept == {h \in DOMAIN group_subscribers : h \notin gids \/ rest(h) # {}}
<1>6. group_subscribers' = [g \in kept |-> rest(g)]
  BY DEF RemoveSubscriber
<1>7. \A g \in DOMAIN group_subscribers : rest(g) = {i \in DOMAIN subscribers' : g \in GroupIds(request[i])}
  BY <1>3 DEF RegistryConsistent
<1>8. \A g \in DOMAIN group_subscribers : g \notin gids => rest(g) # {}
  <2> SUFFICES ASSUME NEW g \in DOMAIN group_subscribers, g \notin gids PROVE rest(g) # {}
    OBVIOUS
  <2>0. DOMAIN group_subscribers = UNION {GroupIds(request[i]) : i \in DOMAIN subscribers}
    BY DEF RegistryConsistent
  <2>1. PICK i \in DOMAIN subscribers : g \in GroupIds(request[i])
    BY <2>0
  <2>2. i # id
    BY <2>1
  <2>3. i \in rest(g)
    BY <1>3, <1>7, <2>1, <2>2
  <2> QED  BY <2>3
<1>9. kept = UNION {GroupIds(request[i]) : i \in DOMAIN subscribers'}
  <2>1. kept \subseteq UNION {GroupIds(request[i]) : i \in DOMAIN subscribers'}
    BY <1>7, <1>8
  <2>2. ASSUME NEW i \in DOMAIN subscribers', NEW g \in GroupIds(request[i])
        PROVE  g \in kept
    <3>1. g \in DOMAIN group_subscribers
      BY <1>3, <2>2, Zenon DEF RegistryConsistent
    <3>2. i \in rest(g)
      BY <1>7, <2>2, <3>1
    <3> QED  BY <3>1, <3>2
  <2> QED  BY <2>1, <2>2, Zenon
<1> HIDE DEF gids, kept, rest
<1>10. DOMAIN group_subscribers' = kept /\ \A g \in kept : group_subscribers'[g] = rest(g)
  BY <1>6
<1>11. kept \subseteq DOMAIN group_subscribers
  BY DEF kept
<1> QED  BY <1>4, <1>5, <1>7, <1>9, <1>10, <1>11 DEF RegistryConsistent

(* A step that leaves the registered ids and the requests alone. *)
LEMMA SameConsistent ==
    ASSUME RegistryConsistent, DOMAIN subscribers' = DOMAIN subscribers,
           UNCHANGED <<group_subscribers, refcounts, request>>,
           \A i \in Ids : Open(i)' <=> Open(i)
    PROVE  RegistryConsistent'
BY DEF RegistryConsistent

(* Every step keeps the registry maps in agreement with the open calls and  *)
(* handles.                                                                 *)
LEMMA RegistryStep == DeliveryInv /\ Next => RegistryConsistent'
<1> SUFFICES ASSUME DeliveryInv, Next PROVE RegistryConsistent'
  OBVIOUS
<1>0. TypeOK /\ RegistryConsistent /\ CallsInv
  BY DEF DeliveryInv
<1>1. ASSUME NEW p \in Posters, NEW g \in Groups, NEW m \in Messages, PostAppend(p, g, m)
      PROVE  RegistryConsistent'
  BY <1>0, <1>1, SameConsistent DEF PostAppend, registry, call, Open
<1>2. ASSUME NEW p \in Posters, PostPublish(p)
      PROVE  RegistryConsistent'
  BY <1>0, <1>2, SameConsistent DEF PostPublish, PublishLive, call, Open
<1>3. ASSUME NEW g \in LiveTailGroups, SubscribeLiveTail(g)
      PROVE  RegistryConsistent'
  <2> DEFINE req == <<[group_id |-> g, after_cursor |-> 0]>>
  <2>1. next_id \in Ids /\ pc[next_id] = "none"
    BY <1>0, <1>3 DEF SubscribeLiveTail, CallsInv, Ids
  <2>2. GroupIds(req) = {g}
    BY DEF GroupIds
  <2>3. ~ Open(next_id)
    BY <2>1 DEF Open
  <2> HIDE DEF req
  <2> QED  BY <1>0, <1>3, <2>1, <2>2, <2>3, RegisterConsistent DEF SubscribeLiveTail, req
<1>4. ASSUME NEW req \in Requests, SubscribeMany(req)
      PROVE  RegistryConsistent'
  <2>1. next_id \in Ids /\ pc[next_id] = "none"
    BY <1>0, <1>4 DEF SubscribeMany, CallsInv, Ids
  <2>2. ~ Open(next_id)
    BY <2>1 DEF Open
  <2> QED  BY <1>0, <1>4, <2>1, <2>2, RegisterConsistent DEF SubscribeMany
<1>5. ASSUME NEW id \in Ids,
             \/ FetchEntry(id) \/ FetchFails(id) \/ LockForReplay(id)
             \/ EmitNext(id) \/ FinishBuffering(id) \/ ReturnHandle(id)
             \/ Recv(id) \/ RecvNone(id)
      PROVE  RegistryConsistent'
  <2>1. DOMAIN subscribers' = DOMAIN subscribers /\ UNCHANGED <<group_subscribers, refcounts, request>>
    BY <1>5 DEF FetchEntry, FetchFails, LockForReplay, EmitNext, FinishBuffering,
                ReturnHandle, Recv, RecvNone, registry, call
  <2>2. \A i \in Ids : Open(i)' <=> Open(i)
    BY <1>0, <1>5 DEF FetchEntry, FetchFails, LockForReplay, EmitNext, FinishBuffering,
                ReturnHandle, Recv, RecvNone, registry, call, Open, TypeOK
  <2> QED  BY <1>0, <2>1, <2>2, SameConsistent
<1>6. ASSUME NEW id \in Ids, UnregisterFailed(id) \/ Unsubscribe(id)
      PROVE  RegistryConsistent'
  <2>1. Open(id) /\ ~ Open(id)' /\ \A i \in Ids \ {id} : Open(i)' <=> Open(i)
    BY <1>0, <1>6 DEF UnregisterFailed, Unsubscribe, Open, TypeOK
  <2>2. RemoveSubscriber(id, GroupIds(request[id])) /\ request' = request
    BY <1>6 DEF UnregisterFailed, Unsubscribe
  <2> QED  BY <1>0, <2>1, <2>2, RemoveConsistent
<1> QED
  BY <1>1, <1>2, <1>3, <1>4, <1>5, <1>6 DEF Next, Post, SubscribeStep

-----------------------------------------------------------------------------
(* Unused ids, and the progress of a fetch. *)
LEMMA CallsStep == DeliveryInv /\ Next => CallsInv'
<1> SUFFICES ASSUME DeliveryInv, Next PROVE CallsInv'
  OBVIOUS
<1>0. TypeOK /\ RegistryConsistent /\ CallsInv
  BY DEF DeliveryInv
<1>1. ASSUME NEW p \in Posters, NEW g \in Groups, NEW m \in Messages, PostAppend(p, g, m)
      PROVE  CallsInv'
  BY <1>0, <1>1 DEF PostAppend, CallsInv, registry, call
<1>2. ASSUME NEW p \in Posters, PostPublish(p)
      PROVE  CallsInv'
  <2>1. \A id \in Ids : pc[id] = "none" => channel'[id] = channel[id]
    BY <1>0, <1>2 DEF PostPublish, PublishLive, RegistryConsistent, Open, TypeOK
  <2> QED  BY <1>0, <1>2, <2>1 DEF PostPublish, PublishLive, CallsInv, call
<1>3. ASSUME NEW g \in LiveTailGroups, SubscribeLiveTail(g)
      PROVE  CallsInv'
  BY <1>0, <1>3 DEF SubscribeLiveTail, Register, CallsInv, TypeOK, Ids
<1>4. ASSUME NEW req \in Requests, SubscribeMany(req)
      PROVE  CallsInv'
  <2>1. 0 < Len(req)
    BY RequestType, EmptySeq, LenProperties
  <2> QED  BY <1>0, <1>4, <2>1 DEF SubscribeMany, Register, CallsInv, TypeOK, Ids
<1>5. ASSUME NEW id \in Ids, FetchEntry(id)
      PROVE  CallsInv'
  <2>1. entry[id] < Len(request[id]) /\ Len(request[id]) \in Nat
    BY <1>0, <1>5, LenProperties DEF FetchEntry, CallsInv, TypeOK
  <2> QED  BY <1>0, <1>5, <2>1 DEF FetchEntry, CallsInv, TypeOK, registry
<1>6. ASSUME NEW id \in Ids,
             \/ FetchFails(id) \/ LockForReplay(id) \/ EmitNext(id)
             \/ FinishBuffering(id) \/ ReturnHandle(id) \/ Recv(id) \/ RecvNone(id)
      PROVE  CallsInv'
  BY <1>0, <1>6 DEF FetchFails, LockForReplay, EmitNext, FinishBuffering,
       ReturnHandle, Recv, RecvNone, CallsInv, TypeOK, registry, call
<1>7. ASSUME NEW id \in Ids, UnregisterFailed(id) \/ Unsubscribe(id)
      PROVE  CallsInv'
  <2>1. pc[id] # "none" /\ pc'[id] \notin {"none", "fetch"} /\ next_id' = next_id
    BY <1>0, <1>7 DEF UnregisterFailed, Unsubscribe, RemoveSubscriber, TypeOK
  <2>2. \A i \in Ids \ {id} : pc'[i] = pc[i]
    BY <1>0, <1>7 DEF UnregisterFailed, Unsubscribe, TypeOK
  <2>3. UNCHANGED <<request, entry, records, channel>>
    BY <1>7 DEF UnregisterFailed, Unsubscribe
  <2> QED  BY <1>0, <2>1, <2>2, <2>3 DEF CallsInv
<1> QED
  BY <1>1, <1>2, <1>3, <1>4, <1>5, <1>6, <1>7 DEF Next, Post, SubscribeStep

-----------------------------------------------------------------------------
(* A log is only ever extended, so what is in it stays. *)
Extends(l, k) ==
    \A g \in Groups : /\ Len(l[g]) <= Len(k[g])
                      /\ \A c \in 1 .. Len(l[g]) : k[g][c] = l[g][c]

(* append_group_message only appends: no step changes or removes a stored   *)
(* message.                                                                 *)
LEMMA LogGrows == DeliveryInv /\ Next => Extends(log, log')
<1> SUFFICES ASSUME DeliveryInv, Next PROVE Extends(log, log')
  OBVIOUS
<1>0. \A g \in Groups : log[g] \in Seq(Messages) /\ Len(log[g]) \in Nat
  BY LenProperties DEF DeliveryInv, TypeOK
<1>1. CASE \E p \in Posters, g \in Groups, m \in Messages : PostAppend(p, g, m)
  <2>1. PICK p \in Posters, g \in Groups, m \in Messages : PostAppend(p, g, m)
    BY <1>1
  <2>2. /\ Len(Append(log[g], m)) = Len(log[g]) + 1
        /\ \A c \in 1 .. Len(log[g]) : Append(log[g], m)[c] = log[g][c]
    BY <1>0, AppendProperties
  <2>3. log' = [log EXCEPT ![g] = Append(log[g], m)]
    BY <2>1 DEF PostAppend
  <2>4. \A h \in Groups : log'[h] = IF h = g THEN Append(log[g], m) ELSE log[h]
    BY <2>3 DEF DeliveryInv, TypeOK
  <2>5. /\ Len(log[g]) <= Len(log'[g])
        /\ \A c \in 1 .. Len(log[g]) : log'[g][c] = log[g][c]
    <3>1. log'[g] = Append(log[g], m)
      BY <2>4
    <3>2. Len(log[g]) <= Len(log[g]) + 1
      BY <1>0
    <3> QED  BY <2>2, <3>1, <3>2
  <2>6. \A h \in Groups \ {g} : log'[h] = log[h] /\ Len(log[h]) \in Nat
    BY <2>4, <1>0
  <2> QED  BY <2>5, <2>6 DEF Extends
<1>2. CASE ~ \E p \in Posters, g \in Groups, m \in Messages : PostAppend(p, g, m)
  <2>1. log' = log
    BY <1>2 DEF Next, Post, SubscribeStep, PostPublish, SubscribeLiveTail,
         SubscribeMany, FetchEntry, FetchFails, UnregisterFailed, LockForReplay,
         EmitNext, FinishBuffering, ReturnHandle, Recv, RecvNone, Unsubscribe
  <2> QED  BY <1>0, <2>1 DEF Extends
<1> QED  BY <1>1, <1>2

(* A record that is in a log is in every extension of the log.              *)
LEMMA InLogGrows ==
    ASSUME NEW l \in [Groups -> Seq(Messages)], NEW k \in [Groups -> Seq(Messages)],
           Extends(l, k), NEW r \in GroupMessageRecord, InLog(l, r)
    PROVE  InLog(k, r)
<1>1. r.group_id \in Groups /\ Len(l[r.group_id]) \in Nat /\ Len(k[r.group_id]) \in Nat
  BY LenProperties DEF GroupMessageRecord
<1> QED  BY <1>1 DEF Extends, InLog

(* So is a vector of records.                                               *)
LEMMA StoredGrows ==
    ASSUME NEW l \in [Groups -> Seq(Messages)], NEW k \in [Groups -> Seq(Messages)],
           Extends(l, k), NEW gids, NEW seq \in Seq(GroupMessageRecord), Stored(l, gids, seq)
    PROVE  Stored(k, gids, seq)
<1>1. \A i \in DOMAIN seq : seq[i] \in GroupMessageRecord
  BY ElementOfSeq, LenProperties
<1> QED  BY <1>1, InLogGrows DEF Stored

(* Buffering one more stored record (push) leaves a vector of stored        *)
(* records.                                                                 *)
LEMMA StoredAppend ==
    ASSUME NEW l, NEW gids, NEW seq \in Seq(GroupMessageRecord), Stored(l, gids, seq),
           NEW r \in GroupMessageRecord, InLog(l, r), r.group_id \in gids
    PROVE  Stored(l, gids, Append(seq, r))
<1>1. /\ DOMAIN Append(seq, r) = 1 .. (Len(seq) + 1) /\ Len(seq) \in Nat
      /\ \A i \in 1 .. Len(seq) : Append(seq, r)[i] = seq[i]
      /\ Append(seq, r)[Len(seq) + 1] = r
      /\ DOMAIN seq = 1 .. Len(seq)
  BY AppendProperties, LenProperties
<1> QED  BY <1>1 DEF Stored

(* So does concatenating two vectors (fetch_many_group_messages).           *)
LEMMA StoredConcat ==
    ASSUME NEW l, NEW gids, NEW s \in Seq(GroupMessageRecord), NEW t \in Seq(GroupMessageRecord),
           Stored(l, gids, s), Stored(l, gids, t)
    PROVE  Stored(l, gids, s \o t)
<1>1. /\ s \o t \in Seq(GroupMessageRecord) /\ Len(s \o t) = Len(s) + Len(t)
      /\ \A i \in 1 .. (Len(s) + Len(t)) :
           (s \o t)[i] = IF i <= Len(s) THEN s[i] ELSE t[i - Len(s)]
  BY ConcatProperties
<1>2. /\ DOMAIN s = 1 .. Len(s) /\ DOMAIN t = 1 .. Len(t) /\ DOMAIN (s \o t) = 1 .. Len(s \o t)
      /\ Len(s) \in Nat /\ Len(t) \in Nat
  BY <1>1, LenProperties
<1> SUFFICES ASSUME NEW i \in 1 .. (Len(s) + Len(t))
             PROVE  InLog(l, (s \o t)[i]) /\ (s \o t)[i].group_id \in gids
  BY <1>1, <1>2 DEF Stored
<1>3. CASE i <= Len(s)
  BY <1>1, <1>2, <1>3 DEF Stored
<1>4. CASE i > Len(s)
  <2>1. i - Len(s) \in DOMAIN t /\ (s \o t)[i] = t[i - Len(s)]
    BY <1>1, <1>2, <1>4
  <2> QED  BY <2>1 DEF Stored
<1> QED  BY <1>2, <1>3, <1>4

(* Taking the first record off a vector leaves stored records.              *)
LEMMA StoredTail ==
    ASSUME NEW l, NEW gids, NEW seq \in Seq(GroupMessageRecord), seq # <<>>,
           Stored(l, gids, seq)
    PROVE  /\ Stored(l, gids, Tail(seq))
           /\ InLog(l, Head(seq)) /\ Head(seq).group_id \in gids
<1>1. /\ Head(seq) = seq[1] /\ Len(Tail(seq)) = Len(seq) - 1 /\ Tail(seq) \in Seq(GroupMessageRecord)
      /\ \A i \in 1 .. Len(Tail(seq)) : Tail(seq)[i] = seq[i + 1]
  BY HeadTailProperties
<1>2. DOMAIN seq = 1 .. Len(seq) /\ Len(seq) \in Nat /\ Len(seq) # 0 /\ DOMAIN Tail(seq) = 1 .. Len(Tail(seq))
  BY <1>1, LenProperties, EmptySeq
<1>3. InLog(l, seq[1]) /\ seq[1].group_id \in gids
  BY <1>2 DEF Stored
<1>4. ASSUME NEW i \in DOMAIN Tail(seq)
      PROVE  InLog(l, Tail(seq)[i]) /\ Tail(seq)[i].group_id \in gids
  <2>1. i + 1 \in DOMAIN seq /\ Tail(seq)[i] = seq[i + 1]
    BY <1>1, <1>2
  <2> QED  BY <2>1 DEF Stored
<1> QED  BY <1>1, <1>3, <1>4 DEF Stored

(* Every record on its way to a channel is in the log, of a group asked for. *)
LEMMA InFlightStep == DeliveryInv /\ Next => InFlightInv'
<1> SUFFICES ASSUME DeliveryInv, Next PROVE InFlightInv'
  OBVIOUS
<1>0. TypeOK /\ RegistryConsistent /\ CallsInv /\ InFlightInv
  BY DEF DeliveryInv
<1>t. TypeOK'
  BY TypeStep
<1>g. Extends(log, log')
  BY LogGrows
<1>l. log \in [Groups -> Seq(Messages)] /\ log' \in [Groups -> Seq(Messages)]
  BY <1>0, <1>t DEF TypeOK
(* What was in flight before is still in the log. *)
<1>p. \A p \in Posters : posting[p] # NoRecord => InLog(log', posting[p])
  BY <1>0, <1>g, <1>l, InLogGrows DEF InFlightInv, TypeOK
<1>r. \A id \in Ids : Stored(log', GroupIds(request[id]), records[id])
  BY <1>0, <1>g, <1>l, StoredGrows DEF InFlightInv, TypeOK
<1>b. \A id \in DOMAIN subscribers : Stored(log', GroupIds(request[id]), subscribers[id].buffer)
  <2>1. \A id \in DOMAIN subscribers : subscribers[id].buffer \in Seq(GroupMessageRecord)
    BY <1>0 DEF TypeOK, Subscriber
  <2> QED  BY <1>0, <1>g, <1>l, <2>1, StoredGrows DEF InFlightInv
<1>1. ASSUME NEW p \in Posters, NEW g \in Groups, NEW m \in Messages, PostAppend(p, g, m)
      PROVE  InFlightInv'
  <2>1. UNCHANGED <<request, records, subscribers>>
    BY <1>1 DEF PostAppend, registry, call
  <2> DEFINE rec == [group_id |-> g, cursor |-> Len(log[g]) + 1, opaque_message |-> m]
  <2>2. log'[g] = Append(log[g], m) /\ posting' = [posting EXCEPT ![p] = rec]
    BY <1>l, <1>1 DEF PostAppend
  <2>3. Len(log'[g]) = Len(log[g]) + 1 /\ log'[g][Len(log[g]) + 1] = m /\ Len(log[g]) \in Nat
    BY <1>l, <2>2, AppendProperties, LenProperties
  <2>4. InLog(log', rec)
    BY <2>3 DEF InLog
  <2>5. \A q \in Posters : posting'[q] # NoRecord => InLog(log', posting'[q])
    <3> HIDE DEF rec
    <3> QED  BY <1>0, <1>p, <2>2, <2>4 DEF TypeOK
  <2> QED  BY <1>r, <1>b, <2>1, <2>5 DEF InFlightInv
<1>2. ASSUME NEW p \in Posters, PostPublish(p)
      PROVE  InFlightInv'
  <2>1. UNCHANGED <<request, records, log>> /\ posting' = [posting EXCEPT ![p] = NoRecord]
    BY <1>2 DEF PostPublish, call
  <2>2. posting[p] \in GroupMessageRecord /\ InLog(log, posting[p])
    BY <1>0, <1>2 DEF PostPublish, TypeOK, InFlightInv
  <2>3. DOMAIN subscribers' = DOMAIN subscribers
    BY <1>2 DEF PostPublish, PublishLive
  <2>4. ASSUME NEW id \in DOMAIN subscribers
        PROVE  Stored(log, GroupIds(request[id]), subscribers'[id].buffer)
    <3>1. subscribers[id] \in Subscriber /\ Stored(log, GroupIds(request[id]), subscribers[id].buffer)
      BY <1>0 DEF TypeOK, InFlightInv
    <3>2. CASE subscribers'[id] = subscribers[id]
      BY <3>1, <3>2
    <3>3. CASE subscribers'[id] # subscribers[id]
      <4>1. subscribers'[id] = Push(subscribers[id], posting[p])
        BY <1>2, <3>3 DEF PostPublish, PublishLive
      <4>2. posting[p].group_id \in GroupIds(request[id])
        BY <1>0, <1>2, <3>3 DEF PostPublish, PublishLive, RegistryConsistent
      <4>3. CASE subscribers[id].buffering
        <5>1. subscribers[id].buffer \in Seq(GroupMessageRecord)
          BY <3>1 DEF Subscriber
        <5>2. subscribers'[id].buffer = Append(subscribers[id].buffer, posting[p])
          BY <2>2, <3>1, <4>1, <4>3, PushProperties
        <5> QED  BY <2>2, <3>1, <4>2, <5>1, <5>2, StoredAppend
      <4>4. CASE ~ subscribers[id].buffering
        BY <2>2, <3>1, <4>1, <4>4, PushProperties, NotedProperties
      <4> QED  BY <4>3, <4>4
    <3> QED  BY <3>2, <3>3
  <2> QED  BY <1>0, <1>p, <2>1, <2>3, <2>4 DEF InFlightInv, TypeOK
<1>3. ASSUME NEW req, NEW sub \in Subscriber, sub.buffer = <<>>, next_id \in Ids,
             Register(next_id, GroupIds(req), sub),
             request' = [request EXCEPT ![next_id] = req],
             UNCHANGED <<log, posting, records>>
      PROVE  InFlightInv'
  <2>1. records[next_id] = <<>>
    BY <1>0, <1>3 DEF CallsInv, Ids
  <2>2. \A id \in Ids : Stored(log', GroupIds(request'[id]), records'[id])
    BY <1>0, <1>r, <1>3, <2>1 DEF Stored, TypeOK
  <2>3. \A id \in DOMAIN subscribers' :
          \/ id = next_id /\ subscribers'[id] = sub
          \/ id # next_id /\ id \in DOMAIN subscribers /\ subscribers'[id] = subscribers[id]
    BY <1>3 DEF Register
  <2>4. \A id \in DOMAIN subscribers' : Stored(log', GroupIds(request'[id]), subscribers'[id].buffer)
    BY <1>0, <1>b, <1>3, <2>3 DEF Stored, TypeOK
  <2> QED  BY <1>p, <1>3, <2>2, <2>4 DEF InFlightInv
<1>4. ASSUME NEW g \in LiveTailGroups, SubscribeLiveTail(g)
      PROVE  InFlightInv'
  <2> DEFINE sub == [dedup |-> FALSE, cursors_by_group |-> [h \in Groups |-> 0],
                     buffering |-> FALSE, buffer |-> <<>>]
             req == <<[group_id |-> g, after_cursor |-> 0]>>
  <2>1. sub \in Subscriber /\ sub.buffer = <<>>
    BY DEF Subscriber
  <2>2. GroupIds(req) = {g}
    BY DEF GroupIds
  <2>3. /\ Register(next_id, GroupIds(req), sub) /\ next_id \in Ids
        /\ request' = [request EXCEPT ![next_id] = req] /\ UNCHANGED <<log, posting, records>>
    BY <1>4, <2>2 DEF SubscribeLiveTail
  <2> HIDE DEF sub, req
  <2> QED  BY <1>3, <2>1, <2>3
<1>5. ASSUME NEW req \in Requests, SubscribeMany(req)
      PROVE  InFlightInv'
  <2> DEFINE sub == [dedup |-> TRUE, cursors_by_group |-> Cursors(req),
                     buffering |-> TRUE, buffer |-> <<>>]
  <2>1. sub \in Subscriber /\ sub.buffer = <<>>
    BY RequestType, CursorsType DEF Subscriber
  <2>2. /\ Register(next_id, GroupIds(req), sub) /\ next_id \in Ids
        /\ request' = [request EXCEPT ![next_id] = req] /\ UNCHANGED <<log, posting, records>>
    BY <1>5 DEF SubscribeMany
  <2> HIDE DEF sub
  <2> QED  BY <1>3, <2>1, <2>2
<1>6. ASSUME NEW id \in Ids, FetchEntry(id)
      PROVE  InFlightInv'
  <2> DEFINE item == request[id][entry[id] + 1]
             new == FetchGroupMessages(item.group_id, item.after_cursor)
  <2>1. entry[id] + 1 \in 1 .. Len(request[id]) /\ DOMAIN request[id] = 1 .. Len(request[id])
    BY <1>0, <1>6, LenProperties DEF FetchEntry, TypeOK, CallsInv
  <2>2. item \in FetchInput /\ item.group_id \in GroupIds(request[id])
    BY <1>0, <2>1, ElementOfSeq DEF TypeOK, GroupIds
  <2>3. new \in Seq(GroupMessageRecord) /\ Stored(log, GroupIds(request[id]), new)
    BY <1>0, <2>2, FetchProperties DEF Stored, FetchInput
  <2>4. Stored(log, GroupIds(request[id]), records[id] \o new)
    BY <1>0, <2>3, StoredConcat DEF TypeOK, InFlightInv
  <2>5. records' = [records EXCEPT ![id] = records[id] \o new] /\ UNCHANGED <<log, request, posting, subscribers>>
    BY <1>6 DEF FetchEntry, registry
  <2> HIDE DEF new
  <2> QED  BY <1>0, <2>4, <2>5 DEF InFlightInv, TypeOK
<1>7. ASSUME NEW id \in Ids, FetchFails(id)
      PROVE  InFlightInv'
  BY <1>0, <1>7 DEF FetchFails, InFlightInv, Stored, TypeOK, registry
<1>8. ASSUME NEW id \in Ids, EmitNext(id)
      PROVE  InFlightInv'
  <2>1. Head(records[id]) \in GroupMessageRecord
    BY <1>0, <1>8, HeadTailProperties DEF EmitNext, TypeOK
  <2>2. Stored(log, GroupIds(request[id]), Tail(records[id]))
    BY <1>0, <1>8, StoredTail DEF EmitNext, InFlightInv, TypeOK
  <2>3. id \in DOMAIN subscribers /\ subscribers[id] \in Subscriber
    BY <1>0, <1>8 DEF EmitNext, RegistryConsistent, Open, TypeOK
  <2>4. Noted(subscribers[id], Head(records[id])).buffer = subscribers[id].buffer
    BY <2>1, <2>3, NotedProperties
  <2>5. DOMAIN subscribers' = DOMAIN subscribers /\ \A i \in DOMAIN subscribers : subscribers'[i].buffer = subscribers[i].buffer
    BY <1>8, <2>3, <2>4 DEF EmitNext
  <2>6. \A i \in Ids : Stored(log, GroupIds(request[i]), records'[i])
    BY <1>0, <1>8, <2>2 DEF EmitNext, InFlightInv, TypeOK
  <2> QED  BY <1>0, <1>8, <2>5, <2>6 DEF EmitNext, InFlightInv
<1>9. ASSUME NEW id \in Ids, FinishBuffering(id)
      PROVE  InFlightInv'
  <2>1. id \in DOMAIN subscribers /\ subscribers[id] \in Subscriber
    BY <1>0, <1>9 DEF FinishBuffering, RegistryConsistent, Open, TypeOK
  <2>2. subscribers'[id].buffer = <<>> /\ \A i \in DOMAIN subscribers \ {id} : subscribers'[i] = subscribers[i]
    BY <1>9, <2>1, FinishProperties DEF FinishBuffering
  <2>3. DOMAIN subscribers' = DOMAIN subscribers
    BY <1>9 DEF FinishBuffering
  <2>4. \A i \in DOMAIN subscribers : Stored(log, GroupIds(request[i]), subscribers'[i].buffer)
    BY <1>0, <2>2 DEF InFlightInv, Stored
  <2>5. \A i \in Ids : Stored(log, GroupIds(request[i]), records'[i])
    BY <1>0, <1>9, <2>1 DEF FinishBuffering, InFlightInv, TypeOK
  <2> QED  BY <1>0, <1>9, <2>3, <2>4, <2>5 DEF FinishBuffering, InFlightInv
<1>10. ASSUME NEW id \in Ids, LockForReplay(id) \/ ReturnHandle(id) \/ Recv(id) \/ RecvNone(id)
       PROVE  InFlightInv'
  BY <1>0, <1>10 DEF LockForReplay, ReturnHandle, Recv, RecvNone, InFlightInv, registry, call
<1>11. ASSUME NEW id \in Ids, UnregisterFailed(id) \/ Unsubscribe(id)
       PROVE  InFlightInv'
  <2>1. UNCHANGED <<log, posting, request, records>>
    BY <1>11 DEF UnregisterFailed, Unsubscribe
  <2>2. DOMAIN subscribers' \subseteq DOMAIN subscribers /\ \A i \in DOMAIN subscribers' : subscribers'[i] = subscribers[i]
    BY <1>11 DEF UnregisterFailed, Unsubscribe, RemoveSubscriber
  <2> QED  BY <1>0, <2>1, <2>2 DEF InFlightInv
<1> QED
  BY <1>1, <1>2, <1>4, <1>5, <1>6, <1>7, <1>8, <1>9, <1>10, <1>11 DEF Next, Post, SubscribeStep

-----------------------------------------------------------------------------
(* The heart of the argument: emit_if_new of a record of the log keeps a    *)
(* stream faithful, bounded by the subscriber's cursors and, with dedup,    *)
(* ordered, because the record is above every earlier one of its group.     *)
LEMMA EmitKeeps ==
    ASSUME NEW l, NEW req \in Seq(FetchInput), NEW sub \in Subscriber,
           NEW sent \in Seq(GroupMessageRecord), NEW rec \in GroupMessageRecord,
           InLog(l, rec), rec.group_id \in GroupIds(req),
           \A g \in Groups : Cursors(req)[g] <= sub.cursors_by_group[g],
           ~ sub.dedup => \A g \in Groups : Cursors(req)[g] = 0,
           Bounded(sub, sent), Faithful(l, req, sent)
    PROVE  /\ Bounded(Noted(sub, rec), Emitted(sub, sent, rec))
           /\ Faithful(l, req, Emitted(sub, sent, rec))
           /\ sub.dedup /\ Ordered(sent) => Ordered(Emitted(sub, sent, rec))
<1> DEFINE out == Append(sent, rec)
           n == Len(sent)
           next == Noted(sub, rec)
<1>1. /\ DOMAIN out = 1 .. (n + 1) /\ DOMAIN sent = 1 .. n /\ n \in Nat
      /\ \A i \in 1 .. n : out[i] = sent[i]
      /\ out[n + 1] = rec
  BY AppendProperties, LenProperties
<1>2. \A i \in 1 .. n : sent[i] \in GroupMessageRecord /\ sent[i].group_id \in Groups /\ sent[i].cursor \in Nat
  <2>1. \A i \in 1 .. n : sent[i] \in GroupMessageRecord
    BY ElementOfSeq
  <2> HIDE DEF n
  <2> QED  BY <2>1 DEF GroupMessageRecord
<1>3. rec.group_id \in Groups /\ rec.cursor \in Nat \ {0}
  BY DEF GroupMessageRecord
<1>4. /\ next \in Subscriber /\ next.dedup = sub.dedup
      /\ \A g \in Groups : sub.cursors_by_group[g] <= next.cursors_by_group[g]
      /\ sub.dedup /\ IsNew(sub, rec) => next.cursors_by_group[rec.group_id] = rec.cursor
  BY NotedProperties
<1>5. Cursors(req) \in [Groups -> Nat]
  BY CursorsType
<1>6. sub.cursors_by_group \in [Groups -> Nat] /\ next.cursors_by_group \in [Groups -> Nat]
  BY <1>4 DEF Subscriber
<1>7. CASE ~ IsNew(sub, rec)
  <2>1. Emitted(sub, sent, rec) = sent /\ next = sub
    BY <1>7 DEF Emitted, Noted
  <2> QED  BY <2>1
<1>8. CASE IsNew(sub, rec)
  <2>1. Emitted(sub, sent, rec) = out
    BY <1>8 DEF Emitted
  <2>2. rec.cursor > Cursors(req)[rec.group_id]
    <3>1. CASE sub.dedup
      <4>1. rec.cursor > sub.cursors_by_group[rec.group_id]
        BY <1>8, <3>1 DEF IsNew
      <4> QED  BY <1>3, <1>5, <1>6, <4>1
    <3>2. CASE ~ sub.dedup
      BY <1>3, <1>5, <3>2
    <3> QED  BY <3>1, <3>2
  <2>3. Faithful(l, req, out)
    <3> SUFFICES ASSUME NEW i \in 1 .. (n + 1)
                 PROVE  /\ InLog(l, out[i]) /\ out[i].group_id \in GroupIds(req)
                        /\ out[i].cursor > Cursors(req)[out[i].group_id]
      BY <1>1 DEF Faithful
    <3>1. CASE i \in 1 .. n
      BY <1>1, <3>1 DEF Faithful
    <3>2. CASE i = n + 1
      BY <1>1, <2>2, <3>2
    <3> QED  BY <1>1, <3>1, <3>2
  <2>4. ASSUME sub.dedup, NEW i \in 1 .. n
        PROVE  /\ sent[i].cursor <= sub.cursors_by_group[sent[i].group_id]
               /\ sent[i].cursor <= next.cursors_by_group[sent[i].group_id]
    <3>1. sent[i].cursor <= sub.cursors_by_group[sent[i].group_id]
      BY <1>1, <2>4 DEF Bounded
    <3> QED  BY <1>2, <1>4, <1>6, <3>1
  <2>5. Bounded(next, out)
    <3> SUFFICES ASSUME sub.dedup, NEW i \in 1 .. (n + 1)
                 PROVE  out[i].cursor <= next.cursors_by_group[out[i].group_id]
      BY <1>1, <1>4 DEF Bounded
    <3>1. CASE i \in 1 .. n
      BY <1>1, <2>4, <3>1
    <3>2. CASE i = n + 1
      BY <1>1, <1>3, <1>4, <1>8, <3>2
    <3> QED  BY <1>1, <3>1, <3>2
  <2>6. ASSUME sub.dedup, Ordered(sent)
        PROVE  Ordered(out)
    <3> SUFFICES ASSUME NEW i \in 1 .. (n + 1), NEW j \in 1 .. (n + 1), i < j,
                        out[i].group_id = out[j].group_id
                 PROVE  out[i].cursor < out[j].cursor
      BY <1>1 DEF Ordered
    <3>1. CASE j \in 1 .. n
      BY <1>1, <2>6, <3>1 DEF Ordered
    <3>2. CASE j = n + 1
      <4>1. i \in 1 .. n /\ out[i] = sent[i] /\ out[j] = rec
        BY <1>1, <3>2
      <4>2. sent[i].cursor <= sub.cursors_by_group[rec.group_id]
        BY <2>4, <2>6, <4>1
      <4>3. rec.cursor > sub.cursors_by_group[rec.group_id]
        BY <1>8, <2>6 DEF IsNew
      <4> QED  BY <1>2, <1>3, <1>6, <4>1, <4>2, <4>3
    <3> QED  BY <1>1, <3>1, <3>2
  <2> QED  BY <2>1, <2>3, <2>5, <2>6
<1> QED  BY <1>7, <1>8

(* What was sent faithfully stays faithful when the log grows.              *)
LEMMA FaithfulGrows ==
    ASSUME NEW l \in [Groups -> Seq(Messages)], NEW k \in [Groups -> Seq(Messages)],
           Extends(l, k), NEW req, NEW sent \in Seq(GroupMessageRecord), Faithful(l, req, sent)
    PROVE  Faithful(k, req, sent)
<1>1. \A i \in DOMAIN sent : sent[i] \in GroupMessageRecord
  BY ElementOfSeq, LenProperties
<1> QED  BY <1>1, InLogGrows DEF Faithful

(* What is proved of the streams. *)
StreamInv == CursorInv /\ StreamFaithful /\ StreamOrdered

(* Every step preserves the bounds on a subscriber's cursors and the        *)
(* faithfulness and order of what it was sent.                              *)
LEMMA StreamStep == DeliveryInv /\ Next => StreamInv'
<1> SUFFICES ASSUME DeliveryInv, Next PROVE StreamInv'
  OBVIOUS
<1>0. TypeOK /\ RegistryConsistent /\ CallsInv /\ InFlightInv /\ CursorInv /\ StreamFaithful /\ StreamOrdered
  BY DEF DeliveryInv
<1>f. \A id \in Ids : Faithful(log', request[id], channel[id])
  <2>1. log \in [Groups -> Seq(Messages)] /\ log' \in [Groups -> Seq(Messages)]
    BY <1>0, TypeStep DEF TypeOK
  <2> QED  BY <1>0, <2>1, LogGrows, FaithfulGrows DEF StreamFaithful, TypeOK
<1>1. ASSUME NEW p \in Posters, NEW g \in Groups, NEW m \in Messages, PostAppend(p, g, m)
      PROVE  StreamInv'
  <2>1. UNCHANGED <<subscribers, request, channel, entry, pc>>
    BY <1>1 DEF PostAppend, registry, call
  <2> QED  BY <1>0, <1>f, <2>1 DEF StreamInv, CursorInv, StreamFaithful, StreamOrdered, Merged
(* A subscriber that emits, or not: what has to be shown of each. *)
<1>e. ASSUME NEW id \in DOMAIN subscribers, NEW rec \in GroupMessageRecord,
             InLog(log, rec), rec.group_id \in GroupIds(request[id])
      PROVE  /\ Bounded(Noted(subscribers[id], rec), Emitted(subscribers[id], channel[id], rec))
             /\ Faithful(log, request[id], Emitted(subscribers[id], channel[id], rec))
             /\ Merged(id) => Ordered(Emitted(subscribers[id], channel[id], rec))
             /\ subscribers[id].dedup => Ordered(Emitted(subscribers[id], channel[id], rec))
             /\ Noted(subscribers[id], rec).dedup = subscribers[id].dedup
             /\ \A g \in Groups : Cursors(request[id])[g] <= Noted(subscribers[id], rec).cursors_by_group[g]
  <2>1. id \in Ids /\ subscribers[id] \in Subscriber /\ request[id] \in Seq(FetchInput) /\ channel[id] \in Seq(GroupMessageRecord)
    BY <1>0, <1>e DEF TypeOK
  <2>2. /\ Merged(id) => subscribers[id].dedup
        /\ ~ subscribers[id].dedup => \A g \in Groups : Cursors(request[id])[g] = 0
        /\ \A g \in Groups : Cursors(request[id])[g] <= subscribers[id].cursors_by_group[g]
        /\ Bounded(subscribers[id], channel[id])
        /\ subscribers[id].dedup => Ordered(channel[id])
    BY <1>0, <1>e DEF CursorInv
  <2>3. Faithful(log, request[id], channel[id]) /\ (Merged(id) => Ordered(channel[id]))
    BY <1>0, <2>1 DEF StreamFaithful, StreamOrdered
  <2>4. /\ Bounded(Noted(subscribers[id], rec), Emitted(subscribers[id], channel[id], rec))
        /\ Faithful(log, request[id], Emitted(subscribers[id], channel[id], rec))
        /\ subscribers[id].dedup /\ Ordered(channel[id]) => Ordered(Emitted(subscribers[id], channel[id], rec))
    BY <1>e, <2>1, <2>2, <2>3, EmitKeeps
  <2>5. /\ Noted(subscribers[id], rec) \in Subscriber
        /\ Noted(subscribers[id], rec).dedup = subscribers[id].dedup
        /\ \A g \in Groups : subscribers[id].cursors_by_group[g] <= Noted(subscribers[id], rec).cursors_by_group[g]
    BY <1>e, <2>1, NotedProperties
  <2>6. \A g \in Groups : Cursors(request[id])[g] <= Noted(subscribers[id], rec).cursors_by_group[g]
    BY <2>1, <2>2, <2>5, CursorsType DEF Subscriber
  <2> QED  BY <2>2, <2>3, <2>4, <2>5, <2>6
<1>2. ASSUME NEW p \in Posters, PostPublish(p)
      PROVE  StreamInv'
  <2> DEFINE rec == posting[p]
  <2>1. UNCHANGED <<log, request, entry, pc>> /\ DOMAIN subscribers' = DOMAIN subscribers
    BY <1>2 DEF PostPublish, PublishLive, call
  <2>2. rec \in GroupMessageRecord /\ InLog(log, rec)
    BY <1>0, <1>2 DEF PostPublish, TypeOK, InFlightInv
  <2>3. ASSUME NEW id \in Ids
        PROVE  \/ /\ channel'[id] = channel[id]
                  /\ id \in DOMAIN subscribers => subscribers'[id] = subscribers[id]
               \/ /\ id \in DOMAIN subscribers /\ rec.group_id \in GroupIds(request[id])
                  /\ channel'[id] = Pushed(subscribers[id], channel[id], rec)
                  /\ subscribers'[id] = Push(subscribers[id], rec)
    BY <1>0, <1>2 DEF PostPublish, PublishLive, RegistryConsistent
  <2> HIDE DEF rec
  <2>4. ASSUME NEW id \in Ids
        PROVE  /\ Faithful(log, request[id], channel'[id])
               /\ Merged(id) => Ordered(channel'[id])
               /\ id \in DOMAIN subscribers =>
                    /\ subscribers'[id].dedup = subscribers[id].dedup
                    /\ \A g \in Groups : Cursors(request[id])[g] <= subscribers'[id].cursors_by_group[g]
                    /\ Bounded(subscribers'[id], channel'[id])
                    /\ subscribers'[id].dedup => Ordered(channel'[id])
    <3>1. CASE channel'[id] = channel[id] /\ (id \in DOMAIN subscribers => subscribers'[id] = subscribers[id])
      BY <1>0, <3>1 DEF StreamFaithful, StreamOrdered, CursorInv
    <3>2. CASE /\ id \in DOMAIN subscribers /\ rec.group_id \in GroupIds(request[id])
               /\ channel'[id] = Pushed(subscribers[id], channel[id], rec)
               /\ subscribers'[id] = Push(subscribers[id], rec)
      <4>1. CASE subscribers[id].buffering
        <5>1. channel'[id] = channel[id]
          BY <3>2, <4>1 DEF Pushed
        <5>2. /\ subscribers'[id].dedup = subscribers[id].dedup
              /\ subscribers'[id].cursors_by_group = subscribers[id].cursors_by_group
          BY <1>0, <2>2, <3>2, <4>1, PushProperties DEF TypeOK
        <5> QED  BY <1>0, <3>2, <5>1, <5>2 DEF StreamFaithful, StreamOrdered, CursorInv, Bounded
      <4>2. CASE ~ subscribers[id].buffering
        <5>1. channel'[id] = Emitted(subscribers[id], channel[id], rec) /\ subscribers'[id] = Noted(subscribers[id], rec)
          BY <3>2, <4>2 DEF Pushed, Push
        <5> QED  BY <1>e, <2>2, <3>2, <5>1
      <4> QED  BY <4>1, <4>2
    <3> QED  BY <2>3, <3>1, <3>2
  <2>5. DOMAIN subscribers \subseteq Ids
    BY <1>0 DEF TypeOK
  <2> QED  BY <1>0, <2>1, <2>4, <2>5 DEF StreamInv, CursorInv, StreamFaithful, StreamOrdered, Merged
<1>3. ASSUME NEW id \in Ids, EmitNext(id)
      PROVE  StreamInv'
  <2> DEFINE rec == Head(records[id])
  <2>1. rec \in GroupMessageRecord
    BY <1>0, <1>3, HeadTailProperties DEF EmitNext, TypeOK
  <2>2. InLog(log, rec) /\ rec.group_id \in GroupIds(request[id])
    BY <1>0, <1>3, StoredTail DEF EmitNext, InFlightInv, TypeOK
  <2>3. id \in DOMAIN subscribers
    BY <1>0, <1>3 DEF EmitNext, RegistryConsistent, Open
  <2>4. /\ UNCHANGED <<log, request, entry, pc>> /\ DOMAIN subscribers' = DOMAIN subscribers
        /\ channel' = [channel EXCEPT ![id] = Emitted(subscribers[id], channel[id], rec)]
        /\ subscribers' = [subscribers EXCEPT ![id] = Noted(subscribers[id], rec)]
    BY <1>3 DEF EmitNext
  <2> HIDE DEF rec
  <2>5. /\ channel'[id] = Emitted(subscribers[id], channel[id], rec)
        /\ subscribers'[id] = Noted(subscribers[id], rec)
        /\ \A i \in Ids \ {id} : channel'[i] = channel[i]
        /\ \A i \in DOMAIN subscribers \ {id} : subscribers'[i] = subscribers[i]
    BY <1>0, <2>3, <2>4 DEF TypeOK
  <2>6. StreamFaithful' /\ StreamOrdered'
    BY <1>0, <1>e, <2>1, <2>2, <2>3, <2>4, <2>5 DEF StreamFaithful, StreamOrdered, Merged
  <2>7. CursorInv'
    <3> SUFFICES ASSUME NEW i \in DOMAIN subscribers
                 PROVE  /\ Merged(i) \/ pc[i] # "live" => subscribers'[i].dedup
                        /\ ~ subscribers'[i].dedup => \A g \in Groups : Cursors(request[i])[g] = 0
                        /\ \A g \in Groups : Cursors(request[i])[g] <= subscribers'[i].cursors_by_group[g]
                        /\ Bounded(subscribers'[i], channel'[i])
                        /\ subscribers'[i].dedup => Ordered(channel'[i])
      BY <2>4 DEF CursorInv, Merged
    <3>1. CASE i = id
      BY <1>0, <1>e, <2>1, <2>2, <2>3, <2>5, <3>1 DEF CursorInv
    <3>2. CASE i # id
      <4>1. channel'[i] = channel[i] /\ subscribers'[i] = subscribers[i]
        BY <1>0, <2>5, <3>2 DEF TypeOK
      <4> QED  BY <1>0, <4>1 DEF CursorInv
    <3> QED  BY <3>1, <3>2
  <2> QED  BY <2>6, <2>7 DEF StreamInv
(* Registering a fresh id: nothing has been sent to it yet. *)
<1>4. ASSUME NEW req \in Seq(FetchInput), NEW sub \in Subscriber, next_id \in Ids,
             NEW to \in {"fetch", "live"}, to = "fetch" => sub.dedup,
             ~ sub.dedup => \A g \in Groups : Cursors(req)[g] = 0,
             \A g \in Groups : Cursors(req)[g] <= sub.cursors_by_group[g],
             Register(next_id, GroupIds(req), sub),
             pc' = [pc EXCEPT ![next_id] = to],
             request' = [request EXCEPT ![next_id] = req],
             UNCHANGED <<log, channel, entry>>
      PROVE  StreamInv'
  <2>1. channel[next_id] = <<>> /\ entry[next_id] = 0
    BY <1>0, <1>4 DEF CallsInv, Ids
  <2>2. \A i \in Ids : i # next_id => request'[i] = request[i] /\ pc'[i] = pc[i]
    BY <1>0, <1>4 DEF TypeOK
  <2>3. request'[next_id] = req /\ pc'[next_id] = to
    BY <1>0, <1>4 DEF TypeOK
  <2>4. StreamOrdered'
    BY <1>0, <1>4 DEF StreamOrdered, Merged
  <2>5. StreamFaithful'
    BY <1>f, <1>4, <2>1, <2>2 DEF StreamFaithful, Faithful
  <2>6. \A i \in DOMAIN subscribers' :
          \/ i = next_id /\ subscribers'[i] = sub
          \/ i # next_id /\ i \in Ids /\ i \in DOMAIN subscribers /\ subscribers'[i] = subscribers[i]
    BY <1>0, <1>4 DEF Register, TypeOK
  <2>7. CursorInv'
    <3> SUFFICES ASSUME NEW i \in DOMAIN subscribers'
                 PROVE  /\ Merged(i) \/ pc'[i] # "live" => subscribers'[i].dedup
                        /\ ~ subscribers'[i].dedup => \A g \in Groups : Cursors(request'[i])[g] = 0
                        /\ \A g \in Groups : Cursors(request'[i])[g] <= subscribers'[i].cursors_by_group[g]
                        /\ Bounded(subscribers'[i], channel[i])
                        /\ subscribers'[i].dedup => Ordered(channel[i])
      BY <1>4 DEF CursorInv, Merged
    <3>1. CASE i = next_id /\ subscribers'[i] = sub
      BY <1>4, <2>1, <2>3, <3>1 DEF Merged, Bounded, Ordered
    <3>2. CASE i # next_id /\ i \in Ids /\ i \in DOMAIN subscribers /\ subscribers'[i] = subscribers[i]
      BY <1>0, <2>2, <3>2 DEF CursorInv
    <3> QED  BY <2>6, <3>1, <3>2
  <2> QED  BY <2>4, <2>5, <2>7 DEF StreamInv
<1>5. ASSUME NEW g \in LiveTailGroups, SubscribeLiveTail(g)
      PROVE  StreamInv'
  <2> DEFINE sub == [dedup |-> FALSE, cursors_by_group |-> [h \in Groups |-> 0],
                     buffering |-> FALSE, buffer |-> <<>>]
             req == <<[group_id |-> g, after_cursor |-> 0]>>
  <2>1. g \in Groups
    BY LiveTailAssumption
  <2>2. sub \in Subscriber /\ ~ sub.dedup /\ \A h \in Groups : sub.cursors_by_group[h] = 0
    BY DEF Subscriber
  <2>3. req \in Seq(FetchInput)
    BY <2>1 DEF FetchInput
  <2>4. GroupIds(req) = {g}
    BY DEF GroupIds
  <2>5. \A h \in Groups : Cursors(req)[h] = 0
    BY <2>1, LiveTailCursors
  <2>6. /\ Register(next_id, GroupIds(req), sub) /\ next_id \in Ids
        /\ pc' = [pc EXCEPT ![next_id] = "live"]
        /\ request' = [request EXCEPT ![next_id] = req] /\ UNCHANGED <<log, channel, entry>>
    BY <1>5, <2>4 DEF SubscribeLiveTail
  <2> HIDE DEF sub, req
  <2>7. \A h \in Groups : Cursors(req)[h] <= sub.cursors_by_group[h]
    BY <2>2, <2>5
  <2> QED  BY <1>4, <2>2, <2>3, <2>5, <2>6, <2>7
<1>6. ASSUME NEW req \in Requests, SubscribeMany(req)
      PROVE  StreamInv'
  <2> DEFINE sub == [dedup |-> TRUE, cursors_by_group |-> Cursors(req),
                     buffering |-> TRUE, buffer |-> <<>>]
  <2>1. req \in Seq(FetchInput) /\ Cursors(req) \in [Groups -> Nat]
    BY RequestType, CursorsType
  <2>2. sub \in Subscriber /\ sub.dedup /\ sub.cursors_by_group = Cursors(req)
    BY <2>1 DEF Subscriber
  <2>3. /\ Register(next_id, GroupIds(req), sub) /\ next_id \in Ids
        /\ pc' = [pc EXCEPT ![next_id] = "fetch"]
        /\ request' = [request EXCEPT ![next_id] = req] /\ UNCHANGED <<log, channel, entry>>
    BY <1>6 DEF SubscribeMany
  <2> HIDE DEF sub
  <2>4. \A h \in Groups : Cursors(req)[h] <= sub.cursors_by_group[h]
    BY <2>1, <2>2
  <2> QED  BY <1>4, <2>1, <2>2, <2>3, <2>4
(* The steps of a call or a handle that emit nothing. *)
<1>7. ASSUME NEW id \in Ids,
             \/ FetchEntry(id) \/ FetchFails(id) \/ LockForReplay(id)
             \/ FinishBuffering(id) \/ ReturnHandle(id) \/ Recv(id) \/ RecvNone(id)
      PROVE  StreamInv'
  <2>1. UNCHANGED <<log, request, channel>> /\ DOMAIN subscribers' = DOMAIN subscribers
    BY <1>7 DEF FetchEntry, FetchFails, LockForReplay, FinishBuffering, ReturnHandle,
         Recv, RecvNone, registry, call
  <2>2. \A i \in DOMAIN subscribers : /\ subscribers'[i].dedup = subscribers[i].dedup
                                      /\ subscribers'[i].cursors_by_group = subscribers[i].cursors_by_group
    <3>1. CASE FinishBuffering(id)
      <4>1. id \in DOMAIN subscribers /\ subscribers[id] \in Subscriber
        BY <1>0, <3>1 DEF FinishBuffering, RegistryConsistent, Open, TypeOK
      <4> QED  BY <3>1, <4>1, FinishProperties DEF FinishBuffering
    <3>2. CASE ~ FinishBuffering(id)
      BY <1>7, <3>2 DEF FetchEntry, FetchFails, LockForReplay, ReturnHandle,
           Recv, RecvNone, registry, call
    <3> QED  BY <3>1, <3>2
  <2>3. ASSUME NEW i \in Ids, i \in DOMAIN subscribers, Merged(i)' \/ pc'[i] # "live"
        PROVE  subscribers[i].dedup
    <3>1. Merged(i) \/ pc[i] # "live"
      BY <1>0, <1>7, <2>3 DEF FetchEntry, FetchFails, LockForReplay, FinishBuffering,
           ReturnHandle, Recv, RecvNone, registry, call, Merged, TypeOK, RegistryConsistent, Open
    <3> QED  BY <1>0, <2>3, <3>1 DEF CursorInv
  <2>4. CursorInv'
    BY <1>0, <2>1, <2>2, <2>3 DEF CursorInv, Bounded, TypeOK
  <2>5. StreamFaithful'
    BY <1>f, <2>1 DEF StreamFaithful
  <2>6. ASSUME NEW i \in Ids, Merged(i)'
        PROVE  Ordered(channel[i])
    <3>1. CASE Merged(i)
      BY <1>0, <3>1 DEF StreamOrdered
    <3>2. CASE ~ Merged(i)
      <4>1. i \in DOMAIN subscribers /\ pc[i] = "fetch"
        BY <1>0, <1>7, <2>6, <3>2 DEF FetchEntry, FetchFails, LockForReplay, FinishBuffering,
             ReturnHandle, Recv, RecvNone, registry, call, Merged, TypeOK, RegistryConsistent, Open
      <4> QED  BY <1>0, <4>1 DEF CursorInv
    <3> QED  BY <3>1, <3>2
  <2> QED  BY <2>1, <2>4, <2>5, <2>6 DEF StreamInv, StreamOrdered
<1>8. ASSUME NEW id \in Ids, UnregisterFailed(id) \/ Unsubscribe(id)
      PROVE  StreamInv'
  <2>1. UNCHANGED <<log, request, channel, entry>>
    BY <1>8 DEF UnregisterFailed, Unsubscribe
  <2>2. DOMAIN subscribers' = DOMAIN subscribers \ {id} /\ \A i \in DOMAIN subscribers' : subscribers'[i] = subscribers[i]
    <3>1. /\ Open(id) /\ RemoveSubscriber(id, GroupIds(request[id]))
      BY <1>8 DEF UnregisterFailed, Unsubscribe, Open
    <3>2. refcounts[id] = Cardinality(GroupIds(request[id])) /\ refcounts[id] \in Nat
      BY <1>0, <1>8, <3>1 DEF RegistryConsistent, TypeOK
    <3> QED  BY <3>1, <3>2 DEF RemoveSubscriber
  <2>3. \A i \in DOMAIN subscribers' : pc'[i] = pc[i]
    BY <1>0, <1>8, <2>2 DEF UnregisterFailed, Unsubscribe, TypeOK
  <2> QED  BY <1>0, <2>1, <2>2, <2>3 DEF StreamInv, CursorInv, StreamFaithful, StreamOrdered, Merged
<1> QED
  BY <1>1, <1>2, <1>3, <1>5, <1>6, <1>7, <1>8 DEF Next, Post, SubscribeStep

-----------------------------------------------------------------------------
(* The invariant is preserved when nothing changes.                         *)
LEMMA InvStutter == DeliveryInv /\ UNCHANGED vars => DeliveryInv'
<1> SUFFICES ASSUME DeliveryInv, UNCHANGED vars PROVE DeliveryInv'
  OBVIOUS
<1> USE DEF DeliveryInv, vars, registry, call
<1>1. TypeOK'
  BY DEF TypeOK
<1>2. RegistryConsistent'
  BY DEF RegistryConsistent, Open
<1>3. CallsInv' /\ InFlightInv'
  BY DEF CallsInv, InFlightInv
<1>4. CursorInv' /\ StreamFaithful' /\ StreamOrdered'
  BY DEF CursorInv, StreamFaithful, StreamOrdered, Merged
<1> QED  BY <1>1, <1>2, <1>3, <1>4

(* Every reachable state of the delivery core, with any number of groups,   *)
(* posters, subscriptions and messages, satisfies the inductive invariant.  *)
THEOREM DeliveryInvariant == Spec => []DeliveryInv
<1>1. Init => DeliveryInv
  BY InitInv
<1>2. DeliveryInv /\ [Next]_vars => DeliveryInv'
  <2>1. DeliveryInv /\ Next => DeliveryInv'
    BY TypeStep, RegistryStep, CallsStep, InFlightStep, StreamStep DEF DeliveryInv, StreamInv
  <2> QED  BY <2>1, InvStutter
<1> QED  BY <1>1, <1>2, PTL DEF Spec

(* Type correctness of the delivery core. *)
THEOREM TypeCorrect == Spec => []TypeOK
<1>1. DeliveryInv => TypeOK
  BY DEF DeliveryInv
<1> QED  BY <1>1, DeliveryInvariant, PTL

(* The registry's maps always agree with the open calls and handles: no     *)
(* subscriber leaks, none is dropped early, the active count is right.      *)
THEOREM RegistryCorrect == Spec => []RegistryConsistent
<1>1. DeliveryInv => RegistryConsistent
  BY DEF DeliveryInv
<1> QED  BY <1>1, DeliveryInvariant, PTL

(* A subscription is only ever sent what the log holds, of the groups and   *)
(* above the cursors it asked for.                                          *)
THEOREM StreamsFaithful == Spec => []StreamFaithful
<1>1. DeliveryInv => StreamFaithful
  BY DEF DeliveryInv
<1> QED  BY <1>1, DeliveryInvariant, PTL

(* However many threads post at once, a merged subscription is never sent   *)
(* a message of a group twice, nor one older than its predecessor.          *)
THEOREM StreamsOrdered == Spec => []StreamOrdered
<1>1. DeliveryInv => StreamOrdered
  BY DEF DeliveryInv
<1> QED  BY <1>1, DeliveryInvariant, PTL

(* After unsubscribe, drop or a failed fetch, nothing more is sent to the   *)
(* channel of a subscription (publish_live, emit_if_new).                   *)
THEOREM NothingAfterClose == Spec => QuietAfterClose
<1>1. DeliveryInv /\ [Next]_vars =>
        [\A id \in Ids : pc[id] # "none" /\ ~ Open(id) => channel'[id] = channel[id]]_vars
  <2> SUFFICES ASSUME DeliveryInv, Next, NEW id \in Ids, pc[id] # "none", ~ Open(id)
               PROVE  channel'[id] = channel[id]
    OBVIOUS
  <2>1. id \notin DOMAIN subscribers
    BY DEF DeliveryInv, RegistryConsistent
  <2>2. channel \in [Ids -> Seq(GroupMessageRecord)]
    BY DEF DeliveryInv, TypeOK
  <2>3. CASE \E p \in Posters : PostPublish(p)
    BY <2>1, <2>3 DEF PostPublish, PublishLive
  <2>4. CASE \E i \in Ids : EmitNext(i)
    BY <2>2, <2>4 DEF EmitNext, Open
  <2>5. CASE ~ (\E p \in Posters : PostPublish(p)) /\ ~ (\E i \in Ids : EmitNext(i))
    BY <2>5 DEF Next, Post, SubscribeStep, PostAppend, SubscribeLiveTail,
         SubscribeMany, FetchEntry, FetchFails, UnregisterFailed, LockForReplay,
         FinishBuffering, ReturnHandle, Recv, RecvNone, Unsubscribe
  <2> QED  BY <2>3, <2>4, <2>5
<1> QED  BY <1>1, DeliveryInvariant, PTL DEF Spec, QuietAfterClose

-----------------------------------------------------------------------------
(***************************************************************************)
(* A merged subscription sends its backlog first.  BacklogInv follows a    *)
(* subscribe call through its fetch, its replay and its flush: what the    *)
(* snapshot of the logs holds beyond the subscriber's cursors is in the    *)
(* backlog vector until it was sent.                                       *)
(***************************************************************************)

(* Every cursor of the group in lo + 1 .. hi is somewhere in the vector. *)
Covers(seq, g, lo, hi) ==
    \A c \in (lo + 1) .. hi :
        \E i \in DOMAIN seq : seq[i].group_id = g /\ seq[i].cursor = c

(* No record of the vector is beyond the bound of its group. *)
UpTo(seq, bound) == \A i \in DOMAIN seq : seq[i].cursor <= bound[seq[i].group_id]

(* The mutexes are held exactly where the code holds them, and the log     *)
(* stands still under the storage mutex.                                   *)
LocksInv ==
    \A id \in Ids :
        /\ storage_lock = id <=> pc[id] = "fetch" /\ Merged(id)
        /\ registry_lock = id <=> pc[id] \in {"replay", "flush"}
        /\ pc[id] \in {"fetched", "replay", "flush"} => Merged(id)
        /\ ~ Merged(id) => records[id] = <<>>
        /\ \A g \in Groups : snapshot[id][g] <= Len(log[g])
        /\ storage_lock = id => snapshot[id] = [g \in Groups |-> Len(log[g])]

(* Nothing is sent, and the cursors do not move, before the replay. *)
BufferingAt(id) ==
    LET sub == subscribers[id] IN
    /\ sub.buffering <=> pc[id] \in {"fetch", "fetched", "failed", "replay"}
    /\ pc[id] \in {"fetch", "fetched", "failed"} =>
         channel[id] = <<>> /\ sub.cursors_by_group = Cursors(request[id])

(* Where the part of the snapshot beyond the cursors is. *)
ReplayAt(id) ==
    LET cursors == subscribers[id].cursors_by_group
        req == request[id]
    IN
    /\ pc[id] = "fetch" =>
         \A k \in 1 .. entry[id] :
            Covers(records[id], req[k].group_id, req[k].after_cursor,
                   snapshot[id][req[k].group_id])
    /\ pc[id] \in {"fetched", "replay"} =>
         \A g \in GroupIds(req) : Covers(records[id], g, cursors[g], snapshot[id][g])
    /\ pc[id] \in {"fetch", "fetched", "replay"} => UpTo(records[id], snapshot[id])
    /\ pc[id] = "replay" => UpTo(channel[id], snapshot[id])
    /\ pc[id] \in {"flush", "live"} /\ Merged(id) =>
         \A g \in GroupIds(req) : snapshot[id][g] <= cursors[g]

(* No live message was sent before a message of the backlog. *)
BacklogFirst(sent, snap) ==
    \A i, j \in DOMAIN sent :
        i < j /\ sent[i].cursor > snap[sent[i].group_id]
            => sent[j].cursor > snap[sent[j].group_id]

(* The strengthening of BacklogBeforeLive. *)
BacklogInv ==
    /\ LocksInv
    /\ \A id \in DOMAIN subscribers : BufferingAt(id) /\ ReplayAt(id)
    /\ BacklogBeforeLive

-----------------------------------------------------------------------------
(* A step of a call or a handle, opening it included; the others are steps *)
(* of a poster.                                                            *)
StepOf(id) ==
    \/ SubscribeStep(id) \/ Recv(id) \/ RecvNone(id) \/ Unsubscribe(id)
    \/ id = next_id /\ \E g \in LiveTailGroups : SubscribeLiveTail(g)
    \/ id = next_id /\ \E req \in Requests : SubscribeMany(req)

(* A step is one of a poster or one of a subscription. *)
LEMMA NextCases ==
    ASSUME Next
    PROVE  \/ \E p \in Posters, g \in Groups, m \in Messages : PostAppend(p, g, m)
           \/ \E p \in Posters : PostPublish(p)
           \/ \E id \in Ids : StepOf(id)
BY DEF Next, Post, StepOf, SubscribeLiveTail, SubscribeMany

(* All that is kept for one subscription stays as it is. *)
Same(id) ==
    /\ pc'[id] = pc[id] /\ request'[id] = request[id] /\ entry'[id] = entry[id]
    /\ records'[id] = records[id] /\ snapshot'[id] = snapshot[id]
    /\ channel'[id] = channel[id]
    /\ id \in DOMAIN subscribers' <=> id \in DOMAIN subscribers
    /\ id \in DOMAIN subscribers => subscribers'[id] = subscribers[id]

(* Each call and handle moves only its own state, and no log. *)
LEMMA OthersSame ==
    ASSUME DeliveryInv, NEW id \in Ids, StepOf(id)
    PROVE  /\ UNCHANGED <<log, posting>>
           /\ \A i \in Ids \ {id} : Same(i)
<1>0. TypeOK
  BY DEF DeliveryInv
<1> USE DEF Same
<1>1. CASE id = next_id /\ \E g \in LiveTailGroups : SubscribeLiveTail(g)
  BY <1>0, <1>1 DEF SubscribeLiveTail, Register, TypeOK
<1>2. CASE id = next_id /\ \E req \in Requests : SubscribeMany(req)
  BY <1>0, <1>2 DEF SubscribeMany, Register, TypeOK
<1>3. CASE FetchEntry(id)
  BY <1>0, <1>3 DEF FetchEntry, TypeOK, registry
<1>4. CASE FetchFails(id)
  BY <1>0, <1>4 DEF FetchFails, TypeOK, registry
<1>5. CASE UnregisterFailed(id)
  BY <1>0, <1>5 DEF UnregisterFailed, RemoveSubscriber, TypeOK
<1>6. CASE Unsubscribe(id)
  BY <1>0, <1>6 DEF Unsubscribe, RemoveSubscriber, TypeOK
<1>7. CASE LockForReplay(id)
  BY <1>0, <1>7 DEF LockForReplay, TypeOK, registry
<1>8. CASE EmitNext(id)
  BY <1>0, <1>8 DEF EmitNext, TypeOK
<1>9. CASE FinishBuffering(id)
  BY <1>0, <1>9 DEF FinishBuffering, TypeOK
<1>10. CASE ReturnHandle(id)
  BY <1>0, <1>10 DEF ReturnHandle, TypeOK, registry
<1>11. CASE Recv(id)
  BY <1>0, <1>11 DEF Recv, TypeOK, registry, call
<1>12. CASE RecvNone(id)
  BY <1>0, <1>12 DEF RecvNone, TypeOK, registry
<1> QED
  BY <1>1, <1>2, <1>3, <1>4, <1>5, <1>6, <1>7, <1>8, <1>9, <1>10, <1>11, <1>12
     DEF StepOf, SubscribeStep

(* A subscription that a step leaves alone keeps its invariant. *)
LEMMA SameKeeps ==
    ASSUME NEW id, Same(id), id \in DOMAIN subscribers, BufferingAt(id), ReplayAt(id)
    PROVE  BufferingAt(id)' /\ ReplayAt(id)'
BY DEF Same, BufferingAt, ReplayAt, Merged

(* Every step takes and frees the mutexes where LocksInv says. *)
LEMMA LocksStep == DeliveryInv /\ LocksInv /\ Next => LocksInv'
<1> SUFFICES ASSUME DeliveryInv, LocksInv, Next PROVE LocksInv'
  OBVIOUS
<1>0. TypeOK /\ CallsInv
  BY DEF DeliveryInv
<1>i. Free \notin Ids /\ \A i \in Ids : i \in Nat
  BY DEF Free, Ids
<1>1. ASSUME NEW p \in Posters, NEW g \in Groups, NEW m \in Messages, PostAppend(p, g, m)
      PROVE  LocksInv'
  <2>1. /\ storage_lock = Free
        /\ UNCHANGED <<storage_lock, registry_lock, pc, entry, records, snapshot>>
    BY <1>1 DEF PostAppend, call
  <2>2. \A h \in Groups : Len(log'[h]) >= Len(log[h]) /\ Len(log[h]) \in Nat /\ Len(log'[h]) \in Nat
    <3>1. log' = [log EXCEPT ![g] = Append(@, m)] /\ log \in [Groups -> Seq(Messages)]
      BY <1>0, <1>1 DEF PostAppend, TypeOK
    <3> SUFFICES ASSUME NEW h \in Groups
                 PROVE  /\ Len(log'[h]) >= Len(log[h])
                        /\ Len(log[h]) \in Nat /\ Len(log'[h]) \in Nat
      OBVIOUS
    <3>2. log[h] \in Seq(Messages) /\ Len(log[h]) \in Nat
      BY <3>1, LenProperties
    <3>3. Len(Append(log[h], m)) = Len(log[h]) + 1
      BY <3>2, AppendProperties
    <3>4. log'[h] = log[h] \/ log'[h] = Append(log[h], m)
      BY <3>1
    <3> QED  BY <3>2, <3>3, <3>4
  <2>3. \A i \in Ids : \A h \in Groups : snapshot[i][h] \in Nat /\ snapshot[i][h] <= Len(log'[h])
    <3>1. \A i \in Ids : \A h \in Groups : snapshot[i][h] <= Len(log[h])
      BY DEF LocksInv
    <3>2. \A i \in Ids : \A h \in Groups : snapshot[i][h] \in Nat
      BY <1>0 DEF TypeOK
    <3> QED  BY <2>2, <3>1, <3>2
  <2> QED  BY <1>i, <2>1, <2>3 DEF LocksInv, Merged
<1>2. ASSUME NEW p \in Posters, PostPublish(p)
      PROVE  LocksInv'
  BY <1>2 DEF PostPublish, call, LocksInv, Merged
<1>3. ASSUME NEW id \in Ids, StepOf(id)
      PROVE  LocksInv'
  <2>1. log' = log /\ \A i \in Ids \ {id} : Same(i)
    BY <1>3, OthersSame
  <2>l. \A g \in Groups : Len(log[g]) \in Nat
    BY <1>0, LenProperties DEF TypeOK
  (* The others are as before, unless they lose a mutex they do not hold. *)
  <2>2. ASSUME \A i \in Ids \ {id} : /\ storage_lock' = i <=> storage_lock = i
                                     /\ registry_lock' = i <=> registry_lock = i,
               /\ storage_lock' = id <=> pc'[id] = "fetch" /\ entry'[id] > 0
               /\ registry_lock' = id <=> pc'[id] \in {"replay", "flush"}
               /\ pc'[id] \in {"fetched", "replay", "flush"} => entry'[id] > 0
               /\ ~ (entry'[id] > 0) => records'[id] = <<>>
               /\ \A g \in Groups : snapshot'[id][g] <= Len(log[g])
               /\ storage_lock' = id => snapshot'[id] = [g \in Groups |-> Len(log[g])]
        PROVE  LocksInv'
    <3>1. ASSUME NEW i \in Ids \ {id}
          PROVE  /\ storage_lock' = i <=> pc'[i] = "fetch" /\ entry'[i] > 0
                 /\ registry_lock' = i <=> pc'[i] \in {"replay", "flush"}
                 /\ pc'[i] \in {"fetched", "replay", "flush"} => entry'[i] > 0
                 /\ ~ (entry'[i] > 0) => records'[i] = <<>>
                 /\ \A g \in Groups : snapshot'[i][g] <= Len(log[g])
                 /\ storage_lock' = i => snapshot'[i] = [g \in Groups |-> Len(log[g])]
      BY <2>1, <2>2, <3>1 DEF LocksInv, Same, Merged
    <3> QED  BY <2>1, <2>2, <3>1 DEF LocksInv, Merged
  <2>3. /\ storage_lock = id <=> pc[id] = "fetch" /\ entry[id] > 0
        /\ registry_lock = id <=> pc[id] \in {"replay", "flush"}
        /\ pc[id] \in {"fetched", "replay", "flush"} => entry[id] > 0
        /\ ~ (entry[id] > 0) => records[id] = <<>>
        /\ \A g \in Groups : snapshot[id][g] <= Len(log[g])
        /\ storage_lock = id => snapshot[id] = [g \in Groups |-> Len(log[g])]
    BY DEF LocksInv, Merged
  <2>4. pc[id] = "none" => entry[id] = 0 /\ records[id] = <<>>
    BY <1>0 DEF CallsInv
  <2>t. /\ pc \in [Ids -> {"none", "fetch", "fetched", "failed", "error", "replay",
                           "flush", "live", "closed", "dropped", "ended"}]
        /\ entry \in [Ids -> Nat] /\ DOMAIN records = Ids /\ DOMAIN snapshot = Ids
        /\ Len(request[id]) \in Nat
    BY <1>0, LenProperties DEF TypeOK
  <2>5. CASE id = next_id /\ \E g \in LiveTailGroups : SubscribeLiveTail(g)
    <3>1. /\ UNCHANGED <<storage_lock, registry_lock, entry, records, snapshot>>
          /\ pc' = [pc EXCEPT ![id] = "live"]
      BY <2>5 DEF SubscribeLiveTail
    <3>2. pc[id] = "none"
      BY <1>0, <1>i, <2>5 DEF CallsInv
    <3> QED  BY <2>2, <2>3, <2>4, <2>t, <3>1, <3>2
  <2>6. CASE id = next_id /\ \E req \in Requests : SubscribeMany(req)
    <3>1. /\ UNCHANGED <<storage_lock, registry_lock, entry, records, snapshot>>
          /\ pc' = [pc EXCEPT ![id] = "fetch"]
      BY <2>6 DEF SubscribeMany
    <3>2. pc[id] = "none"
      BY <1>0, <1>i, <2>6 DEF CallsInv
    <3> QED  BY <2>2, <2>3, <2>4, <2>t, <3>1, <3>2
  <2>7. CASE FetchEntry(id)
    <3>1. /\ pc[id] = "fetch" /\ storage_lock \in {Free, id} /\ storage_lock' \in {Free, id}
          /\ registry_lock' = registry_lock
          /\ entry'[id] = entry[id] + 1 /\ entry'[id] > 0
          /\ \/ storage_lock' = id /\ pc'[id] = "fetch"
             \/ storage_lock' = Free /\ pc'[id] = "fetched"
          /\ snapshot'[id] = [g \in Groups |-> Len(log[g])]
      BY <2>7, <2>t DEF FetchEntry
    <3> QED  BY <1>i, <2>2, <2>3, <2>l, <3>1
  <2>8. CASE FetchFails(id)
    <3>1. /\ pc[id] = "fetch" /\ storage_lock \in {Free, id} /\ storage_lock' = Free
          /\ UNCHANGED <<registry_lock, entry, snapshot>>
          /\ pc'[id] = "failed" /\ records'[id] = <<>>
      BY <2>8, <2>t DEF FetchFails
    <3> QED  BY <1>i, <2>2, <2>3, <3>1
  <2>9. CASE LockForReplay(id)
    <3>1. /\ pc[id] = "fetched" /\ registry_lock = Free /\ registry_lock' = id
          /\ UNCHANGED <<storage_lock, entry, snapshot, records>>
          /\ pc'[id] = "replay"
      BY <2>9, <2>t DEF LockForReplay
    <3> QED  BY <1>i, <2>2, <2>3, <3>1
  <2>10. CASE EmitNext(id)
    <3>1. UNCHANGED <<storage_lock, registry_lock, entry, snapshot, pc>> /\ pc[id] \in {"replay", "flush"}
      BY <2>10 DEF EmitNext
    <3> QED  BY <2>2, <2>3, <3>1
  <2>11. CASE FinishBuffering(id)
    <3>1. /\ UNCHANGED <<storage_lock, registry_lock, entry, snapshot>>
          /\ pc[id] = "replay" /\ pc'[id] = "flush"
      BY <2>11, <2>t DEF FinishBuffering
    <3> QED  BY <2>2, <2>3, <3>1
  <2>12. CASE ReturnHandle(id)
    <3>1. /\ UNCHANGED <<storage_lock, entry, snapshot, records>> /\ registry_lock' = Free
          /\ pc[id] = "flush" /\ pc'[id] = "live"
      BY <2>12, <2>t DEF ReturnHandle
    <3> QED  BY <1>i, <2>2, <2>3, <3>1
  <2>13. CASE UnregisterFailed(id) \/ RecvNone(id) \/ Unsubscribe(id)
    <3>1. /\ UNCHANGED <<storage_lock, registry_lock, entry, snapshot, records>>
          /\ pc[id] \in {"failed", "closed", "live"}
          /\ pc'[id] \in {"error", "ended", "closed", "dropped"}
      BY <2>13, <2>t DEF UnregisterFailed, RecvNone, Unsubscribe
    <3> QED  BY <2>2, <2>3, <3>1
  <2>14. CASE Recv(id)
    BY <2>14 DEF Recv, call, LocksInv, Merged
  <2> QED
    BY <1>3, <2>5, <2>6, <2>7, <2>8, <2>9, <2>10, <2>11, <2>12, <2>13, <2>14
       DEF StepOf, SubscribeStep
<1> QED  BY <1>1, <1>2, <1>3, NextCases

-----------------------------------------------------------------------------
(* Vectors of records. *)
LEMMA RecordsOfSeq ==
    ASSUME NEW seq \in Seq(GroupMessageRecord)
    PROVE  /\ DOMAIN seq = 1 .. Len(seq) /\ Len(seq) \in Nat
           /\ \A i \in DOMAIN seq : /\ seq[i] \in GroupMessageRecord
                                    /\ seq[i].group_id \in Groups
                                    /\ seq[i].cursor \in Nat
<1>1. DOMAIN seq = 1 .. Len(seq) /\ Len(seq) \in Nat
  BY LenProperties
<1>2. \A i \in DOMAIN seq : seq[i] \in GroupMessageRecord
  BY <1>1, ElementOfSeq
<1>3. \A r \in GroupMessageRecord : r.group_id \in Groups /\ r.cursor \in Nat
  BY DEF GroupMessageRecord
<1> QED  BY <1>1, <1>2, <1>3

(* What a fetch returns is the whole log of the group above the cursor, in *)
(* its order.                                                              *)
LEMMA FetchComplete ==
    ASSUME TypeOK, NEW g \in Groups, NEW after \in Nat
    PROVE  /\ Covers(FetchGroupMessages(g, after), g, after, Len(log[g]))
           /\ UpTo(FetchGroupMessages(g, after), [h \in Groups |-> Len(log[h])])
           /\ Ordered(FetchGroupMessages(g, after))
           /\ \A i \in DOMAIN FetchGroupMessages(g, after) :
                FetchGroupMessages(g, after)[i].group_id = g
<1> DEFINE seq == FetchGroupMessages(g, after)
<1>1. Len(log[g]) \in Nat
  BY LenProperties DEF TypeOK
<1>2. /\ DOMAIN seq = 1 .. (Len(log[g]) - after)
      /\ \A i \in DOMAIN seq : seq[i].group_id = g /\ seq[i].cursor = after + i
  BY DEF FetchGroupMessages, RecordAt
<1> HIDE DEF seq
<1>3. Covers(seq, g, after, Len(log[g]))
  <2> SUFFICES ASSUME NEW c \in (after + 1) .. Len(log[g])
               PROVE  \E i \in DOMAIN seq : seq[i].group_id = g /\ seq[i].cursor = c
    BY DEF Covers
  <2>1. c - after \in DOMAIN seq
    BY <1>1, <1>2
  <2>2. seq[c - after].group_id = g /\ seq[c - after].cursor = c
    BY <1>1, <1>2, <2>1
  <2> QED  BY <2>1, <2>2
<1>4. UpTo(seq, [h \in Groups |-> Len(log[h])])
  BY <1>1, <1>2 DEF UpTo
<1>5. Ordered(seq)
  BY <1>1, <1>2 DEF Ordered
<1> QED  BY <1>2, <1>3, <1>4, <1>5 DEF seq

(* A concatenation covers what its parts cover and stays within their      *)
(* bound.                                                                  *)
LEMMA ConcatVectors ==
    ASSUME NEW s \in Seq(GroupMessageRecord), NEW t \in Seq(GroupMessageRecord)
    PROVE  /\ \A g, lo, hi : Covers(s, g, lo, hi) => Covers(s \o t, g, lo, hi)
           /\ \A g, lo, hi : Covers(t, g, lo, hi) => Covers(s \o t, g, lo, hi)
           /\ \A bound : UpTo(s, bound) /\ UpTo(t, bound) => UpTo(s \o t, bound)
<1> DEFINE u == s \o t
<1>1. /\ u \in Seq(GroupMessageRecord) /\ Len(u) = Len(s) + Len(t)
      /\ DOMAIN u = 1 .. Len(u) /\ DOMAIN s = 1 .. Len(s) /\ DOMAIN t = 1 .. Len(t)
      /\ Len(s) \in Nat /\ Len(t) \in Nat
      /\ \A i \in 1 .. Len(s) : u[i] = s[i]
      /\ \A i \in 1 .. Len(t) : u[i + Len(s)] = t[i]
  BY LenProperties, ConcatProperties
<1> HIDE DEF u
<1>2. \A i \in DOMAIN s : i \in DOMAIN u /\ u[i] = s[i]
  BY <1>1
<1>3. \A i \in DOMAIN t : i + Len(s) \in DOMAIN u /\ u[i + Len(s)] = t[i]
  BY <1>1
<1>4. \A i \in DOMAIN u : (i \in DOMAIN s /\ u[i] = s[i])
                          \/ (i - Len(s) \in DOMAIN t /\ u[i] = t[i - Len(s)])
  <2> TAKE i \in DOMAIN u
  <2>1. CASE i \in 1 .. Len(s)
    BY <1>1, <2>1
  <2>2. CASE i \notin 1 .. Len(s)
    <3>1. i - Len(s) \in 1 .. Len(t)
      BY <1>1, <2>2
    <3>2. u[(i - Len(s)) + Len(s)] = t[i - Len(s)]
      BY <1>1, <3>1
    <3>3. (i - Len(s)) + Len(s) = i
      BY <1>1
    <3> QED  BY <1>1, <3>1, <3>2, <3>3
  <2> QED  BY <2>1, <2>2
<1>5. \A g, lo, hi : Covers(s, g, lo, hi) => Covers(u, g, lo, hi)
  BY <1>2 DEF Covers
<1>6. \A g, lo, hi : Covers(t, g, lo, hi) => Covers(u, g, lo, hi)
  BY <1>3 DEF Covers
<1>7. \A bound : UpTo(s, bound) /\ UpTo(t, bound) => UpTo(u, bound)
  BY <1>4 DEF UpTo
<1> QED  BY <1>5, <1>6, <1>7 DEF u

(* The same of a vector with one more record. *)
LEMMA AppendVectors ==
    ASSUME NEW s \in Seq(GroupMessageRecord), NEW rec \in GroupMessageRecord
    PROVE  /\ DOMAIN Append(s, rec) = 1 .. (Len(s) + 1) /\ DOMAIN s = 1 .. Len(s)
           /\ Len(s) \in Nat
           /\ \A i \in 1 .. Len(s) : Append(s, rec)[i] = s[i]
           /\ Append(s, rec)[Len(s) + 1] = rec
           /\ \A g, lo, hi : Covers(s, g, lo, hi) => Covers(Append(s, rec), g, lo, hi)
           /\ \A bound : UpTo(s, bound) /\ rec.cursor <= bound[rec.group_id]
                           => UpTo(Append(s, rec), bound)
<1> DEFINE u == Append(s, rec)
<1>1. /\ DOMAIN u = 1 .. (Len(s) + 1) /\ DOMAIN s = 1 .. Len(s) /\ Len(s) \in Nat
      /\ \A i \in 1 .. Len(s) : u[i] = s[i]
      /\ u[Len(s) + 1] = rec
  BY AppendProperties, LenProperties
<1> HIDE DEF u
<1>2. \A i \in DOMAIN s : i \in DOMAIN u /\ u[i] = s[i]
  BY <1>1
<1>3. \A i \in DOMAIN u : (i \in DOMAIN s /\ u[i] = s[i]) \/ u[i] = rec
  BY <1>1
<1>4. \A g, lo, hi : Covers(s, g, lo, hi) => Covers(u, g, lo, hi)
  BY <1>2 DEF Covers
<1>5. \A bound : UpTo(s, bound) /\ rec.cursor <= bound[rec.group_id] => UpTo(u, bound)
  BY <1>3 DEF UpTo
<1> QED  BY <1>1, <1>4, <1>5 DEF u

(* The first record of a vector is taken. *)
LEMMA TailVectors ==
    ASSUME NEW s \in Seq(GroupMessageRecord), s # <<>>
    PROVE  /\ Head(s) \in GroupMessageRecord /\ Head(s) = s[1] /\ 1 \in DOMAIN s
           /\ Tail(s) \in Seq(GroupMessageRecord)
           /\ \A i \in DOMAIN Tail(s) : i + 1 \in DOMAIN s /\ Tail(s)[i] = s[i + 1]
           /\ \A i \in DOMAIN s : i = 1 \/ (i - 1 \in DOMAIN Tail(s) /\ s[i] = Tail(s)[i - 1])
           /\ \A bound : UpTo(s, bound) => UpTo(Tail(s), bound)
           /\ Ordered(s) => Ordered(Tail(s))
<1>1. /\ Head(s) \in GroupMessageRecord /\ Head(s) = s[1]
      /\ Tail(s) \in Seq(GroupMessageRecord)
      /\ Len(Tail(s)) = Len(s) - 1 /\ Len(s) \in Nat /\ Len(s) > 0
      /\ \A i \in 1 .. Len(Tail(s)) : Tail(s)[i] = s[i + 1]
  BY HeadTailProperties, EmptySeq, LenProperties
<1>2. DOMAIN s = 1 .. Len(s) /\ DOMAIN Tail(s) = 1 .. (Len(s) - 1)
  BY <1>1, LenProperties
<1> DEFINE t == Tail(s)
<1> HIDE DEF t
<1>3. \A i \in DOMAIN t : i \in Nat /\ i + 1 \in DOMAIN s /\ t[i] = s[i + 1]
  BY <1>1, <1>2 DEF t
<1>4. \A i \in DOMAIN s : i = 1 \/ (i - 1 \in DOMAIN t /\ s[i] = t[i - 1])
  <2> TAKE i \in DOMAIN s
  <2>1. CASE i # 1
    <3>1. i - 1 \in 1 .. (Len(s) - 1) /\ (i - 1) + 1 = i
      BY <1>1, <1>2, <2>1
    <3>2. t[i - 1] = s[(i - 1) + 1]
      BY <1>2, <1>3, <3>1 DEF t
    <3> QED  BY <1>2, <3>1, <3>2 DEF t
  <2> QED  BY <2>1
<1>5. \A bound : UpTo(s, bound) => UpTo(t, bound)
  BY <1>3 DEF UpTo
<1>6. Ordered(s) => Ordered(t)
  <2> SUFFICES ASSUME Ordered(s), NEW i \in DOMAIN t, NEW j \in DOMAIN t, i < j,
                      t[i].group_id = t[j].group_id
               PROVE  t[i].cursor < t[j].cursor
    BY DEF Ordered
  <2>1. i + 1 \in DOMAIN s /\ j + 1 \in DOMAIN s /\ i + 1 < j + 1
        /\ t[i] = s[i + 1] /\ t[j] = s[j + 1]
    BY <1>3
  <2> QED  BY <2>1 DEF Ordered
<1> QED  BY <1>1, <1>2, <1>3, <1>4, <1>5, <1>6 DEF t

(* emit_if_new moves one cursor of a deduplicating subscriber, or none. *)
LEMMA NotedCursors ==
    ASSUME NEW sub \in Subscriber, sub.dedup, NEW rec \in GroupMessageRecord
    PROVE  /\ rec.group_id \in Groups /\ rec.cursor \in Nat
           /\ IsNew(sub, rec) <=> rec.cursor > sub.cursors_by_group[rec.group_id]
           /\ \A g \in Groups :
                Noted(sub, rec).cursors_by_group[g] =
                  IF g = rec.group_id /\ IsNew(sub, rec) THEN rec.cursor
                  ELSE sub.cursors_by_group[g]
<1>1. rec.group_id \in Groups /\ rec.cursor \in Nat
  BY DEF GroupMessageRecord
<1>2. sub.cursors_by_group \in [Groups -> Nat]
  BY DEF Subscriber
<1>3. IsNew(sub, rec) => Noted(sub, rec).cursors_by_group
                           = [sub.cursors_by_group EXCEPT ![rec.group_id] = rec.cursor]
  BY DEF Noted, Subscriber
<1>4. ~ IsNew(sub, rec) => Noted(sub, rec) = sub
  BY DEF Noted
<1> QED  BY <1>1, <1>2, <1>3, <1>4 DEF IsNew

(* Emitting the first record of a vector: what the vector covered beyond   *)
(* the cursors, the rest of it covers beyond the new cursors.              *)
LEMMA CoversEmit ==
    ASSUME NEW sub \in Subscriber, sub.dedup, NEW seq \in Seq(GroupMessageRecord),
           seq # <<>>, NEW g \in Groups, NEW hi \in Int,
           Covers(seq, g, sub.cursors_by_group[g], hi)
    PROVE  Covers(Tail(seq), g, Noted(sub, Head(seq)).cursors_by_group[g], hi)
<1> DEFINE rec == Head(seq)
           next == Noted(sub, rec)
<1>1. /\ rec \in GroupMessageRecord /\ rec = seq[1]
      /\ \A i \in DOMAIN seq : i = 1 \/ (i - 1 \in DOMAIN Tail(seq) /\ seq[i] = Tail(seq)[i - 1])
  BY TailVectors
<1> HIDE DEF rec
<1>2. next.cursors_by_group[g] = IF g = rec.group_id /\ IsNew(sub, rec) THEN rec.cursor
                                 ELSE sub.cursors_by_group[g]
  BY <1>1, NotedCursors
<1>3. /\ IsNew(sub, rec) <=> rec.cursor > sub.cursors_by_group[rec.group_id]
      /\ rec.cursor \in Nat /\ sub.cursors_by_group[g] \in Nat
  BY <1>1, NotedCursors DEF Subscriber
<1> SUFFICES ASSUME NEW c \in (next.cursors_by_group[g] + 1) .. hi
             PROVE  \E i \in DOMAIN Tail(seq) : Tail(seq)[i].group_id = g /\ Tail(seq)[i].cursor = c
  BY DEF Covers, rec
<1> HIDE DEF next
<1>4. c \in (sub.cursors_by_group[g] + 1) .. hi /\ ~ (rec.group_id = g /\ rec.cursor = c)
  BY <1>2, <1>3
<1>5. PICK i \in DOMAIN seq : seq[i].group_id = g /\ seq[i].cursor = c
  BY <1>4 DEF Covers
<1> QED  BY <1>1, <1>4, <1>5

-----------------------------------------------------------------------------
(* A fan-out reaches the subscriptions of the group and leaves the others. *)
LEMMA PublishEffect ==
    ASSUME DeliveryInv, NEW p \in Posters, PostPublish(p)
    PROVE  /\ UNCHANGED <<log, pc, request, entry, records, snapshot>>
           /\ DOMAIN subscribers' = DOMAIN subscribers
           /\ posting[p] \in GroupMessageRecord /\ InLog(log, posting[p])
           /\ \A id \in Ids :
                \/ Same(id) /\ ~ (/\ id \in DOMAIN subscribers
                                  /\ posting[p].group_id \in GroupIds(request[id]))
                \/ /\ id \in DOMAIN subscribers
                   /\ posting[p].group_id \in GroupIds(request[id])
                   /\ channel'[id] = Pushed(subscribers[id], channel[id], posting[p])
                   /\ subscribers'[id] = Push(subscribers[id], posting[p])
<1>0. TypeOK /\ RegistryConsistent /\ InFlightInv
  BY DEF DeliveryInv
<1>1. /\ UNCHANGED <<log, pc, request, entry, records, snapshot>>
      /\ DOMAIN subscribers' = DOMAIN subscribers
  BY DEF PostPublish, PublishLive, call
<1>2. posting[p] \in GroupMessageRecord /\ InLog(log, posting[p])
  BY <1>0 DEF PostPublish, TypeOK, InFlightInv
<1> DEFINE rec == posting[p]
           ids == IF rec.group_id \in DOMAIN group_subscribers
                  THEN group_subscribers[rec.group_id] \cap DOMAIN subscribers
                  ELSE {}
<1>3. /\ subscribers' = [i \in DOMAIN subscribers |->
                           IF i \in ids THEN Push(subscribers[i], rec) ELSE subscribers[i]]
      /\ channel' = [i \in Ids |->
                       IF i \in ids THEN Pushed(subscribers[i], channel[i], rec)
                       ELSE channel[i]]
  BY DEF PostPublish, PublishLive
<1>4. ids = {id \in DOMAIN subscribers : rec.group_id \in GroupIds(request[id])}
  BY <1>0 DEF RegistryConsistent
<1> HIDE DEF ids, rec
<1>5. ASSUME NEW id \in Ids
      PROVE  \/ Same(id) /\ ~ (id \in DOMAIN subscribers /\ rec.group_id \in GroupIds(request[id]))
             \/ /\ id \in DOMAIN subscribers /\ rec.group_id \in GroupIds(request[id])
                /\ channel'[id] = Pushed(subscribers[id], channel[id], rec)
                /\ subscribers'[id] = Push(subscribers[id], rec)
  <2>1. CASE id \in ids
    BY <1>3, <1>4, <2>1
  <2>2. CASE id \notin ids
    BY <1>1, <1>3, <1>4, <2>2 DEF Same
  <2> QED  BY <2>1, <2>2
<1> QED  BY <1>1, <1>2, <1>5 DEF rec

(* A push to one subscription keeps what is known of its backlog. *)
LEMMA PushStep ==
    ASSUME DeliveryInv, LocksInv, NEW id \in DOMAIN subscribers,
           NEW rec \in GroupMessageRecord,
           BufferingAt(id), ReplayAt(id),
           UNCHANGED <<log, pc, request, entry, records, snapshot>>,
           registry_lock = Free,
           channel'[id] = Pushed(subscribers[id], channel[id], rec),
           subscribers'[id] = Push(subscribers[id], rec)
    PROVE  BufferingAt(id)' /\ ReplayAt(id)'
<1>0. id \in Ids /\ subscribers[id] \in Subscriber /\ snapshot[id] \in [Groups -> Nat]
      /\ pc[id] # "replay" /\ GroupIds(request[id]) \subseteq Groups
  BY CursorsType DEF DeliveryInv, TypeOK, LocksInv, Ids, Free
<1>1. CASE subscribers[id].buffering
  <2>1. /\ channel'[id] = channel[id]
        /\ subscribers'[id].buffering = subscribers[id].buffering
        /\ subscribers'[id].cursors_by_group = subscribers[id].cursors_by_group
    BY <1>0, <1>1 DEF Pushed, Push, Subscriber
  <2> QED  BY <2>1 DEF BufferingAt, ReplayAt, Merged
<1>2. CASE ~ subscribers[id].buffering
  <2>1. /\ subscribers'[id].buffering = subscribers[id].buffering
        /\ \A g \in Groups : /\ subscribers[id].cursors_by_group[g] <= subscribers'[id].cursors_by_group[g]
                             /\ subscribers[id].cursors_by_group[g] \in Nat
                             /\ subscribers'[id].cursors_by_group[g] \in Nat
    BY <1>0, <1>2, NotedProperties DEF Push, Subscriber
  <2>2. pc[id] \notin {"fetch", "fetched", "failed", "replay"}
    BY <1>2 DEF BufferingAt
  <2>3. BufferingAt(id)'
    BY <1>2, <2>1, <2>2 DEF BufferingAt
  <2>4. ReplayAt(id)'
    BY <1>0, <2>1, <2>2 DEF ReplayAt, Merged
  <2> QED  BY <2>3, <2>4
<1> QED  BY <1>1, <1>2

(* The cursor of a requested group is the one of an item that names it. *)
LEMMA CursorsAt ==
    ASSUME NEW req \in Seq(FetchInput), NEW g \in GroupIds(req)
    PROVE  \E k \in 1 .. Len(req) : req[k].group_id = g /\ Cursors(req)[g] = req[k].after_cursor
<1> DEFINE at == {k \in DOMAIN req : req[k].group_id = g}
<1>0. DOMAIN req = 1 .. Len(req) /\ Len(req) \in Nat /\ g \in Groups
  BY LenProperties, CursorsType
<1>1. at # {}
  BY DEF GroupIds
<1>2. \E k \in at : \A j \in at : j <= k
  BY <1>0, <1>1, LargestIndex
<1>3. (CHOOSE k \in at : \A j \in at : j <= k) \in at
  BY <1>2
<1>4. Cursors(req)[g] = req[CHOOSE k \in at : \A j \in at : j <= k].after_cursor
  BY <1>0, <1>1 DEF Cursors
<1> QED  BY <1>0, <1>3, <1>4

(* fetch_many_group_messages: each item adds its part of the snapshot. *)
LEMMA FetchStep ==
    ASSUME DeliveryInv, LocksInv, NEW id \in Ids, FetchEntry(id), BufferingAt(id), ReplayAt(id)
    PROVE  BufferingAt(id)' /\ ReplayAt(id)'
<1> DEFINE k == entry[id] + 1
           g == request[id][k].group_id
           after == request[id][k].after_cursor
           seq == FetchGroupMessages(g, after)
           len == [h \in Groups |-> Len(log[h])]
<1>0. TypeOK /\ CallsInv /\ RegistryConsistent
  BY DEF DeliveryInv
<1>1. /\ pc[id] = "fetch" /\ UNCHANGED <<log, subscribers, request, channel>>
      /\ records'[id] = records[id] \o seq /\ entry'[id] = k
      /\ snapshot'[id] = len
      /\ \/ pc'[id] = "fetch"
         \/ pc'[id] = "fetched" /\ k = Len(request[id])
  BY <1>0 DEF FetchEntry, registry, TypeOK
<1>2. /\ id \in DOMAIN subscribers /\ entry[id] \in Nat /\ k \in 1 .. Len(request[id])
      /\ Len(request[id]) \in Nat /\ request[id] \in Seq(FetchInput)
  <2>1. entry[id] \in Nat /\ request[id] \in Seq(FetchInput)
    BY <1>0 DEF TypeOK
  <2>2. Len(request[id]) \in Nat
    BY <2>1, LenProperties
  <2>3. entry[id] < Len(request[id])
    BY <1>0, <1>1 DEF CallsInv
  <2>4. id \in DOMAIN subscribers
    BY <1>0, <1>1 DEF RegistryConsistent, Open
  <2> QED  BY <2>1, <2>2, <2>3, <2>4
<1>3. g \in Groups /\ after \in Nat
  <2>1. request[id][k] \in FetchInput
    BY <1>2, ElementOfSeq
  <2> QED  BY <2>1 DEF FetchInput
<1>4. /\ Covers(seq, g, after, Len(log[g])) /\ UpTo(seq, len)
      /\ seq \in Seq(GroupMessageRecord) /\ records[id] \in Seq(GroupMessageRecord)
  BY <1>0, <1>3, FetchComplete, FetchProperties DEF TypeOK
<1>5. entry[id] > 0 => snapshot[id] = len
  BY <1>1 DEF LocksInv, Merged
<1>6. entry[id] = 0 => records[id] = <<>>
  <2>1. ~ (entry[id] > 0) => records[id] = <<>>
    BY DEF LocksInv, Merged
  <2> QED  BY <2>1
<1> HIDE DEF seq, len
<1>7. UpTo(records[id] \o seq, len)
  <2>1. UpTo(records[id], len)
    <3>1. CASE entry[id] = 0
      BY <1>6, <3>1 DEF UpTo
    <3>2. CASE entry[id] > 0
      BY <1>1, <1>5, <3>2 DEF ReplayAt
    <3> QED  BY <1>2, <3>1, <3>2
  <2> QED  BY <1>4, <2>1, ConcatVectors
<1>8. \A j \in 1 .. k : Covers(records[id] \o seq, request[id][j].group_id,
                               request[id][j].after_cursor, len[request[id][j].group_id])
  <2> SUFFICES ASSUME NEW j \in 1 .. k
               PROVE  Covers(records[id] \o seq, request[id][j].group_id,
                             request[id][j].after_cursor, len[request[id][j].group_id])
    OBVIOUS
  <2>1. CASE j = k
    <3>1. len[g] = Len(log[g])
      BY <1>3 DEF len
    <3> QED  BY <1>4, <2>1, <3>1, ConcatVectors
  <2>2. CASE j # k
    <3>1. j \in 1 .. entry[id] /\ entry[id] > 0
      BY <1>2, <2>2
    <3>2. Covers(records[id], request[id][j].group_id, request[id][j].after_cursor,
                 len[request[id][j].group_id])
      BY <1>1, <1>5, <3>1 DEF ReplayAt
    <3> QED  BY <1>4, <3>2, ConcatVectors
  <2> QED  BY <2>1, <2>2
<1>9. channel[id] = <<>> /\ subscribers[id].cursors_by_group = Cursors(request[id])
      /\ subscribers[id].buffering
  BY <1>1 DEF BufferingAt
<1>10. BufferingAt(id)'
  BY <1>1, <1>9 DEF BufferingAt
<1>11. k = Len(request[id]) =>
         \A h \in GroupIds(request[id]) :
            Covers(records[id] \o seq, h, Cursors(request[id])[h], len[h])
  <2> SUFFICES ASSUME k = Len(request[id]), NEW h \in GroupIds(request[id])
               PROVE  Covers(records[id] \o seq, h, Cursors(request[id])[h], len[h])
    OBVIOUS
  <2>1. PICK j \in 1 .. Len(request[id]) :
          request[id][j].group_id = h /\ Cursors(request[id])[h] = request[id][j].after_cursor
    BY <1>2, CursorsAt
  <2> QED  BY <1>8, <2>1
<1>12. ReplayAt(id)'
  <2> SUFFICES /\ pc'[id] = "fetch" =>
                    \A j \in 1 .. k : Covers(records[id] \o seq, request[id][j].group_id,
                               request[id][j].after_cursor, len[request[id][j].group_id])
               /\ pc'[id] = "fetched" =>
                    \A h \in GroupIds(request[id]) :
                        Covers(records[id] \o seq, h, Cursors(request[id])[h], len[h])
               /\ UpTo(records[id] \o seq, len)
    BY <1>1, <1>9 DEF ReplayAt
  <2> QED  BY <1>1, <1>7, <1>8, <1>11
<1> QED  BY <1>10, <1>12

(* replay_backlog and finish_buffering, one emit_if_new. *)
LEMMA EmitStep ==
    ASSUME DeliveryInv, LocksInv, NEW id \in Ids, EmitNext(id), BufferingAt(id), ReplayAt(id)
    PROVE  BufferingAt(id)' /\ ReplayAt(id)'
<1> DEFINE sub == subscribers[id]
           rec == Head(records[id])
<1>0. TypeOK /\ CallsInv /\ RegistryConsistent /\ CursorInv
  BY DEF DeliveryInv
<1>1. /\ pc[id] \in {"replay", "flush"} /\ id \in DOMAIN subscribers
      /\ records[id] \in Seq(GroupMessageRecord) /\ records[id] # <<>>
      /\ channel[id] \in Seq(GroupMessageRecord)
      /\ sub \in Subscriber /\ sub.dedup
      /\ snapshot[id] \in [Groups -> Nat] /\ GroupIds(request[id]) \subseteq Groups
  BY <1>0, CursorsType DEF EmitNext, RegistryConsistent, Open, TypeOK, CursorInv
<1>2. /\ UNCHANGED <<pc, request, entry, snapshot>>
      /\ records'[id] = Tail(records[id])
      /\ subscribers'[id] = Noted(sub, rec)
      /\ channel'[id] = Emitted(sub, channel[id], rec)
  BY <1>0, <1>1 DEF EmitNext, TypeOK
<1>3. /\ rec \in GroupMessageRecord /\ rec = records[id][1] /\ 1 \in DOMAIN records[id]
      /\ Tail(records[id]) \in Seq(GroupMessageRecord)
      /\ \A bound : UpTo(records[id], bound) => UpTo(Tail(records[id]), bound)
  BY <1>1, TailVectors
<1>4. \A g \in GroupIds(request[id]) :
        Covers(records[id], g, sub.cursors_by_group[g], snapshot[id][g])
          => Covers(Tail(records[id]), g, subscribers'[id].cursors_by_group[g], snapshot[id][g])
  BY <1>1, <1>2, CoversEmit
<1>5. /\ subscribers'[id].buffering = sub.buffering
      /\ \A g \in Groups : /\ sub.cursors_by_group[g] <= subscribers'[id].cursors_by_group[g]
                           /\ sub.cursors_by_group[g] \in Nat
                           /\ subscribers'[id].cursors_by_group[g] \in Nat
  <2> HIDE DEF sub, rec
  <2>1. \A s \in Subscriber : s.cursors_by_group \in [Groups -> Nat]
    BY DEF Subscriber
  <2>2. /\ Noted(sub, rec) \in Subscriber /\ Noted(sub, rec).buffering = sub.buffering
        /\ \A g \in Groups : sub.cursors_by_group[g] <= Noted(sub, rec).cursors_by_group[g]
    BY <1>1, <1>3, NotedProperties
  <2> QED  BY <1>1, <1>2, <2>1, <2>2
<1> HIDE DEF sub, rec
<1>6. BufferingAt(id)'
  BY <1>1, <1>2, <1>5 DEF BufferingAt, sub
<1>7. CASE pc[id] = "replay"
  <2>1. UpTo(records[id], snapshot[id]) /\ UpTo(channel[id], snapshot[id])
    BY <1>7 DEF ReplayAt
  <2>2. rec.cursor <= snapshot[id][rec.group_id]
    BY <1>3, <2>1 DEF UpTo
  <2>3. UpTo(channel'[id], snapshot[id])
    BY <1>1, <1>2, <1>3, <2>1, <2>2, AppendVectors DEF Emitted
  <2>4. \A g \in GroupIds(request[id]) :
          Covers(records[id], g, sub.cursors_by_group[g], snapshot[id][g])
    BY <1>7 DEF ReplayAt, sub
  <2> QED  BY <1>2, <1>3, <1>4, <1>6, <1>7, <2>1, <2>3, <2>4 DEF ReplayAt
<1>8. CASE pc[id] = "flush"
  <2>1. Merged(id) => \A g \in GroupIds(request[id]) : snapshot[id][g] <= sub.cursors_by_group[g]
    BY <1>8 DEF ReplayAt, sub
  <2>2. Merged(id) => \A g \in GroupIds(request[id]) : snapshot[id][g] <= subscribers'[id].cursors_by_group[g]
    BY <1>1, <1>5, <2>1
  <2> QED  BY <1>2, <1>6, <1>8, <2>2 DEF ReplayAt, Merged
<1> QED  BY <1>1, <1>7, <1>8

(* The other steps of a call or a handle. *)
LEMMA OwnStep ==
    ASSUME DeliveryInv, LocksInv, NEW id \in Ids, StepOf(id),
           id \in DOMAIN subscribers => BufferingAt(id) /\ ReplayAt(id),
           id \in DOMAIN subscribers'
    PROVE  BufferingAt(id)' /\ ReplayAt(id)'
<1>0. TypeOK /\ CallsInv /\ RegistryConsistent
  BY DEF DeliveryInv
<1>t. /\ pc \in [Ids -> {"none", "fetch", "fetched", "failed", "error", "replay",
                         "flush", "live", "closed", "dropped", "ended"}]
      /\ DOMAIN request = Ids /\ DOMAIN records = Ids /\ DOMAIN subscribers \subseteq Ids
  BY <1>0 DEF TypeOK
<1>o. Open(id) => id \in DOMAIN subscribers
  BY <1>0 DEF RegistryConsistent
(* A fresh id. *)
<1>n. id = next_id =>
        pc[id] = "none" /\ entry[id] = 0 /\ records[id] = <<>> /\ channel[id] = <<>>
  BY <1>0 DEF CallsInv, Ids
<1>1. CASE id = next_id /\ \E g \in LiveTailGroups : SubscribeLiveTail(g)
  <2>1. /\ pc'[id] = "live" /\ entry'[id] = 0 /\ ~ subscribers'[id].buffering
    BY <1>1, <1>n, <1>t DEF SubscribeLiveTail, Register
  <2> QED  BY <2>1 DEF BufferingAt, ReplayAt, Merged
<1>2. CASE id = next_id /\ \E req \in Requests : SubscribeMany(req)
  <2>1. PICK req \in Requests : SubscribeMany(req)
    BY <1>2
  <2>2. /\ pc'[id] = "fetch" /\ entry'[id] = 0 /\ subscribers'[id].buffering
        /\ request'[id] = req /\ channel'[id] = <<>> /\ records'[id] = <<>>
        /\ subscribers'[id].cursors_by_group = Cursors(req)
    BY <1>2, <1>n, <1>t, <2>1 DEF SubscribeMany, Register
  <2> QED  BY <2>2 DEF BufferingAt, ReplayAt, Merged, UpTo
<1>3. CASE FetchEntry(id)
  BY <1>3, <1>o, FetchStep DEF FetchEntry, Open
<1>4. CASE FetchFails(id)
  <2>1. /\ pc[id] = "fetch" /\ pc'[id] = "failed" /\ id \in DOMAIN subscribers
        /\ UNCHANGED <<subscribers, request, channel>>
    BY <1>4, <1>o, <1>t DEF FetchFails, Open, registry
  <2> QED  BY <2>1 DEF BufferingAt, ReplayAt
<1>5. CASE UnregisterFailed(id) \/ Unsubscribe(id)
  <2>1. Open(id) /\ RemoveSubscriber(id, GroupIds(request[id]))
    BY <1>5 DEF UnregisterFailed, Unsubscribe, Open
  <2>2. refcounts[id] = Cardinality(GroupIds(request[id])) /\ refcounts[id] \in Nat
    BY <1>0, <2>1 DEF RegistryConsistent, TypeOK
  <2>3. id \notin DOMAIN subscribers'
    BY <2>1, <2>2 DEF RemoveSubscriber
  <2> QED  BY <2>3
<1>6. CASE LockForReplay(id)
  <2>1. /\ pc[id] = "fetched" /\ pc'[id] = "replay" /\ id \in DOMAIN subscribers
        /\ UNCHANGED <<subscribers, request, channel, records, snapshot, entry>>
    BY <1>6, <1>o, <1>t DEF LockForReplay, Open, registry
  <2>2. channel[id] = <<>>
    BY <2>1 DEF BufferingAt
  <2>3. BufferingAt(id)'
    BY <2>1 DEF BufferingAt
  <2>4. ReplayAt(id)'
    BY <2>1, <2>2 DEF ReplayAt, UpTo
  <2> QED  BY <2>3, <2>4
<1>7. CASE EmitNext(id)
  BY <1>7, <1>o, EmitStep DEF EmitNext, Open
(* All of the backlog was sent: the cursors have passed the snapshot. *)
<1>8. CASE FinishBuffering(id)
  <2>1. /\ pc[id] = "replay" /\ pc'[id] = "flush" /\ id \in DOMAIN subscribers
        /\ UNCHANGED <<request, channel, snapshot, entry>> /\ records[id] = <<>>
        /\ subscribers'[id] = [subscribers[id] EXCEPT !.buffering = FALSE, !.buffer = <<>>]
    BY <1>8, <1>o, <1>t DEF FinishBuffering, Open
  <2>2. subscribers[id] \in Subscriber /\ snapshot[id] \in [Groups -> Nat]
        /\ GroupIds(request[id]) \subseteq Groups
    BY <1>0, <2>1, CursorsType DEF TypeOK
  <2>3. /\ ~ subscribers'[id].buffering
        /\ subscribers'[id].cursors_by_group = subscribers[id].cursors_by_group
        /\ subscribers[id].cursors_by_group \in [Groups -> Nat]
    BY <2>1, <2>2 DEF Subscriber
  <2>4. ASSUME NEW g \in GroupIds(request[id])
        PROVE  snapshot[id][g] <= subscribers[id].cursors_by_group[g]
    <3>1. Covers(<<>>, g, subscribers[id].cursors_by_group[g], snapshot[id][g])
      BY <2>1 DEF ReplayAt
    <3>2. (subscribers[id].cursors_by_group[g] + 1) .. snapshot[id][g] = {}
      BY <3>1 DEF Covers
    <3>3. subscribers[id].cursors_by_group[g] \in Nat /\ snapshot[id][g] \in Nat
      BY <2>2, <2>3
    <3>4. \A a, b \in Nat : (a + 1) .. b = {} => b <= a
      <4> SUFFICES ASSUME NEW a \in Nat, NEW b \in Nat, ~ (b <= a)
                   PROVE  (a + 1) .. b # {}
        OBVIOUS
      <4>1. b \in (a + 1) .. b
        OBVIOUS
      <4> QED  BY <4>1
    <3> QED  BY <3>2, <3>3, <3>4
  <2> QED  BY <2>1, <2>3, <2>4 DEF BufferingAt, ReplayAt
<1>9. CASE ReturnHandle(id)
  <2>1. /\ pc[id] = "flush" /\ pc'[id] = "live" /\ id \in DOMAIN subscribers
        /\ UNCHANGED <<subscribers, request, channel, snapshot, entry>>
    BY <1>9, <1>o, <1>t DEF ReturnHandle, Open, registry
  <2> QED  BY <2>1 DEF BufferingAt, ReplayAt, Merged
<1>10. CASE Recv(id)
  <2>1. UNCHANGED <<pc, subscribers, request, channel, snapshot, entry, records>>
    BY <1>10 DEF Recv, registry, call
  <2> QED  BY <2>1 DEF BufferingAt, ReplayAt, Merged
<1>11. CASE RecvNone(id)
  BY <1>11 DEF RecvNone, registry
<1> QED
  BY <1>1, <1>2, <1>3, <1>4, <1>5, <1>6, <1>7, <1>8, <1>9, <1>10, <1>11
     DEF StepOf, SubscribeStep

(* Every step keeps, of every registered subscription, what is known of    *)
(* its backlog.                                                            *)
LEMMA ReplayStep ==
    ASSUME DeliveryInv, LocksInv, Next,
           \A id \in DOMAIN subscribers : BufferingAt(id) /\ ReplayAt(id)
    PROVE  \A id \in DOMAIN subscribers' : (BufferingAt(id) /\ ReplayAt(id))'
<1>0. DOMAIN subscribers \subseteq Ids /\ DOMAIN subscribers' \subseteq Ids
  <2>1. TypeOK /\ TypeOK'
    BY TypeStep DEF DeliveryInv
  <2> QED  BY <2>1 DEF TypeOK
<1> SUFFICES ASSUME NEW id \in DOMAIN subscribers'
             PROVE  BufferingAt(id)' /\ ReplayAt(id)'
  OBVIOUS
<1>s. Same(id) => BufferingAt(id)' /\ ReplayAt(id)'
  BY SameKeeps DEF Same
<1>1. ASSUME NEW p \in Posters, NEW g \in Groups, NEW m \in Messages, PostAppend(p, g, m)
      PROVE  Same(id)
  BY <1>1 DEF PostAppend, Same, registry, call
<1>2. ASSUME NEW p \in Posters, PostPublish(p)
      PROVE  BufferingAt(id)' /\ ReplayAt(id)'
  <2>1. registry_lock = Free
    BY <1>2 DEF PostPublish
  <2>2. /\ UNCHANGED <<log, pc, request, entry, records, snapshot>>
        /\ posting[p] \in GroupMessageRecord
        /\ \/ Same(id)
           \/ /\ id \in DOMAIN subscribers
              /\ channel'[id] = Pushed(subscribers[id], channel[id], posting[p])
              /\ subscribers'[id] = Push(subscribers[id], posting[p])
    BY <1>0, <1>2, PublishEffect
  <2> QED  BY <1>s, <2>1, <2>2, PushStep
<1>3. ASSUME NEW i \in Ids, StepOf(i)
      PROVE  BufferingAt(id)' /\ ReplayAt(id)'
  <2>1. CASE i = id
    BY <1>0, <1>3, <2>1, OwnStep
  <2>2. CASE i # id
    <3>1. Same(id)
      BY <1>0, <1>3, <2>2, OthersSame
    <3> QED  BY <1>s, <3>1
  <2> QED  BY <2>1, <2>2
<1> QED  BY <1>1, <1>2, <1>3, <1>s, NextCases

-----------------------------------------------------------------------------
(* A record sent while nothing live was sent yet, or itself live. *)
LEMMA BacklogFirstAppend ==
    ASSUME NEW seq \in Seq(GroupMessageRecord), NEW rec \in GroupMessageRecord,
           NEW snap \in [Groups -> Nat], BacklogFirst(seq, snap),
           UpTo(seq, snap) \/ rec.cursor > snap[rec.group_id]
    PROVE  BacklogFirst(Append(seq, rec), snap)
<1> DEFINE u == Append(seq, rec)
<1>1. /\ DOMAIN u = 1 .. (Len(seq) + 1) /\ DOMAIN seq = 1 .. Len(seq) /\ Len(seq) \in Nat
      /\ \A i \in 1 .. Len(seq) : u[i] = seq[i]
      /\ u[Len(seq) + 1] = rec
  BY AppendVectors
<1> HIDE DEF u
<1> SUFFICES ASSUME NEW i \in DOMAIN u, NEW j \in DOMAIN u, i < j,
                    u[i].cursor > snap[u[i].group_id]
             PROVE  u[j].cursor > snap[u[j].group_id]
  BY DEF BacklogFirst, u
<1>2. i \in DOMAIN seq /\ u[i] = seq[i]
  BY <1>1
<1>3. CASE j \in DOMAIN seq
  BY <1>1, <1>2, <1>3 DEF BacklogFirst
<1>4. CASE j \notin DOMAIN seq
  <2>1. u[j] = rec
    BY <1>1, <1>4
  <2>2. ~ UpTo(seq, snap)
    <3>1. seq[i].cursor \in Nat /\ snap[seq[i].group_id] \in Nat
      BY <1>2, RecordsOfSeq
    <3> QED  BY <1>2, <3>1 DEF UpTo
  <2> QED  BY <2>1, <2>2
<1> QED  BY <1>3, <1>4

(* emit_if_new to a subscription: in the replay a record of the backlog,   *)
(* afterwards one beyond the cursors and so beyond the snapshot.           *)
LEMMA EmitBacklogFirst ==
    ASSUME DeliveryInv, NEW id \in DOMAIN subscribers, Merged(id),
           ReplayAt(id), BacklogFirst(channel[id], snapshot[id]),
           NEW rec \in GroupMessageRecord, rec.group_id \in GroupIds(request[id]),
           pc[id] \in {"replay", "flush", "live"}
    PROVE  BacklogFirst(Emitted(subscribers[id], channel[id], rec), snapshot[id])
<1>0. /\ subscribers[id] \in Subscriber /\ subscribers[id].dedup /\ id \in Ids
      /\ channel[id] \in Seq(GroupMessageRecord) /\ snapshot[id] \in [Groups -> Nat]
  BY DEF DeliveryInv, TypeOK, CursorInv
<1>1. CASE ~ IsNew(subscribers[id], rec)
  BY <1>1 DEF Emitted
<1>2. CASE IsNew(subscribers[id], rec)
  <2>1. Emitted(subscribers[id], channel[id], rec) = Append(channel[id], rec)
    BY <1>2 DEF Emitted
  <2>2. UpTo(channel[id], snapshot[id]) \/ rec.cursor > snapshot[id][rec.group_id]
    <3>1. CASE pc[id] = "replay"
      BY <3>1 DEF ReplayAt
    <3>2. CASE pc[id] # "replay"
      <4>1. snapshot[id][rec.group_id] <= subscribers[id].cursors_by_group[rec.group_id]
        BY <3>2 DEF ReplayAt
      <4>2. rec.cursor > subscribers[id].cursors_by_group[rec.group_id] /\ rec.cursor \in Nat
            /\ rec.group_id \in Groups
        BY <1>0, <1>2, NotedCursors
      <4>3. subscribers[id].cursors_by_group[rec.group_id] \in Nat
            /\ snapshot[id][rec.group_id] \in Nat
        BY <1>0, <4>2 DEF Subscriber
      <4> QED  BY <4>1, <4>2, <4>3
    <3> QED  BY <3>1, <3>2
  <2> QED  BY <1>0, <2>1, <2>2, BacklogFirstAppend
<1> QED  BY <1>1, <1>2

(* No step sends a message of the backlog after a live one. *)
LEMMA BeforeLiveStep == DeliveryInv /\ BacklogInv /\ Next => BacklogBeforeLive'
<1> SUFFICES ASSUME DeliveryInv, BacklogInv, Next, NEW id \in Ids, Merged(id)'
             PROVE  BacklogFirst(channel'[id], snapshot'[id])
  BY DEF BacklogBeforeLive, BacklogFirst
<1>0. TypeOK /\ RegistryConsistent /\ CallsInv
  BY DEF DeliveryInv
<1>1. Merged(id) => BacklogFirst(channel[id], snapshot[id])
  BY DEF BacklogInv, BacklogBeforeLive, BacklogFirst
<1>s. UNCHANGED <<channel[id], snapshot[id], entry[id]>> => BacklogFirst(channel'[id], snapshot'[id])
  BY <1>1 DEF Merged
<1>2. ASSUME NEW p \in Posters, NEW g \in Groups, NEW m \in Messages, PostAppend(p, g, m)
      PROVE  BacklogFirst(channel'[id], snapshot'[id])
  BY <1>2, <1>s DEF PostAppend, call
<1>3. ASSUME NEW p \in Posters, PostPublish(p)
      PROVE  BacklogFirst(channel'[id], snapshot'[id])
  <2> DEFINE rec == posting[p]
  <2>1. /\ UNCHANGED <<log, pc, request, entry, records, snapshot>>
        /\ rec \in GroupMessageRecord
        /\ \/ Same(id)
           \/ /\ id \in DOMAIN subscribers /\ rec.group_id \in GroupIds(request[id])
              /\ channel'[id] = Pushed(subscribers[id], channel[id], rec)
    BY <1>3, PublishEffect
  <2> HIDE DEF rec
  <2>2. CASE Same(id)
    BY <1>s, <2>2 DEF Same
  <2>3. CASE /\ id \in DOMAIN subscribers /\ rec.group_id \in GroupIds(request[id])
             /\ channel'[id] = Pushed(subscribers[id], channel[id], rec)
    <3>1. CASE subscribers[id].buffering
      BY <1>s, <2>1, <2>3, <3>1 DEF Pushed
    <3>2. CASE ~ subscribers[id].buffering
      <4>1. BufferingAt(id) /\ ReplayAt(id) /\ Open(id)
        BY <1>0, <2>3 DEF BacklogInv, RegistryConsistent
      <4>2. pc[id] \in {"flush", "live"}
        BY <3>2, <4>1 DEF BufferingAt, Open
      <4>3. Merged(id) /\ BacklogFirst(channel[id], snapshot[id])
        BY <1>1, <2>1 DEF Merged
      <4>4. channel'[id] = Emitted(subscribers[id], channel[id], rec)
        BY <2>3, <3>2 DEF Pushed
      <4> QED  BY <2>1, <2>3, <4>1, <4>2, <4>3, <4>4, EmitBacklogFirst
    <3> QED  BY <3>1, <3>2
  <2> QED  BY <2>1, <2>2, <2>3
<1>4. ASSUME NEW i \in Ids, StepOf(i)
      PROVE  BacklogFirst(channel'[id], snapshot'[id])
  <2>1. CASE i # id
    <3>1. Same(id)
      BY <1>4, <2>1, OthersSame
    <3> QED  BY <1>s, <3>1 DEF Same
  <2>2. CASE i = id /\ FetchEntry(id)
    <3>1. id \in DOMAIN subscribers /\ pc[id] = "fetch" /\ UNCHANGED channel
      BY <1>0, <2>2 DEF FetchEntry, RegistryConsistent, Open
    <3>2. channel'[id] = <<>>
      BY <3>1 DEF BacklogInv, BufferingAt
    <3> QED  BY <3>2 DEF BacklogFirst
  <2>3. CASE i = id /\ EmitNext(id)
    <3>1. id \in DOMAIN subscribers /\ pc[id] \in {"replay", "flush"} /\ records[id] # <<>>
          /\ UNCHANGED <<snapshot, entry>> /\ records[id] \in Seq(GroupMessageRecord)
          /\ channel'[id] = Emitted(subscribers[id], channel[id], Head(records[id]))
      BY <1>0, <2>3 DEF EmitNext, RegistryConsistent, Open, TypeOK
    <3>2. /\ Head(records[id]) \in GroupMessageRecord
          /\ Head(records[id]).group_id \in GroupIds(request[id])
      <4>1. Stored(log, GroupIds(request[id]), records[id])
        BY DEF DeliveryInv, InFlightInv
      <4> QED  BY <3>1, <4>1, TailVectors DEF Stored
    <3>3. Merged(id) /\ BacklogFirst(channel[id], snapshot[id]) /\ ReplayAt(id)
      BY <1>1, <3>1 DEF Merged, BacklogInv
    <3> QED  BY <3>1, <3>2, <3>3, EmitBacklogFirst
  <2>4. CASE i = id /\ ~ FetchEntry(id) /\ ~ EmitNext(id)
    BY <1>4, <1>s, <2>4 DEF StepOf, SubscribeStep, SubscribeLiveTail, SubscribeMany,
         FetchFails, UnregisterFailed, LockForReplay, FinishBuffering, ReturnHandle,
         Recv, RecvNone, Unsubscribe, call
  <2> QED  BY <2>1, <2>2, <2>3, <2>4
<1> QED  BY <1>2, <1>3, <1>4, NextCases

(* Init satisfies the invariant, and so does a step that changes nothing. *)
LEMMA InitBacklog == Init => BacklogInv
<1> SUFFICES ASSUME Init PROVE BacklogInv
  OBVIOUS
<1>1. LocksInv
  BY DEF Init, LocksInv, Merged, Ids, Free
<1>2. BacklogBeforeLive /\ \A id \in DOMAIN subscribers : BufferingAt(id) /\ ReplayAt(id)
  BY DEF Init, BacklogBeforeLive
<1> QED  BY <1>1, <1>2 DEF BacklogInv

(* Nothing changes, and the invariant stays. *)
LEMMA BacklogStutter == BacklogInv /\ UNCHANGED vars => BacklogInv'
<1> SUFFICES ASSUME BacklogInv, UNCHANGED vars PROVE BacklogInv'
  OBVIOUS
<1>1. LocksInv'
  BY DEF BacklogInv, LocksInv, Merged, vars, call
<1>2. BacklogBeforeLive'
  BY DEF BacklogInv, BacklogBeforeLive, Merged, vars, call
<1>3. \A id \in DOMAIN subscribers' : (BufferingAt(id) /\ ReplayAt(id))'
  BY DEF BacklogInv, BufferingAt, ReplayAt, Merged, vars, call, registry
<1> QED  BY <1>1, <1>2, <1>3 DEF BacklogInv

(* Every reachable state satisfies BacklogInv: the mutexes are held where  *)
(* the code holds them, and what the snapshot of the logs holds beyond a   *)
(* subscriber's cursors is in its backlog vector until it was sent.        *)
THEOREM BacklogInvariant == Spec => [](DeliveryInv /\ BacklogInv)
<1>1. Init => BacklogInv
  BY InitBacklog
<1>2. DeliveryInv /\ BacklogInv /\ [Next]_vars => BacklogInv'
  <2>1. ASSUME DeliveryInv, BacklogInv, Next PROVE BacklogInv'
    <3>1. LocksInv' /\ BacklogBeforeLive'
      BY <2>1, LocksStep, BeforeLiveStep DEF BacklogInv
    <3>2. \A id \in DOMAIN subscribers' : (BufferingAt(id) /\ ReplayAt(id))'
      BY <2>1, ReplayStep DEF BacklogInv
    <3> QED  BY <3>1, <3>2 DEF BacklogInv
  <2> QED  BY <2>1, BacklogStutter
<1> QED  BY <1>1, <1>2, DeliveryInvariant, PTL DEF Spec

(* Order is always backlog-then-live, for any number of posters, groups    *)
(* and subscriptions: nothing posted after the backlog was read is sent    *)
(* before a message of the backlog, in whatever group.                     *)
THEOREM BacklogComesFirst == Spec => []BacklogBeforeLive
<1>1. BacklogInv => BacklogBeforeLive
  BY DEF BacklogInv
<1> QED  BY <1>1, BacklogInvariant, PTL

-----------------------------------------------------------------------------
(***************************************************************************)
(* With one writer per group and requests that name a group once, a merged *)
(* subscription is sent the log of each of its groups without a gap, and   *)
(* nothing that was fanned out is missing; without live tails the          *)
(* specification implements MergedStream.  Both hypotheses are needed: two *)
(* writers of a group may fan out in the order opposite to their appends   *)
(* (MCGroupDelivery_lost).                                                 *)
(***************************************************************************)

(* No two threads post to the same group. *)
OneWriterPerGroup ==
    \A p, q \in Posters : \A g \in Groups :
        <<p, g>> \in MayPost /\ <<q, g>> \in MayPost => p = q

(* No two items of a request are about one group. *)
NamedOnce(req) == \A i, j \in DOMAIN req : req[i].group_id = req[j].group_id => i = j

(* A repeated group would be replayed from two cursors, and the lower one  *)
(* may come second: what lies between them is then skipped as already seen. *)
GroupsNamedOnce == \A req \in Requests : NamedOnce(req)

(* The cursor of the last message of a group that was fanned out. *)
Announced ==
    [g \in Groups |->
        IF \E p \in Posters : posting[p] # NoRecord /\ posting[p].group_id = g
        THEN Len(log[g]) - 1 ELSE Len(log[g])]

(* What a poster has yet to fan out is the last message of its group. *)
PostingInv ==
    \A p \in Posters : posting[p] # NoRecord =>
        /\ <<p, posting[p].group_id>> \in MayPost
        /\ posting[p].cursor = Len(log[posting[p].group_id])

(* The vectors of a call hold each group in the order of its log. *)
RecordsAt(id) ==
    /\ NamedOnce(request[id])
    /\ Ordered(records[id])
    /\ pc[id] = "fetch" => \A i \in DOMAIN records[id] :
         \E k \in 1 .. entry[id] : records[id][i].group_id = request[id][k].group_id

(* What live fan-out put into the buffer was announced. *)
BufferAt(id) ==
    /\ Ordered(subscribers[id].buffer)
    /\ UpTo(subscribers[id].buffer, Announced)
    /\ pc[id] = "flush" => UpTo(records[id], Announced)

(* Where the announced messages beyond the snapshot, or beyond the cursors, *)
(* are.                                                                     *)
LiveAt(id) ==
    LET sub == subscribers[id] IN
    /\ sub.dedup /\ pc[id] = "live" => Merged(id)
    /\ Merged(id) => \A g \in GroupIds(request[id]) :
         /\ pc[id] \in {"fetch", "fetched", "replay"} =>
              Covers(sub.buffer, g, snapshot[id][g], Announced[g])
         /\ pc[id] = "flush" =>
              Covers(records[id], g, sub.cursors_by_group[g], Announced[g])
         /\ pc[id] = "live" => Announced[g] <= sub.cursors_by_group[g]

(* The positions of a stream that hold a record of the group. *)
Sent(seq, g) == {i \in DOMAIN seq : seq[i].group_id = g}

(* The subscriber's cursor is the requested one plus the records sent, and *)
(* each cursor between the two was sent.                                   *)
Counted(sub, req, sent) ==
    \A g \in Groups :
        /\ sub.cursors_by_group[g] = Cursors(req)[g] + Cardinality(Sent(sent, g))
        /\ Covers(sent, g, Cursors(req)[g], sub.cursors_by_group[g])

(* The n-th record of a group is n cursors past the requested one. *)
GapFree(req, sent) ==
    \A i \in DOMAIN sent :
        LET g == sent[i].group_id IN
        sent[i].cursor = Cursors(req)[g] + Cardinality({k \in 1 .. i : sent[k].group_id = g})

(* The cursors of a subscriber count what it was sent. *)
CountAt(id) ==
    subscribers[id].dedup =>
        /\ Counted(subscribers[id], request[id], channel[id])
        /\ GapFree(request[id], channel[id])

(* The inductive invariant for one writer per group. *)
WriterInv ==
    /\ PostingInv
    /\ \A id \in Ids : RecordsAt(id)
    /\ \A id \in DOMAIN subscribers : BufferAt(id) /\ LiveAt(id) /\ CountAt(id)
    /\ LiveTailGroups = {} => \A id \in DOMAIN subscribers : subscribers[id].dedup
    /\ StreamGapFree

-----------------------------------------------------------------------------
(* What the posters have announced. *)
LEMMA AnnouncedType ==
    ASSUME TypeOK
    PROVE  /\ Announced \in [Groups -> Int]
           /\ \A g \in Groups : Len(log[g]) \in Nat /\ Announced[g] <= Len(log[g])
<1>1. \A g \in Groups : Len(log[g]) \in Nat
  BY LenProperties DEF TypeOK
<1> QED  BY <1>1 DEF Announced

(* An append announces nothing: its group had no post under way. *)
LEMMA AppendAnnounces ==
    ASSUME DeliveryInv, PostingInv, OneWriterPerGroup,
           NEW p \in Posters, NEW g \in Groups, NEW m \in Messages, PostAppend(p, g, m)
    PROVE  Announced' = Announced /\ PostingInv'
<1>0. TypeOK
  BY DEF DeliveryInv
<1>1. /\ posting[p] = NoRecord /\ <<p, g>> \in MayPost
      /\ log' = [log EXCEPT ![g] = Append(@, m)]
      /\ posting' = [posting EXCEPT ![p] =
                       [group_id |-> g, cursor |-> Len(log[g]) + 1, opaque_message |-> m]]
  BY DEF PostAppend
<1>2. \A q \in Posters : posting[q] # NoRecord => posting[q].group_id # g
  BY <1>1 DEF PostingInv, OneWriterPerGroup
<1>3. /\ log[g] \in Seq(Messages) /\ Len(log[g]) \in Nat
      /\ log'[g] = Append(log[g], m) /\ \A h \in Groups \ {g} : log'[h] = log[h]
  BY <1>0, <1>1, LenProperties DEF TypeOK
<1>4. Len(log'[g]) = Len(log[g]) + 1
  BY <1>3, AppendProperties
<1>5. /\ posting'[p].group_id = g /\ posting'[p].cursor = Len(log[g]) + 1
      /\ posting'[p] # NoRecord
      /\ \A q \in Posters \ {p} : posting'[q] = posting[q]
  <2>1. /\ posting'[p] = [group_id |-> g, cursor |-> Len(log[g]) + 1, opaque_message |-> m]
        /\ \A q \in Posters \ {p} : posting'[q] = posting[q]
    BY <1>0, <1>1 DEF TypeOK
  <2>2. posting'[p].cursor # NoRecord.cursor
    BY <1>3, <2>1 DEF NoRecord
  <2> QED  BY <2>1, <2>2
<1>6. PostingInv'
  <2> SUFFICES ASSUME NEW q \in Posters, posting'[q] # NoRecord
               PROVE  /\ <<q, posting'[q].group_id>> \in MayPost
                      /\ posting'[q].cursor = Len(log'[posting'[q].group_id])
    BY DEF PostingInv
  <2>1. CASE q = p
    BY <1>1, <1>4, <1>5, <2>1
  <2>2. CASE q # p
    <3>1. posting'[q] = posting[q] /\ posting[q] # NoRecord
      BY <1>5, <2>2
    <3>2. posting[q].group_id \in Groups \ {g}
      BY <1>0, <1>2, <3>1 DEF TypeOK, GroupMessageRecord
    <3> QED  BY <1>3, <3>1, <3>2 DEF PostingInv
  <2> QED  BY <2>1, <2>2
<1>7. ASSUME NEW h \in Groups PROVE Announced'[h] = Announced[h]
  <2>1. CASE h = g
    BY <1>2, <1>3, <1>4, <1>5, <2>1 DEF Announced
  <2>2. CASE h # g
    <3>1. \A q \in Posters : posting'[q] # NoRecord /\ posting'[q].group_id = h
                               <=> posting[q] # NoRecord /\ posting[q].group_id = h
      BY <1>1, <1>5, <2>2
    <3> QED  BY <1>3, <2>2, <3>1 DEF Announced
  <2> QED  BY <2>1, <2>2
<1> QED  BY <1>6, <1>7 DEF Announced

(* A fan-out announces the next message of its group and no other. *)
LEMMA PublishAnnounces ==
    ASSUME DeliveryInv, PostingInv, OneWriterPerGroup, NEW p \in Posters, PostPublish(p)
    PROVE  /\ Announced[posting[p].group_id] = posting[p].cursor - 1
           /\ Announced'[posting[p].group_id] = posting[p].cursor
           /\ \A h \in Groups : h # posting[p].group_id => Announced'[h] = Announced[h]
           /\ PostingInv'
<1> DEFINE g == posting[p].group_id
<1>0. TypeOK
  BY DEF DeliveryInv
<1>1. /\ log' = log /\ posting[p] # NoRecord /\ posting'[p] = NoRecord
      /\ \A q \in Posters \ {p} : posting'[q] = posting[q]
  BY <1>0 DEF PostPublish, TypeOK
<1>2. posting[p] \in GroupMessageRecord /\ g \in Groups
  BY <1>0, <1>1 DEF TypeOK, GroupMessageRecord
<1>3. posting[p].cursor = Len(log[g]) /\ <<p, g>> \in MayPost
  BY <1>1 DEF PostingInv
<1>4. \A q \in Posters \ {p} : posting[q] # NoRecord => posting[q].group_id # g
  BY <1>2, <1>3 DEF PostingInv, OneWriterPerGroup
<1>5. PostingInv'
  BY <1>1 DEF PostingInv
<1>6. Announced[g] = Len(log[g]) - 1
  BY <1>1, <1>2 DEF Announced
<1>7. Announced'[g] = Len(log[g])
  <2>1. \A q \in Posters : ~ (posting'[q] # NoRecord /\ posting'[q].group_id = g)
    BY <1>1, <1>4
  <2> QED  BY <1>1, <1>2, <2>1 DEF Announced
<1>8. ASSUME NEW h \in Groups, h # g PROVE Announced'[h] = Announced[h]
  <2>1. \A q \in Posters : posting'[q] # NoRecord /\ posting'[q].group_id = h
                             <=> posting[q] # NoRecord /\ posting[q].group_id = h
    BY <1>1, <1>8
  <2> QED  BY <1>1, <2>1 DEF Announced
<1> QED  BY <1>3, <1>5, <1>6, <1>7, <1>8

-----------------------------------------------------------------------------
(* Streams and vectors, one record longer. *)
LEMMA SentAppend ==
    ASSUME NEW seq \in Seq(GroupMessageRecord), NEW rec \in GroupMessageRecord, NEW g \in Groups
    PROVE  /\ Cardinality(Sent(seq, g)) \in Nat
           /\ Cardinality(Sent(Append(seq, rec), g)) =
                IF g = rec.group_id THEN Cardinality(Sent(seq, g)) + 1
                ELSE Cardinality(Sent(seq, g))
<1> DEFINE u == Append(seq, rec)
<1>1. /\ DOMAIN u = 1 .. (Len(seq) + 1) /\ DOMAIN seq = 1 .. Len(seq) /\ Len(seq) \in Nat
      /\ \A i \in 1 .. Len(seq) : u[i] = seq[i]
      /\ u[Len(seq) + 1] = rec
  BY AppendVectors
<1> HIDE DEF u
<1>2. IsFiniteSet(Sent(seq, g))
  <2>1. IsFiniteSet(1 .. Len(seq))
    BY <1>1, FS_Interval
  <2> QED  BY <1>1, <2>1, FS_Subset DEF Sent
<1>3. Cardinality(Sent(seq, g)) \in Nat
  BY <1>2, FS_CardinalityType
<1>4. Len(seq) + 1 \notin Sent(seq, g)
  BY <1>1 DEF Sent
<1>5. CASE g = rec.group_id
  <2>1. Sent(u, g) = Sent(seq, g) \cup {Len(seq) + 1}
    BY <1>1, <1>5 DEF Sent
  <2>2. Cardinality(Sent(seq, g) \cup {Len(seq) + 1}) = Cardinality(Sent(seq, g)) + 1
    BY <1>2, <1>4, FS_AddElement
  <2> QED  BY <1>3, <1>5, <2>1, <2>2 DEF u
<1>6. CASE g # rec.group_id
  <2>1. Sent(u, g) = Sent(seq, g)
    BY <1>1, <1>6 DEF Sent
  <2> QED  BY <1>3, <1>6, <2>1 DEF u
<1> QED  BY <1>5, <1>6

(* A record past all others of its group keeps a vector in order. *)
LEMMA OrderedAppend ==
    ASSUME NEW seq \in Seq(GroupMessageRecord), NEW rec \in GroupMessageRecord,
           Ordered(seq),
           \A i \in DOMAIN seq : seq[i].group_id = rec.group_id => seq[i].cursor < rec.cursor
    PROVE  Ordered(Append(seq, rec))
<1> DEFINE u == Append(seq, rec)
<1>1. /\ DOMAIN u = 1 .. (Len(seq) + 1) /\ DOMAIN seq = 1 .. Len(seq) /\ Len(seq) \in Nat
      /\ \A i \in 1 .. Len(seq) : u[i] = seq[i]
      /\ u[Len(seq) + 1] = rec
  BY AppendVectors
<1> HIDE DEF u
<1> SUFFICES ASSUME NEW i \in DOMAIN u, NEW j \in DOMAIN u, i < j, u[i].group_id = u[j].group_id
             PROVE  u[i].cursor < u[j].cursor
  BY DEF Ordered, u
<1>2. i \in DOMAIN seq /\ u[i] = seq[i]
  BY <1>1
<1>3. CASE j \in DOMAIN seq
  BY <1>1, <1>2, <1>3 DEF Ordered
<1>4. CASE j \notin DOMAIN seq
  <2>1. u[j] = rec
    BY <1>1, <1>4
  <2> QED  BY <1>2, <2>1
<1> QED  BY <1>3, <1>4

(* One more message covered. *)
LEMMA CoversAppend ==
    ASSUME NEW seq \in Seq(GroupMessageRecord), NEW rec \in GroupMessageRecord,
           NEW lo \in Int, NEW hi \in Int, rec.cursor = hi + 1,
           Covers(seq, rec.group_id, lo, hi)
    PROVE  Covers(Append(seq, rec), rec.group_id, lo, hi + 1)
<1> DEFINE u == Append(seq, rec)
<1>1. /\ DOMAIN u = 1 .. (Len(seq) + 1) /\ Len(seq) \in Nat
      /\ u[Len(seq) + 1] = rec
      /\ Covers(u, rec.group_id, lo, hi)
  BY AppendVectors
<1> HIDE DEF u
<1> SUFFICES ASSUME NEW c \in (lo + 1) .. (hi + 1)
             PROVE  \E i \in DOMAIN u : u[i].group_id = rec.group_id /\ u[i].cursor = c
  BY DEF Covers, u
<1>2. CASE c = hi + 1
  <2>1. Len(seq) + 1 \in DOMAIN u
    BY <1>1
  <2> QED  BY <1>1, <1>2, <2>1
<1>3. CASE c # hi + 1
  <2>1. c \in (lo + 1) .. hi
    BY <1>3
  <2> QED  BY <1>1, <2>1 DEF Covers
<1> QED  BY <1>2, <1>3

(* The first new record of a vector that is in order and covers what comes *)
(* after the cursors is the next one of its group.                         *)
LEMMA HeadIsDue ==
    ASSUME NEW sub \in Subscriber, sub.dedup, NEW seq \in Seq(GroupMessageRecord),
           seq # <<>>, Ordered(seq), NEW hi \in Int,
           Head(seq).cursor <= hi, IsNew(sub, Head(seq)),
           Covers(seq, Head(seq).group_id, sub.cursors_by_group[Head(seq).group_id], hi)
    PROVE  Head(seq).cursor = sub.cursors_by_group[Head(seq).group_id] + 1
<1> DEFINE rec == Head(seq)
           g == rec.group_id
           lo == sub.cursors_by_group[g]
<1>1. rec \in GroupMessageRecord /\ rec = seq[1] /\ 1 \in DOMAIN seq
  BY TailVectors
<1>2. rec.cursor > lo /\ rec.cursor \in Nat /\ g \in Groups
  BY <1>1, NotedCursors
<1>3. lo \in Nat
  BY <1>2 DEF Subscriber
<1> HIDE DEF rec, g, lo
<1>4. lo + 1 \in (lo + 1) .. hi
  BY <1>2, <1>3 DEF rec
<1>5. PICK i \in DOMAIN seq : seq[i].group_id = g /\ seq[i].cursor = lo + 1
  BY <1>4 DEF Covers, rec, g, lo
<1>6. CASE i = 1
  BY <1>1, <1>5, <1>6 DEF rec, g, lo
<1>7. CASE i # 1
  <2>1. 1 < i
    BY <1>5, <1>7, RecordsOfSeq
  <2>2. seq[1].cursor < seq[i].cursor
    BY <1>1, <1>5, <2>1 DEF Ordered, g
  <2> QED  BY <1>1, <1>2, <1>3, <1>5, <2>2
<1> QED  BY <1>6, <1>7

(* emit_if_new of the next record keeps the count of the stream. *)
LEMMA EmitCounted ==
    ASSUME NEW sub \in Subscriber, sub.dedup, NEW req \in Seq(FetchInput),
           NEW sent \in Seq(GroupMessageRecord), NEW rec \in GroupMessageRecord,
           Counted(sub, req, sent), GapFree(req, sent),
           IsNew(sub, rec) => rec.cursor = sub.cursors_by_group[rec.group_id] + 1
    PROVE  /\ Counted(Noted(sub, rec), req, Emitted(sub, sent, rec))
           /\ GapFree(req, Emitted(sub, sent, rec))
<1>1. CASE ~ IsNew(sub, rec)
  BY <1>1 DEF Noted, Emitted
<1>2. CASE IsNew(sub, rec)
  <2> DEFINE u == Append(sent, rec)
             h == rec.group_id
             new == Noted(sub, rec)
  <2>0. /\ h \in Groups /\ rec.cursor \in Nat /\ Emitted(sub, sent, rec) = u
        /\ Cursors(req) \in [Groups -> Nat] /\ sub.cursors_by_group \in [Groups -> Nat]
    <3>1. h \in Groups /\ rec.cursor \in Nat /\ Emitted(sub, sent, rec) = u
      BY <1>2, NotedCursors DEF Emitted
    <3>2. Cursors(req) \in [Groups -> Nat]
      BY CursorsType
    <3>3. sub.cursors_by_group \in [Groups -> Nat]
      BY DEF Subscriber
    <3> QED  BY <3>1, <3>2, <3>3
  <2>1. \A g \in Groups : new.cursors_by_group[g] =
                            IF g = h THEN rec.cursor ELSE sub.cursors_by_group[g]
    BY <1>2, NotedCursors
  <2>2. /\ DOMAIN u = 1 .. (Len(sent) + 1) /\ DOMAIN sent = 1 .. Len(sent) /\ Len(sent) \in Nat
        /\ \A i \in 1 .. Len(sent) : u[i] = sent[i]
        /\ u[Len(sent) + 1] = rec
        /\ \A g, lo, hi : Covers(sent, g, lo, hi) => Covers(u, g, lo, hi)
    BY AppendVectors
  <2>3. \A g \in Groups : /\ Cardinality(Sent(sent, g)) \in Nat
                          /\ Cardinality(Sent(u, g)) = IF g = h THEN Cardinality(Sent(sent, g)) + 1
                                                       ELSE Cardinality(Sent(sent, g))
    BY SentAppend
  <2>4. Covers(u, h, Cursors(req)[h], rec.cursor)
    <3>1. Covers(sent, h, Cursors(req)[h], sub.cursors_by_group[h])
      BY <2>0 DEF Counted
    <3>2. Cursors(req)[h] \in Int /\ sub.cursors_by_group[h] \in Int
          /\ rec.cursor = sub.cursors_by_group[h] + 1
      BY <1>2, <2>0
    <3>3. Covers(u, h, Cursors(req)[h], sub.cursors_by_group[h] + 1)
      BY <3>1, <3>2, CoversAppend
    <3> QED  BY <3>2, <3>3
  <2> HIDE DEF u, new
  <2>5. ASSUME NEW g \in Groups
        PROVE  /\ new.cursors_by_group[g] = Cursors(req)[g] + Cardinality(Sent(u, g))
               /\ Covers(u, g, Cursors(req)[g], new.cursors_by_group[g])
    <3>1. /\ sub.cursors_by_group[g] = Cursors(req)[g] + Cardinality(Sent(sent, g))
          /\ Covers(sent, g, Cursors(req)[g], sub.cursors_by_group[g])
      BY DEF Counted
    <3>2. Cursors(req)[g] \in Nat
      BY <2>0
    <3>3. CASE g = h
      <4>1. /\ new.cursors_by_group[g] = rec.cursor
            /\ rec.cursor = sub.cursors_by_group[g] + 1
            /\ Cardinality(Sent(u, g)) = Cardinality(Sent(sent, g)) + 1
            /\ Cardinality(Sent(sent, g)) \in Nat
        BY <1>2, <2>1, <2>3, <3>3
      <4>2. rec.cursor = Cursors(req)[g] + (Cardinality(Sent(sent, g)) + 1)
        <5>1. \A a, b \in Nat : (a + b) + 1 = a + (b + 1)
          OBVIOUS
        <5>2. rec.cursor = (Cursors(req)[g] + Cardinality(Sent(sent, g))) + 1
          BY <3>1, <4>1, Zenon
        <5> QED  BY <3>2, <4>1, <5>1, <5>2
      <4>3. Covers(u, g, Cursors(req)[g], rec.cursor)
        BY <2>4, <3>3
      <4>4. Covers(u, g, Cursors(req)[g], new.cursors_by_group[g])
        BY <4>1, <4>3
      <4>5. new.cursors_by_group[g] = Cursors(req)[g] + Cardinality(Sent(u, g))
        BY <4>1, <4>2
      <4> QED  BY <4>4, <4>5
    <3>4. CASE g # h
      BY <2>1, <2>2, <2>3, <3>1, <3>4
    <3> QED  BY <3>3, <3>4
  <2>6. Counted(new, req, u)
    BY <2>5 DEF Counted
  <2>7. ASSUME NEW i \in DOMAIN u
        PROVE  u[i].cursor = Cursors(req)[u[i].group_id]
                               + Cardinality({k \in 1 .. i : u[k].group_id = u[i].group_id})
    <3>1. CASE i \in DOMAIN sent
      <4>1. u[i] = sent[i] /\ \A k \in 1 .. i : u[k] = sent[k]
        BY <2>2, <3>1
      <4>2. {k \in 1 .. i : u[k].group_id = sent[i].group_id}
              = {k \in 1 .. i : sent[k].group_id = sent[i].group_id}
        BY <4>1
      <4>3. sent[i].cursor = Cursors(req)[sent[i].group_id]
                + Cardinality({k \in 1 .. i : sent[k].group_id = sent[i].group_id})
        BY <3>1 DEF GapFree
      <4> QED  BY <4>1, <4>2, <4>3
    <3>2. CASE i \notin DOMAIN sent
      <4>1. i = Len(sent) + 1 /\ u[i] = rec
        BY <2>2, <3>2
      <4>2. {k \in 1 .. i : u[k].group_id = h} = Sent(u, h)
        BY <2>2, <4>1 DEF Sent
      <4>3. new.cursors_by_group[h] = Cursors(req)[h] + Cardinality(Sent(u, h))
        BY <2>0, <2>5
      <4>4. new.cursors_by_group[h] = rec.cursor
        BY <2>0, <2>1
      <4> QED  BY <4>1, <4>2, <4>3, <4>4
    <3> QED  BY <3>1, <3>2
  <2>8. GapFree(req, u)
    BY <2>7 DEF GapFree
  <2> QED  BY <2>0, <2>6, <2>8 DEF new
<1> QED  BY <1>1, <1>2

-----------------------------------------------------------------------------
(* A vector of records of the subscription's groups is announced as before *)
(* if these groups are.                                                    *)
LEMMA UpToAnnounced ==
    ASSUME NEW l, NEW gids, NEW seq, Stored(l, gids, seq), UpTo(seq, Announced),
           \A g \in gids : Announced'[g] = Announced[g]
    PROVE  UpTo(seq, Announced')
BY DEF Stored, UpTo

(* A subscription that does not move, in groups where nothing is announced. *)
LEMMA SameWriter ==
    ASSUME DeliveryInv, NEW id \in DOMAIN subscribers, Same(id),
           BufferAt(id), LiveAt(id), CountAt(id),
           \A g \in GroupIds(request[id]) : Announced'[g] = Announced[g]
    PROVE  BufferAt(id)' /\ LiveAt(id)' /\ CountAt(id)'
<1>1. /\ pc'[id] = pc[id] /\ request'[id] = request[id] /\ entry'[id] = entry[id]
      /\ records'[id] = records[id] /\ snapshot'[id] = snapshot[id]
      /\ channel'[id] = channel[id] /\ subscribers'[id] = subscribers[id]
  BY DEF Same
<1>2. /\ Stored(log, GroupIds(request[id]), records[id])
      /\ Stored(log, GroupIds(request[id]), subscribers[id].buffer)
  BY DEF DeliveryInv, InFlightInv, TypeOK
<1>3. BufferAt(id)'
  BY <1>1, <1>2, UpToAnnounced DEF BufferAt
<1>4. LiveAt(id)'
  BY <1>1 DEF LiveAt, Merged
<1>5. CountAt(id)'
  BY <1>1 DEF CountAt
<1> QED  BY <1>3, <1>4, <1>5

(* A fan-out to a subscription that is buffering. *)
LEMMA BufferWriter ==
    ASSUME DeliveryInv, NEW id \in DOMAIN subscribers, NEW rec \in GroupMessageRecord,
           BufferAt(id), LiveAt(id), CountAt(id), BufferingAt(id),
           subscribers[id].buffering, rec.group_id \in GroupIds(request[id]),
           UNCHANGED <<log, pc, request, entry, records, snapshot>>,
           channel'[id] = Pushed(subscribers[id], channel[id], rec),
           subscribers'[id] = Push(subscribers[id], rec),
           Announced[rec.group_id] = rec.cursor - 1,
           Announced'[rec.group_id] = rec.cursor,
           \A h \in Groups : h # rec.group_id => Announced'[h] = Announced[h]
    PROVE  BufferAt(id)' /\ LiveAt(id)' /\ CountAt(id)'
<1> DEFINE sub == subscribers[id]
<1>0. /\ id \in Ids /\ sub \in Subscriber /\ sub.buffer \in Seq(GroupMessageRecord)
      /\ GroupIds(request[id]) \subseteq Groups /\ TypeOK /\ snapshot[id] \in [Groups -> Nat]
  BY CursorsType DEF DeliveryInv, TypeOK, Subscriber
<1>1. /\ channel'[id] = channel[id]
      /\ subscribers'[id].dedup = sub.dedup
      /\ subscribers'[id].buffer = Append(sub.buffer, rec)
      /\ subscribers'[id].cursors_by_group = sub.cursors_by_group
  BY <1>0, PushProperties DEF Pushed
<1>2. pc[id] \notin {"flush", "live"}
  BY DEF BufferingAt
<1>3. \A g \in Groups : Announced[g] \in Int
  BY <1>0, AnnouncedType
<1>4. \A i \in DOMAIN sub.buffer :
        /\ sub.buffer[i].cursor <= Announced[sub.buffer[i].group_id]
        /\ sub.buffer[i].cursor \in Nat /\ sub.buffer[i].group_id \in Groups
  BY <1>0, RecordsOfSeq DEF BufferAt, UpTo
<1>5. rec.cursor \in Nat /\ rec.group_id \in Groups
  BY DEF GroupMessageRecord
<1> HIDE DEF sub
<1>6. Ordered(Append(sub.buffer, rec))
  <2>1. \A i \in DOMAIN sub.buffer :
          sub.buffer[i].group_id = rec.group_id => sub.buffer[i].cursor < rec.cursor
    BY <1>4, <1>5
  <2> QED  BY <1>0, <2>1, OrderedAppend DEF BufferAt, sub
<1>7. UpTo(Append(sub.buffer, rec), Announced')
  <2>1. UpTo(sub.buffer, Announced')
    BY <1>3, <1>4, <1>5 DEF UpTo
  <2>2. rec.cursor <= Announced'[rec.group_id]
    BY <1>5
  <2> QED  BY <1>0, <2>1, <2>2, AppendVectors
<1>8. BufferAt(id)'
  BY <1>1, <1>2, <1>6, <1>7 DEF BufferAt
<1>9. ASSUME Merged(id), NEW g \in GroupIds(request[id]), pc[id] \in {"fetch", "fetched", "replay"}
      PROVE  Covers(Append(sub.buffer, rec), g, snapshot[id][g], Announced'[g])
  <2>1. Covers(sub.buffer, g, snapshot[id][g], Announced[g]) /\ g \in Groups
    BY <1>0, <1>9 DEF LiveAt, sub
  <2>2. CASE g = rec.group_id
    <3>1. Covers(Append(sub.buffer, rec), g, snapshot[id][g], (rec.cursor - 1) + 1)
      <4>1. Covers(sub.buffer, rec.group_id, snapshot[id][g], rec.cursor - 1)
        BY <2>1, <2>2
      <4>2. snapshot[id][g] \in Int /\ rec.cursor - 1 \in Int /\ rec.cursor = (rec.cursor - 1) + 1
        BY <1>0, <1>5, <2>1
      <4> QED  BY <1>0, <2>2, <4>1, <4>2, CoversAppend
    <3>2. (rec.cursor - 1) + 1 = Announced'[g]
      BY <1>5, <2>2
    <3> QED  BY <3>1, <3>2
  <2>3. CASE g # rec.group_id
    <3>1. Announced'[g] = Announced[g]
      BY <2>1, <2>3
    <3>2. Covers(Append(sub.buffer, rec), g, snapshot[id][g], Announced[g])
      BY <1>0, <2>1, AppendVectors
    <3> QED  BY <3>1, <3>2
  <2> QED  BY <2>2, <2>3
<1>10. LiveAt(id)'
  BY <1>1, <1>2, <1>9 DEF LiveAt, Merged, sub
<1>11. CountAt(id)'
  BY <1>1 DEF CountAt, Counted, sub
<1> QED  BY <1>8, <1>10, <1>11

(* A fan-out to a subscription that sends directly. *)
LEMMA SendWriter ==
    ASSUME DeliveryInv, NEW id \in DOMAIN subscribers, NEW rec \in GroupMessageRecord,
           BufferAt(id), LiveAt(id), CountAt(id), BufferingAt(id), pc[id] # "flush",
           ~ subscribers[id].buffering, rec.group_id \in GroupIds(request[id]),
           UNCHANGED <<log, pc, request, entry, records, snapshot>>,
           channel'[id] = Pushed(subscribers[id], channel[id], rec),
           subscribers'[id] = Push(subscribers[id], rec),
           Announced[rec.group_id] = rec.cursor - 1,
           Announced'[rec.group_id] = rec.cursor,
           \A h \in Groups : h # rec.group_id => Announced'[h] = Announced[h]
    PROVE  BufferAt(id)' /\ LiveAt(id)' /\ CountAt(id)'
<1> DEFINE sub == subscribers[id]
<1>0. /\ id \in Ids /\ sub \in Subscriber /\ sub.buffer \in Seq(GroupMessageRecord)
      /\ GroupIds(request[id]) \subseteq Groups /\ TypeOK
      /\ sub.cursors_by_group \in [Groups -> Nat]
      /\ channel[id] \in Seq(GroupMessageRecord) /\ request[id] \in Seq(FetchInput)
  BY CursorsType DEF DeliveryInv, TypeOK, Subscriber
<1>1. /\ channel'[id] = Emitted(sub, channel[id], rec)
      /\ subscribers'[id] = Noted(sub, rec)
      /\ Noted(sub, rec) \in Subscriber
      /\ Noted(sub, rec).dedup = sub.dedup
      /\ Noted(sub, rec).buffer = sub.buffer
  BY <1>0, NotedProperties DEF Push, Pushed
<1>2. pc[id] = "live"
  <2>1. Open(id)
    BY DEF DeliveryInv, RegistryConsistent
  <2> QED  BY <2>1 DEF BufferingAt, Open
<1>3. \A g \in Groups : Announced[g] \in Int
  BY <1>0, AnnouncedType
<1>5. rec.cursor \in Nat /\ rec.group_id \in Groups
  BY DEF GroupMessageRecord
<1>6. sub.dedup => \A g \in GroupIds(request[id]) : Announced[g] <= sub.cursors_by_group[g]
  BY <1>2 DEF LiveAt
<1>d. Merged(id) => sub.dedup
  BY DEF DeliveryInv, CursorInv
<1>b. Ordered(sub.buffer) /\ UpTo(sub.buffer, Announced)
  BY DEF BufferAt
<1> HIDE DEF sub
<1>7. UpTo(sub.buffer, Announced')
  <2>1. \A i \in DOMAIN sub.buffer :
          /\ sub.buffer[i].cursor <= Announced[sub.buffer[i].group_id]
          /\ sub.buffer[i].cursor \in Nat /\ sub.buffer[i].group_id \in Groups
    BY <1>0, <1>b, RecordsOfSeq DEF UpTo
  <2> QED  BY <1>3, <1>5, <2>1 DEF UpTo
<1>8. BufferAt(id)'
  BY <1>1, <1>2, <1>7, <1>b DEF BufferAt
<1>9. ASSUME sub.dedup
      PROVE  /\ IsNew(sub, rec) => rec.cursor = sub.cursors_by_group[rec.group_id] + 1
             /\ \A g \in GroupIds(request[id]) : Announced'[g] <= Noted(sub, rec).cursors_by_group[g]
  <2>1. /\ IsNew(sub, rec) <=> rec.cursor > sub.cursors_by_group[rec.group_id]
        /\ \A g \in Groups : Noted(sub, rec).cursors_by_group[g] =
                               IF g = rec.group_id /\ IsNew(sub, rec) THEN rec.cursor
                               ELSE sub.cursors_by_group[g]
    BY <1>0, <1>9, NotedCursors
  <2>2. sub.cursors_by_group[rec.group_id] \in Nat /\ rec.cursor - 1 <= sub.cursors_by_group[rec.group_id]
    BY <1>0, <1>5, <1>6, <1>9
  <2>3. IsNew(sub, rec) => rec.cursor = sub.cursors_by_group[rec.group_id] + 1
    BY <1>5, <2>1, <2>2
  <2>4. ASSUME NEW g \in GroupIds(request[id])
        PROVE  Announced'[g] <= Noted(sub, rec).cursors_by_group[g]
    <3>1. g \in Groups /\ Announced[g] <= sub.cursors_by_group[g]
      BY <1>0, <1>6, <1>9
    <3>2. CASE g = rec.group_id
      BY <1>5, <2>1, <2>2, <3>1, <3>2
    <3>3. CASE g # rec.group_id
      BY <2>1, <3>1, <3>3
    <3> QED  BY <3>2, <3>3
  <2> QED  BY <2>3, <2>4
<1>10. LiveAt(id)'
  BY <1>1, <1>2, <1>9, <1>d DEF LiveAt, Merged, sub
<1>11. CountAt(id)'
  BY <1>0, <1>1, <1>9, EmitCounted DEF CountAt, sub
<1> QED  BY <1>8, <1>10, <1>11

-----------------------------------------------------------------------------
(* Two vectors in order, of different groups. *)
LEMMA OrderedConcat ==
    ASSUME NEW s \in Seq(GroupMessageRecord), NEW t \in Seq(GroupMessageRecord),
           Ordered(s), Ordered(t),
           \A i \in DOMAIN s, j \in DOMAIN t : s[i].group_id # t[j].group_id
    PROVE  /\ Ordered(s \o t)
           /\ \A i \in DOMAIN (s \o t) : \/ \E j \in DOMAIN s : (s \o t)[i] = s[j]
                                         \/ \E j \in DOMAIN t : (s \o t)[i] = t[j]
<1> DEFINE u == s \o t
<1>1. /\ Len(u) = Len(s) + Len(t)
      /\ DOMAIN u = 1 .. Len(u) /\ DOMAIN s = 1 .. Len(s) /\ DOMAIN t = 1 .. Len(t)
      /\ Len(s) \in Nat /\ Len(t) \in Nat
      /\ \A i \in 1 .. Len(s) : u[i] = s[i]
      /\ \A i \in 1 .. Len(t) : u[i + Len(s)] = t[i]
  BY LenProperties, ConcatProperties
<1> HIDE DEF u
<1>2. \A i \in DOMAIN u : i \in Nat /\ \/ i \in DOMAIN s /\ u[i] = s[i]
                                       \/ i > Len(s) /\ i - Len(s) \in DOMAIN t /\ u[i] = t[i - Len(s)]
  <2> SUFFICES ASSUME NEW i \in DOMAIN u, i \notin DOMAIN s
               PROVE  i \in Nat /\ i > Len(s) /\ i - Len(s) \in DOMAIN t /\ u[i] = t[i - Len(s)]
    BY <1>1
  <2>1. i \in Nat /\ i > Len(s) /\ i - Len(s) \in 1 .. Len(t) /\ (i - Len(s)) + Len(s) = i
    BY <1>1
  <2>2. u[(i - Len(s)) + Len(s)] = t[i - Len(s)]
    BY <1>1, <2>1
  <2> QED  BY <1>1, <2>1, <2>2
<1>3. ASSUME NEW i \in DOMAIN u, NEW j \in DOMAIN u, i < j, u[i].group_id = u[j].group_id
      PROVE  u[i].cursor < u[j].cursor
  <2>1. CASE i \in DOMAIN s /\ u[i] = s[i] /\ j \in DOMAIN s /\ u[j] = s[j]
    BY <1>3, <2>1 DEF Ordered
  <2>2. CASE i > Len(s) /\ i - Len(s) \in DOMAIN t /\ u[i] = t[i - Len(s)]
    <3>1. j > Len(s) /\ j \notin DOMAIN s
      BY <1>1, <1>2, <1>3, <2>2
    <3>2. j - Len(s) \in DOMAIN t /\ u[j] = t[j - Len(s)]
      BY <1>2, <3>1
    <3>3. i - Len(s) < j - Len(s)
      BY <1>1, <1>2, <1>3
    <3> QED  BY <1>3, <2>2, <3>2, <3>3 DEF Ordered
  <2>3. CASE /\ i \in DOMAIN s /\ u[i] = s[i]
             /\ j - Len(s) \in DOMAIN t /\ u[j] = t[j - Len(s)]
    BY <1>3, <2>3
  <2> QED  BY <1>2, <2>1, <2>2, <2>3
<1>4. Ordered(u)
  BY <1>3 DEF Ordered
<1> QED  BY <1>2, <1>4 DEF u

(* fetch_many_group_messages, with requests that name a group once. *)
LEMMA FetchRecords ==
    ASSUME DeliveryInv, NEW id \in Ids, FetchEntry(id), RecordsAt(id)
    PROVE  RecordsAt(id)'
<1> DEFINE k == entry[id] + 1
           g == request[id][k].group_id
           after == request[id][k].after_cursor
           seq == FetchGroupMessages(g, after)
<1>0. TypeOK /\ CallsInv
  BY DEF DeliveryInv
<1>1. /\ pc[id] = "fetch" /\ request' = request
      /\ records'[id] = records[id] \o seq /\ entry'[id] = k
  BY <1>0 DEF FetchEntry, TypeOK
<1>2. entry[id] \in Nat /\ request[id] \in Seq(FetchInput) /\ records[id] \in Seq(GroupMessageRecord)
  BY <1>0 DEF TypeOK
<1>3. k \in 1 .. Len(request[id]) /\ DOMAIN request[id] = 1 .. Len(request[id])
      /\ Len(request[id]) \in Nat
  <2>1. entry[id] < Len(request[id])
    BY <1>0, <1>1 DEF CallsInv
  <2>2. Len(request[id]) \in Nat /\ DOMAIN request[id] = 1 .. Len(request[id])
    BY <1>2, LenProperties
  <2> QED  BY <1>2, <2>1, <2>2
<1>4. g \in Groups /\ after \in Nat
  <2>1. request[id][k] \in FetchInput
    BY <1>2, <1>3, ElementOfSeq
  <2> QED  BY <2>1 DEF FetchInput
<1>5. /\ seq \in Seq(GroupMessageRecord) /\ Ordered(seq)
      /\ \A i \in DOMAIN seq : seq[i].group_id = g
  BY <1>0, <1>4, FetchProperties, FetchComplete
<1>6. \A i \in DOMAIN records[id] :
        \E j \in 1 .. entry[id] : records[id][i].group_id = request[id][j].group_id
  BY <1>1 DEF RecordsAt
<1>7. \A j \in 1 .. entry[id] : request[id][j].group_id # g
  BY <1>2, <1>3 DEF RecordsAt, NamedOnce
<1> HIDE DEF seq
<1>8. \A i \in DOMAIN records[id], j \in DOMAIN seq : records[id][i].group_id # seq[j].group_id
  BY <1>5, <1>6, <1>7
<1>9. /\ Ordered(records[id] \o seq)
      /\ \A i \in DOMAIN (records[id] \o seq) :
            \/ \E j \in DOMAIN records[id] : (records[id] \o seq)[i] = records[id][j]
            \/ \E j \in DOMAIN seq : (records[id] \o seq)[i] = seq[j]
  BY <1>2, <1>5, <1>8, OrderedConcat DEF RecordsAt
<1>10. \A i \in DOMAIN (records[id] \o seq) :
         \E j \in 1 .. k : (records[id] \o seq)[i].group_id = request[id][j].group_id
  <2> SUFFICES ASSUME NEW i \in DOMAIN (records[id] \o seq)
               PROVE  \E j \in 1 .. k : (records[id] \o seq)[i].group_id = request[id][j].group_id
    OBVIOUS
  <2>1. CASE \E j \in DOMAIN records[id] : (records[id] \o seq)[i] = records[id][j]
    <3>1. \E j \in 1 .. entry[id] : (records[id] \o seq)[i].group_id = request[id][j].group_id
      BY <1>6, <2>1
    <3> QED  BY <1>2, <3>1
  <2>2. CASE \E j \in DOMAIN seq : (records[id] \o seq)[i] = seq[j]
    <3>1. (records[id] \o seq)[i].group_id = g /\ k \in 1 .. k
      BY <1>2, <1>5, <2>2
    <3> QED  BY <3>1
  <2> QED  BY <1>9, <2>1, <2>2
<1> QED  BY <1>1, <1>9, <1>10 DEF RecordsAt

(* The vectors of the calls stay in order. *)
LEMMA RecordsStep ==
    ASSUME DeliveryInv, GroupsNamedOnce, Next, \A id \in Ids : RecordsAt(id),
           \A id \in DOMAIN subscribers : BufferAt(id)
    PROVE  \A id \in Ids : RecordsAt(id)'
<1> SUFFICES ASSUME NEW id \in Ids PROVE RecordsAt(id)'
  OBVIOUS
<1>0. TypeOK /\ RegistryConsistent /\ RecordsAt(id) /\ CallsInv
  BY DEF DeliveryInv
<1>t. /\ pc \in [Ids -> {"none", "fetch", "fetched", "failed", "error", "replay",
                         "flush", "live", "closed", "dropped", "ended"}]
      /\ DOMAIN request = Ids /\ records \in [Ids -> Seq(GroupMessageRecord)]
  BY <1>0 DEF TypeOK
<1>s. UNCHANGED <<pc[id], request[id], entry[id], records[id]>> => RecordsAt(id)'
  BY <1>0 DEF RecordsAt
<1>1. ASSUME NEW p \in Posters, NEW g \in Groups, NEW m \in Messages, PostAppend(p, g, m)
      PROVE  RecordsAt(id)'
  BY <1>1, <1>s DEF PostAppend, call
<1>2. ASSUME NEW p \in Posters, PostPublish(p)
      PROVE  RecordsAt(id)'
  BY <1>2, <1>s DEF PostPublish, call
<1>3. ASSUME NEW i \in Ids, StepOf(i)
      PROVE  RecordsAt(id)'
  <2>1. CASE i # id
    <3>1. Same(id)
      BY <1>3, <2>1, OthersSame
    <3> QED  BY <1>s, <3>1 DEF Same
  <2>n. id = next_id => entry[id] = 0 /\ records[id] = <<>>
    BY <1>0 DEF CallsInv, Ids
  <2>2. CASE i = id /\ id = next_id /\ \E g \in LiveTailGroups : SubscribeLiveTail(g)
    <3>1. PICK g \in LiveTailGroups : SubscribeLiveTail(g)
      BY <2>2
    <3>2. /\ pc'[id] = "live" /\ records'[id] = records[id]
          /\ request'[id] = <<[group_id |-> g, after_cursor |-> 0]>>
      BY <1>t, <2>2, <3>1 DEF SubscribeLiveTail
    <3>3. DOMAIN request'[id] = {1}
      BY <3>2
    <3> QED  BY <1>0, <3>2, <3>3 DEF RecordsAt, NamedOnce
  <2>3. CASE i = id /\ id = next_id /\ \E req \in Requests : SubscribeMany(req)
    <3>1. PICK req \in Requests : SubscribeMany(req)
      BY <2>3
    <3>2. records'[id] = <<>> /\ request'[id] = req
      BY <1>t, <2>3, <2>n, <3>1 DEF SubscribeMany
    <3> QED  BY <3>2 DEF RecordsAt, GroupsNamedOnce, Ordered
  <2>4. CASE i = id /\ FetchEntry(id)
    BY <1>0, <2>4, FetchRecords
  <2>5. CASE i = id /\ FetchFails(id)
    <3>1. pc'[id] = "failed" /\ records'[id] = <<>> /\ request'[id] = request[id]
      BY <1>t, <2>5 DEF FetchFails
    <3> QED  BY <1>0, <3>1 DEF RecordsAt, Ordered
  <2>6. CASE i = id /\ EmitNext(id)
    <3>1. /\ pc'[id] = pc[id] /\ pc[id] # "fetch" /\ request'[id] = request[id]
          /\ records'[id] = Tail(records[id]) /\ records[id] # <<>>
      BY <1>t, <2>6 DEF EmitNext
    <3>2. Ordered(Tail(records[id]))
      BY <1>0, <1>t, <3>1, TailVectors DEF RecordsAt
    <3> QED  BY <1>0, <3>1, <3>2 DEF RecordsAt
  <2>7. CASE i = id /\ FinishBuffering(id)
    <3>1. /\ pc'[id] = "flush" /\ request'[id] = request[id] /\ pc[id] = "replay"
          /\ records'[id] = subscribers[id].buffer
      BY <1>t, <2>7 DEF FinishBuffering
    <3>2. Ordered(subscribers[id].buffer)
      BY <1>0, <3>1 DEF RegistryConsistent, Open, BufferAt
    <3> QED  BY <1>0, <3>1, <3>2 DEF RecordsAt
  <2>8. CASE i = id /\ (LockForReplay(id) \/ ReturnHandle(id) \/ UnregisterFailed(id) \/ RecvNone(id) \/ Unsubscribe(id))
    <3>1. pc'[id] # "fetch" /\ UNCHANGED <<request, records>>
      BY <1>t, <2>8 DEF LockForReplay, ReturnHandle, UnregisterFailed, RecvNone, Unsubscribe
    <3> QED  BY <1>0, <3>1 DEF RecordsAt
  <2>9. CASE i = id /\ Recv(id)
    BY <1>s, <2>9 DEF Recv, call
  <2> QED
    BY <1>3, <2>1, <2>2, <2>3, <2>4, <2>5, <2>6, <2>7, <2>8, <2>9 DEF StepOf, SubscribeStep
<1> QED  BY <1>1, <1>2, <1>3, NextCases

-----------------------------------------------------------------------------
(* replay_backlog and finish_buffering: what emit_if_new sends is due. *)
LEMMA EmitDue ==
    ASSUME DeliveryInv, LocksInv, NEW id \in Ids, EmitNext(id),
           ReplayAt(id), RecordsAt(id), BufferAt(id), LiveAt(id)
    PROVE  LET sub == subscribers[id]
               rec == Head(records[id])
           IN  /\ id \in DOMAIN subscribers /\ Merged(id)
               /\ sub \in Subscriber /\ sub.dedup
               /\ rec \in GroupMessageRecord /\ InLog(log, rec)
               /\ rec.group_id \in GroupIds(request[id])
               /\ IsNew(sub, rec) => rec.cursor = sub.cursors_by_group[rec.group_id] + 1
<1> DEFINE sub == subscribers[id]
           rec == Head(records[id])
           g == rec.group_id
<1>0. TypeOK /\ RegistryConsistent /\ CursorInv /\ InFlightInv
  BY DEF DeliveryInv
<1>1. /\ pc[id] \in {"replay", "flush"} /\ id \in DOMAIN subscribers
      /\ records[id] # <<>> /\ Merged(id)
  BY <1>0 DEF EmitNext, RegistryConsistent, Open, LocksInv
<1>2. /\ sub \in Subscriber /\ sub.dedup
      /\ records[id] \in Seq(GroupMessageRecord)
      /\ request[id] \in Seq(FetchInput)
      /\ snapshot[id] \in [Groups -> Nat]
  BY <1>0, <1>1 DEF TypeOK, CursorInv
<1>3. rec \in GroupMessageRecord /\ rec = records[id][1] /\ 1 \in DOMAIN records[id]
  BY <1>1, <1>2, TailVectors
<1>4. /\ InLog(log, rec) /\ g \in GroupIds(request[id])
      /\ GroupIds(request[id]) \subseteq Groups
  BY <1>0, <1>2, <1>3, CursorsType DEF InFlightInv, Stored
<1>6. \A h \in Groups : Announced[h] \in Int
  BY <1>0, AnnouncedType
<1>7. IsNew(sub, rec) => rec.cursor = sub.cursors_by_group[g] + 1
  <2>1. CASE pc[id] = "replay"
    <3>1. /\ rec.cursor <= snapshot[id][g] /\ snapshot[id][g] \in Int
          /\ Covers(records[id], g, sub.cursors_by_group[g], snapshot[id][g])
      BY <1>2, <1>3, <1>4, <2>1 DEF ReplayAt, UpTo
    <3> QED  BY <1>1, <1>2, <3>1, HeadIsDue DEF RecordsAt
  <2>2. CASE pc[id] = "flush"
    <3>1. /\ rec.cursor <= Announced[g] /\ Announced[g] \in Int
          /\ Covers(records[id], g, sub.cursors_by_group[g], Announced[g])
      BY <1>1, <1>3, <1>4, <1>6, <2>2 DEF BufferAt, LiveAt, UpTo
    <3> QED  BY <1>1, <1>2, <3>1, HeadIsDue DEF RecordsAt
  <2> QED  BY <1>1, <2>1, <2>2
<1> QED  BY <1>1, <1>2, <1>3, <1>4, <1>7

(* The rest of the vector covers what is still due. *)
LEMMA EmitWriter ==
    ASSUME DeliveryInv, LocksInv, NEW id \in Ids, EmitNext(id), Announced' = Announced,
           ReplayAt(id), RecordsAt(id), BufferAt(id), LiveAt(id), CountAt(id)
    PROVE  BufferAt(id)' /\ LiveAt(id)' /\ CountAt(id)'
<1> DEFINE sub == subscribers[id]
           rec == Head(records[id])
           g == rec.group_id
<1>0. TypeOK /\ RegistryConsistent /\ CursorInv /\ InFlightInv
  BY DEF DeliveryInv
<1>1. /\ pc[id] \in {"replay", "flush"} /\ id \in DOMAIN subscribers
      /\ records[id] # <<>> /\ Merged(id)
      /\ UNCHANGED <<pc, request, entry, snapshot>>
      /\ records'[id] = Tail(records[id])
      /\ subscribers'[id] = Noted(sub, rec)
      /\ channel'[id] = Emitted(sub, channel[id], rec)
  BY <1>0 DEF EmitNext, TypeOK, RegistryConsistent, Open, LocksInv
<1>2. /\ sub \in Subscriber /\ sub.dedup /\ sub.cursors_by_group \in [Groups -> Nat]
      /\ records[id] \in Seq(GroupMessageRecord)
      /\ channel[id] \in Seq(GroupMessageRecord) /\ request[id] \in Seq(FetchInput)
      /\ snapshot[id] \in [Groups -> Nat]
  BY <1>0, <1>1 DEF TypeOK, CursorInv, Subscriber
<1>3. /\ rec \in GroupMessageRecord /\ rec = records[id][1] /\ 1 \in DOMAIN records[id]
      /\ \A bound : UpTo(records[id], bound) => UpTo(Tail(records[id]), bound)
  BY <1>1, <1>2, TailVectors
<1>4. g \in GroupIds(request[id]) /\ GroupIds(request[id]) \subseteq Groups
  BY <1>0, <1>2, <1>3, CursorsType DEF InFlightInv, Stored
<1>5. /\ Noted(sub, rec).dedup = sub.dedup /\ Noted(sub, rec).buffer = sub.buffer
  BY <1>2, <1>3, NotedProperties
<1>6. \A h \in Groups : Announced[h] \in Int
  BY <1>0, AnnouncedType
<1>7. IsNew(sub, rec) => rec.cursor = sub.cursors_by_group[g] + 1
  BY EmitDue
<1>8. pc[id] = "flush" => \A h \in GroupIds(request[id]) :
        Covers(Tail(records[id]), h, Noted(sub, rec).cursors_by_group[h], Announced[h])
  BY <1>1, <1>2, <1>4, <1>6, CoversEmit DEF LiveAt
<1> HIDE DEF sub, rec, g
<1>9. BufferAt(id)'
  BY <1>1, <1>3, <1>5 DEF BufferAt, sub
<1>10. LiveAt(id)'
  BY <1>1, <1>5, <1>8 DEF LiveAt, Merged, sub
<1>11. CountAt(id)'
  BY <1>1, <1>2, <1>3, <1>7, EmitCounted DEF CountAt, sub, g
<1> QED  BY <1>9, <1>10, <1>11

(* Nothing is due of a fresh stream. *)
LEMMA FreshCounted ==
    ASSUME NEW req \in Seq(FetchInput), NEW sub, sub.cursors_by_group = Cursors(req)
    PROVE  Counted(sub, req, <<>>) /\ GapFree(req, <<>>)
<1>1. \A g \in Groups : Sent(<<>>, g) = {}
  BY DEF Sent
<1>2. Cardinality({}) = 0
  BY FS_EmptySet
<1>3. Cursors(req) \in [Groups -> Nat]
  BY CursorsType
<1>4. ASSUME NEW g \in Groups
      PROVE  /\ Cursors(req)[g] = Cursors(req)[g] + Cardinality(Sent(<<>>, g))
             /\ Covers(<<>>, g, Cursors(req)[g], Cursors(req)[g])
  <2>1. Cursors(req)[g] \in Nat
    BY <1>3
  <2>2. Cardinality(Sent(<<>>, g)) = 0
    BY <1>1, <1>2
  <2>3. (Cursors(req)[g] + 1) .. Cursors(req)[g] = {}
    BY <2>1
  <2> QED  BY <2>1, <2>2, <2>3 DEF Covers
<1> QED  BY <1>4 DEF Counted, GapFree

(* The other steps of a call or a handle. *)
LEMMA OwnWriter ==
    ASSUME DeliveryInv, LocksInv, NEW id \in Ids, StepOf(id), Announced' = Announced,
           RecordsAt(id),
           id \in DOMAIN subscribers =>
              BufferingAt(id) /\ ReplayAt(id) /\ BufferAt(id) /\ LiveAt(id) /\ CountAt(id),
           id \in DOMAIN subscribers'
    PROVE  BufferAt(id)' /\ LiveAt(id)' /\ CountAt(id)'
<1>0. TypeOK /\ CallsInv /\ RegistryConsistent
  BY DEF DeliveryInv
<1>t. /\ pc \in [Ids -> {"none", "fetch", "fetched", "failed", "error", "replay",
                         "flush", "live", "closed", "dropped", "ended"}]
      /\ DOMAIN request = Ids /\ DOMAIN records = Ids /\ DOMAIN subscribers \subseteq Ids
      /\ DOMAIN snapshot = Ids /\ DOMAIN entry = Ids
  BY <1>0 DEF TypeOK
<1>o. Open(id) => id \in DOMAIN subscribers
  BY <1>0 DEF RegistryConsistent
<1>n. id = next_id => entry[id] = 0 /\ channel[id] = <<>>
  BY <1>0 DEF CallsInv, Ids
<1>a. \A g \in Groups : Announced[g] \in Int /\ Len(log[g]) \in Nat /\ Announced[g] <= Len(log[g])
  BY <1>0, AnnouncedType
<1>g. GroupIds(request[id]) \subseteq Groups
  BY <1>0, CursorsType DEF TypeOK
<1>1. CASE id = next_id /\ \E g \in LiveTailGroups : SubscribeLiveTail(g)
  <2>1. /\ pc'[id] = "live" /\ entry'[id] = 0 /\ ~ subscribers'[id].dedup
        /\ subscribers'[id].buffer = <<>>
    BY <1>1, <1>n, <1>t DEF SubscribeLiveTail, Register
  <2> QED  BY <2>1 DEF BufferAt, LiveAt, CountAt, Merged, Ordered, UpTo
<1>2. CASE id = next_id /\ \E req \in Requests : SubscribeMany(req)
  <2>1. PICK req \in Requests : SubscribeMany(req)
    BY <1>2
  <2>2. /\ pc'[id] = "fetch" /\ entry'[id] = 0 /\ subscribers'[id].buffer = <<>>
        /\ request'[id] = req /\ channel'[id] = <<>>
        /\ subscribers'[id].cursors_by_group = Cursors(req)
    BY <1>2, <1>n, <1>t, <2>1 DEF SubscribeMany, Register
  <2>3. Counted(subscribers'[id], req, <<>>) /\ GapFree(req, <<>>)
    BY <2>2, RequestType, FreshCounted
  <2>4. BufferAt(id)' /\ LiveAt(id)'
    BY <2>2 DEF BufferAt, LiveAt, Merged, Ordered, UpTo
  <2>5. CountAt(id)'
    BY <2>2, <2>3 DEF CountAt
  <2> QED  BY <2>4, <2>5
(* Whatever was announced is in the log, and so in the snapshot. *)
<1>3. CASE FetchEntry(id)
  <2>1. /\ pc[id] = "fetch" /\ pc'[id] \in {"fetch", "fetched"}
        /\ UNCHANGED <<subscribers, request, channel>>
        /\ snapshot'[id] = [g \in Groups |-> Len(log[g])]
    BY <1>3, <1>t DEF FetchEntry, registry
  <2>2. id \in DOMAIN subscribers
    BY <1>o, <2>1 DEF Open
  <2>3. \A g \in GroupIds(request[id]) :
          Covers(subscribers[id].buffer, g, snapshot'[id][g], Announced[g])
    <3> SUFFICES ASSUME NEW g \in GroupIds(request[id])
                 PROVE  Covers(subscribers[id].buffer, g, Len(log[g]), Announced[g])
      BY <1>g, <2>1
    <3>1. (Len(log[g]) + 1) .. Announced[g] = {}
      BY <1>a, <1>g
    <3> QED  BY <3>1 DEF Covers
  <2>4. BufferAt(id)'
    BY <2>1, <2>2 DEF BufferAt
  <2>5. LiveAt(id)'
    BY <2>1, <2>3 DEF LiveAt
  <2>6. CountAt(id)'
    BY <2>1, <2>2 DEF CountAt
  <2> QED  BY <2>4, <2>5, <2>6
<1>4. CASE FetchFails(id)
  <2>1. /\ pc[id] = "fetch" /\ pc'[id] = "failed" /\ id \in DOMAIN subscribers
        /\ UNCHANGED <<subscribers, request, channel>>
    BY <1>4, <1>o, <1>t DEF FetchFails, Open, registry
  <2> QED  BY <2>1 DEF BufferAt, LiveAt, CountAt
<1>5. CASE UnregisterFailed(id) \/ Unsubscribe(id)
  <2>1. Open(id) /\ RemoveSubscriber(id, GroupIds(request[id]))
    BY <1>5 DEF UnregisterFailed, Unsubscribe, Open
  <2>2. refcounts[id] = Cardinality(GroupIds(request[id])) /\ refcounts[id] \in Nat
    BY <1>0, <2>1 DEF RegistryConsistent, TypeOK
  <2>3. id \notin DOMAIN subscribers'
    BY <2>1, <2>2 DEF RemoveSubscriber
  <2> QED  BY <2>3
<1>6. CASE LockForReplay(id)
  <2>1. /\ pc[id] = "fetched" /\ pc'[id] = "replay" /\ id \in DOMAIN subscribers
        /\ UNCHANGED <<subscribers, request, channel, records, snapshot, entry>>
    BY <1>6, <1>o, <1>t DEF LockForReplay, Open, registry
  <2>2. BufferAt(id)' /\ CountAt(id)'
    BY <2>1 DEF BufferAt, CountAt
  <2>3. LiveAt(id)'
    BY <2>1 DEF LiveAt, Merged
  <2> QED  BY <2>2, <2>3
<1>7. CASE EmitNext(id)
  BY <1>7, <1>o, EmitWriter DEF EmitNext, Open
(* The buffer becomes the vector to send; the cursors are past the snapshot. *)
<1>8. CASE FinishBuffering(id)
  <2>1. /\ pc[id] = "replay" /\ pc'[id] = "flush" /\ id \in DOMAIN subscribers
        /\ UNCHANGED <<request, channel, snapshot, entry>> /\ records[id] = <<>>
        /\ records'[id] = subscribers[id].buffer
        /\ subscribers'[id] = [subscribers[id] EXCEPT !.buffering = FALSE, !.buffer = <<>>]
    BY <1>8, <1>o, <1>t DEF FinishBuffering, Open
  <2>2. subscribers[id] \in Subscriber /\ snapshot[id] \in [Groups -> Nat]
    BY <1>0, <2>1 DEF TypeOK
  <2>3. /\ subscribers'[id].cursors_by_group = subscribers[id].cursors_by_group
        /\ subscribers'[id].dedup = subscribers[id].dedup
        /\ subscribers'[id].buffer = <<>>
        /\ subscribers[id].cursors_by_group \in [Groups -> Nat]
    BY <2>1, <2>2, FinishProperties DEF Subscriber
  <2>4. BufferAt(id)'
    BY <2>1, <2>3 DEF BufferAt, Ordered, UpTo
  <2>5. CountAt(id)'
    BY <2>1, <2>3 DEF CountAt, Counted
  <2>6. ASSUME Merged(id), NEW g \in GroupIds(request[id])
        PROVE  Covers(subscribers[id].buffer, g, subscribers[id].cursors_by_group[g], Announced[g])
    <3>1. Covers(subscribers[id].buffer, g, snapshot[id][g], Announced[g])
      BY <2>1, <2>6 DEF LiveAt
    <3>2. snapshot[id][g] <= subscribers[id].cursors_by_group[g]
      <4>1. ReplayAt(id)'
        BY <1>8, <2>1, OwnStep
      <4>2. snapshot'[id][g] <= subscribers'[id].cursors_by_group[g]
        BY <2>1, <2>6, <4>1 DEF ReplayAt, Merged
      <4> QED  BY <2>1, <2>3, <4>2
    <3>3. snapshot[id][g] \in Nat /\ subscribers[id].cursors_by_group[g] \in Nat /\ Announced[g] \in Int
      BY <1>a, <1>g, <2>2, <2>3
    <3>4. (subscribers[id].cursors_by_group[g] + 1) .. Announced[g]
            \subseteq (snapshot[id][g] + 1) .. Announced[g]
      BY <3>2, <3>3
    <3> QED  BY <3>1, <3>4 DEF Covers
  <2>7. LiveAt(id)'
    BY <2>1, <2>3, <2>6 DEF LiveAt, Merged
  <2> QED  BY <2>4, <2>5, <2>7
(* The buffer was sent: the cursors have passed all that was announced. *)
<1>9. CASE ReturnHandle(id)
  <2>1. /\ pc[id] = "flush" /\ pc'[id] = "live" /\ id \in DOMAIN subscribers
        /\ UNCHANGED <<subscribers, request, channel, snapshot, entry>> /\ records[id] = <<>>
    BY <1>9, <1>o, <1>t DEF ReturnHandle, Open, registry
  <2>2. Merged(id) /\ subscribers[id].cursors_by_group \in [Groups -> Nat]
    BY <1>0, <2>1 DEF LocksInv, TypeOK, Subscriber
  <2>3. ASSUME NEW g \in GroupIds(request[id])
        PROVE  Announced[g] <= subscribers[id].cursors_by_group[g]
    <3>1. Covers(<<>>, g, subscribers[id].cursors_by_group[g], Announced[g])
      BY <2>1, <2>2 DEF LiveAt
    <3>2. (subscribers[id].cursors_by_group[g] + 1) .. Announced[g] = {}
      BY <3>1 DEF Covers
    <3>3. subscribers[id].cursors_by_group[g] \in Nat /\ Announced[g] \in Int
      BY <1>a, <1>g, <2>2
    <3>4. \A a \in Nat, b \in Int : (a + 1) .. b = {} => b <= a
      <4> SUFFICES ASSUME NEW a \in Nat, NEW b \in Int, ~ (b <= a)
                   PROVE  (a + 1) .. b # {}
        OBVIOUS
      <4>1. b \in (a + 1) .. b
        OBVIOUS
      <4> QED  BY <4>1
    <3> QED  BY <3>2, <3>3, <3>4
  <2>4. BufferAt(id)' /\ CountAt(id)'
    BY <2>1 DEF BufferAt, CountAt
  <2>5. LiveAt(id)'
    BY <2>1, <2>2, <2>3 DEF LiveAt, Merged
  <2> QED  BY <2>4, <2>5
<1>10. CASE Recv(id)
  <2>1. UNCHANGED <<pc, subscribers, request, channel, snapshot, entry, records>>
    BY <1>10 DEF Recv, registry, call
  <2> QED  BY <2>1 DEF BufferAt, LiveAt, CountAt, Merged
<1>11. CASE RecvNone(id)
  BY <1>11 DEF RecvNone, registry
<1> QED
  BY <1>1, <1>2, <1>3, <1>4, <1>5, <1>6, <1>7, <1>8, <1>9, <1>10, <1>11
     DEF StepOf, SubscribeStep

-----------------------------------------------------------------------------
(* The stream of a subscription the registry does not know stands still. *)
LEMMA GoneSame ==
    ASSUME DeliveryInv, Next, NEW id \in Ids, id \notin DOMAIN subscribers'
    PROVE  UNCHANGED <<channel[id], request[id], entry[id]>>
<1>0. Open(id) => id \in DOMAIN subscribers
  BY DEF DeliveryInv, RegistryConsistent
<1>1. ASSUME NEW p \in Posters, NEW g \in Groups, NEW m \in Messages, PostAppend(p, g, m)
      PROVE  UNCHANGED <<channel[id], request[id], entry[id]>>
  BY <1>1 DEF PostAppend, call
<1>2. ASSUME NEW p \in Posters, PostPublish(p)
      PROVE  UNCHANGED <<channel[id], request[id], entry[id]>>
  BY <1>2, PublishEffect DEF Same
<1>3. ASSUME NEW i \in Ids, StepOf(i)
      PROVE  UNCHANGED <<channel[id], request[id], entry[id]>>
  <2>1. CASE i # id
    <3>1. Same(id)
      BY <1>3, <2>1, OthersSame
    <3> QED  BY <3>1 DEF Same
  <2>2. CASE i = id /\ id = next_id /\ \E g \in LiveTailGroups : SubscribeLiveTail(g)
    BY <2>2 DEF SubscribeLiveTail, Register
  <2>3. CASE i = id /\ id = next_id /\ \E req \in Requests : SubscribeMany(req)
    BY <2>3 DEF SubscribeMany, Register
  <2>4. CASE i = id /\ (FetchEntry(id) \/ EmitNext(id))
    BY <1>0, <2>4 DEF FetchEntry, EmitNext, registry, Open
  <2>5. CASE i = id /\ (\/ FetchFails(id) \/ UnregisterFailed(id) \/ LockForReplay(id)
                        \/ FinishBuffering(id) \/ ReturnHandle(id) \/ Recv(id)
                        \/ RecvNone(id) \/ Unsubscribe(id))
    BY <2>5 DEF FetchFails, UnregisterFailed, LockForReplay, FinishBuffering,
         ReturnHandle, Recv, RecvNone, Unsubscribe, call
  <2> QED  BY <1>3, <2>1, <2>2, <2>3, <2>4, <2>5 DEF StepOf, SubscribeStep
<1> QED  BY <1>1, <1>2, <1>3, NextCases

(* Posts and fan-outs, and what the subscriptions make of them. *)
LEMMA WriterAtStep ==
    ASSUME DeliveryInv, BacklogInv, WriterInv, OneWriterPerGroup, Next
    PROVE  /\ PostingInv'
           /\ \A id \in DOMAIN subscribers' : (BufferAt(id) /\ LiveAt(id) /\ CountAt(id))'
<1>0. DOMAIN subscribers \subseteq Ids /\ DOMAIN subscribers' \subseteq Ids
  <2>1. TypeOK /\ TypeOK'
    BY TypeStep DEF DeliveryInv
  <2> QED  BY <2>1 DEF TypeOK
<1>w. /\ \A id \in DOMAIN subscribers : BufferAt(id) /\ LiveAt(id) /\ CountAt(id)
      /\ PostingInv /\ \A id \in Ids : RecordsAt(id)
  BY DEF WriterInv
<1>b. LocksInv /\ \A id \in DOMAIN subscribers : BufferingAt(id) /\ ReplayAt(id)
  BY DEF BacklogInv
<1>1. ASSUME NEW p \in Posters, NEW g \in Groups, NEW m \in Messages, PostAppend(p, g, m)
      PROVE  /\ PostingInv'
             /\ \A id \in DOMAIN subscribers' : (BufferAt(id) /\ LiveAt(id) /\ CountAt(id))'
  <2>1. Announced' = Announced /\ PostingInv'
    BY <1>1, <1>w, AppendAnnounces
  <2>2. DOMAIN subscribers' = DOMAIN subscribers /\ \A id \in DOMAIN subscribers : Same(id)
    BY <1>1 DEF PostAppend, Same, registry, call
  <2> QED  BY <1>w, <2>1, <2>2, SameWriter
<1>2. ASSUME NEW p \in Posters, PostPublish(p)
      PROVE  /\ PostingInv'
             /\ \A id \in DOMAIN subscribers' : (BufferAt(id) /\ LiveAt(id) /\ CountAt(id))'
  <2> DEFINE rec == posting[p]
  <2>1. /\ Announced[rec.group_id] = rec.cursor - 1
        /\ Announced'[rec.group_id] = rec.cursor
        /\ \A h \in Groups : h # rec.group_id => Announced'[h] = Announced[h]
        /\ PostingInv'
    BY <1>2, <1>w, PublishAnnounces
  <2>2. /\ UNCHANGED <<log, pc, request, entry, records, snapshot>>
        /\ DOMAIN subscribers' = DOMAIN subscribers /\ rec \in GroupMessageRecord
        /\ \A id \in DOMAIN subscribers :
             \/ Same(id) /\ rec.group_id \notin GroupIds(request[id])
             \/ /\ rec.group_id \in GroupIds(request[id])
                /\ channel'[id] = Pushed(subscribers[id], channel[id], rec)
                /\ subscribers'[id] = Push(subscribers[id], rec)
    BY <1>0, <1>2, PublishEffect
  <2> HIDE DEF rec
  <2>3. ASSUME NEW id \in DOMAIN subscribers
        PROVE  BufferAt(id)' /\ LiveAt(id)' /\ CountAt(id)'
    <3>1. CASE Same(id) /\ rec.group_id \notin GroupIds(request[id])
      <4>1. GroupIds(request[id]) \subseteq Groups
        BY <1>0, CursorsType DEF DeliveryInv, TypeOK
      <4>2. \A g \in GroupIds(request[id]) : Announced'[g] = Announced[g]
        BY <2>1, <3>1, <4>1
      <4> QED  BY <1>w, <3>1, <4>2, SameWriter
    <3>2. CASE /\ rec.group_id \in GroupIds(request[id])
               /\ channel'[id] = Pushed(subscribers[id], channel[id], rec)
               /\ subscribers'[id] = Push(subscribers[id], rec)
      <4>1. CASE subscribers[id].buffering
        BY <1>w, <1>b, <2>1, <2>2, <3>2, <4>1, BufferWriter
      <4>2. CASE ~ subscribers[id].buffering
        <5>1. pc[id] # "flush"
          <6>1. registry_lock = Free /\ id \in Ids /\ id # Free
            BY <1>0, <1>2 DEF PostPublish, Ids, Free
          <6> QED  BY <1>b, <6>1 DEF LocksInv
        <5> QED  BY <1>w, <1>b, <2>1, <2>2, <3>2, <4>2, <5>1, SendWriter
      <4> QED  BY <4>1, <4>2
    <3> QED  BY <2>2, <3>1, <3>2
  <2> QED  BY <2>1, <2>2, <2>3
<1>3. ASSUME NEW i \in Ids, StepOf(i)
      PROVE  /\ PostingInv'
             /\ \A id \in DOMAIN subscribers' : (BufferAt(id) /\ LiveAt(id) /\ CountAt(id))'
  <2>1. UNCHANGED <<log, posting>> /\ \A id \in Ids \ {i} : Same(id)
    BY <1>3, OthersSame
  <2>2. Announced' = Announced /\ PostingInv'
    BY <1>w, <2>1 DEF Announced, PostingInv
  <2>3. ASSUME NEW id \in DOMAIN subscribers'
        PROVE  BufferAt(id)' /\ LiveAt(id)' /\ CountAt(id)'
    <3>1. CASE id = i
      BY <1>0, <1>3, <1>b, <1>w, <2>2, <3>1, OwnWriter
    <3>2. CASE id # i
      <4>1. Same(id) /\ id \in DOMAIN subscribers
        BY <1>0, <2>1, <3>2 DEF Same
      <4> QED  BY <1>w, <2>2, <4>1, SameWriter
    <3> QED  BY <3>1, <3>2
  <2> QED  BY <2>2, <2>3
<1> QED  BY <1>1, <1>2, <1>3, NextCases

(* Only a live tail registers a subscriber that does not deduplicate. *)
LEMMA DedupStep ==
    ASSUME DeliveryInv, Next, LiveTailGroups = {},
           \A id \in DOMAIN subscribers : subscribers[id].dedup
    PROVE  \A id \in DOMAIN subscribers' : subscribers'[id].dedup
<1>0. TypeOK /\ RegistryConsistent
  BY DEF DeliveryInv
<1>1. ASSUME NEW p \in Posters, NEW g \in Groups, NEW m \in Messages, PostAppend(p, g, m)
      PROVE  \A id \in DOMAIN subscribers' : subscribers'[id].dedup
  BY <1>1 DEF PostAppend, registry
<1>2. ASSUME NEW p \in Posters, PostPublish(p)
      PROVE  \A id \in DOMAIN subscribers' : subscribers'[id].dedup
  <2>1. DOMAIN subscribers' = DOMAIN subscribers /\ posting[p] \in GroupMessageRecord
    BY <1>2, PublishEffect
  <2>2. \A id \in DOMAIN subscribers :
          subscribers'[id] = subscribers[id] \/ subscribers'[id] = Push(subscribers[id], posting[p])
    BY <1>0, <1>2, PublishEffect DEF TypeOK, Same
  <2>3. \A id \in DOMAIN subscribers : Push(subscribers[id], posting[p]).dedup = subscribers[id].dedup
    BY <1>0, <2>1, PushProperties DEF TypeOK
  <2> QED  BY <2>1, <2>2, <2>3
<1>3. ASSUME NEW i \in Ids, StepOf(i)
      PROVE  \A id \in DOMAIN subscribers' : subscribers'[id].dedup
  <2> SUFFICES ASSUME NEW id \in DOMAIN subscribers' PROVE subscribers'[id].dedup
    OBVIOUS
  <2>0. id \in Ids
    BY TypeStep DEF TypeOK
  <2>1. CASE id # i
    <3>1. Same(id)
      BY <1>3, <2>0, <2>1, OthersSame
    <3> QED  BY <3>1 DEF Same
  <2>2. CASE id = i /\ EmitNext(id)
    <3>1. /\ id \in DOMAIN subscribers /\ records[id] \in Seq(GroupMessageRecord)
          /\ records[id] # <<>> /\ subscribers[id] \in Subscriber
          /\ subscribers'[id] = Noted(subscribers[id], Head(records[id]))
      BY <1>0, <2>0, <2>2 DEF EmitNext, TypeOK
    <3>2. Head(records[id]) \in GroupMessageRecord
      BY <3>1, TailVectors
    <3>3. subscribers'[id].dedup = subscribers[id].dedup
      BY <3>1, <3>2, NotedProperties
    <3> QED  BY <3>1, <3>3
  <2>3. CASE id = i /\ FinishBuffering(id)
    <3>1. /\ id \in DOMAIN subscribers /\ subscribers[id] \in Subscriber
          /\ subscribers'[id] = [subscribers[id] EXCEPT !.buffering = FALSE, !.buffer = <<>>]
      BY <1>0, <2>0, <2>3 DEF FinishBuffering, TypeOK
    <3>2. subscribers'[id].dedup = subscribers[id].dedup
      BY <3>1, FinishProperties
    <3> QED  BY <3>1, <3>2
  <2>4. CASE id = i /\ id = next_id /\ \E req \in Requests : SubscribeMany(req)
    BY <2>4 DEF SubscribeMany, Register
  <2>5. CASE id = i /\ (UnregisterFailed(id) \/ Unsubscribe(id))
    BY <2>5 DEF UnregisterFailed, Unsubscribe, RemoveSubscriber
  <2>6. CASE id = i /\ (\/ FetchEntry(id) \/ FetchFails(id) \/ LockForReplay(id)
                        \/ ReturnHandle(id) \/ Recv(id) \/ RecvNone(id))
    BY <2>6 DEF FetchEntry, FetchFails, LockForReplay, ReturnHandle, Recv, RecvNone, registry
  <2> QED  BY <1>3, <2>1, <2>2, <2>3, <2>4, <2>5, <2>6 DEF StepOf, SubscribeStep
<1> QED  BY <1>1, <1>2, <1>3, NextCases

(* Init satisfies the invariant. *)
LEMMA InitWriter == Init => WriterInv
<1> SUFFICES ASSUME Init PROVE WriterInv
  OBVIOUS
<1>1. PostingInv
  BY DEF Init, PostingInv
<1>2. \A id \in Ids : RecordsAt(id)
  BY DEF Init, RecordsAt, NamedOnce, Ordered
<1>3. DOMAIN subscribers = {}
  BY DEF Init
<1>4. StreamGapFree
  BY DEF Init, StreamGapFree
<1> QED  BY <1>1, <1>2, <1>3, <1>4 DEF WriterInv

(* Every step preserves it. *)
LEMMA WriterStep ==
    ASSUME OneWriterPerGroup, GroupsNamedOnce
    PROVE  DeliveryInv /\ BacklogInv /\ WriterInv /\ Next => WriterInv'
<1> SUFFICES ASSUME DeliveryInv, BacklogInv, WriterInv, Next PROVE WriterInv'
  OBVIOUS
<1>1. /\ PostingInv'
      /\ \A id \in DOMAIN subscribers' : (BufferAt(id) /\ LiveAt(id) /\ CountAt(id))'
  BY WriterAtStep
<1>2. \A id \in Ids : RecordsAt(id)'
  BY RecordsStep DEF WriterInv
<1>3. LiveTailGroups = {} => \A id \in DOMAIN subscribers' : subscribers'[id].dedup
  BY DedupStep DEF WriterInv
<1>4. StreamGapFree'
  <2> SUFFICES ASSUME NEW id \in Ids, Merged(id)' PROVE GapFree(request'[id], channel'[id])
    BY DEF StreamGapFree, GapFree
  <2>1. CASE id \in DOMAIN subscribers'
    <3>1. CursorInv'
      BY StreamStep DEF StreamInv
    <3>2. subscribers'[id].dedup
      BY <2>1, <3>1 DEF CursorInv
    <3> QED  BY <1>1, <2>1, <3>2 DEF CountAt
  <2>2. CASE id \notin DOMAIN subscribers'
    <3>1. UNCHANGED <<channel[id], request[id], entry[id]>>
      BY <2>2, GoneSame
    <3>2. Merged(id)
      BY <3>1 DEF Merged
    <3>3. GapFree(request[id], channel[id])
      BY <3>2 DEF WriterInv, StreamGapFree, GapFree
    <3> QED  BY <3>1, <3>3
  <2> QED  BY <2>1, <2>2
<1> QED  BY <1>1, <1>2, <1>3, <1>4 DEF WriterInv

(* Nothing changes, and the invariant stays. *)
LEMMA WriterStutter == WriterInv /\ UNCHANGED vars => WriterInv'
<1> SUFFICES ASSUME WriterInv, UNCHANGED vars PROVE WriterInv'
  OBVIOUS
<1>0. UNCHANGED <<log, posting, subscribers, pc, request, entry, records, channel, snapshot>>
  BY DEF vars, registry, call
<1>1. PostingInv'
  BY <1>0 DEF WriterInv, PostingInv
<1>2. \A id \in Ids : RecordsAt(id)'
  BY <1>0 DEF WriterInv, RecordsAt
<1>3. Announced' = Announced
  BY <1>0 DEF Announced
<1>4. \A id \in DOMAIN subscribers' : (BufferAt(id) /\ LiveAt(id) /\ CountAt(id))'
  BY <1>0, <1>3 DEF WriterInv, BufferAt, LiveAt, CountAt, Merged
<1>5. StreamGapFree'
  BY <1>0 DEF WriterInv, StreamGapFree, Merged
<1> QED  BY <1>0, <1>1, <1>2, <1>4, <1>5 DEF WriterInv

(* With one writer per group and each group named once, every reachable    *)
(* state satisfies the three invariants.                                   *)
THEOREM WriterInvariant ==
    ASSUME OneWriterPerGroup, GroupsNamedOnce
    PROVE  Spec => [](DeliveryInv /\ BacklogInv /\ WriterInv)
<1>1. Init => WriterInv
  BY InitWriter
<1>2. DeliveryInv /\ BacklogInv /\ WriterInv /\ [Next]_vars => WriterInv'
  BY WriterStep, WriterStutter
<1> QED  BY <1>1, <1>2, BacklogInvariant, PTL DEF Spec

(* The n-th message of a group that a merged subscription is sent is n     *)
(* cursors past the one it asked from: no gap, however the backlog, the    *)
(* buffer and the live fan-out are stitched together.                      *)
THEOREM StreamsGapFree ==
    ASSUME OneWriterPerGroup, GroupsNamedOnce
    PROVE  Spec => []StreamGapFree
<1>1. WriterInv => StreamGapFree
  BY DEF WriterInv
<1> QED  BY <1>1, WriterInvariant, PTL

(* A record is the one of the log if it is in the log. *)
LEMMA RecordOfLog ==
    ASSUME NEW rec \in GroupMessageRecord, InLog(log, rec)
    PROVE  rec = RecordAt(rec.group_id, rec.cursor)
BY DEF GroupMessageRecord, InLog, RecordAt

(* A live merged subscription has been sent every message of its groups    *)
(* above its cursors that was fanned out: a message is lost neither        *)
(* between the backlog read and the replay nor between the replay and the  *)
(* switch to direct delivery.                                              *)
THEOREM EveryMessageDelivered ==
    ASSUME OneWriterPerGroup, GroupsNamedOnce
    PROVE  Spec => []DeliversEveryMessage
<1>1. DeliveryInv /\ BacklogInv /\ WriterInv => DeliversEveryMessage
  <2> SUFFICES ASSUME DeliveryInv, BacklogInv, WriterInv,
                      NEW id \in Ids, pc[id] = "live", Merged(id),
                      NEW g \in GroupIds(request[id]),
                      NEW c \in (Cursors(request[id])[g] + 1) .. Len(log[g])
               PROVE  \/ \E i \in DOMAIN channel[id] : channel[id][i] = RecordAt(g, c)
                      \/ \E p \in Posters : posting[p] = RecordAt(g, c)
    BY DEF DeliversEveryMessage
  <2>0. TypeOK /\ StreamFaithful /\ InFlightInv /\ PostingInv
    BY DEF DeliveryInv, WriterInv
  <2>1. /\ id \in DOMAIN subscribers /\ subscribers[id].dedup /\ LiveAt(id) /\ CountAt(id)
    BY DEF DeliveryInv, RegistryConsistent, Open, CursorInv, WriterInv
  <2>2. /\ g \in Groups /\ Cursors(request[id])[g] \in Nat /\ Len(log[g]) \in Nat
        /\ subscribers[id].cursors_by_group[g] \in Nat /\ Announced[g] \in Int
    <3>1. g \in Groups /\ Cursors(request[id])[g] \in Nat
      BY <2>0, CursorsType DEF TypeOK
    <3>2. subscribers[id].cursors_by_group[g] \in Nat
      BY <2>0, <2>1, <3>1 DEF TypeOK, Subscriber
    <3> QED  BY <2>0, <3>1, <3>2, AnnouncedType
  <2>3. CASE c <= Announced[g]
    <3>1. Announced[g] <= subscribers[id].cursors_by_group[g]
      BY <2>1 DEF LiveAt
    <3>2. c \in (Cursors(request[id])[g] + 1) .. subscribers[id].cursors_by_group[g]
      BY <2>2, <2>3, <3>1
    <3>3. PICK i \in DOMAIN channel[id] : channel[id][i].group_id = g /\ channel[id][i].cursor = c
      BY <2>1, <2>2, <3>2 DEF CountAt, Counted, Covers
    <3>4. channel[id][i] \in GroupMessageRecord /\ InLog(log, channel[id][i])
      BY <2>0, RecordsOfSeq DEF TypeOK, StreamFaithful, Faithful
    <3> QED  BY <3>3, <3>4, RecordOfLog
  <2>4. CASE ~ (c <= Announced[g])
    <3>1. PICK p \in Posters : posting[p] # NoRecord /\ posting[p].group_id = g
      BY <2>2, <2>4 DEF Announced
    <3>2. Announced[g] = Len(log[g]) - 1
      BY <2>2, <3>1 DEF Announced
    <3>3. c = Len(log[g])
      BY <2>2, <2>4, <3>2
    <3>4. posting[p].cursor = c /\ posting[p] \in GroupMessageRecord /\ InLog(log, posting[p])
      BY <2>0, <3>1, <3>3 DEF PostingInv, TypeOK, InFlightInv
    <3> QED  BY <3>1, <3>4, RecordOfLog
  <2> QED  BY <2>3, <2>4
<1> QED  BY <1>1, WriterInvariant, PTL

-----------------------------------------------------------------------------
(***************************************************************************)
(* The refinement of MergedStream.                                         *)
(***************************************************************************)
Status == [id \in Ids |-> IF pc[id] = "none" THEN "none"
                          ELSE IF Open(id) THEN "open" ELSE "closed"]

(* The abstract stream starts at the cursors of the request. *)
FromCursors == [id \in Ids |-> [g \in GroupIds(request[id]) |-> Cursors(request[id])[g]]]

(* No log, no stream: the empty service is the empty abstract one. *)
LEMMA RefineInit == Init => Abstract!Init
<1> SUFFICES ASSUME Init PROVE Abstract!Init
  OBVIOUS
<1>1. Status = [id \in Ids |-> "none"]
  BY DEF Init, Status
<1>2. FromCursors = [id \in Ids |-> <<>>]
  <2>1. \A id \in Ids : GroupIds(request[id]) = {}
    BY DEF Init, GroupIds
  <2>2. \A id \in Ids : [g \in GroupIds(request[id]) |-> Cursors(request[id])[g]] = <<>>
    BY <2>1
  <2> QED  BY <2>2 DEF FromCursors
<1> QED  BY <1>1, <1>2 DEF Abstract!Init, Init, Status, FromCursors

(* A step that moves no log, no stream and no status is a stutter. *)
LEMMA RefineStutter ==
    ASSUME UNCHANGED <<log, request, channel>>, Status' = Status
    PROVE  UNCHANGED Abstract!vars
BY DEF Abstract!vars, Status

(* An append is a post. *)
LEMMA RefineAppend ==
    ASSUME NEW p \in Posters, NEW g \in Groups, NEW m \in Messages, PostAppend(p, g, m)
    PROVE  Abstract!Next
<1>1. UNCHANGED <<pc, request, channel>> /\ log' = [log EXCEPT ![g] = Append(@, m)]
  BY DEF PostAppend, call
<1>2. Abstract!Post(g, m)
  BY <1>1 DEF Abstract!Post, Open
<1> QED  BY <1>2 DEF Abstract!Next

(* The instance of FiniteSets that MergedStream brings counts alike. *)
LEMMA AbstractCardinality ==
    ASSUME NEW S
    PROVE  Abstract!Cardinality(S) = Cardinality(S)
BY DEF Abstract!Cardinality, Cardinality

(* Streams that are sent the record that is due to each of them. *)
LEMMA RefineDeliver ==
    ASSUME DeliveryInv, WriterInv, NEW rec \in GroupMessageRecord, InLog(log, rec),
           NEW ids \in SUBSET DOMAIN subscribers,
           \A id \in ids : /\ rec.group_id \in GroupIds(request[id]) /\ subscribers[id].dedup
                           /\ rec.cursor = subscribers[id].cursors_by_group[rec.group_id] + 1,
           channel' = [id \in Ids |-> IF id \in ids THEN Append(channel[id], rec) ELSE channel[id]],
           UNCHANGED <<log, pc, request>>
    PROVE  Abstract!Next \/ UNCHANGED Abstract!vars
<1> DEFINE g == rec.group_id
<1>0. TypeOK /\ RegistryConsistent
  BY DEF DeliveryInv
<1>1. Status' = Status
  BY DEF Status, Open
<1>2. CASE ids = {}
  <2>1. channel' = channel
    BY <1>0, <1>2 DEF TypeOK
  <2> QED  BY <1>1, <2>1, RefineStutter
<1>3. CASE ids # {}
  <2>1. g \in Groups /\ rec = RecordAt(g, rec.cursor) /\ rec.cursor \in 1 .. Len(log[g])
    BY RecordOfLog DEF InLog, GroupMessageRecord
  <2>2. rec = [group_id |-> g, cursor |-> rec.cursor, opaque_message |-> log[g][rec.cursor]]
    BY <2>1 DEF RecordAt
  <2>3. ASSUME NEW id \in ids
        PROVE  /\ id \in Ids /\ Status[id] = "open"
               /\ g \in DOMAIN FromCursors[id]
               /\ Abstract!Due(id, g) = rec.cursor
    <3>1. id \in Ids /\ id \in DOMAIN subscribers
      BY <1>0 DEF TypeOK
    <3>2. Status[id] = "open"
      BY <1>0, <3>1 DEF Status, RegistryConsistent, Open
    <3>3. FromCursors[id] = [h \in GroupIds(request[id]) |-> Cursors(request[id])[h]]
      BY <3>1 DEF FromCursors
    <3>4. g \in DOMAIN FromCursors[id] /\ FromCursors[id][g] = Cursors(request[id])[g]
      BY <3>3
    <3>5. rec.cursor = Cursors(request[id])[g] + Cardinality(Sent(channel[id], g)) + 1
      BY <2>1, <3>1 DEF WriterInv, CountAt, Counted
    <3>6. Abstract!Due(id, g) = FromCursors[id][g] + Cardinality(Sent(channel[id], g)) + 1
      <4>1. Abstract!Due(id, g) =
              FromCursors[id][g] + Cardinality({i \in DOMAIN channel[id] : channel[id][i].group_id = g}) + 1
        BY AbstractCardinality DEF Abstract!Due, FromCursors
      <4>2. {i \in DOMAIN channel[id] : channel[id][i].group_id = g} = Sent(channel[id], g)
        BY DEF Sent
      <4> QED  BY <4>1, <4>2
    <3> QED  BY <3>1, <3>2, <3>4, <3>5, <3>6
  <2>4. ids \in (SUBSET Ids) \ {{}}
    BY <1>3, <2>3
  <2>5. \A id \in ids : /\ Status[id] = "open"
                        /\ g \in DOMAIN FromCursors[id]
                        /\ Abstract!Due(id, g) <= Len(log[g])
    BY <2>1, <2>3
  <2>6. channel' = [id \in Ids |->
                      IF id \in ids
                      THEN Append(channel[id], [group_id |-> g, cursor |-> Abstract!Due(id, g),
                                                opaque_message |-> log[g][Abstract!Due(id, g)]])
                      ELSE channel[id]]
    BY <2>2, <2>3
  <2>7. Abstract!Deliver(g, ids)
    BY <1>1, <2>5, <2>6 DEF Abstract!Deliver, Status, FromCursors
  <2> QED  BY <2>1, <2>4, <2>7 DEF Abstract!Next
<1> QED  BY <1>2, <1>3

(* A fan-out delivers to all subscriptions that do not buffer. *)
LEMMA RefinePublish ==
    ASSUME DeliveryInv, BacklogInv, WriterInv, OneWriterPerGroup, LiveTailGroups = {},
           NEW p \in Posters, PostPublish(p)
    PROVE  Abstract!Next \/ UNCHANGED Abstract!vars
<1> DEFINE rec == posting[p]
           g == rec.group_id
           ids == {id \in DOMAIN subscribers :
                     /\ g \in GroupIds(request[id]) /\ ~ subscribers[id].buffering
                     /\ IsNew(subscribers[id], rec)}
<1>0. TypeOK /\ RegistryConsistent /\ PostingInv
  BY DEF DeliveryInv, WriterInv
<1>1. /\ UNCHANGED <<log, pc, request>> /\ rec \in GroupMessageRecord /\ InLog(log, rec)
      /\ \A id \in Ids :
            \/ Same(id) /\ ~ (id \in DOMAIN subscribers /\ g \in GroupIds(request[id]))
            \/ /\ id \in DOMAIN subscribers /\ g \in GroupIds(request[id])
               /\ channel'[id] = Pushed(subscribers[id], channel[id], rec)
  BY PublishEffect
<1>2. Announced[g] = rec.cursor - 1
  BY <1>0, PublishAnnounces
<1>3. channel' = [id \in Ids |-> IF id \in ids THEN Append(channel[id], rec) ELSE channel[id]]
  <2>1. channel' = [id \in Ids |-> channel'[id]]
    BY DEF PostPublish, PublishLive
  <2>2. ASSUME NEW id \in Ids
        PROVE  channel'[id] = IF id \in ids THEN Append(channel[id], rec) ELSE channel[id]
    BY <1>1 DEF Same, Pushed, Emitted
  <2> QED  BY <2>1, <2>2
<1>4. ASSUME NEW id \in ids
      PROVE  /\ g \in GroupIds(request[id]) /\ subscribers[id].dedup
             /\ rec.cursor = subscribers[id].cursors_by_group[g] + 1
  <2>1. /\ id \in DOMAIN subscribers /\ id \in Ids /\ subscribers[id].dedup
        /\ subscribers[id] \in Subscriber /\ BufferingAt(id) /\ LiveAt(id)
    BY <1>0 DEF TypeOK, WriterInv, BacklogInv
  <2>2. pc[id] = "live"
    <3>1. Open(id)
      BY <1>0, <2>1 DEF RegistryConsistent
    <3>2. registry_lock = Free /\ id # Free /\ LocksInv
      BY <2>1 DEF PostPublish, Ids, Free, BacklogInv
    <3>3. pc[id] # "flush"
      BY <2>1, <3>2 DEF LocksInv
    <3> QED  BY <2>1, <3>1, <3>3 DEF BufferingAt, Open
  <2>3. rec.cursor - 1 <= subscribers[id].cursors_by_group[g]
    BY <1>2, <2>1, <2>2 DEF LiveAt
  <2>4. rec.cursor > subscribers[id].cursors_by_group[g] /\ rec.cursor \in Nat /\ g \in Groups
    BY <1>1, <2>1, NotedCursors
  <2>5. subscribers[id].cursors_by_group[g] \in Nat
    BY <2>1, <2>4 DEF Subscriber
  <2> QED  BY <2>1, <2>3, <2>4, <2>5
<1> HIDE DEF ids, rec
<1>5. ids \in SUBSET DOMAIN subscribers
  BY DEF ids
<1> QED  BY <1>1, <1>3, <1>4, <1>5, RefineDeliver

(* emit_if_new of a replay or a flush delivers to its own stream. *)
LEMMA RefineEmit ==
    ASSUME DeliveryInv, BacklogInv, WriterInv, NEW id \in Ids, EmitNext(id)
    PROVE  Abstract!Next \/ UNCHANGED Abstract!vars
<1> DEFINE sub == subscribers[id]
           rec == Head(records[id])
           ids == IF IsNew(sub, rec) THEN {id} ELSE {}
<1>0. id \in DOMAIN subscribers
  BY DEF DeliveryInv, RegistryConsistent, EmitNext, Open
<1>1. /\ rec \in GroupMessageRecord /\ InLog(log, rec)
      /\ rec.group_id \in GroupIds(request[id]) /\ sub.dedup
      /\ IsNew(sub, rec) => rec.cursor = sub.cursors_by_group[rec.group_id] + 1
  BY <1>0, EmitDue DEF BacklogInv, WriterInv
<1>2. channel' = [channel EXCEPT ![id] = Emitted(sub, channel[id], rec)]
      /\ UNCHANGED <<log, pc, request>> /\ channel \in [Ids -> Seq(GroupMessageRecord)]
  BY DEF EmitNext, DeliveryInv, TypeOK
<1> HIDE DEF sub, rec
<1>3. channel' = [i \in Ids |-> IF i \in ids THEN Append(channel[i], rec) ELSE channel[i]]
  BY <1>2 DEF Emitted
<1>4. ids \in SUBSET DOMAIN subscribers
  BY <1>0
<1>5. \A i \in ids : /\ rec.group_id \in GroupIds(request[i]) /\ subscribers[i].dedup
                     /\ rec.cursor = subscribers[i].cursors_by_group[rec.group_id] + 1
  BY <1>1 DEF sub
<1> HIDE DEF ids
<1> QED  BY <1>1, <1>2, <1>3, <1>4, <1>5, RefineDeliver

(* Registering a merged subscription opens a stream. *)
LEMMA RefineOpen ==
    ASSUME DeliveryInv, NEW id \in Ids, id = next_id,
           NEW req \in Requests, SubscribeMany(req)
    PROVE  Abstract!Next
<1>0. TypeOK /\ CallsInv
  BY DEF DeliveryInv
<1>1. /\ UNCHANGED <<log, channel>>
      /\ pc' = [pc EXCEPT ![id] = "fetch"] /\ request' = [request EXCEPT ![id] = req]
  BY DEF SubscribeMany
<1>2. pc[id] = "none"
  BY <1>0, <1>1 DEF CallsInv, Ids
<1>3. /\ req \in Seq(FetchInput) /\ req # <<>>
      /\ GroupIds(req) \subseteq Groups /\ Cursors(req) \in [Groups -> Nat]
  BY RequestType, CursorsType
<1>4. GroupIds(req) # {}
  <2>1. 1 \in DOMAIN req
    BY <1>3, EmptySeq, LenProperties
  <2>2. req[1].group_id \in GroupIds(req)
    BY <2>1 DEF GroupIds
  <2> QED  BY <2>2
<1>5. Status[id] = "none" /\ Status' = [Status EXCEPT ![id] = "open"]
  <2>1. pc \in [Ids -> {"none", "fetch", "fetched", "failed", "error", "replay",
                        "flush", "live", "closed", "dropped", "ended"}]
    BY <1>0 DEF TypeOK
  <2> QED  BY <1>1, <1>2, <2>1 DEF Status, Open
<1>6. /\ FromCursors'[id] = [g \in GroupIds(req) |-> Cursors(req)[g]]
      /\ FromCursors' = [FromCursors EXCEPT ![id] = FromCursors'[id]]
  <2>1. DOMAIN request = Ids
    BY <1>0 DEF TypeOK
  <2>2. request'[id] = req /\ \A i \in Ids : i # id => request'[i] = request[i]
    BY <1>1, <2>1
  <2>3. FromCursors'[id] = [g \in GroupIds(req) |-> Cursors(req)[g]]
    BY <2>2 DEF FromCursors
  <2>4. \A i \in Ids : i # id => FromCursors'[i] = FromCursors[i]
    BY <2>2 DEF FromCursors
  <2>5. FromCursors' = [i \in Ids |-> FromCursors'[i]] /\ DOMAIN FromCursors = Ids
    BY DEF FromCursors
  <2> HIDE DEF FromCursors
  <2>6. FromCursors' = [FromCursors EXCEPT ![id] = FromCursors'[id]]
    BY <2>4, <2>5
  <2> QED  BY <2>3, <2>6
<1>7. /\ DOMAIN FromCursors'[id] \in (SUBSET Groups) \ {{}}
      /\ \A g \in DOMAIN FromCursors'[id] : FromCursors'[id][g] \in Nat
  BY <1>3, <1>4, <1>6
<1>8. Abstract!Open(id)
  BY <1>1, <1>5, <1>6, <1>7 DEF Abstract!Open, Status, FromCursors
<1> QED  BY <1>8 DEF Abstract!Next

(* Leaving the registry closes the stream. *)
LEMMA RefineClose ==
    ASSUME DeliveryInv, NEW id \in Ids, UnregisterFailed(id) \/ Unsubscribe(id)
    PROVE  Abstract!Next
<1>1. /\ pc[id] \in {"failed", "live"} /\ UNCHANGED <<log, request, channel>>
      /\ \E to \in {"error", "closed", "dropped"} : pc' = [pc EXCEPT ![id] = to]
  BY DEF UnregisterFailed, Unsubscribe
<1>2. pc \in [Ids -> {"none", "fetch", "fetched", "failed", "error", "replay",
                      "flush", "live", "closed", "dropped", "ended"}]
  BY DEF DeliveryInv, TypeOK
<1>3. Status[id] = "open" /\ Status' = [Status EXCEPT ![id] = "closed"]
  BY <1>1, <1>2 DEF Status, Open
<1>4. Abstract!Close(id)
  BY <1>1, <1>3 DEF Abstract!Close, Status
<1> QED  BY <1>4 DEF Abstract!Next

(* The other steps are stutters. *)
LEMMA RefineSilent ==
    ASSUME DeliveryInv, NEW id \in Ids,
           \/ FetchEntry(id) \/ FetchFails(id) \/ LockForReplay(id)
           \/ FinishBuffering(id) \/ ReturnHandle(id) \/ Recv(id) \/ RecvNone(id)
    PROVE  UNCHANGED Abstract!vars
<1>1. UNCHANGED <<log, request, channel>>
  BY DEF FetchEntry, FetchFails, LockForReplay, FinishBuffering, ReturnHandle,
       Recv, RecvNone, call
<1>2. pc \in [Ids -> {"none", "fetch", "fetched", "failed", "error", "replay",
                      "flush", "live", "closed", "dropped", "ended"}]
  BY DEF DeliveryInv, TypeOK
<1>3. \/ pc' = pc
      \/ /\ pc[id] \in {"fetch", "fetched", "replay", "flush"}
         /\ \E to \in {"fetch", "fetched", "failed", "replay", "flush", "live"} :
              pc' = [pc EXCEPT ![id] = to]
      \/ pc[id] = "closed" /\ pc' = [pc EXCEPT ![id] = "ended"]
  BY DEF FetchEntry, FetchFails, LockForReplay, FinishBuffering, ReturnHandle,
       Recv, RecvNone, call
<1>4. \A i \in Ids : Status'[i] = Status[i]
  BY <1>2, <1>3 DEF Status, Open
<1>5. Status' = Status
  BY <1>4 DEF Status
<1> QED  BY <1>1, <1>5, RefineStutter

(* Merged subscriptions implement the abstract stream: every step of the   *)
(* posters, the calls and the handles, with the registry, the buffers and  *)
(* the two mutexes, sends each subscription at most the next message of    *)
(* one group, or opens or closes a stream, or is invisible.                *)
THEOREM MergedStreamRefined ==
    ASSUME OneWriterPerGroup, GroupsNamedOnce, LiveTailGroups = {}
    PROVE  Spec => ImplementsMergedStream
<1>1. Init => Abstract!Init
  BY RefineInit
<1>2. DeliveryInv /\ BacklogInv /\ WriterInv /\ [Next]_vars => [Abstract!Next]_(Abstract!vars)
  <2>1. ASSUME DeliveryInv, BacklogInv, WriterInv, Next
        PROVE  Abstract!Next \/ UNCHANGED Abstract!vars
    <3>1. ASSUME NEW p \in Posters, NEW g \in Groups, NEW m \in Messages, PostAppend(p, g, m)
          PROVE  Abstract!Next
      BY <3>1, RefineAppend
    <3>2. ASSUME NEW p \in Posters, PostPublish(p)
          PROVE  Abstract!Next \/ UNCHANGED Abstract!vars
      BY <2>1, <3>2, RefinePublish
    <3>3. ASSUME NEW id \in Ids, StepOf(id)
          PROVE  Abstract!Next \/ UNCHANGED Abstract!vars
      <4>1. CASE id = next_id /\ \E req \in Requests : SubscribeMany(req)
        BY <2>1, <4>1, RefineOpen
      <4>2. CASE EmitNext(id)
        BY <2>1, <4>2, RefineEmit
      <4>3. CASE UnregisterFailed(id) \/ Unsubscribe(id)
        BY <2>1, <4>3, RefineClose
      <4>4. CASE \/ FetchEntry(id) \/ FetchFails(id) \/ LockForReplay(id)
                 \/ FinishBuffering(id) \/ ReturnHandle(id) \/ Recv(id) \/ RecvNone(id)
        BY <2>1, <4>4, RefineSilent
      <4> QED  BY <3>3, <4>1, <4>2, <4>3, <4>4 DEF StepOf, SubscribeStep
    <3> QED  BY <2>1, <3>1, <3>2, <3>3, NextCases
  <2>2. ASSUME UNCHANGED vars PROVE UNCHANGED Abstract!vars
    <3>1. UNCHANGED <<log, request, channel>> /\ Status' = Status
      BY <2>2 DEF vars, call, Status, Open
    <3> QED  BY <3>1, RefineStutter
  <2> QED  BY <2>1, <2>2
<1> QED  BY <1>1, <1>2, WriterInvariant, PTL DEF Spec, ImplementsMergedStream, Abstract!Spec
=============================================================================
