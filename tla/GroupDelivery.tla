--------------------------- MODULE GroupDelivery ---------------------------
(***************************************************************************)
(* Group message delivery of the coordinator: the per-group logs kept by   *)
(* storage, the posting threads, the subscriber registry with its live     *)
(* fan-out, and the subscriptions that merge stored backlog and live       *)
(* messages into one channel (cordn-core/src/coordinator.rs).              *)
(*                                                                         *)
(* What runs concurrently: every posting thread and every subscribing task *)
(* of the multi-threaded server.  Two mutexes order them: the storage      *)
(* mutex (or the one sqlite connection) and the registry mutex `inner`.    *)
(* post_group_message takes them one after the other, never together, and  *)
(* so does subscribe_many_group_messages.  A loop that runs while a mutex  *)
(* is held is a sequence of steps of the holder.                           *)
(***************************************************************************)
EXTENDS Integers, Sequences, FiniteSets

CONSTANTS
    Groups,           \* group ids
    Messages,         \* opaque message payloads
    Posters,          \* threads that run post_group_message
    MayPost,          \* the pairs <<poster, group>> that post
    Requests,         \* the inputs of subscribe_many_group_messages
    LiveTailGroups,   \* the inputs of subscribe_group_messages
    MaxLog,           \* bound: messages posted to one group
    MaxSubscribers    \* bound: subscriptions ever opened

(* One item of a subscription request; an absent `after` is 0, and the     *)
(* adapter refuses any other value below 1 and an empty list.              *)
FetchInput == [group_id : Groups, after_cursor : Nat]

ASSUME GroupsFinite == IsFiniteSet(Groups)
ASSUME MayPostAssumption == MayPost \subseteq Posters \X Groups
ASSUME RequestsAssumption == Requests \subseteq Seq(FetchInput) \ {<<>>}
ASSUME LiveTailAssumption == LiveTailGroups \subseteq Groups
ASSUME BoundsAssumption == MaxLog \in Nat /\ MaxSubscribers \in Nat

Ids == 1 .. MaxSubscribers

(* Nobody holds the mutex. *)
Free == 0

GroupMessageRecord ==
    [group_id : Groups, cursor : Nat \ {0}, opaque_message : Messages]

(* A poster between two calls. *)
NoRecord == [cursor |-> 0]

VARIABLES
    log,               \* storage: the messages of a group, the k-th at cursor k
    storage_lock,      \* who is inside fetch_many_group_messages
    posting,           \* per poster: the record appended and not yet published
    group_subscribers, \* registry: subscribed ids by group, no empty entry
    subscribers,       \* registry: Subscriber state by id
    refcounts,         \* registry: number of groups an id is registered in
    next_id,           \* registry: the next subscriber id
    registry_lock,     \* who replays backlog while holding the registry mutex
    pc,                \* per id: where its subscribe call or its handle is
    request,           \* per id: the request it was opened with
    entry,             \* per id: request items fetched so far
    records,           \* per id: the `backlog`, later the `buffered`, vector
    channel,           \* per id: everything ever sent to its channel
    taken,             \* per id: how many of those recv has returned
    snapshot           \* history: log lengths when the backlog was fetched

registry == <<group_subscribers, subscribers, refcounts, next_id>>
call == <<pc, request, entry, records, snapshot>>
vars == <<log, storage_lock, posting, registry, registry_lock, call,
          channel, taken>>

Subscriber ==
    [dedup : BOOLEAN, cursors_by_group : [Groups -> Nat],
     buffering : BOOLEAN, buffer : Seq(GroupMessageRecord)]

(***************************************************************************)
(* Storage                                                                 *)
(***************************************************************************)
RecordAt(g, c) ==
    [group_id |-> g, cursor |-> c, opaque_message |-> log[g][c]]

(* The messages of one group whose cursor is above after_cursor. *)
FetchGroupMessages(g, after) ==
    [i \in 1 .. (Len(log[g]) - after) |-> RecordAt(g, after + i)]

(***************************************************************************)
(* Subscriber                                                              *)
(***************************************************************************)
GroupIds(req) == {req[k].group_id : k \in DOMAIN req}

(* The IndexMap built from the request: for a group named twice the last   *)
(* item wins; a group never named reads as 0.                              *)
Cursors(req) ==
    [g \in Groups |->
        LET at == {k \in DOMAIN req : req[k].group_id = g}
        IN  IF at = {} THEN 0
            ELSE req[CHOOSE k \in at : \A j \in at : j <= k].after_cursor]

IsNewInclusive(sub, rec) ==
    \/ ~ sub.dedup
    \/ rec.cursor >= sub.cursors_by_group[rec.group_id]

IsNew(sub, rec) ==
    \/ ~ sub.dedup
    \/ rec.cursor > sub.cursors_by_group[rec.group_id]

(* emit_if_new, its effect on the subscriber and on its channel. *)
Noted(sub, rec) ==
    IF sub.dedup /\ IsNew(sub, rec)
    THEN [sub EXCEPT !.cursors_by_group[rec.group_id] = rec.cursor]
    ELSE sub

Emitted(sub, sent, rec) ==
    IF IsNew(sub, rec) THEN Append(sent, rec) ELSE sent

PushUnbuffered(sub, rec) == IF sub.buffering THEN sub ELSE Noted(sub, rec)

(* push: live fan-out is buffered until the backlog has been replayed. *)
Push(sub, rec) ==
    IF sub.buffering THEN [sub EXCEPT !.buffer = Append(@, rec)]
    ELSE Noted(sub, rec)

Pushed(sub, sent, rec) ==
    IF sub.buffering THEN sent ELSE Emitted(sub, sent, rec)

(***************************************************************************)
(* Registry, always under the registry mutex                               *)
(***************************************************************************)
Register(id, gids, sub) ==
    /\ group_subscribers' =
         [g \in DOMAIN group_subscribers \cup gids |->
            (IF g \in DOMAIN group_subscribers THEN group_subscribers[g] ELSE {})
              \cup (IF g \in gids THEN {id} ELSE {})]
    /\ subscribers' = [i \in DOMAIN subscribers \cup {id} |->
                         IF i = id THEN sub ELSE subscribers[i]]
    /\ refcounts' = [i \in DOMAIN refcounts \cup {id} |->
                       IF i = id THEN Cardinality(gids) ELSE refcounts[i]]
    /\ next_id' = id + 1

(* remove_subscriber: a group left without subscribers loses its entry; the *)
(* Subscriber, and with it the channel's sender, goes with the last count.  *)
RemoveSubscriber(id, gids) ==
    LET rest(g) == IF g \in gids THEN group_subscribers[g] \ {id}
                   ELSE group_subscribers[g]
        gone == id \notin DOMAIN refcounts \/ refcounts[id] <= Cardinality(gids)
    IN  /\ group_subscribers' =
             [g \in {h \in DOMAIN group_subscribers : h \notin gids \/ rest(h) # {}} |-> rest(g)]
        /\ refcounts' =
             [i \in (IF gone THEN DOMAIN refcounts \ {id} ELSE DOMAIN refcounts) |->
                IF i = id THEN refcounts[i] - Cardinality(gids) ELSE refcounts[i]]
        /\ subscribers' =
             [i \in (IF gone THEN DOMAIN subscribers \ {id} ELSE DOMAIN subscribers) |->
                subscribers[i]]
        /\ UNCHANGED next_id

PublishLive(rec) ==
    LET ids == IF rec.group_id \in DOMAIN group_subscribers
               THEN group_subscribers[rec.group_id] \cap DOMAIN subscribers
               ELSE {}
    IN  /\ subscribers' = [i \in DOMAIN subscribers |->
                             IF i \in ids THEN Push(subscribers[i], rec)
                             ELSE subscribers[i]]
        /\ channel' = [i \in Ids |->
                         IF i \in ids THEN Pushed(subscribers[i], channel[i], rec)
                         ELSE channel[i]]
        /\ UNCHANGED <<group_subscribers, refcounts, next_id>>

-----------------------------------------------------------------------------
Init ==
    /\ log = [g \in Groups |-> <<>>]
    /\ storage_lock = Free
    /\ posting = [p \in Posters |-> NoRecord]
    /\ group_subscribers = [g \in {} |-> {}]
    /\ subscribers = [i \in {} |-> {}]
    /\ refcounts = [i \in {} |-> 0]
    /\ next_id = 1
    /\ registry_lock = Free
    /\ pc = [i \in Ids |-> "none"]
    /\ request = [i \in Ids |-> <<>>]
    /\ entry = [i \in Ids |-> 0]
    /\ records = [i \in Ids |-> <<>>]
    /\ channel = [i \in Ids |-> <<>>]
    /\ taken = [i \in Ids |-> 0]
    /\ snapshot = [i \in Ids |-> [g \in Groups |-> 0]]

PostAppendFromZero(p, g, m) ==
    /\ posting[p] = NoRecord
    /\ <<p, g>> \in MayPost
    /\ storage_lock = Free
    /\ Len(log[g]) < MaxLog
    /\ log' = [log EXCEPT ![g] = Append(@, m)]
    /\ posting' = [posting EXCEPT ![p] =
                     [group_id |-> g, cursor |-> Len(log[g]), opaque_message |-> m]]
    /\ UNCHANGED <<storage_lock, registry, registry_lock, call, channel, taken>>

(***************************************************************************)
(* post_group_message: append under the storage mutex, then fan out under  *)
(* the registry mutex.  Another thread may run between the two.            *)
(***************************************************************************)
PostAppend(p, g, m) ==
    /\ posting[p] = NoRecord
    /\ <<p, g>> \in MayPost
    /\ storage_lock = Free
    /\ Len(log[g]) < MaxLog
    /\ log' = [log EXCEPT ![g] = Append(@, m)]
    /\ posting' = [posting EXCEPT ![p] =
                     [group_id |-> g, cursor |-> Len(log[g]) + 1,
                      opaque_message |-> m]]
    /\ UNCHANGED <<storage_lock, registry, registry_lock, call, channel, taken>>

PostPublish(p) ==
    /\ posting[p] # NoRecord
    /\ registry_lock = Free
    /\ PublishLive(posting[p])
    /\ posting' = [posting EXCEPT ![p] = NoRecord]
    /\ UNCHANGED <<log, storage_lock, registry_lock, call, taken>>

(***************************************************************************)
(* subscribe_group_messages: live tail of one group.                       *)
(***************************************************************************)
SubscribeLiveTail(g) ==
    LET id == next_id IN
    /\ id \in Ids
    /\ registry_lock = Free
    /\ Register(id, {g}, [dedup |-> FALSE,
                          cursors_by_group |-> [h \in Groups |-> 0],
                          buffering |-> FALSE, buffer |-> <<>>])
    /\ pc' = [pc EXCEPT ![id] = "live"]
    /\ request' = [request EXCEPT ![id] =
                     <<[group_id |-> g, after_cursor |-> 0]>>]
    /\ UNCHANGED <<log, storage_lock, posting, registry_lock, entry, records,
                   snapshot, channel, taken>>

SubscribeManyUnbuffered(req) ==
    LET id == next_id IN
    /\ id \in Ids
    /\ registry_lock = Free
    /\ Register(id, GroupIds(req), [dedup |-> TRUE,
                                    cursors_by_group |-> Cursors(req),
                                    buffering |-> FALSE, buffer |-> <<>>])
    /\ pc' = [pc EXCEPT ![id] = "fetch"]
    /\ request' = [request EXCEPT ![id] = req]
    /\ UNCHANGED <<log, storage_lock, posting, registry_lock, entry, records,
                   snapshot, channel, taken>>

(***************************************************************************)
(* subscribe_many_group_messages, step by step.                            *)
(***************************************************************************)
SubscribeMany(req) ==
    LET id == next_id IN
    /\ id \in Ids
    /\ registry_lock = Free
    /\ Register(id, GroupIds(req), [dedup |-> TRUE,
                                    cursors_by_group |-> Cursors(req),
                                    buffering |-> TRUE, buffer |-> <<>>])
    /\ pc' = [pc EXCEPT ![id] = "fetch"]
    /\ request' = [request EXCEPT ![id] = req]
    /\ UNCHANGED <<log, storage_lock, posting, registry_lock, entry, records,
                   snapshot, channel, taken>>

(* fetch_many_group_messages, one request item after the other under the   *)
(* storage mutex.                                                          *)
FetchEntry(id) ==
    LET k == entry[id] + 1
        last == k = Len(request[id])
    IN
    /\ pc[id] = "fetch"
    /\ storage_lock = IF entry[id] = 0 THEN Free ELSE id
    /\ records' = [records EXCEPT ![id] =
                     @ \o FetchGroupMessages(request[id][k].group_id,
                                             request[id][k].after_cursor)]
    /\ entry' = [entry EXCEPT ![id] = k]
    /\ snapshot' = [snapshot EXCEPT ![id] = [g \in Groups |-> Len(log[g])]]
    /\ storage_lock' = IF last THEN Free ELSE id
    /\ pc' = [pc EXCEPT ![id] = IF last THEN "fetched" ELSE "fetch"]
    /\ UNCHANGED <<log, posting, registry, registry_lock, request, channel, taken>>

(* A storage error: the records read so far are dropped, the mutex too. *)
FetchFails(id) ==
    /\ pc[id] = "fetch"
    /\ storage_lock = IF entry[id] = 0 THEN Free ELSE id
    /\ records' = [records EXCEPT ![id] = <<>>]
    /\ storage_lock' = Free
    /\ pc' = [pc EXCEPT ![id] = "failed"]
    /\ UNCHANGED <<log, posting, registry, registry_lock, request, entry,
                   snapshot, channel, taken>>

UnregisterFailedLeaks(id) ==
    /\ pc[id] = "failed"
    /\ pc' = [pc EXCEPT ![id] = "error"]
    /\ UNCHANGED <<log, storage_lock, posting, registry, registry_lock, request,
                   entry, records, snapshot, channel, taken>>

(* The caller never gets a handle, so the call unregisters before it       *)
(* returns the error.                                                      *)
UnregisterFailed(id) ==
    /\ pc[id] = "failed"
    /\ registry_lock = Free
    /\ RemoveSubscriber(id, GroupIds(request[id]))
    /\ pc' = [pc EXCEPT ![id] = "error"]
    /\ UNCHANGED <<log, storage_lock, posting, registry_lock, request, entry,
                   records, snapshot, channel, taken>>

LockForReplay(id) ==
    /\ pc[id] = "fetched"
    /\ registry_lock = Free
    /\ registry_lock' = id
    /\ pc' = [pc EXCEPT ![id] = "replay"]
    /\ UNCHANGED <<log, storage_lock, posting, registry, request, entry,
                   records, snapshot, channel, taken>>

(* emit_if_new of the first of `records`, in replay_backlog and again in   *)
(* finish_buffering.                                                       *)
EmitNext(id) ==
    /\ pc[id] \in {"replay", "flush"}
    /\ records[id] # <<>>
    /\ subscribers' = [subscribers EXCEPT ![id] = Noted(@, Head(records[id]))]
    /\ channel' = [channel EXCEPT ![id] =
                     Emitted(subscribers[id], @, Head(records[id]))]
    /\ records' = [records EXCEPT ![id] = Tail(@)]
    /\ UNCHANGED <<log, storage_lock, posting, group_subscribers, refcounts,
                   next_id, registry_lock, pc, request, entry, snapshot, taken>>

FinishBufferingDiscards(id) ==
    /\ pc[id] = "replay"
    /\ records[id] = <<>>
    /\ subscribers' = [subscribers EXCEPT ![id] =
                         [@ EXCEPT !.buffering = FALSE, !.buffer = <<>>]]
    /\ pc' = [pc EXCEPT ![id] = "flush"]
    /\ UNCHANGED <<log, storage_lock, posting, group_subscribers, refcounts,
                   next_id, registry_lock, request, entry, records, snapshot,
                   channel, taken>>

(* finish_buffering switches to direct delivery and takes the buffer. *)
FinishBuffering(id) ==
    /\ pc[id] = "replay"
    /\ records[id] = <<>>
    /\ subscribers' = [subscribers EXCEPT ![id] =
                         [@ EXCEPT !.buffering = FALSE, !.buffer = <<>>]]
    /\ records' = [records EXCEPT ![id] = subscribers[id].buffer]
    /\ pc' = [pc EXCEPT ![id] = "flush"]
    /\ UNCHANGED <<log, storage_lock, posting, group_subscribers, refcounts,
                   next_id, registry_lock, request, entry, snapshot, channel,
                   taken>>

ReturnHandleLocked(id) ==
    /\ pc[id] = "flush"
    /\ records[id] = <<>>
    /\ pc' = [pc EXCEPT ![id] = "live"]
    /\ UNCHANGED <<log, storage_lock, posting, registry, registry_lock, request,
                   entry, records, snapshot, channel, taken>>

ReturnHandle(id) ==
    /\ pc[id] = "flush"
    /\ records[id] = <<>>
    /\ registry_lock' = Free
    /\ pc' = [pc EXCEPT ![id] = "live"]
    /\ UNCHANGED <<log, storage_lock, posting, registry, request, entry,
                   records, snapshot, channel, taken>>

(***************************************************************************)
(* The handle, GroupMessageSubscription.                                   *)
(***************************************************************************)
Recv(id) ==
    /\ pc[id] \in {"live", "closed"}
    /\ taken[id] < Len(channel[id])
    /\ taken' = [taken EXCEPT ![id] = @ + 1]
    /\ UNCHANGED <<log, storage_lock, posting, registry, registry_lock, call,
                   channel>>

(* recv returns None: drained, and the sender is gone. *)
RecvNone(id) ==
    /\ pc[id] = "closed"
    /\ taken[id] = Len(channel[id])
    /\ id \notin DOMAIN subscribers
    /\ pc' = [pc EXCEPT ![id] = "ended"]
    /\ UNCHANGED <<log, storage_lock, posting, registry, registry_lock, request,
                   entry, records, snapshot, channel, taken>>

UnsubscribeForgets(id) ==
    /\ pc[id] = "live"
    /\ \E to \in {"closed", "dropped"} : pc' = [pc EXCEPT ![id] = to]
    /\ UNCHANGED <<log, storage_lock, posting, registry, registry_lock, request,
                   entry, records, snapshot, channel, taken>>

(* Explicit unsubscribe ("closed": recv still drains) or drop ("dropped"). *)
Unsubscribe(id) ==
    /\ pc[id] = "live"
    /\ registry_lock = Free
    /\ RemoveSubscriber(id, GroupIds(request[id]))
    /\ \E to \in {"closed", "dropped"} : pc' = [pc EXCEPT ![id] = to]
    /\ UNCHANGED <<log, storage_lock, posting, registry_lock, request, entry,
                   records, snapshot, channel, taken>>

Post == \E p \in Posters : PostPublish(p) \/ \E g \in Groups, m \in Messages : PostAppend(p, g, m)

(* The steps a subscribe call takes until it returns. *)
SubscribeStep(id) ==
    \/ FetchEntry(id)
    \/ FetchFails(id)
    \/ UnregisterFailed(id)
    \/ LockForReplay(id)
    \/ EmitNext(id)
    \/ FinishBuffering(id)
    \/ ReturnHandle(id)

Next ==
    \/ Post
    \/ \E g \in LiveTailGroups : SubscribeLiveTail(g)
    \/ \E req \in Requests : SubscribeMany(req)
    \/ \E id \in Ids : SubscribeStep(id) \/ Recv(id) \/ RecvNone(id) \/ Unsubscribe(id)

Spec == Init /\ [][Next]_vars

-----------------------------------------------------------------------------
(***************************************************************************)
(* Properties                                                              *)
(***************************************************************************)
(* The call or the handle is one the registry must know of. *)
Open(id) == pc[id] \in {"fetch", "fetched", "failed", "replay", "flush", "live"}

(* Opened by subscribe_many_group_messages, and its backlog (partly) read. *)
Merged(id) == entry[id] > 0

TypeOK ==
    /\ log \in [Groups -> Seq(Messages)]
    /\ storage_lock \in Ids \cup {Free}
    /\ registry_lock \in Ids \cup {Free}
    /\ posting \in [Posters -> GroupMessageRecord \cup {NoRecord}]
    /\ DOMAIN group_subscribers \subseteq Groups
    /\ group_subscribers \in [DOMAIN group_subscribers -> SUBSET Ids]
    /\ DOMAIN subscribers \subseteq Ids
    /\ subscribers \in [DOMAIN subscribers -> Subscriber]
    /\ DOMAIN refcounts \subseteq Ids
    /\ refcounts \in [DOMAIN refcounts -> Nat]
    /\ next_id \in Nat \ {0}
    /\ pc \in [Ids -> {"none", "fetch", "fetched", "failed", "error", "replay",
                       "flush", "live", "closed", "dropped", "ended"}]
    /\ request \in [Ids -> Seq(FetchInput)]
    /\ entry \in [Ids -> Nat]
    /\ records \in [Ids -> Seq(GroupMessageRecord)]
    /\ channel \in [Ids -> Seq(GroupMessageRecord)]
    /\ taken \in [Ids -> Nat]
    /\ snapshot \in [Ids -> [Groups -> Nat]]

(* The three maps of the registry agree with each other and with the calls *)
(* and handles that exist: an id is registered exactly while its call runs *)
(* or its handle is live, in exactly the groups it asked for, its refcount *)
(* is their number, and no group keeps an empty set.  So a failed fetch    *)
(* leaks nothing, and get_active_subscription_count is right.              *)
RegistryConsistent ==
    /\ DOMAIN subscribers = {id \in Ids : Open(id)}
    /\ DOMAIN refcounts = DOMAIN subscribers
    /\ \A id \in DOMAIN refcounts : refcounts[id] = Cardinality(GroupIds(request[id]))
    /\ DOMAIN group_subscribers = UNION {GroupIds(request[id]) : id \in DOMAIN subscribers}
    /\ \A g \in DOMAIN group_subscribers :
         group_subscribers[g] = {id \in DOMAIN subscribers : g \in GroupIds(request[id])}

(* The record is the one a log holds at its cursor. *)
InLog(l, r) ==
    /\ r.cursor \in 1 .. Len(l[r.group_id])
    /\ r.opaque_message = l[r.group_id][r.cursor]

(* What a subscription sends is what the log holds at that cursor, of a    *)
(* group that was asked for and above the cursor it was asked from.        *)
Faithful(l, req, sent) ==
    \A i \in DOMAIN sent :
        /\ InLog(l, sent[i])
        /\ sent[i].group_id \in GroupIds(req)
        /\ sent[i].cursor > Cursors(req)[sent[i].group_id]

StreamFaithful == \A id \in Ids : Faithful(log, request[id], channel[id])

(* A merged subscription never repeats a message of a group and never goes *)
(* back in it, whichever way posts, backlog and fan-out interleave.        *)
Ordered(sent) ==
    \A i, j \in DOMAIN sent :
        i < j /\ sent[i].group_id = sent[j].group_id => sent[i].cursor < sent[j].cursor

StreamOrdered == \A id \in Ids : Merged(id) => Ordered(channel[id])

(* Order is always backlog-then-live, across groups as well: nothing       *)
(* posted after the backlog was read overtakes a message of the backlog.   *)
BacklogBeforeLive ==
    \A id \in Ids : Merged(id) =>
        \A i, j \in DOMAIN channel[id] :
            i < j /\ channel[id][i].cursor > snapshot[id][channel[id][i].group_id]
                => channel[id][j].cursor > snapshot[id][channel[id][j].group_id]

(* Within a group a merged stream is the log from the requested cursor on, *)
(* without a gap: its n-th message of a group is n cursors past that one.  *)
StreamGapFree ==
    \A id \in Ids : Merged(id) =>
        \A i \in DOMAIN channel[id] :
            LET g == channel[id][i].group_id IN
            channel[id][i].cursor =
                Cursors(request[id])[g]
                  + Cardinality({k \in 1 .. i : channel[id][k].group_id = g})

(* A live merged subscription has been sent every message of its groups    *)
(* above the cursor it asked from, except those a poster has appended and  *)
(* not yet fanned out.                                                     *)
DeliversEveryMessage ==
    \A id \in Ids : pc[id] = "live" /\ Merged(id) =>
        \A g \in GroupIds(request[id]) :
            \A c \in (Cursors(request[id])[g] + 1) .. Len(log[g]) :
                \/ \E i \in DOMAIN channel[id] : channel[id][i] = RecordAt(g, c)
                \/ \E p \in Posters : posting[p] = RecordAt(g, c)

(***************************************************************************)
(* Inductive strengthening of RegistryConsistent, StreamFaithful and       *)
(* StreamOrdered (proved in GroupDeliveryProofs).                          *)
(***************************************************************************)
(* Every record of a vector is in the log and of a group asked for. *)
Stored(l, gids, seq) ==
    \A i \in DOMAIN seq : InLog(l, seq[i]) /\ seq[i].group_id \in gids

(* A deduplicating subscriber's cursors bound everything it was sent. *)
Bounded(sub, sent) ==
    sub.dedup => \A i \in DOMAIN sent :
                    sent[i].cursor <= sub.cursors_by_group[sent[i].group_id]

(* Ids from next_id on are unused; a fetching call has items left. *)
CallsInv ==
    \A id \in Ids :
        /\ pc[id] = "none" <=> id >= next_id
        /\ pc[id] = "none" =>
             entry[id] = 0 /\ records[id] = <<>> /\ channel[id] = <<>>
        /\ pc[id] = "fetch" => entry[id] < Len(request[id])

(* What is on its way to a channel is in the log. *)
InFlightInv ==
    /\ \A p \in Posters : posting[p] # NoRecord => InLog(log, posting[p])
    /\ \A id \in Ids : Stored(log, GroupIds(request[id]), records[id])
    /\ \A id \in DOMAIN subscribers :
         Stored(log, GroupIds(request[id]), subscribers[id].buffer)

(* A subscriber's cursors start at the requested ones and bound its stream. *)
CursorInv ==
    \A id \in DOMAIN subscribers :
        LET sub == subscribers[id] IN
        /\ Merged(id) \/ pc[id] # "live" => sub.dedup
        /\ ~ sub.dedup => \A g \in Groups : Cursors(request[id])[g] = 0
        /\ \A g \in Groups : Cursors(request[id])[g] <= sub.cursors_by_group[g]
        /\ Bounded(sub, channel[id])
        /\ sub.dedup => Ordered(channel[id])

DeliveryInv ==
    /\ TypeOK
    /\ RegistryConsistent
    /\ CallsInv
    /\ InFlightInv
    /\ CursorInv
    /\ StreamFaithful
    /\ StreamOrdered

(* Once unsubscribed, dropped or failed, a subscription is sent nothing    *)
(* more: the fan-out cannot reach it, however late the post.               *)
QuietAfterClose ==
    [][\A id \in Ids : pc[id] # "none" /\ ~ Open(id)
          => channel'[id] = channel[id]]_vars

(* A subscribe call returns: neither mutex is left held by a failed fetch, *)
(* a replay or a fan-out.                                                  *)
SubscribeReturns ==
    \A id \in Ids : pc[id] = "fetch" ~> pc[id] \in {"error", "live"}

(***************************************************************************)
(* The abstract specification: the registry, the buffers and the two       *)
(* mutexes are gone; a failing call is a stream that is opened and closed. *)
(***************************************************************************)
Abstract == INSTANCE MergedStream WITH
    stream <- channel,
    status <- [id \in Ids |-> IF pc[id] = "none" THEN "none"
                              ELSE IF Open(id) THEN "open" ELSE "closed"],
    from <- [id \in Ids |-> [g \in GroupIds(request[id]) |-> Cursors(request[id])[g]]]

(* Merged subscriptions implement the abstract stream: however the posts,  *)
(* the backlog reads, the replays and the fan-outs interleave, each step   *)
(* sends at most the next message of one group's log to each subscription. *)
(* Holds of a single writer per group and of requests that name a group    *)
(* once; live tails are not merged.                                        *)
ImplementsMergedStream == Abstract!Spec
=============================================================================
