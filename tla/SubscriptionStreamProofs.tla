---------------------- MODULE SubscriptionStreamProofs ----------------------
(***************************************************************************)
(* Proofs about SubscriptionStream: its steps are steps of GroupDelivery,  *)
(* so that what is proved of the delivery core holds under it, and a       *)
(* client that resumes reads every group's log without a gap.              *)
(***************************************************************************)
EXTENDS SubscriptionStream, GroupDeliveryProofs

(* One writer per group, no group wanted twice, and no live tails, which   *)
(* StreamNext has none of anyway.                                          *)
StreamHypotheses == OneWriterPerGroup /\ GroupsNamedOnce /\ LiveTailGroups = {}

(* Where a subscribe call is until it returns. *)
Calling == {"fetch", "fetched", "failed", "replay", "flush"}

(* Where the task is while it holds the handle. *)
Serving == {"start", "loop", "wait", "write", "written", "close", "drop"}

(* From here a record may still be forwarded. *)
Forwarding == {"call", "start", "loop", "wait", "write", "written"}

(* Where the task is, as seen from its subscription. *)
StageAt(id) ==
    /\ stage[id] = "none" <=> pc[id] = "none"
    /\ stage[id] = "call" <=> pc[id] \in Calling
    /\ stage[id] = "call" => taken[id] = 0
    /\ stage[id] \in Serving => pc[id] = "live"
    /\ stage[id] = "write" => taken[id] > 0
    /\ taken[id] <= Len(channel[id])
    /\ connected[id] => stage[id] # "none" /\ owner[id] \in Clients

(* A client reads one stream at a time. *)
OneReader ==
    \A i, j \in Ids : connected[i] /\ connected[j] /\ owner[i] = owner[j] => i = j

(* The records the task has forwarded. *)
Done(id) == IF stage[id] = "write" THEN taken[id] - 1 ELSE taken[id]

(* What the reader of a stream has of a group is what the stream was asked *)
(* to start after, or ends with a forwarded record; it includes all of     *)
(* them.                                                                   *)
FollowsIn(id, g) ==
    LET n == Len(received[owner[id]][g]) IN
    /\ \/ n = Cursors(request[id])[g]
       \/ \E i \in 1 .. Done(id) : channel[id][i].group_id = g /\ channel[id][i].cursor = n
    /\ n >= Cursors(request[id])[g]
    /\ \A i \in 1 .. Done(id) : channel[id][i].group_id = g => channel[id][i].cursor <= n

(* So it is for every stream that its client reads. *)
Follows(id) ==
    connected[id] /\ stage[id] \in Forwarding =>
        \A g \in GroupIds(request[id]) : FollowsIn(id, g)

(* What a client has read is a prefix of the log. *)
ReadsLog ==
    \A c \in Clients, g \in Groups : Len(received[c][g]) <= Len(log[g])

(* The inductive invariant of the streaming tool, beyond those of the      *)
(* delivery core.                                                          *)
ResumeInv ==
    /\ StreamTypeOK
    /\ \A g \in Groups : Len(log[g]) <= MaxLog
    /\ \A id \in Ids : StageAt(id) /\ Follows(id)
    /\ OneReader
    /\ ReadsLog
    /\ ResumeGapFree

-----------------------------------------------------------------------------
(* Types, as the proofs use them. *)
LEMMA Types ==
    ASSUME StreamTypeOK
    PROVE  /\ TypeOK
           /\ \A id \in Ids : /\ channel[id] \in Seq(GroupMessageRecord)
                              /\ Len(channel[id]) \in Nat /\ taken[id] \in Nat
                              /\ request[id] \in Seq(FetchInput)
           /\ \A g \in Groups : log[g] \in Seq(Messages) /\ Len(log[g]) \in Nat
           /\ \A c \in Clients, g \in Groups :
                /\ received[c][g] \in Seq(GroupMessageRecord)
                /\ Len(received[c][g]) \in Nat
                /\ DOMAIN received[c][g] = 1 .. Len(received[c][g])
<1>1. \A id \in Ids : /\ channel[id] \in Seq(GroupMessageRecord)
                      /\ taken[id] \in Nat /\ request[id] \in Seq(FetchInput)
  BY DEF StreamTypeOK, TypeOK
<1>2. \A g \in Groups : log[g] \in Seq(Messages)
  BY DEF StreamTypeOK, TypeOK
<1>3. \A c \in Clients, g \in Groups : received[c][g] \in Seq(GroupMessageRecord)
  BY DEF StreamTypeOK
<1> QED  BY <1>1, <1>2, <1>3, LenProperties DEF StreamTypeOK

(* The last cursor a client was given is the number of messages it has of  *)
(* the group.                                                              *)
LEMMA HaveIs ==
    ASSUME ResumeInv, NEW c \in Clients, NEW g \in Groups
    PROVE  Have(c, g) = Len(received[c][g]) /\ Have(c, g) \in 0 .. MaxLog
<1> DEFINE s == received[c][g]
           n == Len(s)
<1>1. /\ s \in Seq(GroupMessageRecord) /\ n \in Nat /\ DOMAIN s = 1 .. n
      /\ Len(log[g]) \in Nat
  BY Types DEF ResumeInv
<1>2. n <= Len(log[g]) /\ Len(log[g]) <= MaxLog /\ MaxLog \in Nat
  BY BoundsAssumption DEF ResumeInv, ReadsLog
<1>3. s = <<>> => n = 0
  BY EmptySeq
<1>4. s # <<>> => n > 0
  BY <1>1, EmptySeq
<1>5. Have(c, g) = IF s = <<>> THEN 0 ELSE s[n].cursor
  BY DEF Have, Last
<1>6. s # <<>> => s[n].cursor = n
  <2> SUFFICES ASSUME s # <<>> PROVE s[n].cursor = n
    OBVIOUS
  <2>1. n \in DOMAIN s
    BY <1>1, <1>4
  <2>2. s[n] = RecordAt(g, n)
    BY <2>1 DEF ResumeInv, ResumeGapFree
  <2> HIDE DEF n
  <2> QED  BY <2>2 DEF RecordAt
<1> HIDE DEF s, n
<1>7. Have(c, g) = n /\ n \in 0 .. MaxLog
  BY <1>1, <1>2, <1>3, <1>5, <1>6
<1> QED  BY <1>7 DEF s, n

(* What a client asks for is a request of the delivery core, and its       *)
(* cursors are what the client has.                                        *)
LEMMA ResumeRequest ==
    ASSUME ResumeInv, NEW c \in Clients
    PROVE  LET req == ResumeFrom([g \in Groups |-> Have(c, g)]) IN
           /\ req \in Requests /\ req \in Seq(FetchInput)
           /\ \A g \in GroupIds(req) : g \in Groups /\ Cursors(req)[g] = Len(received[c][g])
<1> DEFINE after == [g \in Groups |-> Have(c, g)]
           req == ResumeFrom(after)
<1>1. after \in [Groups -> 0 .. MaxLog]
  BY HaveIs
<1> HIDE DEF after
<1>2. req \in Requests
  BY <1>1, ResumesAssumption
<1>3. req \in Seq(FetchInput)
  BY <1>2, RequestsAssumption
<1>4. \A k \in DOMAIN Wanted : Wanted[k] \in Groups
  BY WantedAssumption, ElementOfSeq, LenProperties
<1>5. /\ DOMAIN req = DOMAIN Wanted
      /\ \A k \in DOMAIN req : /\ req[k].group_id = Wanted[k]
                               /\ req[k].after_cursor = after[Wanted[k]]
  BY DEF ResumeFrom
<1> HIDE DEF req
<1>6. \A g \in Groups : after[g] = Len(received[c][g])
  BY HaveIs DEF after
<1>7. ASSUME NEW g \in GroupIds(req)
      PROVE  g \in Groups /\ Cursors(req)[g] = Len(received[c][g])
  <2>1. g \in Groups
    BY <1>3, CursorsType
  <2>2. PICK k \in 1 .. Len(req) : req[k].group_id = g /\ Cursors(req)[g] = req[k].after_cursor
    BY <1>3, CursorsAt
  <2>3. k \in DOMAIN req
    BY <1>3, LenProperties
  <2> QED  BY <1>5, <1>6, <2>1, <2>2, <2>3
<1> QED  BY <1>2, <1>3, <1>7 DEF req, after

(* Every step of the streaming tool is a step of the delivery core or      *)
(* leaves the core alone.                                                  *)
LEMMA CoreStep ==
    ASSUME ResumeInv, StreamNext
    PROVE  [Next]_vars
<1>1. CASE PostTo
  BY <1>1 DEF PostTo, Next
<1>2. ASSUME NEW c \in Clients, OpenStream(c)
      PROVE  Next
  BY <1>2, ResumeRequest DEF OpenStream, Next
<1>3. ASSUME NEW id \in Ids, Subscribe(id) \/ LoopRecv(id) \/ DropSubscription(id)
      PROVE  Next
  BY <1>3 DEF Subscribe, LoopRecv, DropSubscription, Next
<1>4. ASSUME NEW id \in Ids,
             \/ SinkStart(id) \/ LoopIdle(id) \/ LoopPoll(id) \/ LoopWrite(id)
             \/ LoopWritten(id) \/ CloseSink(id) \/ CancelTask(id) \/ ClientLeaves(id)
             \/ KeepaliveTimeout(id)
      PROVE  UNCHANGED vars
  BY <1>4 DEF SinkStart, LoopIdle, LoopPoll, LoopWrite, LoopWritten, CloseSink, CancelTask,
              ClientLeaves, KeepaliveTimeout
<1> QED  BY <1>1, <1>2, <1>3, <1>4 DEF StreamNext, TaskStep

(* What was sent to a channel stays there. *)
Grows(id) ==
    /\ Len(channel[id]) <= Len(channel'[id])
    /\ \A i \in 1 .. Len(channel[id]) : channel'[id][i] = channel[id][i]

(* A record at the end changes nothing before it. *)
LEMMA AppendGrows ==
    ASSUME NEW s \in Seq(GroupMessageRecord), NEW r \in GroupMessageRecord, NEW id \in Ids,
           channel[id] = s, channel'[id] = s \/ channel'[id] = Append(s, r)
    PROVE  Grows(id)
<1>1. /\ Len(s) \in Nat /\ Len(Append(s, r)) = Len(s) + 1
      /\ \A i \in 1 .. Len(s) : Append(s, r)[i] = s[i]
  BY LenProperties, AppendProperties
<1> QED  BY <1>1 DEF Grows

(* A fan-out and a replay only append. *)
LEMMA ChannelsGrow ==
    ASSUME DeliveryInv, [Next]_vars, NEW id \in Ids
    PROVE  Grows(id)
<1>0. TypeOK /\ channel[id] \in Seq(GroupMessageRecord) /\ Len(channel[id]) \in Nat
  BY LenProperties DEF DeliveryInv, TypeOK
<1>1. ASSUME channel'[id] = channel[id]
      PROVE  Grows(id)
  BY <1>0, <1>1 DEF Grows
<1>2. CASE UNCHANGED vars
  BY <1>1, <1>2 DEF vars
<1>3. ASSUME NEW p \in Posters, NEW g \in Groups, NEW m \in Messages, PostAppend(p, g, m)
      PROVE  Grows(id)
  BY <1>1, <1>3 DEF PostAppend
<1>4. ASSUME NEW p \in Posters, PostPublish(p)
      PROVE  Grows(id)
  <2>1. posting[p] \in GroupMessageRecord
    BY <1>4, PublishEffect
  <2>2. \/ channel'[id] = channel[id]
        \/ channel'[id] = Pushed(subscribers[id], channel[id], posting[p])
    BY <1>4, PublishEffect DEF Same
  <2>3. channel'[id] = channel[id] \/ channel'[id] = Append(channel[id], posting[p])
    BY <2>2 DEF Pushed, Emitted
  <2> QED  BY <1>0, <2>1, <2>3, AppendGrows
<1>5. ASSUME NEW i \in Ids, StepOf(i)
      PROVE  Grows(id)
  <2>1. CASE i # id
    BY <1>1, <1>5, <2>1, OthersSame DEF Same
  <2>2. CASE i = id /\ EmitNext(id)
    <3>1. records[id] \in Seq(GroupMessageRecord) /\ records[id] # <<>>
      BY <1>0, <2>2 DEF TypeOK, EmitNext
    <3>2. Head(records[id]) \in GroupMessageRecord
      BY <3>1, HeadTailProperties
    <3>3. channel'[id] = Emitted(subscribers[id], channel[id], Head(records[id]))
      BY <1>0, <2>2 DEF TypeOK, EmitNext
    <3> QED  BY <1>0, <3>2, <3>3, AppendGrows DEF Emitted
  <2>3. CASE i = id /\ ~ EmitNext(id)
    <3>1. channel' = channel
      BY <1>5, <2>3 DEF StepOf, SubscribeStep, FetchEntry, FetchFails, UnregisterFailed,
           LockForReplay, FinishBuffering, ReturnHandle, Recv, RecvNone, Unsubscribe,
           SubscribeLiveTail, SubscribeMany
    <3> QED  BY <1>1, <3>1
  <2> QED  BY <2>1, <2>2, <2>3
<1> QED  BY <1>2, <1>3, <1>4, <1>5, NextCases

(* Logs grow, within the bound. *)
LEMMA LogsGrow ==
    ASSUME DeliveryInv, [Next]_vars, \A g \in Groups : Len(log[g]) <= MaxLog
    PROVE  Extends(log, log') /\ \A g \in Groups : Len(log'[g]) <= MaxLog
<1>0. \A g \in Groups : log[g] \in Seq(Messages) /\ Len(log[g]) \in Nat
  BY LenProperties DEF DeliveryInv, TypeOK
<1>1. CASE UNCHANGED vars
  BY <1>0, <1>1 DEF vars, Extends
<1>2. CASE Next
  <2>1. Extends(log, log')
    BY <1>2, LogGrows
  <2>2. ASSUME NEW p \in Posters, NEW h \in Groups, NEW m \in Messages, PostAppend(p, h, m),
               NEW g \in Groups
        PROVE  Len(log'[g]) <= MaxLog
    <3>1. /\ Len(log[h]) < MaxLog /\ log' = [log EXCEPT ![h] = Append(log[h], m)]
      BY <2>2 DEF PostAppend
    <3>2. Len(Append(log[h], m)) = Len(log[h]) + 1
      BY <1>0, AppendProperties
    <3>3. log'[g] = IF g = h THEN Append(log[h], m) ELSE log[g]
      BY <3>1 DEF DeliveryInv, TypeOK
    <3> QED  BY <1>0, <3>1, <3>2, <3>3, BoundsAssumption
  <2>3. ASSUME (\E p \in Posters : PostPublish(p)) \/ \E i \in Ids : StepOf(i)
        PROVE  log' = log
    BY <2>3, OthersSame DEF PostPublish
  <2> QED  BY <1>2, <2>1, <2>2, <2>3, NextCases
<1> QED  BY <1>1, <1>2

-----------------------------------------------------------------------------
(* The invariants of the core and of the streaming tool together. *)
StreamingInv == DeliveryInv /\ BacklogInv /\ WriterInv /\ ResumeInv

(* A vector holds each group in order and without a gap from lo to hi, and *)
(* n is the last cursor of the t-th record's group before that record.     *)
AtTurn(s, t, lo, hi, n) ==
    LET g == s[t].group_id IN
    /\ s \in Seq(GroupMessageRecord) /\ t \in 1 .. Len(s)
    /\ lo \in Nat /\ hi \in Nat /\ n \in Nat
    /\ Ordered(s) /\ Covers(s, g, lo, hi)
    /\ lo < s[t].cursor /\ s[t].cursor <= hi /\ lo <= n
    /\ n = lo \/ \E i \in 1 .. (t - 1) : s[i].group_id = g /\ s[i].cursor = n
    /\ \A i \in 1 .. (t - 1) : s[i].group_id = g => s[i].cursor <= n

(* Then the record is the one after it. *)
LEMMA NextOne ==
    ASSUME NEW s, NEW t, NEW lo, NEW hi, NEW n, AtTurn(s, t, lo, hi, n)
    PROVE  s[t].cursor = n + 1
<1> USE DEF AtTurn
<1>1. /\ DOMAIN s = 1 .. Len(s) /\ Len(s) \in Nat
      /\ \A i \in DOMAIN s : s[i].cursor \in Nat
  BY RecordsOfSeq
<1>2. t \in DOMAIN s /\ s[t].cursor \in Nat
  BY <1>1
<1>3. s[t].cursor > n
  <2>1. CASE n = lo
    BY <1>2, <2>1
  <2>2. CASE n # lo
    <3>1. PICK i \in 1 .. (t - 1) : s[i].group_id = s[t].group_id /\ s[i].cursor = n
      BY <2>2
    <3>2. i \in DOMAIN s /\ i < t
      BY <1>1, <1>2
    <3> QED  BY <1>2, <3>1, <3>2 DEF Ordered
  <2> QED  BY <2>1, <2>2
<1>4. SUFFICES ASSUME s[t].cursor > n + 1 PROVE FALSE
  BY <1>2, <1>3
<1>5. n + 1 \in (lo + 1) .. hi
  BY <1>2, <1>4
<1>6. PICK i \in DOMAIN s : s[i].group_id = s[t].group_id /\ s[i].cursor = n + 1
  BY <1>5 DEF Covers
<1>7. i < t
  <2>1. i \in Nat /\ t \in Nat
    BY <1>1
  <2>2. ~ (t < i)
    BY <1>2, <1>4, <1>6 DEF Ordered
  <2>3. i # t
    BY <1>4, <1>6
  <2> QED  BY <2>1, <2>2, <2>3
<1>8. i \in 1 .. (t - 1)
  BY <1>1, <1>7
<1> QED  BY <1>6, <1>8

(* The record a task is about to write to a connected client is the next   *)
(* one of its group's log that the client has not got.                     *)
LEMMA NextDue ==
    ASSUME StreamingInv, LiveTailGroups = {}, NEW id \in Ids, connected[id], stage[id] = "write"
    PROVE  LET r == channel[id][taken[id]]
               c == owner[id]
           IN  /\ c \in Clients /\ r \in GroupMessageRecord /\ r.group_id \in Groups
               /\ r.group_id \in GroupIds(request[id])
               /\ r.cursor = Len(received[c][r.group_id]) + 1
               /\ r.cursor <= Len(log[r.group_id])
               /\ r = RecordAt(r.group_id, r.cursor)
<1> DEFINE s == channel[id]
           t == taken[id]
           r == s[t]
           g == r.group_id
           c == owner[id]
           sub == subscribers[id]
           lo == Cursors(request[id])[g]
           hi == sub.cursors_by_group[g]
           n == Len(received[c][g])
<1>0. DeliveryInv /\ BacklogInv /\ WriterInv /\ ResumeInv /\ StreamTypeOK /\ TypeOK
  BY DEF StreamingInv, DeliveryInv, ResumeInv
<1>1. /\ pc[id] = "live" /\ t > 0 /\ t <= Len(s) /\ c \in Clients
      /\ \A h \in GroupIds(request[id]) : FollowsIn(id, h)
  BY <1>0 DEF ResumeInv, StageAt, Serving, Follows, Forwarding
<1>2. /\ s \in Seq(GroupMessageRecord) /\ Len(s) \in Nat /\ t \in Nat
      /\ request[id] \in Seq(FetchInput)
  BY <1>0, Types
<1>3. t \in 1 .. Len(s) /\ t \in DOMAIN s
  BY <1>1, <1>2, LenProperties
<1>4. r \in GroupMessageRecord /\ g \in Groups /\ r.cursor \in Nat
  BY <1>2, <1>3, RecordsOfSeq
<1>5. InLog(log, r) /\ g \in GroupIds(request[id]) /\ r.cursor > lo
  BY <1>0, <1>3 DEF DeliveryInv, StreamFaithful, Faithful
<1>6. id \in DOMAIN subscribers
  BY <1>0, <1>1 DEF DeliveryInv, RegistryConsistent, Open
<1>7. sub.dedup /\ CountAt(id) /\ sub \in Subscriber
  BY <1>0, <1>6 DEF WriterInv, TypeOK
<1>8. Covers(s, g, lo, hi)
  BY <1>4, <1>7 DEF CountAt, Counted
<1>9. Ordered(s) /\ r.cursor <= hi
  BY <1>0, <1>3, <1>6, <1>7 DEF DeliveryInv, CursorInv, Bounded
<1>10. lo \in Nat /\ hi \in Nat /\ n \in Nat
  BY <1>0, <1>1, <1>2, <1>4, <1>7, CursorsType, Types DEF Subscriber
<1>11. /\ lo <= n
       /\ n = lo \/ \E i \in 1 .. (t - 1) : s[i].group_id = g /\ s[i].cursor = n
       /\ \A i \in 1 .. (t - 1) : s[i].group_id = g => s[i].cursor <= n
  <2>1. FollowsIn(id, g) /\ Done(id) = t - 1
    BY <1>1, <1>5 DEF Done
  <2> QED  BY <1>10, <2>1 DEF FollowsIn
<1>12. r.cursor = n + 1
  <2>1. AtTurn(s, t, lo, hi, n)
    <3> HIDE DEF n, lo, hi, s, t
    <3> QED  BY <1>2, <1>3, <1>4, <1>5, <1>8, <1>9, <1>10, <1>11 DEF AtTurn
  <2> HIDE DEF n, lo, hi, s, t
  <2>2. s[t].cursor = n + 1
    BY <2>1, NextOne
  <2> QED  BY <2>2
<1>13. r.cursor <= Len(log[g]) /\ r.opaque_message = log[g][r.cursor]
  BY <1>4, <1>5 DEF InLog
<1>14. r = RecordAt(g, r.cursor)
  BY <1>4, <1>13 DEF RecordAt, GroupMessageRecord
<1> QED  BY <1>1, <1>4, <1>5, <1>12, <1>13, <1>14

(* What the reader of a stream has goes on to fit while the channel grows. *)
LEMMA FollowsKept ==
    ASSUME StreamTypeOK, NEW id \in Ids, NEW g, Grows(id), FollowsIn(id, g),
           request'[id] = request[id], owner'[id] = owner[id],
           received'[owner[id]] = received[owner[id]],
           Done(id)' = Done(id), Done(id) \in Nat, Done(id) <= Len(channel[id])
    PROVE  FollowsIn(id, g)'
<1>1. Len(channel[id]) \in Nat
  BY Types
<1>2. \A i \in 1 .. Done(id) : channel'[id][i] = channel[id][i]
  BY <1>1 DEF Grows
<1> QED  BY <1>2 DEF FollowsIn

(* The task stays, or moves while it holds the handle and not to where a   *)
(* record is due to be written.                                            *)
StageMove(i) ==
    \/ stage'[i] = stage[i]
    \/ /\ stage[i] \in Serving
       /\ stage'[i] \in Serving \ {"write"}
       /\ connected'[i] /\ stage'[i] \in Forwarding => stage[i] \in Forwarding \ {"write"}

(* A step that forwards nothing on a stream, and takes nothing from it. *)
Quiet(i) ==
    /\ pc'[i] = pc[i] /\ request'[i] = request[i] /\ taken'[i] = taken[i]
    /\ owner'[i] = owner[i]
    /\ connected'[i] => connected[i]
    /\ StageMove(i)

(* Such a step keeps what is known of the stream. *)
LEMMA QuietKeeps ==
    ASSUME ResumeInv, NEW id \in Ids, Grows(id), Quiet(id), Len(channel'[id]) \in Nat,
           connected'[id] => received'[owner[id]] = received[owner[id]]
    PROVE  StageAt(id)' /\ Follows(id)'
<1>0. StageAt(id) /\ Follows(id) /\ StreamTypeOK
  BY DEF ResumeInv
<1>1. taken[id] \in Nat /\ Len(channel[id]) \in Nat
  BY <1>0, Types
<1>2. taken[id] <= Len(channel[id]) /\ Len(channel[id]) <= Len(channel'[id])
  BY <1>0 DEF StageAt, Grows
<1>3. StageAt(id)'
  <2>1. CASE stage'[id] = stage[id]
    BY <1>0, <1>1, <1>2, <2>1 DEF StageAt, Quiet
  <2>2. CASE stage'[id] # stage[id]
    <3>1. /\ stage[id] \in Serving /\ stage'[id] \in Serving /\ stage'[id] # "write"
          /\ pc[id] = "live" /\ pc'[id] = "live"
      BY <1>0, <2>2 DEF Quiet, StageMove, StageAt
    <3> QED  BY <1>0, <1>1, <1>2, <3>1 DEF StageAt, Quiet, Serving, Calling
  <2> QED  BY <2>1, <2>2
<1>4. Follows(id)'
  <2> SUFFICES ASSUME connected'[id], stage'[id] \in Forwarding, NEW g \in GroupIds(request[id])
               PROVE  FollowsIn(id, g)'
    BY DEF Follows, Quiet
  <2>1. stage[id] \in Forwarding /\ Done(id)' = Done(id)
    BY DEF Quiet, StageMove, Done
  <2>2. FollowsIn(id, g)
    BY <1>0, <2>1 DEF Follows, Quiet
  <2>3. Done(id) \in Nat /\ Done(id) <= Len(channel[id])
    BY <1>0, <1>1, <1>2 DEF Done, StageAt
  <2> QED  BY <1>0, <2>1, <2>2, <2>3, FollowsKept DEF Quiet
<1> QED  BY <1>3, <1>4

-----------------------------------------------------------------------------
(* What clients have read stays a prefix of the logs, which only grow. *)
LEMMA ReadKept ==
    ASSUME ResumeInv, TypeOK', Extends(log, log'), received' = received
    PROVE  ReadsLog' /\ ResumeGapFree'
<1>1. \A c \in Clients, g \in Groups :
        /\ Len(received[c][g]) \in Nat /\ DOMAIN received[c][g] = 1 .. Len(received[c][g])
        /\ Len(received[c][g]) <= Len(log[g]) /\ Len(log[g]) \in Nat
  BY Types DEF ResumeInv, ReadsLog
<1>2. \A g \in Groups : Len(log'[g]) \in Nat
  BY LenProperties DEF TypeOK
<1>3. \A g \in Groups : /\ Len(log[g]) <= Len(log'[g])
                        /\ \A k \in 1 .. Len(log[g]) : log'[g][k] = log[g][k]
  BY <1>2, Types, LenProperties DEF Extends, ResumeInv
<1>4. ReadsLog'
  BY <1>1, <1>2, <1>3 DEF ReadsLog
<1>5. ASSUME NEW c \in Clients, NEW g \in Groups, NEW k \in DOMAIN received[c][g]
      PROVE  received[c][g][k] = RecordAt(g, k)'
  <2>1. k \in 1 .. Len(log[g])
    BY <1>1
  <2>2. received[c][g][k] = RecordAt(g, k)
    BY DEF ResumeInv, ResumeGapFree
  <2> QED  BY <1>3, <2>1, <2>2 DEF RecordAt
<1> QED  BY <1>4, <1>5 DEF ResumeGapFree

(* No stream gets a reader it did not have. *)
LEMMA ReaderKept ==
    ASSUME OneReader, owner' = owner, \A i \in Ids : connected'[i] => connected[i]
    PROVE  OneReader'
BY DEF OneReader

(* The types of the task's variables. *)
TaskTypeOK ==
    /\ stage \in [Ids -> {"none", "call", "start", "loop", "wait", "write",
                          "written", "close", "drop", "done"}]
    /\ active \in [Ids -> BOOLEAN]
    /\ connected \in [Ids -> BOOLEAN]
    /\ owner \in [Ids -> Clients \cup {Nobody}]
    /\ received \in [Clients -> [Groups -> Seq(GroupMessageRecord)]]

(* What holds of the core after a step, whatever the task does. *)
CoreDone ==
    /\ TypeOK' /\ Extends(log, log')
    /\ \A g \in Groups : Len(log'[g]) <= MaxLog
    /\ \A id \in Ids : Grows(id) /\ Len(channel'[id]) \in Nat

(* A step on which nothing is forwarded or taken keeps the invariant. *)
LEMMA QuietStep ==
    ASSUME ResumeInv, CoreDone, TaskTypeOK', received' = received, owner' = owner,
           \A i \in Ids : Quiet(i)
    PROVE  ResumeInv'
<1>1. \A i \in Ids : (StageAt(i) /\ Follows(i))'
  BY QuietKeeps DEF CoreDone
<1>2. OneReader'
  BY ReaderKept DEF ResumeInv, Quiet
<1> QED  BY <1>1, <1>2, ReadKept DEF ResumeInv, CoreDone, StreamTypeOK, TaskTypeOK

(* The steps of the task, the client and the library that leave the core   *)
(* alone, except the write of a record to a connected client.              *)
QuietAction(id) ==
    \/ SinkStart(id) \/ LoopIdle(id) \/ LoopPoll(id) \/ LoopWritten(id)
    \/ CloseSink(id) \/ CancelTask(id) \/ ClientLeaves(id) \/ KeepaliveTimeout(id)
    \/ LoopWrite(id) /\ (~ connected[id] \/ stage'[id] = "close")

(* They forward nothing. *)
LEMMA QuietActions ==
    ASSUME ResumeInv, CoreDone, NEW id \in Ids, QuietAction(id)
    PROVE  ResumeInv'
<1>0. TaskTypeOK /\ StageAt(id)
  BY DEF ResumeInv, StreamTypeOK, TaskTypeOK
<1>1. UNCHANGED vars /\ owner' = owner /\ received' = received
  <2>1. CASE LoopWrite(id) /\ (~ connected[id] \/ stage'[id] = "close")
    <3>1. stage' = [stage EXCEPT ![id] = "written"] => stage'[id] = "written"
      BY <1>0 DEF TaskTypeOK
    <3> QED  BY <2>1, <3>1 DEF LoopWrite, Forwarded
  <2> QED  BY <2>1 DEF QuietAction, SinkStart, LoopIdle, LoopPoll, LoopWritten, CloseSink,
                       CancelTask, ClientLeaves, KeepaliveTimeout
<1>2. /\ TaskTypeOK' /\ StageMove(id) /\ (connected'[id] => connected[id])
      /\ \A i \in Ids \ {id} : stage'[i] = stage[i] /\ connected'[i] = connected[i]
  <2> USE <1>0, <1>1 DEF TaskTypeOK, StageMove
  <2>1. CASE SinkStart(id)
    BY <2>1 DEF SinkStart, Serving, Forwarding
  <2>2. CASE LoopIdle(id)
    BY <2>2 DEF LoopIdle, Serving, Forwarding
  <2>3. CASE LoopPoll(id)
    BY <2>3 DEF LoopPoll, Serving, Forwarding
  <2>4. CASE LoopWritten(id)
    BY <2>4 DEF LoopWritten, Serving, Forwarding
  <2>5. CASE CloseSink(id)
    BY <2>5 DEF CloseSink, Serving, Forwarding
  <2>6. CASE CancelTask(id)
    BY <2>6 DEF CancelTask, Awaiting, Serving, Forwarding
  <2>7. CASE ClientLeaves(id)
    BY <2>7 DEF ClientLeaves
  <2>8. CASE KeepaliveTimeout(id)
    BY <2>8 DEF KeepaliveTimeout
  <2>9. CASE LoopWrite(id) /\ (~ connected[id] \/ stage'[id] = "close")
    <3>1. /\ stage[id] = "write" /\ active' = active /\ connected' = connected
          /\ \/ stage' = [stage EXCEPT ![id] = "close"]
             \/ stage' = [stage EXCEPT ![id] = "written"] /\ ~ connected[id]
      BY <2>9 DEF LoopWrite
    <3> QED  BY <3>1 DEF Serving, Forwarding
  <2> QED  BY <2>1, <2>2, <2>3, <2>4, <2>5, <2>6, <2>7, <2>8, <2>9 DEF QuietAction
<1>3. ASSUME NEW i \in Ids PROVE Quiet(i)
  BY <1>1, <1>2 DEF Quiet, StageMove, vars, call
<1> QED  BY <1>1, <1>2, <1>3, QuietStep

(* A post moves no task. *)
LEMMA PostMoves ==
    ASSUME DeliveryInv, ResumeInv, CoreDone, PostTo
    PROVE  ResumeInv'
<1>1. UNCHANGED <<pc, request, taken, stage, active, connected, owner, received>>
  BY DEF PostTo, Post, PostAppend, PostPublish, call, task
<1>2. TaskTypeOK'
  BY <1>1 DEF ResumeInv, StreamTypeOK, TaskTypeOK
<1>3. \A i \in Ids : Quiet(i)
  BY <1>1 DEF Quiet, StageMove
<1> QED  BY <1>1, <1>2, <1>3, QuietStep

(* A step that is about one stream: on the others nothing is forwarded. *)
LEMMA OneStream ==
    ASSUME ResumeInv, CoreDone, TaskTypeOK', NEW id \in Ids,
           received' = received, StageAt(id)', Follows(id)', OneReader',
           \A i \in Ids \ {id} : Quiet(i)
    PROVE  ResumeInv'
<1>1. \A i \in Ids : (StageAt(i) /\ Follows(i))'
  BY QuietKeeps DEF CoreDone
<1> QED  BY <1>1, ReadKept DEF ResumeInv, CoreDone, StreamTypeOK, TaskTypeOK

(* A step of one subscription, seen from the tasks of the others. *)
LEMMA OthersQuiet ==
    ASSUME DeliveryInv, NEW id \in Ids, StepOf(id),
           \A i \in Ids \ {id} : /\ stage'[i] = stage[i] /\ connected'[i] = connected[i]
                                 /\ owner'[i] = owner[i] /\ taken'[i] = taken[i]
    PROVE  \A i \in Ids \ {id} : Quiet(i)
BY OthersSame DEF Same, Quiet, StageMove

(* A client opens a stream: it has what the stream is to start after. *)
LEMMA OpenMoves ==
    ASSUME DeliveryInv, ResumeInv, CoreDone, NEW c \in Clients, OpenStream(c)
    PROVE  ResumeInv'
<1> DEFINE req == ResumeFrom([g \in Groups |-> Have(c, g)])
<1>0. TypeOK /\ TaskTypeOK /\ OneReader /\ StreamTypeOK
  BY DEF DeliveryInv, ResumeInv, StreamTypeOK, TaskTypeOK
<1>a. PICK id \in Ids : id = next_id
  BY DEF OpenStream, SubscribeMany
<1>1. /\ SubscribeMany(req) /\ req \in Requests
      /\ \A g \in GroupIds(req) : g \in Groups /\ Cursors(req)[g] = Len(received[c][g])
  BY ResumeRequest DEF OpenStream
<1>2. /\ stage' = [stage EXCEPT ![id] = "call"]
      /\ active' = [active EXCEPT ![id] = TRUE]
      /\ connected' = [connected EXCEPT ![id] = TRUE]
      /\ owner' = [owner EXCEPT ![id] = c]
      /\ received' = received
      /\ \A i \in Ids : owner[i] = c => ~ connected[i]
  BY <1>a DEF OpenStream
<1> HIDE DEF req
<1>3. /\ pc' = [pc EXCEPT ![id] = "fetch"] /\ request' = [request EXCEPT ![id] = req]
      /\ UNCHANGED <<channel, taken>>
  BY <1>a, <1>1 DEF SubscribeMany
<1>4. StepOf(id)
  BY <1>a, <1>1 DEF StepOf
<1>5. TaskTypeOK'
  BY <1>0, <1>1, <1>2 DEF TaskTypeOK
<1>6. \A i \in Ids \ {id} : Quiet(i)
  <2>1. \A i \in Ids \ {id} : /\ stage'[i] = stage[i] /\ connected'[i] = connected[i]
                              /\ owner'[i] = owner[i] /\ taken'[i] = taken[i]
    BY <1>0, <1>2, <1>3 DEF TaskTypeOK
  <2> QED  BY <1>1, <1>4, <2>1, OthersQuiet
<1>7. /\ stage'[id] = "call" /\ pc'[id] = "fetch" /\ request'[id] = req
      /\ connected'[id] /\ owner'[id] = c
  BY <1>0, <1>1, <1>2, <1>3 DEF TaskTypeOK, TypeOK
<1>8. taken'[id] = 0 /\ Len(channel'[id]) = 0
  <2>1. pc[id] = "none"
    BY <1>a, <1>0 DEF DeliveryInv, CallsInv, TypeOK
  <2>2. channel[id] = <<>> /\ taken[id] <= Len(channel[id])
    BY <1>1, <2>1 DEF DeliveryInv, CallsInv, ResumeInv, StageAt
  <2>3. taken[id] \in Nat /\ Len(channel[id]) = 0
    BY <1>0, <1>1, <2>2, Types, EmptySeq
  <2> QED  BY <1>3, <2>2, <2>3
<1>9. StageAt(id)'
  BY <1>7, <1>8 DEF StageAt, Calling, Serving
<1>10. Follows(id)'
  <2> SUFFICES ASSUME NEW g \in GroupIds(req) PROVE FollowsIn(id, g)'
    BY <1>7 DEF Follows
  <2>1. /\ Done(id)' = 0 /\ Len(received[c][g]) \in Nat
        /\ Cursors(req)[g] = Len(received[c][g])
    BY <1>0, <1>1, <1>7, <1>8, Types DEF Done
  <2> QED  BY <1>2, <1>7, <2>1 DEF FollowsIn
<1>11. OneReader'
  BY <1>0, <1>1, <1>2 DEF OneReader, TaskTypeOK
<1> QED  BY <1>1, <1>2, <1>5, <1>6, <1>9, <1>10, <1>11, OneStream

(* A step of the subscribe call: nothing is taken from the channel. *)
LEMMA CallMoves ==
    ASSUME DeliveryInv, ResumeInv, CoreDone, NEW id \in Ids, Subscribe(id)
    PROVE  ResumeInv'
<1>0. TypeOK /\ TaskTypeOK /\ OneReader /\ StreamTypeOK /\ StageAt(id) /\ Follows(id)
  BY DEF DeliveryInv, ResumeInv, StreamTypeOK, TaskTypeOK
<1>1. /\ SubscribeStep(id)
      /\ UNCHANGED <<active, owner, received>>
      /\ connected' = [connected EXCEPT ![id] = connected[id] /\ pc'[id] # "error"]
  BY DEF Subscribe
<1>2. /\ UNCHANGED <<request, taken>>
      /\ pc[id] \in Calling /\ pc'[id] \in Calling \cup {"error", "live"}
  BY <1>0, <1>1 DEF SubscribeStep, FetchEntry, FetchFails, UnregisterFailed, LockForReplay,
       EmitNext, FinishBuffering, ReturnHandle, TypeOK, Calling
<1>3. /\ pc'[id] = "error" => stage' = [stage EXCEPT ![id] = "done"]
      /\ pc'[id] = "live" => stage' = [stage EXCEPT ![id] = "start"]
      /\ pc'[id] \in Calling => stage' = stage
  BY DEF Subscribe, Calling
<1>4. stage[id] = "call" /\ taken[id] = 0 /\ taken'[id] = 0
  BY <1>0, <1>2 DEF StageAt
<1>5. /\ TaskTypeOK'
      /\ \A i \in Ids \ {id} : stage'[i] = stage[i] /\ connected'[i] = connected[i]
      /\ connected'[id] => connected[id]
      /\ pc'[id] = "error" => stage'[id] = "done"
      /\ pc'[id] = "live" => stage'[id] = "start"
      /\ pc'[id] \in Calling => stage'[id] = "call"
  BY <1>0, <1>1, <1>2, <1>3, <1>4 DEF TaskTypeOK
<1>6. \A i \in Ids \ {id} : Quiet(i)
  BY <1>1, <1>2, <1>5, OthersQuiet DEF StepOf
<1>7. Len(channel'[id]) \in Nat /\ Len(channel'[id]) >= 0 /\ Grows(id)
  BY DEF CoreDone
<1>8. StageAt(id)'
  BY <1>0, <1>1, <1>2, <1>4, <1>5, <1>7 DEF StageAt, Calling, Serving
<1>9. Follows(id)'
  <2> SUFFICES ASSUME connected'[id], stage'[id] \in Forwarding, NEW g \in GroupIds(request[id])
               PROVE  FollowsIn(id, g)'
    BY <1>2 DEF Follows
  <2>1. FollowsIn(id, g)
    BY <1>0, <1>4, <1>5 DEF Follows, Forwarding
  <2>2. Done(id)' = 0 /\ Done(id) = 0
    BY <1>2, <1>4, <1>5 DEF Done
  <2>3. Len(channel[id]) \in Nat
    BY <1>0, Types
  <2> QED  BY <1>0, <1>1, <1>2, <1>7, <2>1, <2>2, <2>3, FollowsKept
<1>10. OneReader'
  BY <1>0, <1>1, <1>5, ReaderKept
<1> QED  BY <1>1, <1>5, <1>6, <1>8, <1>9, <1>10, OneStream

(* recv returns a record, which is then due to be written. *)
LEMMA RecvMoves ==
    ASSUME DeliveryInv, ResumeInv, CoreDone, NEW id \in Ids, LoopRecv(id)
    PROVE  ResumeInv'
<1>0. TypeOK /\ TaskTypeOK /\ OneReader /\ StreamTypeOK /\ StageAt(id) /\ Follows(id)
  BY DEF DeliveryInv, ResumeInv, StreamTypeOK, TaskTypeOK
<1>1. /\ stage[id] \in {"loop", "wait"} /\ Recv(id)
      /\ stage' = [stage EXCEPT ![id] = "write"]
      /\ UNCHANGED <<active, connected, owner, received>>
  BY DEF LoopRecv
<1>2. /\ taken[id] < Len(channel[id]) /\ taken' = [taken EXCEPT ![id] = taken[id] + 1]
      /\ UNCHANGED <<pc, request, channel>>
  BY <1>1 DEF Recv, call
<1>3. /\ taken[id] \in Nat /\ Len(channel[id]) \in Nat
      /\ stage'[id] = "write" /\ taken'[id] = taken[id] + 1
  BY <1>0, <1>1, <1>2, Types DEF TaskTypeOK, TypeOK
<1>4. /\ TaskTypeOK'
      /\ \A i \in Ids \ {id} : stage'[i] = stage[i] /\ taken'[i] = taken[i]
  BY <1>0, <1>1, <1>2 DEF TaskTypeOK, TypeOK
<1>5. \A i \in Ids \ {id} : Quiet(i)
  BY <1>1, <1>4, OthersQuiet DEF StepOf
<1>6. StageAt(id)'
  BY <1>0, <1>1, <1>2, <1>3 DEF StageAt, Calling, Serving
<1>7. Follows(id)'
  <2> SUFFICES ASSUME connected[id], NEW g \in GroupIds(request[id])
               PROVE  FollowsIn(id, g)'
    BY <1>1, <1>2 DEF Follows
  <2>1. FollowsIn(id, g)
    BY <1>0, <1>1 DEF Follows, Forwarding
  <2>2. Done(id)' = Done(id) /\ Done(id) = taken[id]
    BY <1>1, <1>3 DEF Done
  <2> QED  BY <1>0, <1>1, <1>2, <1>3, <2>1, <2>2, FollowsKept DEF CoreDone
<1>8. OneReader'
  BY <1>0, <1>1, ReaderKept
<1> QED  BY <1>1, <1>4, <1>5, <1>6, <1>7, <1>8, OneStream

(* The handle is dropped, and the task is over. *)
LEMMA DropMoves ==
    ASSUME DeliveryInv, ResumeInv, CoreDone, NEW id \in Ids, DropSubscription(id)
    PROVE  ResumeInv'
<1>0. TypeOK /\ TaskTypeOK /\ OneReader /\ StreamTypeOK /\ StageAt(id) /\ Follows(id)
  BY DEF DeliveryInv, ResumeInv, StreamTypeOK, TaskTypeOK
<1>1. /\ stage[id] = "drop" /\ Unsubscribe(id) /\ pc'[id] = "dropped"
      /\ stage' = [stage EXCEPT ![id] = "done"]
      /\ UNCHANGED <<active, connected, owner, received>>
  BY DEF DropSubscription
<1>2. UNCHANGED <<taken, channel>>
  BY <1>1 DEF Unsubscribe
<1>3. /\ TaskTypeOK' /\ stage'[id] = "done"
      /\ \A i \in Ids \ {id} : stage'[i] = stage[i]
  BY <1>0, <1>1 DEF TaskTypeOK
<1>4. \A i \in Ids \ {id} : Quiet(i)
  BY <1>1, <1>2, <1>3, OthersQuiet DEF StepOf
<1>5. StageAt(id)'
  BY <1>0, <1>1, <1>2, <1>3 DEF StageAt, Calling, Serving
<1>6. Follows(id)'
  BY <1>3 DEF Follows, Forwarding
<1>7. OneReader'
  BY <1>0, <1>1, ReaderKept
<1> QED  BY <1>1, <1>3, <1>4, <1>5, <1>6, <1>7, OneStream

(* A record goes out to a connected client: it is the next of its group,   *)
(* and no other stream of that client is read.                             *)
LEMMA WriteMoves ==
    ASSUME StreamingInv, LiveTailGroups = {}, CoreDone, NEW id \in Ids, LoopWrite(id),
           connected[id], stage'[id] # "close"
    PROVE  ResumeInv'
<1>0. ResumeInv /\ TypeOK /\ TaskTypeOK /\ OneReader /\ StreamTypeOK /\ StageAt(id) /\ Follows(id)
  BY DEF StreamingInv, ResumeInv, StreamTypeOK, TaskTypeOK
<1>1. /\ stage[id] = "write" /\ stage' = [stage EXCEPT ![id] = "written"]
      /\ received' = Forwarded(id)
      /\ UNCHANGED <<vars, active, connected, owner>>
  BY <1>0 DEF LoopWrite, TaskTypeOK
<1>2. UNCHANGED <<log, pc, request, channel, taken>>
  BY <1>1 DEF vars, call
<1>3. PICK r \in GroupMessageRecord, c \in Clients, g \in Groups, t \in Nat :
        /\ t = taken[id] /\ r = channel[id][t] /\ c = owner[id] /\ g = r.group_id
        /\ g \in GroupIds(request[id])
        /\ r.cursor = Len(received[c][g]) + 1 /\ r.cursor <= Len(log[g])
        /\ r = RecordAt(g, r.cursor)
  <2>1. taken[id] \in Nat
    BY <1>0, Types
  <2> QED  BY <1>1, <2>1, NextDue
<1>4. /\ \A d \in Clients, h \in Groups :
           received'[d][h] = IF d = c /\ h = g THEN Append(received[c][g], r)
                             ELSE received[d][h]
      /\ \A d \in Clients \ {c} : received'[d] = received[d]
      /\ received' \in [Clients -> [Groups -> Seq(GroupMessageRecord)]]
  <2>1. received' = [received EXCEPT ![c][g] = Append(received[c][g], r)]
    BY <1>1, <1>3 DEF Forwarded
  <2>2. Append(received[c][g], r) \in Seq(GroupMessageRecord)
    BY <1>0, AppendProperties DEF TaskTypeOK
  <2> QED  BY <1>0, <2>1, <2>2 DEF TaskTypeOK
<1>5. PICK s \in Seq(GroupMessageRecord), n \in Nat :
        /\ s = received[c][g] /\ n = Len(s) /\ DOMAIN s = 1 .. n
        /\ Len(Append(s, r)) = n + 1 /\ DOMAIN Append(s, r) = 1 .. (n + 1)
        /\ \A k \in 1 .. n : Append(s, r)[k] = s[k]
        /\ Append(s, r)[n + 1] = r
  <2>1. received[c][g] \in Seq(GroupMessageRecord)
    BY <1>0, Types
  <2> QED  BY <2>1, AppendVectors, AppendProperties, LenProperties
<1>b. r.cursor = n + 1 /\ n + 1 <= Len(log[g]) /\ r = RecordAt(g, n + 1)
  <2>1. r.cursor = n + 1
    BY <1>3, <1>5
  <2> QED  BY <1>3, <2>1
<1>6. /\ TaskTypeOK' /\ stage'[id] = "written"
      /\ \A i \in Ids \ {id} : stage'[i] = stage[i]
  BY <1>0, <1>1, <1>4 DEF TaskTypeOK
<1>7. ASSUME NEW i \in Ids \ {id}
      PROVE  (StageAt(i) /\ Follows(i))'
  <2>1. Quiet(i)
    BY <1>1, <1>2, <1>6 DEF Quiet, StageMove
  <2>2. connected'[i] => owner[i] \in Clients \ {c}
    BY <1>0, <1>1, <1>3 DEF OneReader, ResumeInv, StageAt
  <2> QED  BY <1>0, <1>4, <2>1, <2>2, QuietKeeps DEF CoreDone
<1>8. StageAt(id)'
  BY <1>0, <1>1, <1>2, <1>6 DEF StageAt, Calling, Serving
<1>9. Follows(id)'
  <2> SUFFICES ASSUME NEW h \in GroupIds(request[id]) PROVE FollowsIn(id, h)'
    BY <1>2 DEF Follows
  <2>1. FollowsIn(id, h) /\ Done(id) = t - 1 /\ Done(id)' = t /\ t > 0
    BY <1>0, <1>1, <1>2, <1>3, <1>6 DEF Follows, Forwarding, Done, StageAt
  <2>2. h \in Groups /\ Cursors(request[id])[h] \in Nat
    BY <1>0, Types, CursorsType
  <2>3. 1 .. t = (1 .. (t - 1)) \cup {t}
    BY <2>1
  <2>4. CASE h # g
    <3>1. received'[c][h] = received[c][h]
      BY <1>4, <2>2, <2>4
    <3>2. \A i \in 1 .. t : channel[id][i].group_id = h => i \in 1 .. (t - 1)
      BY <1>3, <2>3, <2>4
    <3>3. 1 .. (t - 1) \subseteq 1 .. t
      BY <2>3
    <3> QED  BY <1>1, <1>2, <1>3, <2>1, <3>1, <3>2, <3>3 DEF FollowsIn
  <2>5. CASE h = g
    <3>1. Len(received'[c][h]) = n + 1 /\ Len(received[c][h]) = n
      BY <1>4, <1>5, <2>2, <2>5
    <3>2. /\ n >= Cursors(request[id])[h]
          /\ \A i \in 1 .. (t - 1) : channel[id][i].group_id = h => channel[id][i].cursor <= n
      BY <1>3, <2>1, <3>1 DEF FollowsIn
    <3>3. t \in 1 .. t /\ channel[id][t].group_id = h /\ channel[id][t].cursor = n + 1
      <4>1. r = channel[id][t] /\ r.group_id = g
        BY <1>3
      <4> QED  BY <1>b, <2>1, <2>5, <4>1
    <3>4. \A i \in 1 .. (t - 1) : channel[id][i].group_id = h => channel[id][i].cursor <= n + 1
      <4> SUFFICES ASSUME NEW i \in 1 .. (t - 1), channel[id][i].group_id = h
                   PROVE  channel[id][i].cursor <= n + 1
        OBVIOUS
      <4>1. /\ channel[id] \in Seq(GroupMessageRecord) /\ Len(channel[id]) \in Nat
            /\ t <= Len(channel[id])
        BY <1>0, <1>3, Types DEF StageAt
      <4>2. channel[id][i].cursor \in Nat
        BY <4>1, RecordsOfSeq
      <4> QED  BY <3>2, <4>2
    <3>5. \A i \in 1 .. t : channel[id][i].group_id = h => channel[id][i].cursor <= n + 1
      BY <2>3, <3>3, <3>4
    <3>6. n + 1 >= Cursors(request[id])[h]
      BY <2>2, <3>2
    <3> QED  BY <1>1, <1>2, <1>3, <2>1, <3>1, <3>3, <3>5, <3>6 DEF FollowsIn
  <2> QED  BY <2>4, <2>5
<1>10. ReadsLog'
  <2> SUFFICES ASSUME NEW d \in Clients, NEW h \in Groups
               PROVE  Len(received'[d][h]) <= Len(log[h])
    BY <1>2 DEF ReadsLog
  <2>1. Len(received[d][h]) <= Len(log[h])
    BY <1>0 DEF ResumeInv, ReadsLog
  <2>2. CASE d = c /\ h = g
    <3>1. received'[d][h] = Append(s, r)
      BY <1>4, <1>5, <2>2
    <3>2. Len(received'[d][h]) = n + 1
      BY <1>5, <3>1
    <3> QED  BY <1>b, <2>2, <3>2
  <2>3. CASE ~ (d = c /\ h = g)
    <3>1. received'[d][h] = received[d][h]
      BY <1>4, <2>3
    <3> QED  BY <2>1, <3>1
  <2> QED  BY <2>2, <2>3
<1>11. ResumeGapFree'
  <2> SUFFICES ASSUME NEW d \in Clients, NEW h \in Groups, NEW k \in DOMAIN received'[d][h]
               PROVE  received'[d][h][k] = RecordAt(h, k)
    <3>1. \A h \in Groups : \A k : RecordAt(h, k)' = RecordAt(h, k)
      BY <1>2 DEF RecordAt
    <3> QED  BY <3>1 DEF ResumeGapFree
  <2>1. CASE ~ (d = c /\ h = g)
    <3>1. received'[d][h] = received[d][h]
      BY <1>4, <2>1
    <3>2. ResumeGapFree
      BY <1>0 DEF ResumeInv
    <3> QED  BY <3>1, <3>2 DEF ResumeGapFree
  <2>2. CASE d = c /\ h = g
    <3>1. received'[d][h] = Append(s, r) /\ k \in 1 .. (n + 1)
      BY <1>4, <1>5, <2>2
    <3>2. CASE k = n + 1
      BY <1>b, <1>5, <2>2, <3>1, <3>2
    <3>3. CASE k # n + 1
      <4>1. k \in 1 .. n
        BY <3>1, <3>3
      <4>2. s[k] = RecordAt(g, k)
        BY <1>0, <1>5, <4>1 DEF ResumeInv, ResumeGapFree
      <4> QED  BY <1>5, <2>2, <3>1, <4>1, <4>2
    <3> QED  BY <3>2, <3>3
  <2> QED  BY <2>1, <2>2
<1>12. OneReader'
  BY <1>0, <1>1, ReaderKept
<1> QED  BY <1>6, <1>7, <1>8, <1>9, <1>10, <1>11, <1>12
         DEF ResumeInv, CoreDone, StreamTypeOK, TaskTypeOK

-----------------------------------------------------------------------------
(* At start no stream is open and nothing has been read. *)
LEMMA InitResume == StreamInit => StreamingInv
<1> SUFFICES ASSUME StreamInit PROVE StreamingInv
  OBVIOUS
<1>1. DeliveryInv /\ BacklogInv /\ WriterInv
  BY InitInv, InitBacklog, InitWriter DEF StreamInit
<1>2. StreamTypeOK
  BY <1>1 DEF StreamInit, StreamTypeOK, DeliveryInv
<1>3. ASSUME NEW id \in Ids
      PROVE  StageAt(id) /\ Follows(id)
  <2>1. /\ stage[id] = "none" /\ pc[id] = "none" /\ ~ connected[id]
        /\ taken[id] = 0 /\ channel[id] = <<>>
    BY DEF StreamInit, Init
  <2>2. Len(channel[id]) = 0
    BY <2>1, EmptySeq
  <2> QED  BY <2>1, <2>2 DEF StageAt, Follows, Calling, Serving
<1>4. OneReader
  BY DEF StreamInit, OneReader
<1>5. /\ \A g \in Groups : Len(log[g]) = 0
      /\ \A c \in Clients, g \in Groups : received[c][g] = <<>>
  BY EmptySeq DEF StreamInit, Init
<1>6. /\ \A g \in Groups : Len(log[g]) <= MaxLog
      /\ ReadsLog /\ ResumeGapFree
  BY <1>5, BoundsAssumption, EmptySeq DEF ReadsLog, ResumeGapFree
<1> QED  BY <1>1, <1>2, <1>3, <1>4, <1>6 DEF StreamingInv, ResumeInv

(* Steps of the core preserve its invariants. *)
LEMMA CoreKept ==
    ASSUME StreamHypotheses, DeliveryInv, BacklogInv, WriterInv, [Next]_vars
    PROVE  DeliveryInv' /\ BacklogInv' /\ WriterInv'
<1>1. DeliveryInv'
  BY InvStutter, TypeStep, RegistryStep, CallsStep, InFlightStep, StreamStep
     DEF DeliveryInv, StreamInv
<1>2. BacklogInv'
  <2>1. CASE Next
    <3>1. LocksInv' /\ BacklogBeforeLive'
      BY <2>1, LocksStep, BeforeLiveStep DEF BacklogInv
    <3>2. \A id \in DOMAIN subscribers' : (BufferingAt(id) /\ ReplayAt(id))'
      BY <2>1, ReplayStep DEF BacklogInv
    <3> QED  BY <3>1, <3>2 DEF BacklogInv
  <2> QED  BY <2>1, BacklogStutter
<1>3. WriterInv'
  BY WriterStep, WriterStutter DEF StreamHypotheses
<1> QED  BY <1>1, <1>2, <1>3

(* Every step of the streaming tool preserves the invariants. *)
LEMMA StreamingStep ==
    ASSUME StreamHypotheses, StreamingInv, [StreamNext]_stream_vars
    PROVE  StreamingInv'
<1>0. DeliveryInv /\ BacklogInv /\ WriterInv /\ ResumeInv /\ LiveTailGroups = {}
  BY DEF StreamingInv, StreamHypotheses
<1>1. [Next]_vars
  BY <1>0, CoreStep DEF stream_vars
<1>2. DeliveryInv' /\ BacklogInv' /\ WriterInv'
  BY <1>0, <1>1, CoreKept
<1>3. CoreDone
  <2>1. TypeOK'
    BY <1>2 DEF DeliveryInv
  <2>2. \A id \in Ids : Len(channel'[id]) \in Nat
    BY <2>1, LenProperties DEF TypeOK
  <2>3. Extends(log, log') /\ \A g \in Groups : Len(log'[g]) <= MaxLog
    BY <1>0, <1>1, LogsGrow DEF ResumeInv
  <2>4. \A id \in Ids : Grows(id)
    BY <1>0, <1>1, ChannelsGrow
  <2> QED  BY <2>1, <2>2, <2>3, <2>4 DEF CoreDone
<1>4. ResumeInv'
  <2>1. CASE PostTo
    BY <1>0, <1>3, <2>1, PostMoves
  <2>2. ASSUME NEW c \in Clients, OpenStream(c) PROVE ResumeInv'
    BY <1>0, <1>3, <2>2, OpenMoves
  <2>3. ASSUME NEW id \in Ids, TaskStep(id) \/ CancelTask(id) \/ ClientLeaves(id)
                               \/ KeepaliveTimeout(id)
        PROVE  ResumeInv'
    <3>1. CASE Subscribe(id)
      BY <1>0, <1>3, <3>1, CallMoves
    <3>2. CASE LoopRecv(id)
      BY <1>0, <1>3, <3>2, RecvMoves
    <3>3. CASE DropSubscription(id)
      BY <1>0, <1>3, <3>3, DropMoves
    <3>4. CASE QuietAction(id)
      BY <1>0, <1>3, <3>4, QuietActions
    <3>5. CASE LoopWrite(id) /\ connected[id] /\ stage'[id] # "close"
      BY <1>0, <1>3, <3>5, WriteMoves
    <3> QED  BY <2>3, <3>1, <3>2, <3>3, <3>4, <3>5 DEF TaskStep, QuietAction
  <2>4. CASE UNCHANGED stream_vars
    <3>1. UNCHANGED <<pc, request, taken, stage, active, connected, owner, received>>
      BY <2>4 DEF stream_vars, vars, call, task
    <3>2. TaskTypeOK'
      BY <1>0, <3>1 DEF ResumeInv, StreamTypeOK, TaskTypeOK
    <3>3. \A i \in Ids : Quiet(i)
      BY <3>1 DEF Quiet, StageMove
    <3> QED  BY <1>0, <1>3, <3>1, <3>2, <3>3, QuietStep
  <2> QED  BY <2>1, <2>2, <2>3, <2>4 DEF StreamNext
<1> QED  BY <1>2, <1>4 DEF StreamingInv

(* The invariants of the delivery core, and on top of them: a task is      *)
(* where its subscription allows it to be, a client reads one stream, and  *)
(* what it has of a group is where that stream goes on.                    *)
THEOREM StreamingInvariant ==
    ASSUME StreamHypotheses
    PROVE  StreamSpec => []StreamingInv
<1>1. StreamInit => StreamingInv
  BY InitResume
<1>2. StreamingInv /\ [StreamNext]_stream_vars => StreamingInv'
  BY StreamingStep
<1> QED  BY <1>1, <1>2, PTL DEF StreamSpec

(* The streaming tool uses the coordinator only as GroupDelivery lets it   *)
(* be used: its resume requests are requests of the core, its drops are    *)
(* unsubscribes, and the rest leaves the core alone.  So what is proved of *)
(* the core holds under the tool.                                          *)
THEOREM StreamImplementsDelivery ==
    ASSUME StreamHypotheses
    PROVE  StreamSpec => Spec
<1>1. StreamInit => Init
  BY DEF StreamInit
<1>2. StreamingInv /\ [StreamNext]_stream_vars => [Next]_vars
  <2>1. StreamingInv /\ StreamNext => [Next]_vars
    BY CoreStep DEF StreamingInv
  <2>2. UNCHANGED stream_vars => UNCHANGED vars
    BY DEF stream_vars
  <2> QED  BY <2>1, <2>2
<1> QED  BY <1>1, <1>2, StreamingInvariant, PTL DEF StreamSpec, Spec

(* The streams of a task, its flags and what its clients read stay within  *)
(* their types (subscribe_many_group_messages of the adapter).             *)
THEOREM StreamTypesCorrect ==
    ASSUME StreamHypotheses
    PROVE  StreamSpec => []StreamTypeOK
<1>1. StreamingInv => StreamTypeOK
  BY DEF StreamingInv, ResumeInv
<1> QED  BY <1>1, StreamingInvariant, PTL

(* A client that resumes from the last cursor it was given reads each      *)
(* group's log from the first message on, each message once and in order,  *)
(* over any number of streams, whichever way they were broken.             *)
THEOREM ResumesGapFree ==
    ASSUME StreamHypotheses
    PROVE  StreamSpec => []ResumeGapFree
<1>1. StreamingInv => ResumeGapFree
  BY DEF StreamingInv, ResumeInv
<1> QED  BY <1>1, StreamingInvariant, PTL
=============================================================================
