-------------------------- MODULE MailboxesProofs --------------------------
(***************************************************************************)
(* Proofs about Mailboxes, for any number of threads, groups and records.  *)
(* MailInv holds whatever the clock does; that nothing is retired which    *)
(* was not acknowledged needs timestamps that differ (StampInv).           *)
(***************************************************************************)
EXTENDS Mailboxes, FiniteSetTheorems, TLAPS

(* The records that have reached storage, as far as anything knows them. *)
Stored == seen \cup welcomes \cup join_requests

(* The thread has stamped a record and not yet stored it. *)
Holds(t) == job[t] # NoJob

(* A record that a thread has stamped and not yet stored is like none that *)
(* was stored, nor like what another thread holds.                         *)
SerialInv ==
    /\ last_stamp <= clock
    /\ \A r \in Stored : r.serial <= stored /\ r.created_at <= last_stamp
    /\ \A t \in Threads : Holds(t) =>
         /\ job[t].serial <= stored /\ job[t].created_at <= last_stamp
         /\ \A r \in Stored : r.serial # job[t].serial
         /\ \A u \in Threads \ {t} : Holds(u) => job[u].serial # job[t].serial

(* The same of the timestamps, and two stored records never share one. *)
StampInv ==
    /\ \A r, s \in Stored : r.created_at = s.created_at => r = s
    /\ \A t \in Threads : Holds(t) =>
         /\ \A r \in Stored : r.created_at # job[t].created_at
         /\ \A u \in Threads \ {t} : Holds(u) => job[u].created_at # job[t].created_at

(* The package named by a request was published by its requester. *)
Vouched(r) == <<r.key_package_ref, r.requester_stable_pubkey>> \in Packages

(* Vouched when stamped, vouched when stored. *)
VouchInv ==
    /\ JoinRequestVouched
    /\ \A t \in Threads : job[t].kind = "join" => Vouched(job[t])

(* The cap, with what counting needs. *)
BoundInv == IsFiniteSet(join_requests) /\ JoinQueueBounded

(* The cleanup task works with a threshold that was right or is too low. *)
CleanInv == threshold > 0 => MaxAge > 0 /\ threshold <= clock - MaxAge

(* The inductive invariant. *)
MailInv == TypeOK /\ SerialInv /\ AckedStaysGone /\ VouchInv /\ BoundInv /\ CleanInv

-----------------------------------------------------------------------------
(* The record a thread holds has the type of its kind. *)
LEMMA JobKinds ==
    ASSUME TypeOK, NEW t \in Threads
    PROVE  /\ job[t].kind = "welcome" => job[t] \in WelcomeQueueRecord
           /\ job[t].kind = "join" => job[t] \in JoinRequestRecord
           /\ job[t].kind \in {"welcome", "join"} => Holds(t)
<1>1. NoJob.kind = "none"
  BY DEF NoJob
<1>2. \A r \in WelcomeQueueRecord : r.kind = "welcome"
  BY DEF WelcomeQueueRecord
<1>3. \A r \in JoinRequestRecord : r.kind = "join"
  BY DEF JoinRequestRecord
<1>4. job[t] = NoJob \/ job[t] \in WelcomeQueueRecord \/ job[t] \in JoinRequestRecord
  BY DEF TypeOK
<1>5. CASE job[t] = NoJob
  BY <1>1, <1>5
<1>6. CASE job[t] \in WelcomeQueueRecord
  BY <1>1, <1>2, <1>6 DEF Holds
<1>7. CASE job[t] \in JoinRequestRecord
  BY <1>1, <1>3, <1>7 DEF Holds
<1> QED
  BY <1>4, <1>5, <1>6, <1>7

(* Empty queues satisfy all of it. *)
LEMMA InitMail == Init => MailInv /\ StampInv
<1> SUFFICES ASSUME Init PROVE MailInv /\ StampInv
  OBVIOUS
<1> USE DEF Init
<1>1. TypeOK
  BY MailboxesAssumption DEF TypeOK
<1>2. Stored = {} /\ \A t \in Threads : ~ Holds(t)
  BY DEF Stored, Holds
<1>3. SerialInv /\ StampInv
  BY <1>2 DEF SerialInv, StampInv
<1>4. AckedStaysGone
  BY DEF AckedStaysGone
<1>5. VouchInv
  BY DEF VouchInv, JoinRequestVouched, NoJob
<1>6. BoundInv
  <2>1. IsFiniteSet(join_requests)
    BY FS_EmptySet
  <2>2. \A g \in Groups : PendingFor(g) = {}
    BY DEF PendingFor
  <2> QED
    BY <2>1, <2>2, FS_EmptySet, MailboxesAssumption DEF BoundInv, JoinQueueBounded
<1>7. CleanInv
  BY DEF CleanInv
<1> QED
  BY <1>1, <1>3, <1>4, <1>5, <1>6, <1>7 DEF MailInv

(* Stamping a record keeps the types. *)
LEMMA StampType ==
    ASSUME TypeOK, NEW t \in Threads,
           NEW record \in WelcomeQueueRecord \cup JoinRequestRecord, Stamp(t, record)
    PROVE  TypeOK'
<1>1. stored' \in 0 .. MaxStores /\ last_stamp' \in 0 .. MaxClock
  BY MailboxesAssumption DEF TypeOK, Stamp
<1>2. job' \in [Threads -> {NoJob} \cup WelcomeQueueRecord \cup JoinRequestRecord]
  BY DEF TypeOK, Stamp
<1> QED
  BY <1>1, <1>2 DEF TypeOK, Stamp, fetched, round

(* The records the coordinator makes. *)
LEMMA StampedWelcome ==
    ASSUME TypeOK, stored < MaxStores, NEW target \in Targets, NEW ref \in Refs
    PROVE  [kind |-> "welcome", target_stable_pubkey |-> target,
            key_package_reference |-> ref, created_at |-> clock,
            serial |-> stored + 1] \in WelcomeQueueRecord
<1>1. stored + 1 \in 1 .. MaxStores /\ clock \in 1 .. MaxClock
  BY MailboxesAssumption DEF TypeOK
<1> QED
  BY <1>1 DEF WelcomeQueueRecord

(* What store_join_request stamps is a join request. *)
LEMMA StampedJoinRequest ==
    ASSUME TypeOK, stored < MaxStores,
           NEW g \in Groups, NEW pk \in Requesters, NEW ref \in Refs
    PROVE  [kind |-> "join", group_id |-> g, requester_stable_pubkey |-> pk,
            key_package_ref |-> ref, created_at |-> clock,
            serial |-> stored + 1] \in JoinRequestRecord
<1>1. stored + 1 \in 1 .. MaxStores /\ clock \in 1 .. MaxClock
  BY MailboxesAssumption DEF TypeOK
<1> QED
  BY <1>1 DEF JoinRequestRecord

(* Every step is one of these. *)
LEMMA NextCases ==
    ASSUME Next, NEW Goal,
           Tick => Goal,
           \A package \in packages : PackageGone(package) => Goal,
           \A t \in Threads, target \in Targets, ref \in Refs :
              StampWelcome(t, target, ref) => Goal,
           \A t \in Threads, g \in Groups, pk \in Requesters, ref \in Refs :
              StampJoinRequest(t, g, pk, ref) => Goal,
           \A t \in Threads : StoreWelcome(t) => Goal,
           \A t \in Threads : RefreshJoinRequest(t) => Goal,
           \A t \in Threads : InsertJoinRequest(t) => Goal,
           \A target \in Targets, consumed \in SUBSET {r \in seen : r.kind = "welcome"} :
              FetchPendingWelcomes(target, consumed) => Goal,
           \A g \in Groups, consumed \in SUBSET {r \in seen : r.kind = "join"} :
              FetchPendingJoinRequests(g, consumed) => Goal,
           CleanupWake => Goal, CleanupWelcomes => Goal, CleanupJoinRequests => Goal,
           CleanupFails => Goal, Close => Goal
    PROVE  Goal
BY Zenon DEF Next, Cleanup

(* Every step keeps the types. *)
LEMMA TypeStep ==
    ASSUME TypeOK, Next
    PROVE  TypeOK'
<1> USE DEF stamps, fetched, round
<1>1. Tick => TypeOK'
  BY MailboxesAssumption DEF TypeOK, Tick
<1>2. \A package \in packages : PackageGone(package) => TypeOK'
  BY DEF TypeOK, PackageGone
<1>3. \A t \in Threads, target \in Targets, ref \in Refs : StampWelcome(t, target, ref) => TypeOK'
  BY StampedWelcome, StampType DEF StampWelcome, Stamp
<1>4. \A t \in Threads, g \in Groups, pk \in Requesters, ref \in Refs :
        StampJoinRequest(t, g, pk, ref) => TypeOK'
  BY StampedJoinRequest, StampType DEF StampJoinRequest, Stamp
<1>5. \A t \in Threads : StoreWelcome(t) => TypeOK'
  BY JobKinds DEF TypeOK, StoreWelcome
<1>6. \A t \in Threads : RefreshJoinRequest(t) => TypeOK'
  BY JobKinds DEF TypeOK, RefreshJoinRequest
<1>7. \A t \in Threads : InsertJoinRequest(t) => TypeOK'
  BY JobKinds DEF TypeOK, InsertJoinRequest
<1>8. \A target \in Targets, consumed \in SUBSET {r \in seen : r.kind = "welcome"} :
        FetchPendingWelcomes(target, consumed) => TypeOK'
  BY DEF TypeOK, FetchPendingWelcomes, RetiredWelcomes
<1>9. \A g \in Groups, consumed \in SUBSET {r \in seen : r.kind = "join"} :
        FetchPendingJoinRequests(g, consumed) => TypeOK'
  BY DEF TypeOK, FetchPendingJoinRequests, RetiredJoinRequests
<1>10. CleanupWake => TypeOK'
  BY MailboxesAssumption DEF TypeOK, CleanupWake
<1>11. (CleanupWelcomes => TypeOK') /\ (CleanupJoinRequests => TypeOK')
  BY DEF TypeOK, CleanupWelcomes, CleanupJoinRequests, Fresh
<1>12. (CleanupFails => TypeOK') /\ (Close => TypeOK')
  BY DEF TypeOK, CleanupFails, Close
<1> QED
  BY <1>1, <1>2, <1>3, <1>4, <1>5, <1>6, <1>7, <1>8, <1>9, <1>10, <1>11, <1>12,
     NextCases, Zenon

-----------------------------------------------------------------------------
(* What a step does to the stored records and to those the threads hold:   *)
(* nothing is added, or a thread stamps a record, or stores the one it has. *)
AddsNone ==
    /\ job' = job /\ Stored' \subseteq Stored
    /\ UNCHANGED stamps /\ clock' \in Int /\ clock' >= clock

(* A step that gives a record its stamp and its number. *)
StampsOne(t, record) ==
    /\ record \in WelcomeQueueRecord \cup JoinRequestRecord
    /\ ~ Holds(t)
    /\ record.serial = stored + 1 /\ record.created_at = clock
    /\ job' = [job EXCEPT ![t] = record]
    /\ Stored' = Stored
    /\ stored' = stored + 1 /\ last_stamp' = clock /\ clock' = clock
    /\ SameMillisecond \/ last_stamp < clock

(* A step that stores what a thread holds, or drops it. *)
StoresOne(t) ==
    /\ Holds(t)
    /\ job' = [job EXCEPT ![t] = NoJob]
    /\ Stored' \subseteq Stored \cup {job[t]}
    /\ UNCHANGED <<stamps, clock>>

(* All that a step can do to the records. *)
Accounted ==
    \/ AddsNone
    \/ \E t \in Threads, record \in WelcomeQueueRecord \cup JoinRequestRecord : StampsOne(t, record)
    \/ \E t \in Threads : StoresOne(t)

(* Every action is one of the three. *)
LEMMA StepAccounted ==
    ASSUME TypeOK, Next
    PROVE  Accounted
<1> USE DEF fetched, round
<1>0. clock \in Int /\ clock >= clock /\ clock + 1 \in Int /\ clock + 1 >= clock
  BY DEF TypeOK
<1>1. Tick => Accounted
  BY <1>0 DEF Tick, Accounted, AddsNone, Stored
<1>2. \A package \in packages : PackageGone(package) => Accounted
  BY <1>0 DEF PackageGone, Accounted, AddsNone, Stored
<1>3. \A t \in Threads, target \in Targets, ref \in Refs : StampWelcome(t, target, ref) => Accounted
  <2> SUFFICES ASSUME NEW t \in Threads, NEW target \in Targets, NEW ref \in Refs,
                      StampWelcome(t, target, ref)
               PROVE  Accounted
    OBVIOUS
  <2> DEFINE record == [kind |-> "welcome", target_stable_pubkey |-> target,
                        key_package_reference |-> ref, created_at |-> clock,
                        serial |-> stored + 1]
  <2>1. record \in WelcomeQueueRecord
    BY StampedWelcome DEF StampWelcome, Stamp
  <2>2. Stamp(t, record) /\ ~ Holds(t) /\ record.serial = stored + 1 /\ record.created_at = clock
    BY DEF StampWelcome, Holds
  <2> HIDE DEF record
  <2>3. StampsOne(t, record)
    BY <2>1, <2>2 DEF StampsOne, Stamp, Stored
  <2> QED
    BY <2>1, <2>3 DEF Accounted
<1>4. \A t \in Threads, g \in Groups, pk \in Requesters, ref \in Refs :
        StampJoinRequest(t, g, pk, ref) => Accounted
  <2> SUFFICES ASSUME NEW t \in Threads, NEW g \in Groups, NEW pk \in Requesters, NEW ref \in Refs,
                      StampJoinRequest(t, g, pk, ref)
               PROVE  Accounted
    OBVIOUS
  <2> DEFINE record == [kind |-> "join", group_id |-> g, requester_stable_pubkey |-> pk,
                        key_package_ref |-> ref, created_at |-> clock, serial |-> stored + 1]
  <2>1. record \in JoinRequestRecord
    BY StampedJoinRequest DEF StampJoinRequest, Stamp
  <2>2. Stamp(t, record) /\ ~ Holds(t) /\ record.serial = stored + 1 /\ record.created_at = clock
    BY DEF StampJoinRequest, Holds
  <2> HIDE DEF record
  <2>3. StampsOne(t, record)
    BY <2>1, <2>2 DEF StampsOne, Stamp, Stored
  <2> QED
    BY <2>1, <2>3 DEF Accounted
<1>5. \A t \in Threads : StoreWelcome(t) => Accounted
  BY JobKinds DEF StoreWelcome, Accounted, StoresOne, Stored
<1>6. \A t \in Threads : RefreshJoinRequest(t) => Accounted
  BY JobKinds DEF RefreshJoinRequest, Accounted, StoresOne, Stored
<1>7. \A t \in Threads : InsertJoinRequest(t) => Accounted
  BY JobKinds DEF InsertJoinRequest, Accounted, StoresOne, Stored
<1>8. \A target \in Targets, consumed \in SUBSET {r \in seen : r.kind = "welcome"} :
        FetchPendingWelcomes(target, consumed) => Accounted
  BY <1>0 DEF FetchPendingWelcomes, RetiredWelcomes, Accounted, AddsNone, Stored
<1>9. \A g \in Groups, consumed \in SUBSET {r \in seen : r.kind = "join"} :
        FetchPendingJoinRequests(g, consumed) => Accounted
  BY <1>0 DEF FetchPendingJoinRequests, RetiredJoinRequests, Accounted, AddsNone, Stored
<1>10. CleanupWake => Accounted
  BY <1>0 DEF CleanupWake, Accounted, AddsNone, Stored
<1>11. (CleanupWelcomes => Accounted) /\ (CleanupJoinRequests => Accounted)
  BY <1>0 DEF CleanupWelcomes, CleanupJoinRequests, Fresh, Accounted, AddsNone, Stored
<1>12. (CleanupFails => Accounted) /\ (Close => Accounted)
  BY <1>0 DEF CleanupFails, Close, Accounted, AddsNone, Stored
<1> QED
  BY <1>1, <1>2, <1>3, <1>4, <1>5, <1>6, <1>7, <1>8, <1>9, <1>10, <1>11, <1>12,
     NextCases, Zenon

(* Timestamps and serials as integers. *)
LEMMA RecordNumbers ==
    ASSUME TypeOK
    PROVE  /\ \A r \in Stored : r.serial \in Int /\ r.created_at \in Int
           /\ \A t \in Threads : Holds(t) => job[t].serial \in Int /\ job[t].created_at \in Int
           /\ \A r \in WelcomeQueueRecord \cup JoinRequestRecord :
                r.serial \in Int /\ r.created_at \in Int /\ r # NoJob
<1>1. \A r \in WelcomeQueueRecord \cup JoinRequestRecord : r.serial \in Int /\ r.created_at \in Int
  BY DEF WelcomeQueueRecord, JoinRequestRecord
<1>2. \A r \in WelcomeQueueRecord \cup JoinRequestRecord : r.kind # "none"
  BY DEF WelcomeQueueRecord, JoinRequestRecord
<1>3. NoJob.kind = "none"
  BY DEF NoJob
<1> QED
  BY <1>1, <1>2, <1>3 DEF Stored, Holds, TypeOK

(* A number that is given out is new, and stays with its record. *)
LEMMA SerialStep ==
    ASSUME TypeOK, SerialInv, Accounted
    PROVE  SerialInv'
<1>0. stored \in Int /\ last_stamp \in Int /\ clock \in Int
  BY DEF TypeOK
<1>1. CASE AddsNone
  BY <1>0, <1>1, RecordNumbers DEF AddsNone, SerialInv, Holds, stamps
<1>2. ASSUME NEW t \in Threads, NEW record \in WelcomeQueueRecord \cup JoinRequestRecord,
             StampsOne(t, record)
      PROVE  SerialInv'
  <2>1. record # NoJob /\ job'[t] = record /\ \A u \in Threads \ {t} : job'[u] = job[u]
    BY <1>2, RecordNumbers DEF StampsOne, TypeOK
  <2>2. last_stamp' <= clock' /\ last_stamp <= last_stamp' /\ stored' = stored + 1
    BY <1>0, <1>2 DEF StampsOne, SerialInv
  <2>3. \A r \in Stored' : r.serial <= stored /\ r.serial <= stored' /\ r.created_at <= last_stamp'
    BY <1>0, <1>2, <2>2, RecordNumbers DEF StampsOne, SerialInv
  <2>4. ASSUME NEW u \in Threads, Holds(u)'
        PROVE  /\ job'[u].serial <= stored' /\ job'[u].created_at <= last_stamp'
               /\ \A r \in Stored' : r.serial # job'[u].serial
               /\ \A v \in Threads \ {u} : Holds(v)' => job'[v].serial # job'[u].serial
    <3>1. CASE u = t
      <4>1. job'[u].serial = stored + 1 /\ job'[u].created_at = last_stamp'
        BY <3>1, <1>2, <2>1 DEF StampsOne
      <4>2. \A v \in Threads \ {u} : Holds(v)' => job'[v].serial <= stored
        BY <3>1, <2>1 DEF SerialInv, Holds
      <4> QED
        BY <4>1, <4>2, <1>0, <2>2, <2>3, <2>1, <3>1, RecordNumbers DEF Holds
    <3>2. CASE u # t
      <4>1. job'[u] = job[u] /\ Holds(u)
        BY <3>2, <2>1, <2>4 DEF Holds
      <4>2. job'[t].serial = stored + 1 /\ job[u].serial <= stored
        BY <4>1, <1>2, <2>1 DEF StampsOne, SerialInv
      <4>3. \A v \in Threads \ {u} : Holds(v)' => job'[v].serial # job'[u].serial
        BY <4>1, <4>2, <2>1, <1>0, RecordNumbers DEF SerialInv, Holds
      <4>4. job[u].created_at <= last_stamp
        BY <4>1 DEF SerialInv
      <4> QED
        BY <4>1, <4>2, <4>3, <4>4, <1>0, <1>2, <2>2, RecordNumbers DEF StampsOne, SerialInv
    <3> QED  BY <3>1, <3>2
  <2> QED
    BY <2>2, <2>3, <2>4 DEF SerialInv
<1>3. ASSUME NEW t \in Threads, StoresOne(t)
      PROVE  SerialInv'
  <2>1. job'[t] = NoJob /\ \A u \in Threads \ {t} : job'[u] = job[u]
    BY <1>3 DEF StoresOne, TypeOK
  <2> QED
    BY <1>3, <2>1 DEF StoresOne, SerialInv, Holds, stamps
<1> QED
  BY <1>1, <1>2, <1>3 DEF Accounted

(* With timestamps that differ, a record is known by its own.              *)
LEMMA StampStep ==
    ASSUME SameMillisecond = FALSE, TypeOK, SerialInv, StampInv, Accounted
    PROVE  StampInv'
<1>0. stored \in Int /\ last_stamp \in Int /\ clock \in Int
  BY DEF TypeOK
<1>1. CASE AddsNone
  BY <1>1 DEF AddsNone, StampInv, Holds
<1>2. ASSUME NEW t \in Threads, NEW record \in WelcomeQueueRecord \cup JoinRequestRecord,
             StampsOne(t, record)
      PROVE  StampInv'
  <2>1. record # NoJob /\ job'[t] = record /\ \A u \in Threads \ {t} : job'[u] = job[u]
    BY <1>2, RecordNumbers DEF StampsOne, TypeOK
  <2>2. record.created_at = clock /\ last_stamp < clock /\ Stored' = Stored
    BY <1>2 DEF StampsOne
  <2>3. \A r \in Stored : r.created_at # record.created_at
    BY <1>0, <2>2, RecordNumbers DEF SerialInv
  <2>4. \A u \in Threads : Holds(u) => job[u].created_at # record.created_at
    BY <1>0, <2>2, RecordNumbers DEF SerialInv
  <2> QED
    BY <2>1, <2>2, <2>3, <2>4 DEF StampInv, Holds
<1>3. ASSUME NEW t \in Threads, StoresOne(t)
      PROVE  StampInv'
  <2>1. job'[t] = NoJob /\ \A u \in Threads \ {t} : job'[u] = job[u]
    BY <1>3 DEF StoresOne, TypeOK
  <2> QED
    BY <1>3, <2>1 DEF StoresOne, StampInv, Holds
<1> QED
  BY <1>1, <1>2, <1>3 DEF Accounted

-----------------------------------------------------------------------------
(* Where an acknowledged record could come back: only a thread that stores *)
(* adds to a queue, and it does not hold an acknowledged record.           *)
LEMMA AckedStep ==
    ASSUME TypeOK, SerialInv, AckedStaysGone, Next
    PROVE  AckedStaysGone'
<1> USE DEF AckedStaysGone, fetched
<1>0. /\ \A t \in Threads : Holds(t) => job[t] \notin acked
      /\ \A r \in seen : r.kind = "welcome" => r \notin join_requests
      /\ \A r \in seen : r.kind = "join" => r \notin welcomes
  <2>1. \A r \in WelcomeQueueRecord : r.kind = "welcome"
    BY DEF WelcomeQueueRecord
  <2>2. \A r \in JoinRequestRecord : r.kind = "join"
    BY DEF JoinRequestRecord
  <2>3. acked \subseteq Stored
    BY DEF TypeOK, Stored
  <2> QED
    BY <2>1, <2>2, <2>3 DEF TypeOK, SerialInv
<1>1. Tick => AckedStaysGone'
  BY DEF Tick
<1>2. \A package \in packages : PackageGone(package) => AckedStaysGone'
  BY DEF PackageGone
<1>3. \A t \in Threads, target \in Targets, ref \in Refs :
        StampWelcome(t, target, ref) => AckedStaysGone'
  BY DEF StampWelcome, Stamp
<1>4. \A t \in Threads, g \in Groups, pk \in Requesters, ref \in Refs :
        StampJoinRequest(t, g, pk, ref) => AckedStaysGone'
  BY DEF StampJoinRequest, Stamp
<1>5. \A t \in Threads : StoreWelcome(t) => AckedStaysGone'
  BY <1>0, JobKinds DEF StoreWelcome
<1>6. \A t \in Threads : RefreshJoinRequest(t) => AckedStaysGone'
  BY <1>0, JobKinds DEF RefreshJoinRequest
<1>7. \A t \in Threads : InsertJoinRequest(t) => AckedStaysGone'
  BY <1>0, JobKinds DEF InsertJoinRequest
<1>8. \A target \in Targets, consumed \in SUBSET {r \in seen : r.kind = "welcome"} :
        FetchPendingWelcomes(target, consumed) => AckedStaysGone'
  BY <1>0 DEF FetchPendingWelcomes, RetiredWelcomes
<1>9. \A g \in Groups, consumed \in SUBSET {r \in seen : r.kind = "join"} :
        FetchPendingJoinRequests(g, consumed) => AckedStaysGone'
  BY <1>0 DEF FetchPendingJoinRequests, RetiredJoinRequests
<1>10. CleanupWake => AckedStaysGone'
  BY DEF CleanupWake
<1>11. (CleanupWelcomes => AckedStaysGone') /\ (CleanupJoinRequests => AckedStaysGone')
  BY DEF CleanupWelcomes, CleanupJoinRequests, Fresh
<1>12. (CleanupFails => AckedStaysGone') /\ (Close => AckedStaysGone')
  BY DEF CleanupFails, Close
<1> QED
  BY <1>1, <1>2, <1>3, <1>4, <1>5, <1>6, <1>7, <1>8, <1>9, <1>10, <1>11, <1>12,
     NextCases, Zenon

(* What a step does to the pending join requests: some may go, and a       *)
(* record that a thread holds may come, in the place of the one its        *)
(* requester had or where there is room.                                   *)
QueueStep ==
    \/ join_requests' \subseteq join_requests
    \/ \E t \in Threads :
         LET old == PendingOf(job[t].group_id, job[t].requester_stable_pubkey) IN
         /\ job[t].kind = "join"
         /\ join_requests' = (join_requests \ old) \cup {job[t]}
         /\ old # {} \/ ~ (Cardinality(PendingFor(job[t].group_id)) >= MaxPending)

(* What a step does to the records that threads hold. *)
JobStep ==
    \/ \A t \in Threads : job'[t] = job[t] \/ job'[t] = NoJob
    \/ \E t \in Threads, record \in WelcomeQueueRecord \cup JoinRequestRecord :
         /\ record.kind = "join" => Vouched(record)
         /\ job' = [job EXCEPT ![t] = record]

(* What every action does to the queues and to the jobs. *)
LEMMA QueueSteps ==
    ASSUME TypeOK, Next
    PROVE  QueueStep /\ JobStep
<1> DEFINE Goal == QueueStep /\ JobStep
<1> USE DEF fetched, round
<1>1. Tick => Goal
  BY DEF Tick, QueueStep, JobStep
<1>2. \A package \in packages : PackageGone(package) => Goal
  BY DEF PackageGone, QueueStep, JobStep
<1>3. \A t \in Threads, target \in Targets, ref \in Refs : StampWelcome(t, target, ref) => Goal
  <2> SUFFICES ASSUME NEW t \in Threads, NEW target \in Targets, NEW ref \in Refs,
                      StampWelcome(t, target, ref)
               PROVE  Goal
    OBVIOUS
  <2> DEFINE record == [kind |-> "welcome", target_stable_pubkey |-> target,
                        key_package_reference |-> ref, created_at |-> clock,
                        serial |-> stored + 1]
  <2>1. record \in WelcomeQueueRecord
    BY StampedWelcome DEF StampWelcome, Stamp
  <2>2. record.kind # "join" /\ job' = [job EXCEPT ![t] = record]
    BY DEF StampWelcome, Stamp
  <2>3. join_requests' = join_requests
    BY DEF StampWelcome, Stamp
  <2> HIDE DEF record
  <2> QED
    BY <2>1, <2>2, <2>3 DEF QueueStep, JobStep
<1>4. \A t \in Threads, g \in Groups, pk \in Requesters, ref \in Refs :
        StampJoinRequest(t, g, pk, ref) => Goal
  <2> SUFFICES ASSUME NEW t \in Threads, NEW g \in Groups, NEW pk \in Requesters, NEW ref \in Refs,
                      StampJoinRequest(t, g, pk, ref)
               PROVE  Goal
    OBVIOUS
  <2> DEFINE record == [kind |-> "join", group_id |-> g, requester_stable_pubkey |-> pk,
                        key_package_ref |-> ref, created_at |-> clock, serial |-> stored + 1]
  <2>1. record \in JoinRequestRecord
    BY StampedJoinRequest DEF StampJoinRequest, Stamp
  <2>2. Vouched(record) /\ job' = [job EXCEPT ![t] = record]
    BY DEF StampJoinRequest, Stamp, Vouched, TypeOK
  <2>3. join_requests' = join_requests
    BY DEF StampJoinRequest, Stamp
  <2> HIDE DEF record
  <2> QED
    BY <2>1, <2>2, <2>3 DEF QueueStep, JobStep
<1>5. \A t \in Threads : StoreWelcome(t) => Goal
  BY DEF StoreWelcome, QueueStep, JobStep, TypeOK
<1>6. \A t \in Threads : RefreshJoinRequest(t) => Goal
  <2> SUFFICES ASSUME NEW t \in Threads, RefreshJoinRequest(t) PROVE Goal
    OBVIOUS
  <2>1. JobStep
    BY DEF RefreshJoinRequest, JobStep, TypeOK
  <2>2. QueueStep
    BY DEF RefreshJoinRequest, QueueStep
  <2> QED  BY <2>1, <2>2
<1>7. \A t \in Threads : InsertJoinRequest(t) => Goal
  <2> SUFFICES ASSUME NEW t \in Threads, InsertJoinRequest(t) PROVE Goal
    OBVIOUS
  <2>1. JobStep
    BY DEF InsertJoinRequest, JobStep, TypeOK
  <2>2. QueueStep
    <3> DEFINE old == PendingOf(job[t].group_id, job[t].requester_stable_pubkey)
    <3>1. CASE Cardinality(PendingFor(job[t].group_id)) >= MaxPending
      BY <3>1 DEF InsertJoinRequest, QueueStep
    <3>2. CASE ~ (Cardinality(PendingFor(job[t].group_id)) >= MaxPending)
      <4>1. join_requests' = (join_requests \ old) \cup {job[t]} /\ job[t].kind = "join"
        BY <3>2 DEF InsertJoinRequest
      <4> QED  BY <3>2, <4>1 DEF QueueStep
    <3> QED  BY <3>1, <3>2
  <2> QED  BY <2>1, <2>2
<1>8. \A target \in Targets, consumed \in SUBSET {r \in seen : r.kind = "welcome"} :
        FetchPendingWelcomes(target, consumed) => Goal
  BY DEF FetchPendingWelcomes, QueueStep, JobStep
<1>9. \A g \in Groups, consumed \in SUBSET {r \in seen : r.kind = "join"} :
        FetchPendingJoinRequests(g, consumed) => Goal
  BY DEF FetchPendingJoinRequests, RetiredJoinRequests, QueueStep, JobStep
<1>10. CleanupWake => Goal
  BY DEF CleanupWake, QueueStep, JobStep
<1>11. (CleanupWelcomes => Goal) /\ (CleanupJoinRequests => Goal)
  BY DEF CleanupWelcomes, CleanupJoinRequests, Fresh, QueueStep, JobStep
<1>12. (CleanupFails => Goal) /\ (Close => Goal)
  BY DEF CleanupFails, Close, QueueStep, JobStep
<1> QED
  <2> HIDE DEF Goal
  <2>1. Goal
    BY <1>1, <1>2, <1>3, <1>4, <1>5, <1>6, <1>7, <1>8, <1>9, <1>10, <1>11, <1>12,
       NextCases, Zenon
  <2> QED  BY <2>1 DEF Goal

(* Only vouched requests are stamped, so only such are stored. *)
LEMMA VouchStep ==
    ASSUME TypeOK, VouchInv, QueueStep, JobStep
    PROVE  VouchInv'
<1>1. JoinRequestVouched'
  BY DEF VouchInv, JoinRequestVouched, Vouched, QueueStep
<1>2. CASE \A t \in Threads : job'[t] = job[t] \/ job'[t] = NoJob
  BY <1>1, <1>2 DEF VouchInv, NoJob
<1>3. ASSUME NEW t \in Threads, NEW record \in WelcomeQueueRecord \cup JoinRequestRecord,
             record.kind = "join" => Vouched(record), job' = [job EXCEPT ![t] = record]
      PROVE  VouchInv'
  <2>1. \A u \in Threads : job'[u] = job[u] \/ job'[u] = record
    BY <1>3 DEF TypeOK
  <2> QED
    BY <1>1, <1>3, <2>1 DEF VouchInv, Vouched
<1> QED
  BY <1>2, <1>3 DEF JobStep

(* An insert finds room, and a refresh takes the place of the old request. *)
LEMMA BoundStep ==
    ASSUME TypeOK, BoundInv, QueueStep
    PROVE  BoundInv'
<1>0. /\ IsFiniteSet(join_requests) /\ MaxPending \in Nat
      /\ \A g \in Groups : /\ IsFiniteSet(PendingFor(g))
                           /\ Cardinality(PendingFor(g)) \in Nat
                           /\ Cardinality(PendingFor(g)) <= MaxPending
  <2>1. IsFiniteSet(join_requests)
    BY DEF BoundInv
  <2>2. \A g \in Groups : PendingFor(g) \subseteq join_requests
    BY DEF PendingFor
  <2> QED
    BY <2>1, <2>2, FS_Subset, FS_CardinalityType, MailboxesAssumption DEF BoundInv, JoinQueueBounded
<1>1. CASE join_requests' \subseteq join_requests
  <2>1. IsFiniteSet(join_requests')
    BY <1>0, <1>1, FS_Subset
  <2>2. ASSUME NEW g \in Groups
        PROVE  Cardinality(PendingFor(g)') <= MaxPending
    <3>1. PendingFor(g)' \subseteq PendingFor(g)
      BY <1>1 DEF PendingFor
    <3>2. /\ IsFiniteSet(PendingFor(g)')
          /\ Cardinality(PendingFor(g)') <= Cardinality(PendingFor(g))
      BY <1>0, <3>1, FS_Subset
    <3> QED
      BY <1>0, <3>2, FS_CardinalityType
  <2>3. \A g \in Groups : \A r, s \in PendingFor(g)' :
          r.requester_stable_pubkey = s.requester_stable_pubkey => r = s
    BY <1>1 DEF BoundInv, JoinQueueBounded, PendingFor
  <2> QED
    BY <2>1, <2>2, <2>3 DEF BoundInv, JoinQueueBounded
<1>2. ASSUME NEW t \in Threads, NEW old,
             old = PendingOf(job[t].group_id, job[t].requester_stable_pubkey),
             job[t].kind = "join",
             join_requests' = (join_requests \ old) \cup {job[t]},
             old # {} \/ ~ (Cardinality(PendingFor(job[t].group_id)) >= MaxPending)
      PROVE  BoundInv'
  <2>1. PICK h \in Groups : h = job[t].group_id
    BY <1>2, JobKinds DEF JoinRequestRecord
  <2> DEFINE rest == PendingFor(h) \ old
  <2>2. IsFiniteSet(join_requests')
    <3>1. IsFiniteSet(join_requests \ old)
      BY <1>0, FS_Subset
    <3> QED
      BY <3>1, <1>2, FS_AddElement
  <2>3. /\ PendingFor(h)' = rest \cup {job[t]}
        /\ \A g \in Groups \ {h} : PendingFor(g)' = PendingFor(g)
    BY <1>2, <2>1 DEF PendingFor, PendingOf
  <2>4. /\ IsFiniteSet(rest) /\ Cardinality(rest) \in Nat
        /\ Cardinality(rest) <= Cardinality(PendingFor(h))
    BY <1>0, <2>1, FS_Subset, FS_CardinalityType
  <2>5. Cardinality(rest) + 1 <= MaxPending
    <3>1. CASE old # {}
      <4>1. PICK o \in old : o \in PendingFor(h)
        BY <1>2, <2>1, <3>1 DEF PendingOf
      <4>2. rest \subseteq PendingFor(h) \ {o}
        BY <4>1
      <4>3. /\ IsFiniteSet(PendingFor(h) \ {o})
            /\ Cardinality(PendingFor(h) \ {o}) = Cardinality(PendingFor(h)) - 1
        BY <1>0, <2>1, <4>1, FS_RemoveElement
      <4>4. Cardinality(rest) <= Cardinality(PendingFor(h) \ {o})
        BY <4>2, <4>3, FS_Subset
      <4> QED
        BY <1>0, <2>1, <2>4, <4>3, <4>4
    <3>2. CASE ~ (Cardinality(PendingFor(h)) >= MaxPending)
      BY <1>0, <2>1, <2>4, <3>2
    <3> QED
      BY <1>2, <2>1, <3>1, <3>2
  <2>6. Cardinality(PendingFor(h)') <= MaxPending
    <3>1. \/ Cardinality(rest \cup {job[t]}) = Cardinality(rest)
          \/ Cardinality(rest \cup {job[t]}) = Cardinality(rest) + 1
      BY <2>4, FS_AddElement
    <3> QED
      BY <3>1, <2>3, <2>4, <2>5, <1>0
  <2>7. \A g \in Groups : Cardinality(PendingFor(g)') <= MaxPending
    BY <2>3, <2>6, <1>0
  <2>8. ASSUME NEW g \in Groups, NEW r \in PendingFor(g)', NEW s \in PendingFor(g)',
               r.requester_stable_pubkey = s.requester_stable_pubkey
        PROVE  r = s
    <3>1. CASE g # h
      BY <2>3, <2>8, <3>1 DEF BoundInv, JoinQueueBounded
    <3>2. CASE g = h
      <4>1. \A q \in rest : q.requester_stable_pubkey # job[t].requester_stable_pubkey
        BY <1>2, <2>1 DEF PendingOf
      <4>2. \A p, q \in rest : p.requester_stable_pubkey = q.requester_stable_pubkey => p = q
        BY <2>1 DEF BoundInv, JoinQueueBounded
      <4>3. r \in rest \cup {job[t]} /\ s \in rest \cup {job[t]}
        BY <2>3, <3>2
      <4> HIDE DEF rest
      <4> QED
        BY <2>8, <4>1, <4>2, <4>3
    <3> QED  BY <3>1, <3>2
  <2> QED
    BY <2>2, <2>7, <2>8 DEF BoundInv, JoinQueueBounded
<1> QED
  BY <1>1, <1>2 DEF QueueStep

(* The clock only goes on after the threshold was computed from it.        *)
LEMMA CleanStep ==
    ASSUME TypeOK, CleanInv, Next
    PROVE  CleanInv'
<1> USE DEF CleanInv, round
<1>0. clock \in Int /\ threshold \in Int /\ MaxAge \in Nat
  BY MailboxesAssumption DEF TypeOK
<1>1. Tick => CleanInv'
  BY <1>0 DEF Tick
<1>2. \A package \in packages : PackageGone(package) => CleanInv'
  BY DEF PackageGone
<1>3. \A t \in Threads, target \in Targets, ref \in Refs :
        StampWelcome(t, target, ref) => CleanInv'
  BY DEF StampWelcome, Stamp
<1>4. \A t \in Threads, g \in Groups, pk \in Requesters, ref \in Refs :
        StampJoinRequest(t, g, pk, ref) => CleanInv'
  BY DEF StampJoinRequest, Stamp
<1>5. \A t \in Threads : StoreWelcome(t) => CleanInv'
  BY DEF StoreWelcome
<1>6. \A t \in Threads : RefreshJoinRequest(t) => CleanInv'
  BY DEF RefreshJoinRequest
<1>7. \A t \in Threads : InsertJoinRequest(t) => CleanInv'
  BY DEF InsertJoinRequest
<1>8. \A target \in Targets, consumed \in SUBSET {r \in seen : r.kind = "welcome"} :
        FetchPendingWelcomes(target, consumed) => CleanInv'
  BY DEF FetchPendingWelcomes
<1>9. \A g \in Groups, consumed \in SUBSET {r \in seen : r.kind = "join"} :
        FetchPendingJoinRequests(g, consumed) => CleanInv'
  BY DEF FetchPendingJoinRequests
<1>10. CleanupWake => CleanInv'
  BY <1>0 DEF CleanupWake
<1>11. (CleanupWelcomes => CleanInv') /\ (CleanupJoinRequests => CleanInv')
  BY DEF CleanupWelcomes, CleanupJoinRequests
<1>12. (CleanupFails => CleanInv') /\ (Close => CleanInv')
  BY DEF CleanupFails, Close
<1> QED
  <2> HIDE DEF CleanInv
  <2> QED
    BY <1>1, <1>2, <1>3, <1>4, <1>5, <1>6, <1>7, <1>8, <1>9, <1>10, <1>11, <1>12,
       NextCases, Zenon

(* A stuttering step changes nothing. *)
LEMMA MailStutter ==
    ASSUME UNCHANGED vars
    PROVE  (MailInv => MailInv') /\ (StampInv => StampInv')
<1> USE DEF vars, stamps, fetched, round
<1>1. Stored' = Stored /\ \A t \in Threads : Holds(t)' <=> Holds(t)
  BY DEF Stored, Holds
<1>2. TypeOK => TypeOK'
  BY DEF TypeOK
<1>3. (SerialInv => SerialInv') /\ (StampInv => StampInv')
  BY <1>1 DEF SerialInv, StampInv
<1>4. (AckedStaysGone => AckedStaysGone') /\ (VouchInv => VouchInv') /\ (CleanInv => CleanInv')
  BY DEF AckedStaysGone, VouchInv, JoinRequestVouched, Vouched, CleanInv
<1>5. BoundInv => BoundInv'
  BY DEF BoundInv, JoinQueueBounded, PendingFor
<1> QED
  BY <1>2, <1>3, <1>4, <1>5 DEF MailInv

-----------------------------------------------------------------------------
(* The inductive invariant, whatever the clock does: types, serials,       *)
(* acknowledged records, vouchers, the cap and the cleanup threshold.      *)
THEOREM MailInvariant == Spec => []MailInv
<1>1. MailInv /\ [Next]_vars => MailInv'
  <2> SUFFICES ASSUME MailInv, [Next]_vars PROVE MailInv'
    OBVIOUS
  <2>1. CASE Next
    <3> USE <2>1 DEF MailInv
    <3>1. TypeOK'
      BY TypeStep
    <3>2. SerialInv'
      BY StepAccounted, SerialStep
    <3>3. AckedStaysGone'
      BY AckedStep
    <3>4. VouchInv' /\ BoundInv'
      BY QueueSteps, VouchStep, BoundStep
    <3>5. CleanInv'
      BY CleanStep
    <3> QED
      BY <3>1, <3>2, <3>3, <3>4, <3>5
  <2>2. CASE UNCHANGED vars
    BY <2>2, MailStutter
  <2> QED
    BY <2>1, <2>2
<1> QED
  BY <1>1, InitMail, PTL DEF Spec

(* With clock readings that differ, a timestamp names one record, in       *)
(* storage or in a thread: what an acknowledgement relies on.              *)
THEOREM StampsTellApart ==
    ASSUME SameMillisecond = FALSE
    PROVE  Spec => [](MailInv /\ StampInv)
<1>1. MailInv /\ StampInv /\ [Next]_vars => StampInv'
  <2> SUFFICES ASSUME MailInv, StampInv, [Next]_vars PROVE StampInv'
    OBVIOUS
  <2>1. CASE Next
    BY <2>1, StepAccounted, StampStep DEF MailInv
  <2>2. CASE UNCHANGED vars
    BY <2>2, MailStutter
  <2> QED
    BY <2>1, <2>2
<1> QED
  BY <1>1, InitMail, MailInvariant, PTL DEF Spec

(* The types of clock, stamps, queues and what fetches have returned.      *)
THEOREM MailTypeCorrect == Spec => []TypeOK
<1>1. MailInv => TypeOK
  BY DEF MailInv
<1> QED
  BY <1>1, MailInvariant, PTL

(* An acknowledged welcome or join request is never in a queue again, were *)
(* a store of another record on its way while it was acknowledged.         *)
THEOREM AckedGone == Spec => []AckedStaysGone
<1>1. MailInv => AckedStaysGone
  BY DEF MailInv
<1> QED
  BY <1>1, MailInvariant, PTL

(* store_join_request keeps a group's queue within its cap and to one      *)
(* request per requester, for any number of threads storing at once.       *)
THEOREM QueueBounded == Spec => []JoinQueueBounded
<1>1. MailInv => JoinQueueBounded
  BY DEF MailInv, BoundInv
<1> QED
  BY <1>1, MailInvariant, PTL

(* A pending join request names a package its requester had published: the *)
(* adapter's check holds for what is stored later.                         *)
THEOREM RequestsVouched == Spec => []JoinRequestVouched
<1>1. MailInv => JoinRequestVouched
  BY DEF MailInv, VouchInv
<1> QED
  BY <1>1, MailInvariant, PTL

(* Records below the threshold of a cleanup round are too old.             *)
LEMMA CleanedIsExpired ==
    ASSUME TypeOK, CleanInv, NEW queue \in SUBSET (WelcomeQueueRecord \cup JoinRequestRecord),
           NEW r \in queue, r \notin Fresh(queue)
    PROVE  Expired(r)
<1>1. threshold > 0 /\ ~ (r.created_at >= threshold)
  BY DEF Fresh, TypeOK
<1>2. r.created_at \in Int /\ clock \in Int /\ threshold \in Int /\ MaxAge \in Nat
  BY RecordNumbers, MailboxesAssumption DEF TypeOK
<1> QED
  BY <1>1, <1>2 DEF CleanInv, Expired

(* A welcome goes only acknowledged or too old: fetch_pending_welcomes     *)
(* retires by reference and timestamp, and never one that came since.      *)
THEOREM WelcomesKept ==
    ASSUME SameMillisecond = FALSE
    PROVE  Spec => WelcomeNotLost
<1> DEFINE Goes == \A r \in welcomes \ welcomes' : r \in acked' \/ Expired(r)
<1>1. MailInv /\ StampInv /\ [Next]_vars => [Goes]_vars
  <2> SUFFICES ASSUME MailInv, StampInv, Next PROVE Goes
    OBVIOUS
  <2> USE DEF fetched, round
  <2>1. (Tick => Goes) /\ \A package \in packages : PackageGone(package) => Goes
    BY DEF Tick, PackageGone
  <2>2. \A t \in Threads, target \in Targets, ref \in Refs : StampWelcome(t, target, ref) => Goes
    BY DEF StampWelcome, Stamp
  <2>3. \A t \in Threads, g \in Groups, pk \in Requesters, ref \in Refs :
          StampJoinRequest(t, g, pk, ref) => Goes
    BY DEF StampJoinRequest, Stamp
  <2>4. \A t \in Threads : /\ StoreWelcome(t) => Goes
                           /\ RefreshJoinRequest(t) => Goes
                           /\ InsertJoinRequest(t) => Goes
    BY DEF StoreWelcome, RefreshJoinRequest, InsertJoinRequest
  <2>5. \A target \in Targets, consumed \in SUBSET {r \in seen : r.kind = "welcome"} :
          FetchPendingWelcomes(target, consumed) => Goes
    <3> SUFFICES ASSUME NEW target \in Targets,
                        NEW consumed \in SUBSET {r \in seen : r.kind = "welcome"},
                        FetchPendingWelcomes(target, consumed),
                        NEW r \in welcomes, r \notin welcomes'
                 PROVE  r \in acked'
      OBVIOUS
    <3>1. PICK c \in consumed : WelcomeRef(c) = WelcomeRef(r)
      BY DEF FetchPendingWelcomes, RetiredWelcomes
    <3>2. c.created_at = r.created_at
      BY <3>1 DEF WelcomeRef
    <3>3. c \in Stored /\ r \in Stored
      BY DEF Stored
    <3>4. c = r
      BY <3>2, <3>3 DEF StampInv
    <3> QED
      BY <3>4 DEF FetchPendingWelcomes
  <2>6. \A g \in Groups, consumed \in SUBSET {r \in seen : r.kind = "join"} :
          FetchPendingJoinRequests(g, consumed) => Goes
    BY DEF FetchPendingJoinRequests
  <2>7. CleanupWelcomes => Goes
    <3> SUFFICES ASSUME CleanupWelcomes, NEW r \in welcomes, r \notin welcomes'
                 PROVE  Expired(r)
      OBVIOUS
    <3>1. welcomes \in SUBSET (WelcomeQueueRecord \cup JoinRequestRecord) /\ r \notin Fresh(welcomes)
      BY DEF MailInv, TypeOK, CleanupWelcomes
    <3> QED
      BY <3>1, CleanedIsExpired DEF MailInv
  <2>8. (CleanupWake => Goes) /\ (CleanupJoinRequests => Goes)
        /\ (CleanupFails => Goes) /\ (Close => Goes)
    BY DEF CleanupWake, CleanupJoinRequests, CleanupFails, Close
  <2> HIDE DEF Goes
  <2> QED
    BY <2>1, <2>2, <2>3, <2>4, <2>5, <2>6, <2>7, <2>8, NextCases, Zenon
<1> QED
  BY <1>1, StampsTellApart, PTL DEF Spec, WelcomeNotLost

(* A join request goes only acknowledged itself, too old, or replaced by   *)
(* its requester: an acknowledgement of the earlier request does not       *)
(* swallow the re-request.                                                 *)
THEOREM JoinRequestsKept ==
    ASSUME SameMillisecond = FALSE
    PROVE  Spec => JoinRequestNotLost
<1> DEFINE Goes == \A r \in join_requests \ join_requests' :
                     \/ r \in acked'
                     \/ Expired(r)
                     \/ \E s \in join_requests' :
                          JoinRef(s)[1] = JoinRef(r)[1] /\ JoinRef(s)[2] = JoinRef(r)[2]
<1>1. MailInv /\ StampInv /\ [Next]_vars => [Goes]_vars
  <2> SUFFICES ASSUME MailInv, StampInv, Next PROVE Goes
    OBVIOUS
  <2> USE DEF fetched, round
  <2>1. (Tick => Goes) /\ \A package \in packages : PackageGone(package) => Goes
    BY DEF Tick, PackageGone
  <2>2. \A t \in Threads, target \in Targets, ref \in Refs : StampWelcome(t, target, ref) => Goes
    BY DEF StampWelcome, Stamp
  <2>3. \A t \in Threads, g \in Groups, pk \in Requesters, ref \in Refs :
          StampJoinRequest(t, g, pk, ref) => Goes
    BY DEF StampJoinRequest, Stamp
  <2>4. \A t \in Threads : StoreWelcome(t) => Goes
    BY DEF StoreWelcome
  <2>5. \A t \in Threads : RefreshJoinRequest(t) => Goes
    <3> SUFFICES ASSUME NEW t \in Threads, RefreshJoinRequest(t),
                        NEW r \in join_requests, r \notin join_requests'
                 PROVE  \E s \in join_requests' :
                          JoinRef(s)[1] = JoinRef(r)[1] /\ JoinRef(s)[2] = JoinRef(r)[2]
      OBVIOUS
    <3>1. /\ job[t] \in join_requests' /\ r.group_id = job[t].group_id
          /\ r.requester_stable_pubkey = job[t].requester_stable_pubkey
      BY DEF RefreshJoinRequest, PendingOf, PendingFor
    <3> QED
      BY <3>1 DEF JoinRef
  <2>6. \A t \in Threads : InsertJoinRequest(t) => Goes
    BY DEF InsertJoinRequest
  <2>7. \A target \in Targets, consumed \in SUBSET {r \in seen : r.kind = "welcome"} :
          FetchPendingWelcomes(target, consumed) => Goes
    BY DEF FetchPendingWelcomes
  <2>8. \A g \in Groups, consumed \in SUBSET {r \in seen : r.kind = "join"} :
          FetchPendingJoinRequests(g, consumed) => Goes
    <3> SUFFICES ASSUME NEW g \in Groups,
                        NEW consumed \in SUBSET {r \in seen : r.kind = "join"},
                        FetchPendingJoinRequests(g, consumed),
                        NEW r \in join_requests, r \notin join_requests'
                 PROVE  r \in acked'
      OBVIOUS
    <3>1. PICK c \in consumed : JoinRef(c) = JoinRef(r)
      BY DEF FetchPendingJoinRequests, RetiredJoinRequests
    <3>2. c.created_at = r.created_at
      BY <3>1 DEF JoinRef
    <3>3. c \in Stored /\ r \in Stored
      BY DEF Stored
    <3>4. c = r
      BY <3>2, <3>3 DEF StampInv
    <3> QED
      BY <3>4 DEF FetchPendingJoinRequests
  <2>9. CleanupJoinRequests => Goes
    <3> SUFFICES ASSUME CleanupJoinRequests, NEW r \in join_requests, r \notin join_requests'
                 PROVE  Expired(r)
      OBVIOUS
    <3>1. /\ join_requests \in SUBSET (WelcomeQueueRecord \cup JoinRequestRecord)
          /\ r \notin Fresh(join_requests)
      BY DEF MailInv, TypeOK, CleanupJoinRequests
    <3> QED
      BY <3>1, CleanedIsExpired DEF MailInv
  <2>10. (CleanupWake => Goes) /\ (CleanupWelcomes => Goes)
         /\ (CleanupFails => Goes) /\ (Close => Goes)
    BY DEF CleanupWake, CleanupWelcomes, CleanupFails, Close
  <2> HIDE DEF Goes
  <2> QED
    BY <2>1, <2>2, <2>3, <2>4, <2>5, <2>6, <2>7, <2>8, <2>9, <2>10, NextCases, Zenon
<1> QED
  BY <1>1, StampsTellApart, PTL DEF Spec, JoinRequestNotLost
=============================================================================
