----------------------------- MODULE Mailboxes -----------------------------
(***************************************************************************)
(* The two queues a coordinator keeps for clients to poll: welcomes, by    *)
(* target identity, and join requests, by group.  A record is retired when *)
(* a later fetch acknowledges it by reference and timestamp, or when the   *)
(* cleanup task finds it older than MaxAge.                                *)
(*                                                                         *)
(* Storage operations are atomic, under the backend's mutex; the timestamp *)
(* of a record is read before that mutex is taken, and the cleanup task    *)
(* computes one threshold and then deletes from the queues in turn.  Both  *)
(* backends list a queue in insertion order, which no retirement looks at: *)
(* a queue is a set here.  Records are numbered, so none is lost in it.    *)
(***************************************************************************)
EXTENDS Integers, FiniteSets

CONSTANTS
    Targets,          \* identities that receive welcomes
    Refs,             \* key-package references welcomes answer
    Groups,           \* groups that receive join requests
    Requesters,       \* identities that send join requests
    Packages,         \* the <<reference, identity>> of published key packages
    Threads,          \* threads that run store_welcome or store_join_request
    MaxPending,       \* MAX_PENDING_JOIN_REQUESTS_PER_GROUP
    MaxAge,           \* max_age_ms, in clock ticks; 0 keeps records forever
    SameMillisecond,  \* may two records be stamped in one clock tick?
    MaxClock,         \* bound: clock ticks
    MaxStores         \* bound: records stored

ASSUME MailboxesAssumption ==
    /\ MaxPending \in Nat /\ MaxAge \in Nat
    /\ SameMillisecond \in BOOLEAN
    /\ MaxClock \in Nat \ {0} /\ MaxStores \in Nat
    /\ Packages \subseteq Refs \X Requesters

VARIABLES
    clock,          \* the wall clock
    stored,         \* history: records stamped, which also numbers them
    last_stamp,     \* history: the clock at the last stamp
    packages,       \* the key packages that are still stored
    job,            \* per thread: the record it has stamped and not yet stored
    welcomes,       \* storage: welcome records
    join_requests,  \* storage: join-request records
    seen,           \* history: the records some fetch has returned
    acked,          \* history: those a fetch has acknowledged
    cleaner,        \* where the cleanup task is
    threshold       \* the threshold of its current round

stamps == <<stored, last_stamp>>
fetched == <<seen, acked>>
round == <<cleaner, threshold>>
vars == <<clock, packages, stamps, job, welcomes, join_requests, fetched, round>>

NoJob == [kind |-> "none"]

WelcomeQueueRecord ==
    [kind : {"welcome"}, target_stable_pubkey : Targets,
     key_package_reference : Refs, created_at : 1 .. MaxClock,
     serial : 1 .. MaxStores]

JoinRequestRecord ==
    [kind : {"join"}, group_id : Groups,
     requester_stable_pubkey : Requesters, key_package_ref : Refs,
     created_at : 1 .. MaxClock, serial : 1 .. MaxStores]

(* What an acknowledgement names of a record, within one inbox or group. *)
WelcomeRef(r) ==
    <<r.target_stable_pubkey, r.key_package_reference, r.created_at>>
JoinRef(r) == <<r.group_id, r.requester_stable_pubkey, r.created_at>>

RetiredWelcomesByRef(consumed) ==
    {r \in welcomes : \A c \in consumed :
        c.key_package_reference # r.key_package_reference
          \/ c.target_stable_pubkey # r.target_stable_pubkey}

(* What is left after the acknowledged records are retired. *)
RetiredWelcomes(consumed) ==
    {r \in welcomes : \A c \in consumed : WelcomeRef(c) # WelcomeRef(r)}

RetiredJoinRequestsNone(consumed) == join_requests

RetiredJoinRequests(consumed) ==
    {r \in join_requests : \A c \in consumed : JoinRef(c) # JoinRef(r)}

FreshInclusive(queue) ==
    IF threshold <= 0 THEN queue
    ELSE {r \in queue : r.created_at > threshold}

(* delete_expired_welcomes, delete_expired_join_requests. *)
Fresh(queue) ==
    IF threshold <= 0 THEN queue
    ELSE {r \in queue : r.created_at >= threshold}

PendingFor(g) == {r \in join_requests : r.group_id = g}

(* A requester's pending request for a group. *)
PendingOf(g, pk) == {r \in PendingFor(g) : r.requester_stable_pubkey = pk}

-----------------------------------------------------------------------------
Init ==
    /\ clock = 1
    /\ packages = Packages
    /\ stored = 0
    /\ last_stamp = 0
    /\ job = [t \in Threads |-> NoJob]
    /\ welcomes = {}
    /\ join_requests = {}
    /\ seen = {}
    /\ acked = {}
    /\ cleaner = "sleep"
    /\ threshold = 0

Tick ==
    /\ clock < MaxClock
    /\ clock' = clock + 1
    /\ UNCHANGED <<packages, stamps, job, welcomes, join_requests, fetched, round>>

(* A package is consumed, displaced or removed (KeyPackages). *)
PackageGone(package) ==
    /\ package \in packages
    /\ packages' = packages \ {package}
    /\ UNCHANGED <<clock, stamps, job, welcomes, join_requests, fetched, round>>

(* The coordinator makes the record, created_at: (self.now)(). *)
Stamp(t, record) ==
    /\ stored < MaxStores
    /\ SameMillisecond \/ last_stamp < clock
    /\ stored' = stored + 1
    /\ last_stamp' = clock
    /\ job' = [job EXCEPT ![t] = record]
    /\ UNCHANGED <<clock, packages, welcomes, join_requests, fetched, round>>

StampWelcomeByTarget(t, target, ref) ==
    /\ job[t] = NoJob
    /\ Stamp(t, [kind |-> "welcome", target_stable_pubkey |-> target,
                 key_package_reference |-> target, created_at |-> clock,
                 serial |-> stored + 1])

StampWelcome(t, target, ref) ==
    /\ job[t] = NoJob
    /\ Stamp(t, [kind |-> "welcome", target_stable_pubkey |-> target,
                 key_package_reference |-> ref, created_at |-> clock,
                 serial |-> stored + 1])

StampJoinRequestAnyOwner(t, g, pk, ref) ==
    /\ job[t] = NoJob
    /\ \E owner \in Requesters : <<ref, owner>> \in packages
    /\ Stamp(t, [kind |-> "join", group_id |-> g, requester_stable_pubkey |-> pk,
                 key_package_ref |-> ref, created_at |-> clock, serial |-> stored + 1])

(* Before that the adapter looks the key package up and compares its owner *)
(* with the caller; otherwise the request is refused.  The package may be  *)
(* gone by the time the request is stored.                                 *)
StampJoinRequest(t, g, pk, ref) ==
    /\ job[t] = NoJob
    /\ <<ref, pk>> \in packages
    /\ Stamp(t, [kind |-> "join", group_id |-> g, requester_stable_pubkey |-> pk,
                 key_package_ref |-> ref, created_at |-> clock, serial |-> stored + 1])

StoreWelcome(t) ==
    /\ job[t].kind = "welcome"
    /\ welcomes' = welcomes \cup {job[t]}
    /\ job' = [job EXCEPT ![t] = NoJob]
    /\ UNCHANGED <<clock, packages, stamps, join_requests, fetched, round>>

(* A requester's pending request is refreshed in place. *)
RefreshJoinRequest(t) ==
    LET old == PendingOf(job[t].group_id, job[t].requester_stable_pubkey) IN
    /\ job[t].kind = "join"
    /\ old # {}
    /\ join_requests' = (join_requests \ old) \cup {job[t]}
    /\ job' = [job EXCEPT ![t] = NoJob]
    /\ UNCHANGED <<clock, packages, stamps, welcomes, fetched, round>>

InsertJoinRequestUnlimited(t) ==
    /\ job[t].kind = "join"
    /\ PendingOf(job[t].group_id, job[t].requester_stable_pubkey) = {}
    /\ join_requests' = join_requests \cup {job[t]}
    /\ job' = [job EXCEPT ![t] = NoJob]
    /\ UNCHANGED <<clock, packages, stamps, welcomes, fetched, round>>

(* A new one is stored, or refused at the cap. *)
InsertJoinRequest(t) ==
    /\ job[t].kind = "join"
    /\ PendingOf(job[t].group_id, job[t].requester_stable_pubkey) = {}
    /\ join_requests' = IF Cardinality(PendingFor(job[t].group_id)) >= MaxPending
                        THEN join_requests ELSE join_requests \cup {job[t]}
    /\ job' = [job EXCEPT ![t] = NoJob]
    /\ UNCHANGED <<clock, packages, stamps, welcomes, fetched, round>>

(* fetch_pending_welcomes: retire what the caller acknowledges, return the *)
(* rest of its inbox.  A caller acknowledges records it was given before.  *)
FetchPendingWelcomes(target, consumed) ==
    /\ \A c \in consumed : c.target_stable_pubkey = target
    /\ welcomes' = RetiredWelcomes(consumed)
    /\ seen' = seen \cup {r \in welcomes' : r.target_stable_pubkey = target}
    /\ acked' = acked \cup consumed
    /\ UNCHANGED <<clock, packages, stamps, job, join_requests, round>>

(* fetch_pending_join_requests, one group of the multi-group fetch: memory *)
(* takes its mutex for each group anew; sqlite's one transaction is these  *)
(* steps in a row.                                                         *)
FetchPendingJoinRequests(g, consumed) ==
    /\ \A c \in consumed : c.group_id = g
    /\ join_requests' = RetiredJoinRequests(consumed)
    /\ seen' = seen \cup {r \in join_requests' : r.group_id = g}
    /\ acked' = acked \cup consumed
    /\ UNCHANGED <<clock, packages, stamps, job, welcomes, round>>

CleanupWakeSkips ==
    /\ cleaner = "sleep"
    /\ threshold' = IF MaxAge > 0 THEN clock - MaxAge ELSE 0
    /\ cleaner' = "joins"
    /\ UNCHANGED <<clock, packages, stamps, job, welcomes, join_requests, fetched>>

(* The cleanup task wakes up and computes its threshold. *)
CleanupWake ==
    /\ cleaner = "sleep"
    /\ threshold' = IF MaxAge > 0 THEN clock - MaxAge ELSE 0
    /\ cleaner' = "welcomes"
    /\ UNCHANGED <<clock, packages, stamps, job, welcomes, join_requests, fetched>>

CleanupWelcomes ==
    /\ cleaner = "welcomes"
    /\ welcomes' = Fresh(welcomes)
    /\ cleaner' = "joins"
    /\ UNCHANGED <<clock, packages, stamps, job, join_requests, fetched, threshold>>

CleanupJoinRequests ==
    /\ cleaner = "joins"
    /\ join_requests' = Fresh(join_requests)
    /\ cleaner' = "sleep"
    /\ UNCHANGED <<clock, packages, stamps, job, welcomes, fetched, threshold>>

(* A delete fails; the task ignores the error and goes on. *)
CleanupFails ==
    /\ cleaner \in {"welcomes", "joins"}
    /\ cleaner' = IF cleaner = "welcomes" THEN "joins" ELSE "sleep"
    /\ UNCHANGED <<clock, packages, stamps, job, welcomes, join_requests, fetched, threshold>>

(* close aborts the task, which takes effect where it sleeps. *)
Close ==
    /\ cleaner = "sleep"
    /\ cleaner' = "stopped"
    /\ UNCHANGED <<clock, packages, stamps, job, welcomes, join_requests, fetched, threshold>>

Cleanup == CleanupWake \/ CleanupWelcomes \/ CleanupJoinRequests \/ CleanupFails

Next ==
    \/ Tick
    \/ \E package \in packages : PackageGone(package)
    \/ \E t \in Threads :
         \/ \E target \in Targets, ref \in Refs : StampWelcome(t, target, ref)
         \/ \E g \in Groups, pk \in Requesters, ref \in Refs :
              StampJoinRequest(t, g, pk, ref)
         \/ StoreWelcome(t)
         \/ RefreshJoinRequest(t)
         \/ InsertJoinRequest(t)
    \/ \E target \in Targets :
         \E consumed \in SUBSET {r \in seen : r.kind = "welcome"} :
            FetchPendingWelcomes(target, consumed)
    \/ \E g \in Groups :
         \E consumed \in SUBSET {r \in seen : r.kind = "join"} :
            FetchPendingJoinRequests(g, consumed)
    \/ Cleanup
    \/ Close

Spec == Init /\ [][Next]_vars

(* The timer of the cleanup task fires, the task runs on, and a delete     *)
(* does not fail in every round.                                           *)
FairSpec ==
    /\ Spec
    /\ WF_vars(Cleanup)
    /\ SF_vars(CleanupWelcomes)
    /\ SF_vars(CleanupJoinRequests)

-----------------------------------------------------------------------------
TypeOK ==
    /\ clock \in 1 .. MaxClock
    /\ stored \in 0 .. MaxStores
    /\ last_stamp \in 0 .. MaxClock
    /\ packages \subseteq Packages
    /\ job \in [Threads -> {NoJob} \cup WelcomeQueueRecord \cup JoinRequestRecord]
    /\ welcomes \subseteq WelcomeQueueRecord
    /\ join_requests \subseteq JoinRequestRecord
    /\ seen \subseteq WelcomeQueueRecord \cup JoinRequestRecord
    /\ acked \subseteq seen
    /\ cleaner \in {"sleep", "welcomes", "joins", "stopped"}
    /\ threshold \in Int

(* Too old to be kept. *)
Expired(r) == MaxAge > 0 /\ r.created_at < clock - MaxAge

(* A welcome leaves its inbox only if its target was given it and has      *)
(* acknowledged it, or if it is too old: a fetch never retires a welcome   *)
(* that arrived since, nor the cleanup one that is young enough.           *)
WelcomeNotLost ==
    [][\A r \in welcomes \ welcomes' : r \in acked' \/ Expired(r)]_vars

(* A join request goes only by the admin's acknowledgement of this very    *)
(* request, by age, or because the requester itself replaced it: a         *)
(* re-request is not swallowed by an acknowledgement of the earlier one.   *)
JoinRequestNotLost ==
    [][\A r \in join_requests \ join_requests' :
          \/ r \in acked'
          \/ Expired(r)
          \/ \E s \in join_requests' :
               JoinRef(s)[1] = JoinRef(r)[1] /\ JoinRef(s)[2] = JoinRef(r)[2]]_vars

(* What was acknowledged is not returned again, and is not stored again by *)
(* a request that was still on its way.                                    *)
AckedStaysGone ==
    \A r \in acked : r \notin welcomes \cup join_requests

(* A group has at most one pending request per requester, and no more than *)
(* the cap.                                                                *)
JoinQueueBounded ==
    \A g \in Groups :
        /\ Cardinality(PendingFor(g)) <= MaxPending
        /\ \A r, s \in PendingFor(g) :
             r.requester_stable_pubkey = s.requester_stable_pubkey => r = s

(* A pending join request names a key package that its requester itself    *)
(* had published, also after a refresh and however late it was stored.     *)
JoinRequestVouched ==
    \A r \in join_requests :
        <<r.key_package_ref, r.requester_stable_pubkey>> \in Packages

(* Records that are too old are eventually deleted, in both queues, as     *)
(* long as the coordinator is not closed.                                  *)
ExpiredGone ==
    \A n \in 1 .. MaxStores :
        (\E r \in welcomes \cup join_requests : r.serial = n /\ Expired(r))
        ~> (\/ cleaner = "stopped"
            \/ \A r \in welcomes \cup join_requests : r.serial # n)
=============================================================================
