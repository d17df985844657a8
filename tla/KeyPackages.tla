---------------------------- MODULE KeyPackages ----------------------------
(***************************************************************************)
(* Key packages as the adapter serves them (cordn-server/src/adapter.rs):  *)
(* publishing under the per-identity quotas, consuming, and removal by the *)
(* owner.  Storage operations are atomic; a handler makes several, and     *)
(* handlers run on several threads, so other requests run in between.      *)
(* Validation of the input, which precedes and never touches storage, is   *)
(* the constant MayPublish.                                                *)
(***************************************************************************)
EXTENDS KeyPackageStore

CONSTANTS
    Identities,       \* stable pubkeys
    Refs,             \* key-package references
    Threads,          \* request-handling threads
    MayPublish,       \* the <<thread, identity, reference, is_last_resort>> published
    MayRemove,        \* the <<thread, identity, reference>> of removal requests
    Backends,         \* the backends a server may be started with
    Persisted,        \* the stores a sqlite file may hold at the start
    MaxPerIdentity,   \* max_per_identity; 0 is no limit
    MaxLastResort,    \* max_last_resort_per_identity; 0 is no limit
    MaxPublishes      \* bound: publish requests

ASSUME KeyPackagesAssumption ==
    /\ MayPublish \subseteq Threads \X Identities \X Refs \X BOOLEAN
    /\ MayRemove \subseteq Threads \X Identities \X Refs
    /\ Backends \subseteq {"memory", "sqlite"}
    /\ MaxPerIdentity \in Nat /\ MaxLastResort \in Nat /\ MaxPublishes \in Nat

VARIABLES
    backend,   \* the storage backend, chosen at the start
    kps,       \* storage: the stored records
    job,       \* per thread: the request in progress
    requests,  \* history: publish requests started
    stored,    \* history: records inserted, which also number them
    spent,     \* history: regular packages handed out and not published since
    doubled    \* history: packages published once more while stored

vars == <<backend, kps, job, requests, stored, spent, doubled>>

Idle == [op |-> "idle"]

(* PublishedKeyPackageRecord; serial tells which insert it came with.      *)
(* Sqlite's row id and the places of a Vec order an identity's records     *)
(* just like it.                                                           *)
Record == [stable_pubkey : Identities, key_package_ref : Refs,
           is_last_resort : BOOLEAN, serial : Nat]

(* A package: what a publish request submits. *)
Submitted == [stable_pubkey : Identities, key_package_ref : Refs, is_last_resort : BOOLEAN]

(* The package that a stored record holds. *)
Package(r) == [stable_pubkey |-> r.stable_pubkey, key_package_ref |-> r.key_package_ref,
               is_last_resort |-> r.is_last_resort]

(* A sqlite file holds what clients published to it earlier, in order, with *)
(* distinct references; the limits may have been different ones then.      *)
ASSUME PersistedAssumption ==
    \A s \in Persisted :
        /\ s \in Seq(Record)
        /\ \A i \in DOMAIN s : s[i].serial = i
        /\ \A i, j \in DOMAIN s : s[i].key_package_ref = s[j].key_package_ref => i = j
        /\ \A i \in DOMAIN s : \E t \in Threads :
             <<t, s[i].stable_pubkey, s[i].key_package_ref, s[i].is_last_resort>> \in MayPublish

(* The packages stored for an identity, which list_key_packages_for_       *)
(* identity returns oldest first.                                          *)
Own(store, pk) == {r \in ToSet(store) : r.stable_pubkey = pk}

LastResort(records) == {r \in records : r.is_last_resort}

(* .iter().take(n) *)
Oldest(records, n) ==
    {r \in records : Cardinality({q \in records : q.serial < r.serial}) < n}

Smaller(a, b) == IF a <= b THEN a ELSE b

DisplacedOnlyOne(records, lr) ==
    LET existing == LastResort(records) IN
    IF lr /\ MaxLastResort > 0 /\ Cardinality(existing) >= MaxLastResort
    THEN Oldest(existing, 1) ELSE {}

DisplacedOneTooMany(records, lr) ==
    LET existing == LastResort(records) IN
    IF lr /\ MaxLastResort > 0 /\ Cardinality(existing) >= MaxLastResort
    THEN Oldest(existing, Cardinality(existing) - MaxLastResort + 2) ELSE {}

DisplacedByIdentity(records, lr) ==
    LET existing == LastResort(records) IN
    IF lr /\ MaxLastResort > 0 /\ Cardinality(existing) >= MaxLastResort
    THEN {r.stable_pubkey : r \in existing} ELSE {}

(* The oldest last-resort packages, which a new one displaces. *)
Displaced(records, lr) ==
    LET existing == LastResort(records) IN
    IF lr /\ MaxLastResort > 0 /\ Cardinality(existing) >= MaxLastResort
    THEN Oldest(existing, Cardinality(existing) - MaxLastResort + 1) ELSE {}

CountBeforeDisplacing(records, lr) == Cardinality(records) + 1

(* What is compared with max_per_identity: the records the identity will   *)
(* have with the new one, as counted before anything is displaced.         *)
CountWith(records, lr) ==
    LET existing == Cardinality(LastResort(records))
        room == IF MaxLastResort > 0 THEN MaxLastResort - 1 ELSE 0
    IN  IF lr THEN Cardinality(records) - existing + Smaller(existing, room) + 1
        ELSE Cardinality(records) + 1

QuotaExceeded(records, lr) ==
    MaxPerIdentity > 0 /\ CountWith(records, lr) > MaxPerIdentity

-----------------------------------------------------------------------------
Init ==
    /\ backend \in Backends
    /\ kps \in IF backend = "sqlite" THEN Persisted ELSE {<<>>}
    /\ job = [t \in Threads |-> Idle]
    /\ requests = 0
    /\ stored = Len(kps)
    /\ spent = {}
    /\ doubled = {}

(* publish_key_package up to and with the listing in                       *)
(* enforce_key_package_quota: all that follows uses this one listing.      *)
PublishList(t, pk, ref, lr) ==
    LET records == Own(kps, pk) IN
    /\ <<t, pk, ref, lr>> \in MayPublish
    /\ job[t] = Idle
    /\ requests < MaxPublishes
    /\ requests' = requests + 1
    /\ job' = [job EXCEPT ![t] =
                 [op |-> "publish",
                  record |-> [stable_pubkey |-> pk, key_package_ref |-> ref,
                              is_last_resort |-> lr],
                  evict |-> Displaced(records, lr),
                  exceeded |-> QuotaExceeded(records, lr)]]
    /\ UNCHANGED <<backend, kps, stored, spent, doubled>>

(* One remove_key_package of the eviction loop. *)
EvictNext(t) ==
    /\ job[t].op = "publish"
    /\ \E r \in job[t].evict :
         /\ \A q \in job[t].evict : r.serial <= q.serial
         /\ kps' = Removed(kps, r.key_package_ref)
         /\ job' = [job EXCEPT ![t].evict = @ \ {r}]
    /\ UNCHANGED <<backend, requests, stored, spent, doubled>>

(* QuotaExceeded, or the backend's refusal. *)
PublishFails(t) ==
    /\ job[t].op = "publish"
    /\ job[t].evict = {}
    /\ job[t].exceeded \/ Refuses(backend, kps, job[t].record)
    /\ job' = [job EXCEPT ![t] = Idle]
    /\ UNCHANGED <<backend, kps, requests, stored, spent, doubled>>

(* A storage operation of a request fails for reasons of its own, which    *)
(* sqlite's may (`?`): the request ends, and what it has removed so far    *)
(* stays removed.  A consume that fails is rolled back.                    *)
StorageFails(t) ==
    /\ backend = "sqlite"
    /\ job[t] # Idle
    /\ job' = [job EXCEPT ![t] = Idle]
    /\ UNCHANGED <<backend, kps, requests, stored, spent, doubled>>

PublishInsert(t) ==
    LET rec == job[t].record
        row == [stable_pubkey |-> rec.stable_pubkey, key_package_ref |-> rec.key_package_ref,
                is_last_resort |-> rec.is_last_resort, serial |-> stored + 1]
    IN
    /\ job[t].op = "publish"
    /\ job[t].evict = {}
    /\ ~ job[t].exceeded
    /\ ~ Refuses(backend, kps, rec)
    /\ kps' = Published(backend, kps, row)
    /\ stored' = stored + 1
    /\ spent' = spent \ {rec}
    /\ doubled' = IF \E r \in ToSet(kps) : Package(r) = rec
                  THEN doubled \cup {rec} ELSE doubled \ {rec}
    /\ job' = [job EXCEPT ![t] = Idle]
    /\ UNCHANGED <<backend, requests>>

(* consume_key_package, by reference or by identity, for any caller. *)
ConsumeKeyPackage(identifier) ==
    LET n == ConsumePick(backend, kps, identifier) IN
    /\ n # 0
    /\ spent' = IF kps[n].is_last_resort THEN spent ELSE spent \cup {Package(kps[n])}
    /\ kps' = Consumed(backend, kps, identifier)
    /\ UNCHANGED <<backend, job, requests, stored, doubled>>

(* remove_key_packages handles one reference after the other, each with a  *)
(* get and a remove, and stops at the first that is unknown or not the     *)
(* caller's: a request for several is several of these in a row.           *)
RemoveGet(t, pk, ref) ==
    LET n == LocateByRef(kps, ref) IN
    /\ <<t, pk, ref>> \in MayRemove
    /\ job[t] = Idle
    /\ n # 0
    /\ kps[n].stable_pubkey = pk
    /\ job' = [job EXCEPT ![t] = [op |-> "remove", stable_pubkey |-> pk, ref |-> ref]]
    /\ UNCHANGED <<backend, kps, requests, stored, spent, doubled>>

RemoveDo(t) ==
    /\ job[t].op = "remove"
    /\ kps' = Removed(kps, job[t].ref)
    /\ job' = [job EXCEPT ![t] = Idle]
    /\ UNCHANGED <<backend, requests, stored, spent, doubled>>

Next ==
    \/ \E t \in Threads :
         \/ \E pk \in Identities, ref \in Refs, lr \in BOOLEAN : PublishList(t, pk, ref, lr)
         \/ EvictNext(t)
         \/ PublishFails(t)
         \/ StorageFails(t)
         \/ PublishInsert(t)
         \/ \E pk \in Identities, ref \in Refs : RemoveGet(t, pk, ref)
         \/ RemoveDo(t)
    \/ \E identifier \in Refs \cup Identities : ConsumeKeyPackage(identifier)

Spec == Init /\ [][Next]_vars

-----------------------------------------------------------------------------
TypeOK ==
    /\ backend \in Backends
    /\ kps \in Seq(Record)
    /\ requests \in 0 .. MaxPublishes
    /\ stored \in Nat
    /\ job \in [Threads -> {Idle}
                  \cup [op : {"publish"}, record : Submitted,
                        evict : SUBSET Record, exceeded : BOOLEAN]
                  \cup [op : {"remove"}, stable_pubkey : Identities, ref : Refs]]
    /\ spent \subseteq Submitted
    /\ doubled \subseteq Submitted

(* A set that grows is within the limit afterwards. *)
GrowsWithin(limit, before, after) ==
    limit > 0 /\ Cardinality(after) > Cardinality(before) => Cardinality(after) <= limit

(* No step takes an identity over a limit: when the count of its packages  *)
(* grows, in the middle of other requests as well, it is within the limit  *)
(* afterwards.  A file that an earlier server left over the limits may     *)
(* stay over them, but nothing is added to it until there is room.         *)
QuotaRespected ==
    [][\A pk \in Identities :
         /\ GrowsWithin(MaxPerIdentity, Own(kps, pk), Own(kps', pk))
         /\ GrowsWithin(MaxLastResort, LastResort(Own(kps, pk)), LastResort(Own(kps', pk)))]_vars

(* A regular package that was handed out is not available again, to        *)
(* another consumer or under another record, until its identity publishes  *)
(* it again; and on sqlite it is then available once.  On memory, which    *)
(* accepts a publish of a stored package, a retried publish makes the      *)
(* package available twice: only those are exempt.                         *)
HandedOnce ==
    /\ \A r \in ToSet(kps) : Package(r) \in spent => Package(r) \in doubled
    /\ backend = "sqlite" => doubled = {}

(* An identity that has a last-resort package keeps one until it removes   *)
(* it itself: displacing older ones, a refusal or a storage failure after  *)
(* that, an over-full file and consuming never take the last one.  With    *)
(* the default limit of one, a publish displaces the only one before it    *)
(* stores the next, and the property does not hold.                        *)
LastResortKept ==
    [][\A pk \in Identities :
         LastResort(Own(kps, pk)) # {} /\ LastResort(Own(kps', pk)) = {}
           => \E t \in Threads : /\ job[t].op = "remove" /\ job[t].stable_pubkey = pk
                                 /\ job'[t] = Idle]_vars

(* Within the limits; without a limit on last-resort packages the room is  *)
(* not counted.                                                            *)
Within(own) ==
    MaxLastResort > 0 => /\ MaxPerIdentity > 0 => Cardinality(own) <= MaxPerIdentity
                         /\ Cardinality(LastResort(own)) <= MaxLastResort

(* A publish has listed what its identity has, too much for one more. *)
WillBeRefused(t) == job[t] = Idle /\ job'[t].op = "publish" /\ job'[t].exceeded

(* "Evict the oldest last-resort entries to make room": a publish that the *)
(* quota is going to refuse displaces nothing, although the loop runs      *)
(* before the count is compared.  That is so for identities within the     *)
(* limits; one that a file has over them may lose a package for nothing.   *)
EvictsToMakeRoom ==
    [][\A t \in Threads :
         WillBeRefused(t) /\ Within(Own(kps, job'[t].record.stable_pubkey))
           => job'[t].evict = {}]_vars
=============================================================================
