--------------------------- MODULE StorageParity ---------------------------
(***************************************************************************)
(* Both storage backends driven by the same key-package operations, as     *)
(* tests/storage_parity.rs does with a few scripts: do they keep the same  *)
(* records and give the same answers?                                      *)
(***************************************************************************)
EXTENDS KeyPackageStore

CONSTANTS
    Identities,   \* stable pubkeys
    Refs,         \* key-package references
    ReuseRefs,    \* may a reference be published while it is stored?
    MaxStored     \* bound: records in a store

ASSUME ParityAssumption == ReuseRefs \in BOOLEAN /\ MaxStored \in Nat

VARIABLES
    memory,   \* the records of the memory backend
    sqlite,   \* the records of the sqlite backend
    reply     \* what the two answered last; None if no record came back

vars == <<memory, sqlite, reply>>

Record == [stable_pubkey : Identities, key_package_ref : Refs, is_last_resort : BOOLEAN]

None == <<>>
Some(kps, n) == IF n = 0 THEN None ELSE <<kps[n]>>

Init ==
    /\ memory = <<>>
    /\ sqlite = <<>>
    /\ reply = [memory |-> None, sqlite |-> None]

PublishKeyPackage(rec) ==
    /\ Len(memory) < MaxStored
    /\ ReuseRefs \/ LocateByRef(memory, rec.key_package_ref) = 0
    /\ memory' = Published("memory", memory, rec)
    /\ sqlite' = IF Refuses("sqlite", sqlite, rec) THEN sqlite
                 ELSE Published("sqlite", sqlite, rec)
    /\ reply' = [memory |-> <<rec>>,
                 sqlite |-> IF Refuses("sqlite", sqlite, rec) THEN None
                            ELSE <<rec>>]

RemoveKeyPackage(ref) ==
    /\ memory' = Removed(memory, ref)
    /\ sqlite' = Removed(sqlite, ref)
    /\ reply' = [memory |-> Some(memory, LocateByRef(memory, ref)),
                 sqlite |-> Some(sqlite, LocateByRef(sqlite, ref))]

ConsumeKeyPackage(identifier) ==
    /\ memory' = Consumed("memory", memory, identifier)
    /\ sqlite' = Consumed("sqlite", sqlite, identifier)
    /\ reply' = [memory |-> Some(memory, ConsumePick("memory", memory, identifier)),
                 sqlite |-> Some(sqlite, ConsumePick("sqlite", sqlite, identifier))]

Next ==
    \/ \E rec \in Record : PublishKeyPackage(rec)
    \/ \E ref \in Refs : RemoveKeyPackage(ref)
    \/ \E identifier \in Refs \cup Identities : ConsumeKeyPackage(identifier)

Spec == Init /\ [][Next]_vars

-----------------------------------------------------------------------------
(* The two backends give the same answer to every operation: the same      *)
(* record is handed out by consume and by remove, although one searches    *)
(* per identity and the other the whole table.                             *)
SameReplies == reply.memory = reply.sqlite

(* ... and list the same records in the same order for every identity.     *)
SameRecords ==
    \A pk \in Identities :
        ListKeyPackagesForIdentity(memory, pk) = ListKeyPackagesForIdentity(sqlite, pk)
=============================================================================
