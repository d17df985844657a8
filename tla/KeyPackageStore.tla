-------------------------- MODULE KeyPackageStore --------------------------
(***************************************************************************)
(* The key-package operations of CoordinatorStorage, for both backends, on *)
(* one value: the sequence of stored records in the order in which         *)
(* list_all_key_packages returns them.                                     *)
(*                                                                         *)
(* The memory backend (storage/in_memory.rs) keeps a Vec per identity in   *)
(* an IndexMap ordered by first insertion; the sequence is its             *)
(* concatenation, in which an identity's records are contiguous.  The      *)
(* sqlite backend (storage/sqlite.rs) keeps rows ordered by id.  Each      *)
(* operation runs under the backend's one mutex and is atomic.             *)
(***************************************************************************)
EXTENDS Integers, FiniteSets, Sequences, SequencesExt

(* The records of one identity, oldest first: the k-th has k - 1 before it. *)
ListKeyPackagesForIdentity(kps, pk) ==
    LET own == {n \in DOMAIN kps : kps[n].stable_pubkey = pk}
        At(k) == {n \in own : Cardinality({m \in own : m < n}) = k - 1}
    IN  [k \in 1 .. Cardinality(own) |-> CHOOSE r \in {kps[n] : n \in At(k)} : TRUE]

(* locate_by_ref, SELECT ... WHERE key_package_ref = ? LIMIT 1: the place  *)
(* of the first record with the reference, 0 if there is none.             *)
LocateByRef(kps, ref) == SelectInSeq(kps, LAMBDA r : r.key_package_ref = ref)

(* Only sqlite's UNIQUE column refuses a record. *)
Refuses(backend, kps, rec) ==
    backend = "sqlite" /\ LocateByRef(kps, rec.key_package_ref) # 0

PublishedFirst(backend, kps, rec) ==
    LET own == SelectInSeq(kps, LAMBDA r : r.stable_pubkey = rec.stable_pubkey)
    IN  IF backend = "memory" /\ own # 0 THEN InsertAt(kps, own, rec)
        ELSE Append(kps, rec)

(* The place of an identity's newest record, 0 if there is none. *)
LastOwn(kps, pk) == SelectLastInSeq(kps, LAMBDA r : r.stable_pubkey = pk)

(* A record that is not refused: memory adds it after the identity's own   *)
(* records, sqlite after all records.                                      *)
Published(backend, kps, rec) ==
    LET own == LastOwn(kps, rec.stable_pubkey)
    IN  IF backend = "memory" /\ own # 0 THEN InsertAt(kps, own + 1, rec)
        ELSE Append(kps, rec)

(* A found record is taken out of its Vec by place.  Sqlite deletes by     *)
(* reference, and "key_package_ref is UNIQUE": the row that was found, and *)
(* no other (KeyPackagesProofs, ReferencesUnique).                         *)
Deleted(kps, n) == RemoveAt(kps, n)

Removed(kps, ref) ==
    LET n == LocateByRef(kps, ref) IN IF n = 0 THEN kps ELSE Deleted(kps, n)

FirstRegular(kps, pk) ==
    SelectInSeq(kps, LAMBDA r : r.stable_pubkey = pk /\ ~ r.is_last_resort)

(* Consuming by identity.  Memory takes the first regular record, else the *)
(* last one of the Vec.                                                    *)
FirstRegularElseLast(kps, pk) ==
    IF FirstRegular(kps, pk) # 0 THEN FirstRegular(kps, pk) ELSE LastOwn(kps, pk)

SqlOrderNewestFirst(kps, n, m) ==
    \/ ~ kps[n].is_last_resort /\ kps[m].is_last_resort
    \/ kps[n].is_last_resort = kps[m].is_last_resort /\ n >= m

(* The ORDER BY of KP_CONSUME_BY_IDENTITY_SQL: is row n before row m?      *)
(* Regular rows first, by id; then last-resort rows, by falling id.        *)
SqlOrder(kps, n, m) ==
    \/ ~ kps[n].is_last_resort /\ kps[m].is_last_resort
    \/ ~ kps[n].is_last_resort /\ ~ kps[m].is_last_resort /\ n <= m
    \/ kps[n].is_last_resort /\ kps[m].is_last_resort /\ n >= m

FirstInSqlOrder(kps, pk) ==
    LET rows == {n \in DOMAIN kps : kps[n].stable_pubkey = pk}
    IN  IF rows = {} THEN 0
        ELSE CHOOSE n \in rows : \A m \in rows : SqlOrder(kps, n, m)

(* The record consume_key_package picks, 0 for none: the one with that     *)
(* reference, else one of that identity.                                   *)
ConsumePick(backend, kps, identifier) ==
    IF LocateByRef(kps, identifier) # 0 THEN LocateByRef(kps, identifier)
    ELSE IF backend = "memory" THEN FirstRegularElseLast(kps, identifier)
    ELSE FirstInSqlOrder(kps, identifier)

ConsumedByRefOnly(backend, kps, identifier) ==
    LET n == LocateByRef(kps, identifier)
    IN  IF n = 0 \/ kps[n].is_last_resort THEN kps ELSE Deleted(kps, n)

(* ... which stays if it is a last-resort package. *)
Consumed(backend, kps, identifier) ==
    LET n == ConsumePick(backend, kps, identifier)
    IN  IF n = 0 \/ kps[n].is_last_resort THEN kps ELSE Deleted(kps, n)
=============================================================================
