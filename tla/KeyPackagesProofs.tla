------------------------- MODULE KeyPackagesProofs -------------------------
(***************************************************************************)
(* Proofs about KeyPackages: types and hand-outs for any requests, and     *)
(* quotas and last-resort packages for identities that send one request at *)
(* a time, under references that belong to one package.                    *)
(***************************************************************************)
EXTENDS KeyPackages, FiniteSetTheorems, WellFoundedInduction, TLAPS

(***************************************************************************)
(* Hypotheses                                                              *)
(***************************************************************************)
(* A reference belongs to one package, hence to one owner and to one kind. *)
(* Clients name a package by its hash; the server stores the reference it  *)
(* is given (publish_key_package) and verifies nothing about it, so this   *)
(* is an assumption about clients.                                         *)
OnePackagePerRef ==
    \A a, b \in MayPublish : a[3] = b[3] => a[2] = b[2] /\ a[4] = b[4]

(* An identity's requests are served by one thread, one after the other;   *)
(* two at once may exceed the quota.                                       *)
OneThreadPerIdentity ==
    /\ \A a, b \in MayPublish : a[2] = b[2] => a[1] = b[1]
    /\ \A a \in MayPublish, b \in MayRemove : a[2] = b[2] => a[1] = b[1]

(* No file was left over today's limits. *)
PersistedWithin == \A s \in Persisted, pk \in Identities : Within(Own(s, pk))

(***************************************************************************)
(* The inductive invariants                                                *)
(***************************************************************************)
(* Records have numbers of their own, which grow along an identity's       *)
(* records.                                                                *)
Numbered(s, top) ==
    /\ \A i \in DOMAIN s : s[i].serial <= top
    /\ \A i, j \in DOMAIN s : s[i].serial = s[j].serial => i = j
    /\ \A i, j \in DOMAIN s :
         i < j /\ s[i].stable_pubkey = s[j].stable_pubkey => s[i].serial < s[j].serial

(* No two records share a reference. *)
DistinctRefs(s) ==
    \A i, j \in DOMAIN s : s[i].key_package_ref = s[j].key_package_ref => i = j

(* What is stored has been numbered. *)
StoreInv == Numbered(kps, stored)

(* A package that is stored twice was published while stored. *)
TwiceInv ==
    \A r, q \in ToSet(kps) : Package(r) = Package(q) /\ r # q => Package(r) \in doubled

(* Sqlite's UNIQUE column. *)
UniqueRefs == backend = "sqlite" => DistinctRefs(kps)

(* For any requests. *)
HandInv == TypeOK /\ StoreInv /\ TwiceInv /\ HandedOnce /\ UniqueRefs

(* The package was published by somebody who may. *)
MayCome(r) ==
    \E t \in Threads :
        <<t, r.stable_pubkey, r.key_package_ref, r.is_last_resort>> \in MayPublish

(* Whatever a request is about was published by its caller. *)
OwnerInv ==
    /\ \A i \in DOMAIN kps : MayCome(kps[i])
    /\ \A t \in Threads : job[t].op = "publish" =>
         /\ <<t, job[t].record.stable_pubkey, job[t].record.key_package_ref,
              job[t].record.is_last_resort>> \in MayPublish
         /\ \A e \in job[t].evict : MayCome(e) /\ e.stable_pubkey = job[t].record.stable_pubkey
    /\ \A t \in Threads : job[t].op = "remove" =>
         /\ <<t, job[t].stable_pubkey, job[t].ref>> \in MayRemove
         /\ \E u \in Threads, lr \in BOOLEAN :
              <<u, job[t].stable_pubkey, job[t].ref, lr>> \in MayPublish

(* A publishing request j of an identity with these packages has the       *)
(* oldest last-resort ones in hand, and leaves room for the new one.       *)
Evicting(own, j) ==
    LET existing == LastResort(own) IN
    /\ j.evict \subseteq existing
    /\ \A e \in j.evict : \A q \in existing : q.serial < e.serial => q \in j.evict
    /\ ~ j.record.is_last_resort => j.evict = {}
    /\ j.record.is_last_resort /\ MaxLastResort > 0
         => Cardinality(existing \ j.evict) < MaxLastResort
    /\ ~ j.exceeded /\ MaxPerIdentity > 0 /\ MaxLastResort > 0
         => Cardinality(own \ j.evict) < MaxPerIdentity

(* It does not displace the last last-resort package.                      *)
Spares(own, j) ==
    MaxLastResort # 1 /\ j.evict # {} => LastResort(own) \ j.evict # {}

(* A thread that publishes does both. *)
JobFair(t) ==
    job[t].op = "publish" =>
      /\ Evicting(Own(kps, job[t].record.stable_pubkey), job[t])
      /\ Spares(Own(kps, job[t].record.stable_pubkey), job[t])

(* For identities that send one request at a time. *)
QuotaInv ==
    /\ \A t \in Threads : JobFair(t)
    /\ PersistedWithin => \A pk \in Identities : Within(Own(kps, pk))

-----------------------------------------------------------------------------
(* A set of numbers has a least one. *)
LEMMA LeastNumber ==
    ASSUME NEW I \in SUBSET Nat, I # {}
    PROVE  \E n \in I : \A m \in I : n <= m
<1>1. PICK n \in I : \A m \in I : ~ (<<m, n>> \in OpToRel(<, Nat))
  BY WFMin, NatLessThanWellFounded
<1>2. \A m \in I : ~ (m < n)
  BY <1>1 DEF OpToRel
<1> QED
  BY <1>2

(* A bounded set of numbers has a greatest one. *)
LEMMA GreatestNumber ==
    ASSUME NEW b \in Nat, NEW I \in SUBSET (0 .. b), I # {}
    PROVE  \E n \in I : \A m \in I : m <= n
<1> DEFINE J == {k \in 0 .. b : b - k \in I}
<1>1. J \in SUBSET Nat
  OBVIOUS
<1>2. PICK i \in I : TRUE
  OBVIOUS
<1>3. b - (b - i) = i /\ b - i \in 0 .. b
  OBVIOUS
<1>4. b - i \in J
  BY <1>3
<1>5. PICK k \in J : \A l \in J : k <= l
  <2> HIDE DEF J
  <2> QED  BY <1>1, <1>4, LeastNumber
<1>6. b - k \in I
  OBVIOUS
<1>7. \A m \in I : m <= b - k
  <2> TAKE m \in I
  <2>1. b - (b - m) = m /\ b - m \in 0 .. b
    OBVIOUS
  <2>2. b - m \in J
    BY <2>1
  <2>3. k <= b - m
    BY <2>2, <1>5
  <2> QED  BY <2>3, <1>5
<1> QED  BY <1>6, <1>7

(* SelectInSeq takes the least place. *)
LEMMA MinOf ==
    ASSUME NEW I \in SUBSET Nat, I # {}
    PROVE  Min(I) \in I /\ \A m \in I : Min(I) <= m
BY LeastNumber, Zenon DEF Min

(* SelectLastInSeq takes the greatest place. *)
LEMMA MaxOf ==
    ASSUME NEW b \in Nat, NEW I \in SUBSET (0 .. b), I # {}
    PROVE  Max(I) \in I /\ \A m \in I : m <= Max(I)
<1>1. \E n \in I : \A m \in I : m <= n
  BY GreatestNumber
<1>2. \E n \in I : \A m \in I : n >= m
  BY <1>1
<1>3. Max(I) \in I /\ \A m \in I : Max(I) >= m
  BY <1>2, Zenon DEF Max
<1> QED  BY <1>3

(* LocateByRef finds the first record with the reference, if there is one. *)
LEMMA Located ==
    ASSUME NEW s \in Seq(Record), NEW ref
    PROVE  LET n == LocateByRef(s, ref) IN
           \/ n = 0 /\ \A i \in DOMAIN s : s[i].key_package_ref # ref
           \/ /\ n \in DOMAIN s /\ s[n].key_package_ref = ref
              /\ \A i \in DOMAIN s : s[i].key_package_ref = ref => n <= i
<1> DEFINE I == {i \in 1 .. Len(s) : s[i].key_package_ref = ref}
<1>1. DOMAIN s = 1 .. Len(s) /\ I \in SUBSET Nat
  OBVIOUS
<1>2. LocateByRef(s, ref) = IF I # {} THEN Min(I) ELSE 0
  BY DEF LocateByRef, SelectInSeq
<1>3. I # {} => Min(I) \in I /\ \A m \in I : Min(I) <= m
  <2> HIDE DEF I
  <2> QED  BY <1>1, MinOf
<1> QED  BY <1>1, <1>2, <1>3

(* The first regular record of an identity is a stored one. *)
LEMMA FirstRegularPlace ==
    ASSUME NEW s \in Seq(Record), NEW pk
    PROVE  FirstRegular(s, pk) = 0 \/ FirstRegular(s, pk) \in DOMAIN s
<1> DEFINE I == {i \in 1 .. Len(s) : s[i].stable_pubkey = pk /\ ~ s[i].is_last_resort}
<1>1. DOMAIN s = 1 .. Len(s) /\ I \in SUBSET Nat
  OBVIOUS
<1>2. FirstRegular(s, pk) = IF I # {} THEN Min(I) ELSE 0
  BY DEF FirstRegular, SelectInSeq
<1>3. I # {} => Min(I) \in I
  <2> HIDE DEF I
  <2> QED  BY <1>1, MinOf
<1> QED  BY <1>1, <1>2, <1>3

(* LastOwn finds the last of an identity's records, if there is one. *)
LEMMA LastOwnPlace ==
    ASSUME NEW s \in Seq(Record), NEW pk
    PROVE  LET n == LastOwn(s, pk) IN
           \/ n = 0 /\ \A i \in DOMAIN s : s[i].stable_pubkey # pk
           \/ n \in DOMAIN s /\ \A i \in DOMAIN s : s[i].stable_pubkey = pk => i <= n
<1> DEFINE I == {i \in 1 .. Len(s) : s[i].stable_pubkey = pk}
<1>1. DOMAIN s = 1 .. Len(s) /\ Len(s) \in Nat /\ I \in SUBSET (0 .. Len(s))
  OBVIOUS
<1>2. LastOwn(s, pk) = IF I # {} THEN Max(I) ELSE 0
  BY DEF LastOwn, SelectLastInSeq
<1>3. I # {} => Max(I) \in I /\ \A m \in I : m <= Max(I)
  <2> HIDE DEF I
  <2> QED  BY <1>1, MaxOf
<1> QED  BY <1>1, <1>2, <1>3

(* The ORDER BY of KP_CONSUME_BY_IDENTITY_SQL has a first row: the oldest  *)
(* regular one, else the newest last-resort one.                           *)
LEMMA FirstRow ==
    ASSUME NEW s \in Seq(Record), NEW pk
    PROVE  FirstInSqlOrder(s, pk) = 0 \/ FirstInSqlOrder(s, pk) \in DOMAIN s
<1> DEFINE rows == {n \in DOMAIN s : s[n].stable_pubkey = pk}
           regular == {n \in rows : ~ s[n].is_last_resort}
<1>1. DOMAIN s = 1 .. Len(s) /\ Len(s) \in Nat
  OBVIOUS
<1>2. \A n \in DOMAIN s : s[n].is_last_resort \in BOOLEAN
  <2> TAKE n \in DOMAIN s
  <2>1. s[n] \in Record
    OBVIOUS
  <2> QED  BY <2>1 DEF Record
<1>3. ASSUME rows # {}
      PROVE  \E n \in rows : \A m \in rows : SqlOrder(s, n, m)
  <2>1. CASE regular # {}
    <3>1. regular \in SUBSET Nat
      BY <1>1
    <3>2. PICK n \in regular : \A m \in regular : n <= m
      <4> HIDE DEF regular
      <4> QED  BY <2>1, <3>1, LeastNumber
    <3> QED  BY <1>2, <3>2 DEF SqlOrder
  <2>2. CASE regular = {}
    <3>1. rows \in SUBSET (0 .. Len(s))
      BY <1>1
    <3>2. PICK n \in rows : \A m \in rows : m <= n
      <4> HIDE DEF rows
      <4> QED  BY <1>1, <1>3, <3>1, GreatestNumber
    <3>3. \A m \in rows : s[m].is_last_resort /\ m \in Nat
      BY <1>1, <1>2, <2>2
    <3>4. \A m \in rows : n >= m
      BY <3>2, <3>3
    <3> QED  BY <3>2, <3>3, <3>4 DEF SqlOrder
  <2> QED  BY <2>1, <2>2
<1>4. FirstInSqlOrder(s, pk) =
        IF rows = {} THEN 0 ELSE CHOOSE n \in rows : \A m \in rows : SqlOrder(s, n, m)
  BY DEF FirstInSqlOrder
<1>5. CASE rows = {}
  BY <1>4, <1>5
<1>6. CASE rows # {}
  <2>1. (CHOOSE n \in rows : \A m \in rows : SqlOrder(s, n, m)) \in rows
    <3>1. \E n \in rows : \A m \in rows : SqlOrder(s, n, m)
      BY <1>3, <1>6
    <3> HIDE DEF rows
    <3> QED  BY <3>1, Zenon
  <2>2. FirstInSqlOrder(s, pk) \in rows
    BY <1>4, <1>6, <2>1
  <2> QED  BY <2>2
<1> QED  BY <1>5, <1>6

(* consume_key_package picks a stored record, or none. *)
LEMMA PickPlace ==
    ASSUME NEW b, NEW s \in Seq(Record), NEW identifier
    PROVE  ConsumePick(b, s, identifier) = 0 \/ ConsumePick(b, s, identifier) \in DOMAIN s
<1>1. LocateByRef(s, identifier) = 0 \/ LocateByRef(s, identifier) \in DOMAIN s
  BY Located
<1>2. FirstRegularElseLast(s, identifier) = 0 \/ FirstRegularElseLast(s, identifier) \in DOMAIN s
  BY FirstRegularPlace, LastOwnPlace DEF FirstRegularElseLast
<1> QED  BY <1>1, <1>2, FirstRow DEF ConsumePick

(* What concatenation does, place by place. *)
LEMMA Concat ==
    ASSUME NEW s \in Seq(Record), NEW t \in Seq(Record)
    PROVE  /\ s \o t \in Seq(Record)
           /\ Len(s \o t) = Len(s) + Len(t)
           /\ \A i \in 1 .. Len(s) : (s \o t)[i] = s[i]
           /\ \A i \in (Len(s) + 1) .. (Len(s) + Len(t)) : (s \o t)[i] = t[i - Len(s)]
<1>1. Len(s) \in Nat /\ Len(t) \in Nat
  OBVIOUS
<1>2. \A i \in 1 .. Len(s) : (s \o t)[i] = s[i]
  BY <1>1
<1>3. \A i \in (Len(s) + 1) .. (Len(s) + Len(t)) : (s \o t)[i] = t[i - Len(s)]
  BY <1>1
<1> QED  BY <1>1, <1>2, <1>3

(* What SubSeq keeps, place by place. *)
LEMMA Part ==
    ASSUME NEW s \in Seq(Record), NEW a \in 1 .. (Len(s) + 1), NEW b \in (a - 1) .. Len(s)
    PROVE  /\ SubSeq(s, a, b) \in Seq(Record)
           /\ Len(SubSeq(s, a, b)) = b - a + 1
           /\ \A i \in 1 .. (b - a + 1) : SubSeq(s, a, b)[i] = s[a + i - 1]
<1>1. Len(s) \in Nat
  OBVIOUS
<1> QED  BY <1>1

(* The store without the record at a place. *)
LEMMA RemoveAtShape ==
    ASSUME NEW s \in Seq(Record), NEW n \in DOMAIN s
    PROVE  /\ RemoveAt(s, n) \in Seq(Record)
           /\ Len(RemoveAt(s, n)) = Len(s) - 1
           /\ DOMAIN RemoveAt(s, n) = 1 .. (Len(s) - 1)
           /\ \A i \in 1 .. (Len(s) - 1) :
                RemoveAt(s, n)[i] = IF i < n THEN s[i] ELSE s[i + 1]
<1>1. n \in 1 .. Len(s) /\ Len(s) \in Nat
  OBVIOUS
<1> DEFINE u == SubSeq(s, 1, n - 1)
           v == SubSeq(s, n + 1, Len(s))
<1>2. /\ u \in Seq(Record) /\ Len(u) = n - 1
      /\ \A i \in 1 .. (n - 1) : u[i] = s[i]
  <2>1. /\ 1 \in 1 .. (Len(s) + 1) /\ n - 1 \in (1 - 1) .. Len(s)
        /\ (n - 1) - 1 + 1 = n - 1 /\ \A i \in 1 .. (n - 1) : 1 + i - 1 = i
    BY <1>1
  <2> QED  BY <2>1, Part
<1>3. /\ v \in Seq(Record) /\ Len(v) = Len(s) - n
      /\ \A i \in 1 .. (Len(s) - n) : v[i] = s[n + i]
  <2>1. /\ n + 1 \in 1 .. (Len(s) + 1) /\ Len(s) \in ((n + 1) - 1) .. Len(s)
        /\ Len(s) - (n + 1) + 1 = Len(s) - n
        /\ \A i \in 1 .. (Len(s) - n) : (n + 1) + i - 1 = n + i
    BY <1>1
  <2> QED  BY <2>1, Part
<1>4. RemoveAt(s, n) = u \o v
  BY DEF RemoveAt
<1> HIDE DEF u, v
<1>5. u \o v \in Seq(Record) /\ Len(u \o v) = Len(s) - 1
  BY <1>1, <1>2, <1>3, Concat
<1>6. ASSUME NEW i \in 1 .. (Len(s) - 1)
      PROVE  (u \o v)[i] = IF i < n THEN s[i] ELSE s[i + 1]
  <2>1. CASE i < n
    <3>1. i \in 1 .. (n - 1)
      BY <1>1, <2>1
    <3> QED  BY <1>2, <1>3, <2>1, <3>1, Concat
  <2>2. CASE ~ (i < n)
    <3>1. /\ i \in (Len(u) + 1) .. (Len(u) + Len(v))
          /\ i - Len(u) \in 1 .. (Len(s) - n) /\ n + (i - Len(u)) = i + 1
      BY <1>1, <1>2, <1>3, <2>2
    <3>2. (u \o v)[i] = v[i - Len(u)]
      BY <1>2, <1>3, <3>1, Concat
    <3>3. v[i - Len(u)] = s[i + 1]
      BY <1>3, <3>1
    <3> QED  BY <2>2, <3>2, <3>3
  <2> QED  BY <2>1, <2>2
<1>7. DOMAIN (u \o v) = 1 .. (Len(s) - 1)
  BY <1>5
<1> QED  BY <1>4, <1>5, <1>6, <1>7

(* p is s with a new record, after all of its identity's. *)
Placed(p, s, row) ==
    /\ p \in Seq(Record)
    /\ Len(p) = Len(s) + 1
    /\ DOMAIN p = 1 .. (Len(s) + 1)
    /\ \E m \in 1 .. (Len(s) + 1) :
         /\ \A i \in m .. Len(s) : s[i].stable_pubkey # row.stable_pubkey
         /\ \A i \in 1 .. (Len(s) + 1) :
              p[i] = IF i < m THEN s[i] ELSE IF i = m THEN row ELSE s[i - 1]

(* That is what publish_key_package makes of the store. *)
LEMMA PublishedShape ==
    ASSUME NEW b, NEW s \in Seq(Record), NEW row \in Record
    PROVE  Placed(Published(b, s, row), s, row)
<1> DEFINE own == LastOwn(s, row.stable_pubkey)
<1>1. DOMAIN s = 1 .. Len(s) /\ Len(s) \in Nat
  OBVIOUS
<1>2. CASE b = "memory" /\ own # 0
  <2>1. own \in 1 .. Len(s) /\ \A i \in DOMAIN s : s[i].stable_pubkey = row.stable_pubkey => i <= own
    BY <1>1, <1>2, LastOwnPlace
  <2>2. Published(b, s, row) = InsertAt(s, own + 1, row)
    BY <1>2 DEF Published
  <2> HIDE DEF own
  <2> DEFINE u == SubSeq(s, 1, own)
             v == SubSeq(s, own + 1, Len(s))
             w == u \o <<row>>
  <2>3. /\ u \in Seq(Record) /\ Len(u) = own
        /\ \A i \in 1 .. own : u[i] = s[i]
    <3>1. /\ 1 \in 1 .. (Len(s) + 1) /\ own \in (1 - 1) .. Len(s)
          /\ own - 1 + 1 = own /\ \A i \in 1 .. own : 1 + i - 1 = i
      BY <1>1, <2>1
    <3> QED  BY <3>1, Part
  <2>4. /\ v \in Seq(Record) /\ Len(v) = Len(s) - own
        /\ \A i \in 1 .. (Len(s) - own) : v[i] = s[own + i]
    <3>1. /\ own + 1 \in 1 .. (Len(s) + 1) /\ Len(s) \in ((own + 1) - 1) .. Len(s)
          /\ Len(s) - (own + 1) + 1 = Len(s) - own
          /\ \A i \in 1 .. (Len(s) - own) : (own + 1) + i - 1 = own + i
      BY <1>1, <2>1
    <3> QED  BY <3>1, Part
  <2>5. InsertAt(s, own + 1, row) = w \o v
    <3>1. (own + 1) - 1 = own
      BY <2>1
    <3> QED  BY <3>1 DEF InsertAt
  <2> HIDE DEF u, v
  <2>8. /\ w \in Seq(Record) /\ Len(w) = own + 1
        /\ \A i \in 1 .. own : w[i] = s[i]
        /\ w[own + 1] = row
    <3>1. <<row>> \in Seq(Record) /\ Len(<<row>>) = 1 /\ <<row>>[1] = row
      OBVIOUS
    <3>2. /\ own + 1 \in (Len(u) + 1) .. (Len(u) + 1) /\ (own + 1) - Len(u) = 1
          /\ own \in Nat
      BY <2>1, <2>3
    <3>3. /\ w \in Seq(Record) /\ Len(w) = Len(u) + Len(<<row>>)
          /\ \A i \in 1 .. Len(u) : w[i] = u[i]
          /\ \A i \in (Len(u) + 1) .. (Len(u) + Len(<<row>>)) : w[i] = <<row>>[i - Len(u)]
      BY <2>3, <3>1, Concat
    <3>4. w[own + 1] = row
      BY <3>1, <3>2, <3>3
    <3> QED  BY <2>3, <3>1, <3>3, <3>4
  <2> HIDE DEF w
  <2>9. /\ w \o v \in Seq(Record) /\ Len(w \o v) = Len(s) + 1
    <3>1. w \o v \in Seq(Record) /\ Len(w \o v) = Len(w) + Len(v)
      BY <2>4, <2>8, Concat
    <3>2. (own + 1) + (Len(s) - own) = Len(s) + 1
      BY <1>1, <2>1
    <3> QED  BY <2>4, <2>8, <3>1, <3>2
  <2>10. ASSUME NEW i \in 1 .. (Len(s) + 1)
         PROVE  (w \o v)[i] = IF i < own + 1 THEN s[i]
                              ELSE IF i = own + 1 THEN row ELSE s[i - 1]
    <3>1. CASE i <= own + 1
      <4>1. i \in 1 .. Len(w) /\ (i < own + 1 => i \in 1 .. own) /\ (~ (i < own + 1) => i = own + 1)
        BY <1>1, <2>1, <2>8, <3>1
      <4>2. (w \o v)[i] = w[i]
        BY <2>4, <2>8, <4>1, Concat
      <4> QED  BY <2>8, <4>1, <4>2
    <3>2. CASE ~ (i <= own + 1)
      <4>1. /\ i \in (Len(w) + 1) .. (Len(w) + Len(v))
            /\ i - Len(w) \in 1 .. (Len(s) - own) /\ own + (i - Len(w)) = i - 1
            /\ ~ (i < own + 1) /\ i # own + 1
        BY <1>1, <2>1, <2>4, <2>8, <3>2
      <4>2. (w \o v)[i] = v[i - Len(w)]
        BY <2>4, <2>8, <4>1, Concat
      <4>3. v[i - Len(w)] = s[i - 1]
        BY <2>4, <4>1
      <4> QED  BY <4>1, <4>2, <4>3
    <3> QED  BY <3>1, <3>2
  <2>6. /\ InsertAt(s, own + 1, row) \in Seq(Record)
        /\ Len(InsertAt(s, own + 1, row)) = Len(s) + 1
        /\ DOMAIN InsertAt(s, own + 1, row) = 1 .. (Len(s) + 1)
        /\ \A i \in 1 .. (Len(s) + 1) :
             InsertAt(s, own + 1, row)[i] =
               IF i < own + 1 THEN s[i] ELSE IF i = own + 1 THEN row ELSE s[i - 1]
    <3>1. DOMAIN (w \o v) = 1 .. (Len(s) + 1)
      BY <2>9
    <3>2. \A i \in 1 .. (Len(s) + 1) :
            (w \o v)[i] = IF i < own + 1 THEN s[i]
                          ELSE IF i = own + 1 THEN row ELSE s[i - 1]
      BY <2>10
    <3> DEFINE p == w \o v
    <3>3. InsertAt(s, own + 1, row) = p
      BY <2>5
    <3> HIDE DEF p
    <3>4. /\ p \in Seq(Record) /\ Len(p) = Len(s) + 1 /\ DOMAIN p = 1 .. (Len(s) + 1)
          /\ \A i \in 1 .. (Len(s) + 1) :
               p[i] = IF i < own + 1 THEN s[i] ELSE IF i = own + 1 THEN row ELSE s[i - 1]
      BY <2>9, <3>1, <3>2 DEF p
    <3> QED  BY <3>3, <3>4
  <2>7. own + 1 \in 1 .. (Len(s) + 1) /\ \A i \in (own + 1) .. Len(s) : s[i].stable_pubkey # row.stable_pubkey
    BY <1>1, <2>1
  <2> HIDE DEF own
  <2>11. \E m \in 1 .. (Len(s) + 1) :
           /\ \A i \in m .. Len(s) : s[i].stable_pubkey # row.stable_pubkey
           /\ \A i \in 1 .. (Len(s) + 1) :
                InsertAt(s, own + 1, row)[i] =
                  IF i < m THEN s[i] ELSE IF i = m THEN row ELSE s[i - 1]
    BY <2>6, <2>7, Zenon
  <2> QED  BY <2>2, <2>6, <2>11 DEF Placed
<1>3. CASE ~ (b = "memory" /\ own # 0)
  <2>1. Published(b, s, row) = Append(s, row)
    BY <1>3 DEF Published
  <2>2. Len(s) + 1 \in 1 .. (Len(s) + 1) /\ (Len(s) + 1) .. Len(s) = {}
    BY <1>1
  <2>3. \A i \in 1 .. (Len(s) + 1) :
          Append(s, row)[i] = IF i < Len(s) + 1 THEN s[i]
                              ELSE IF i = Len(s) + 1 THEN row ELSE s[i - 1]
    BY <1>1
  <2>4. Append(s, row) \in Seq(Record) /\ Len(Append(s, row)) = Len(s) + 1
    BY <1>1
  <2> QED  BY <1>1, <2>1, <2>2, <2>3, <2>4 DEF Placed
<1> QED  BY <1>2, <1>3

(* What a stored record is made of. *)
LEMMA RecordFields ==
    ASSUME NEW s \in Seq(Record), NEW i \in DOMAIN s
    PROVE  /\ s[i] \in Record
           /\ s[i].stable_pubkey \in Identities /\ s[i].key_package_ref \in Refs
           /\ s[i].is_last_resort \in BOOLEAN /\ s[i].serial \in Nat
<1>1. s[i] \in Record
  OBVIOUS
<1> QED  BY <1>1 DEF Record

(* It holds a package, which has its owner, reference and kind. *)
LEMMA PackageType ==
    ASSUME NEW s \in Seq(Record), NEW i \in DOMAIN s
    PROVE  Package(s[i]) \in Submitted
BY RecordFields DEF Package, Submitted

(* Taking a record out leaves the others as they were. *)
LEMMA DropKeeps ==
    ASSUME NEW s \in Seq(Record), NEW top \in Nat, NEW n \in DOMAIN s, Numbered(s, top)
    PROVE  /\ Numbered(RemoveAt(s, n), top)
           /\ ToSet(RemoveAt(s, n)) = ToSet(s) \ {s[n]}
           /\ DistinctRefs(s) => DistinctRefs(RemoveAt(s, n))
<1> DEFINE r == RemoveAt(s, n)
           At(i) == IF i < n THEN i ELSE i + 1
<1>1. DOMAIN s = 1 .. Len(s) /\ Len(s) \in Nat /\ n \in 1 .. Len(s)
  OBVIOUS
<1>2. /\ r \in Seq(Record) /\ DOMAIN r = 1 .. (Len(s) - 1)
      /\ \A i \in DOMAIN r : r[i] = s[At(i)]
  BY RemoveAtShape
<1>3. \A i \in DOMAIN r : At(i) \in DOMAIN s /\ At(i) # n
  BY <1>1, <1>2
<1>4. \A i, j \in DOMAIN r : (At(i) = At(j) => i = j) /\ (i < j => At(i) < At(j))
  BY <1>1, <1>2
<1>5. \A i \in DOMAIN s : i # n => \E j \in DOMAIN r : At(j) = i
  <2> TAKE i \in DOMAIN s
  <2> HAVE i # n
  <2>1. CASE i < n
    <3>1. i \in DOMAIN r /\ At(i) = i
      BY <1>1, <1>2, <2>1
    <3> QED  BY <3>1
  <2>2. CASE ~ (i < n)
    <3>1. i - 1 \in DOMAIN r /\ At(i - 1) = i
      BY <1>1, <1>2, <2>2
    <3> QED  BY <3>1
  <2> QED  BY <2>1, <2>2
<1> HIDE DEF r, At
<1>6. Numbered(r, top)
  BY <1>2, <1>3, <1>4 DEF Numbered
<1>7. ToSet(r) = ToSet(s) \ {s[n]}
  <2>1. ASSUME NEW x \in ToSet(r)
        PROVE  x \in ToSet(s) /\ x # s[n]
    <3>1. PICK i \in DOMAIN r : x = r[i]
      BY DEF ToSet
    <3>2. x = s[At(i)] /\ At(i) \in DOMAIN s /\ At(i) # n
      BY <1>2, <1>3, <3>1
    <3>3. s[At(i)].serial # s[n].serial
      BY <3>2 DEF Numbered
    <3> QED  BY <3>2, <3>3 DEF ToSet
  <2>2. ASSUME NEW x \in ToSet(s), x # s[n]
        PROVE  x \in ToSet(r)
    <3>1. PICK i \in DOMAIN s : x = s[i]
      BY DEF ToSet
    <3>2. PICK j \in DOMAIN r : At(j) = i
      BY <1>5, <2>2, <3>1
    <3>3. r[j] = x
      BY <1>2, <3>1, <3>2
    <3> QED  BY <3>3 DEF ToSet
  <2> QED  BY <2>1, <2>2
<1>8. DistinctRefs(s) => DistinctRefs(r)
  BY <1>2, <1>3, <1>4 DEF DistinctRefs
<1> QED  BY <1>6, <1>7, <1>8 DEF r

(* A new record is added to the others, and is the newest of its identity. *)
LEMMA AddKeeps ==
    ASSUME NEW s \in Seq(Record), NEW top \in Nat, Numbered(s, top),
           NEW row \in Record, row.serial = top + 1, NEW p, Placed(p, s, row)
    PROVE  /\ Numbered(p, top + 1)
           /\ ToSet(p) = ToSet(s) \cup {row}
           /\ DistinctRefs(s) /\ (\A i \in DOMAIN s : s[i].key_package_ref # row.key_package_ref)
                => DistinctRefs(p)
<1>1. DOMAIN s = 1 .. Len(s) /\ Len(s) \in Nat
  OBVIOUS
<1>2. DOMAIN p = 1 .. (Len(s) + 1)
  BY DEF Placed
<1>3. PICK m \in 1 .. (Len(s) + 1) :
        /\ \A i \in m .. Len(s) : s[i].stable_pubkey # row.stable_pubkey
        /\ \A i \in 1 .. (Len(s) + 1) :
             p[i] = IF i < m THEN s[i] ELSE IF i = m THEN row ELSE s[i - 1]
  BY DEF Placed
<1> DEFINE At(i) == IF i < m THEN i ELSE i - 1
<1>4. p[m] = row /\ m \in DOMAIN p
  BY <1>2, <1>3
<1>5. \A i \in DOMAIN p : i # m => At(i) \in DOMAIN s /\ p[i] = s[At(i)]
  BY <1>1, <1>2, <1>3
<1>6. \A i, j \in DOMAIN p : i # m /\ j # m =>
        (At(i) = At(j) => i = j) /\ (i < j => At(i) < At(j))
  BY <1>1, <1>2, <1>3
<1>7. \A j \in DOMAIN p : m < j => At(j) \in m .. Len(s)
  BY <1>1, <1>2, <1>3
<1>8. \A i \in DOMAIN s : \E j \in DOMAIN p : j # m /\ At(j) = i
  <2> TAKE i \in DOMAIN s
  <2>1. CASE i < m
    <3>1. i \in DOMAIN p /\ i # m /\ At(i) = i
      BY <1>1, <1>2, <1>3, <2>1
    <3> QED  BY <3>1
  <2>2. CASE ~ (i < m)
    <3>1. i + 1 \in DOMAIN p /\ i + 1 # m /\ At(i + 1) = i
      BY <1>1, <1>2, <1>3, <2>2
    <3> QED  BY <3>1
  <2> QED  BY <2>1, <2>2
<1>9. \A i \in DOMAIN s : s[i].serial \in Nat /\ s[i].serial <= top
  BY RecordFields DEF Numbered
<1>10. \A i \in DOMAIN p : m < i => p[i].stable_pubkey # row.stable_pubkey
  <2> TAKE i \in DOMAIN p
  <2> HAVE m < i
  <2>1. i # m /\ At(i) \in m .. Len(s)
    BY <1>2, <1>3, <1>7
  <2> QED  BY <1>3, <1>5, <2>1
<1> DEFINE old == {i \in DOMAIN p : i # m}
<1>11. /\ m \notin old /\ DOMAIN p = old \cup {m}
       /\ \A i \in old : i \in Int /\ At(i) \in DOMAIN s /\ p[i] = s[At(i)]
       /\ \A i, j \in old : (At(i) = At(j) => i = j) /\ (i < j => At(i) < At(j))
  BY <1>2, <1>4, <1>5, <1>6
<1> HIDE DEF At, old
<1>12. \A i \in old : p[i].serial <= top /\ p[i].serial \in Nat
  BY <1>9, <1>11
<1>13. Numbered(p, top + 1)
  <2>1. \A i \in DOMAIN p : p[i].serial <= top + 1
    BY <1>4, <1>11, <1>12
  <2>2. \A i, j \in DOMAIN p : p[i].serial = p[j].serial => i = j
    <3>1. \A i, j \in old : p[i].serial = p[j].serial => i = j
      BY <1>11 DEF Numbered
    <3>2. \A i \in old : p[i].serial # p[m].serial
      BY <1>4, <1>12
    <3> QED  BY <1>11, <3>1, <3>2
  <2>3. ASSUME NEW i \in DOMAIN p, NEW j \in DOMAIN p, i < j,
               p[i].stable_pubkey = p[j].stable_pubkey
        PROVE  p[i].serial < p[j].serial
    <3>1. CASE i \in old /\ j \in old
      BY <1>11, <2>3, <3>1 DEF Numbered
    <3>2. CASE j = m
      <4>1. i \in old
        BY <1>3, <1>11, <2>3, <3>2
      <4> QED  BY <1>4, <1>12, <3>2, <4>1
    <3>3. CASE i = m
      BY <1>4, <1>10, <2>3, <3>3
    <3> QED  BY <1>11, <3>1, <3>2, <3>3
  <2> QED  BY <2>1, <2>2, <2>3 DEF Numbered
<1>14. ToSet(p) = ToSet(s) \cup {row}
  <2>1. ASSUME NEW x \in ToSet(p)
        PROVE  x \in ToSet(s) \cup {row}
    <3>1. PICK i \in DOMAIN p : x = p[i]
      BY DEF ToSet
    <3> QED  BY <1>4, <1>11, <3>1 DEF ToSet
  <2>2. row \in ToSet(p)
    BY <1>4 DEF ToSet
  <2>3. ASSUME NEW x \in ToSet(s)
        PROVE  x \in ToSet(p)
    <3>1. PICK i \in DOMAIN s : x = s[i]
      BY DEF ToSet
    <3>2. PICK j \in DOMAIN p : j # m /\ At(j) = i
      BY <1>8
    <3>3. p[j] = x
      BY <1>5, <3>1, <3>2
    <3> QED  BY <3>3 DEF ToSet
  <2> QED  BY <2>1, <2>2, <2>3
<1>15. ASSUME DistinctRefs(s), \A i \in DOMAIN s : s[i].key_package_ref # row.key_package_ref
       PROVE  DistinctRefs(p)
  BY <1>4, <1>11, <1>15 DEF DistinctRefs
<1> QED  BY <1>13, <1>14, <1>15

-----------------------------------------------------------------------------
(* The job of a thread that publishes. *)
PublishJob ==
    [op : {"publish"}, record : Submitted, evict : SUBSET Record, exceeded : BOOLEAN]

(* A removal request. *)
RemoveJob == [op : {"remove"}, stable_pubkey : Identities, ref : Refs]

(* What a thread is at. *)
LEMMA JobKinds ==
    ASSUME TypeOK, NEW t \in Threads
    PROVE  /\ job[t] = Idle \/ job[t] \in PublishJob \/ job[t] \in RemoveJob
           /\ job[t].op = "publish" => job[t] \in PublishJob
           /\ job[t].op = "remove" => job[t] \in RemoveJob
           /\ job[t].op \in {"publish", "remove"} => job[t] # Idle
<1>1. job[t] \in {Idle} \cup PublishJob \cup RemoveJob
  BY DEF TypeOK, PublishJob, RemoveJob
<1>2. Idle.op = "idle"
  BY DEF Idle
<1>3. \A j \in PublishJob : j.op = "publish"
  BY DEF PublishJob
<1>4. \A j \in RemoveJob : j.op = "remove"
  BY DEF RemoveJob
<1> QED  BY <1>1, <1>2, <1>3, <1>4

(* A publishing job in its parts. *)
LEMMA PublishParts ==
    ASSUME NEW j \in PublishJob
    PROVE  /\ j.record \in Submitted /\ j.evict \in SUBSET Record /\ j.exceeded \in BOOLEAN
           /\ j.record.stable_pubkey \in Identities /\ j.record.key_package_ref \in Refs
           /\ j.record.is_last_resort \in BOOLEAN
           /\ j = [op |-> "publish", record |-> j.record, evict |-> j.evict,
                   exceeded |-> j.exceeded]
BY DEF PublishJob, Submitted

(* A removal takes the located record out, or does nothing. *)
LEMMA RemovedShape ==
    ASSUME NEW s \in Seq(Record), NEW ref
    PROVE  LET n == LocateByRef(s, ref) IN
           \/ n = 0 /\ Removed(s, ref) = s
           \/ n \in DOMAIN s /\ Removed(s, ref) = RemoveAt(s, n)
BY Located DEF Removed, Deleted

(* A consume takes the record it returns out if it is a regular one. *)
LEMMA ConsumedShape ==
    ASSUME NEW b, NEW s \in Seq(Record), NEW identifier
    PROVE  LET n == ConsumePick(b, s, identifier) IN
           n # 0 => /\ n \in DOMAIN s
                    /\ Consumed(b, s, identifier) =
                         IF s[n].is_last_resort THEN s ELSE RemoveAt(s, n)
BY PickPlace DEF Consumed, Deleted

(* The row that PublishInsert stores. *)
Row(t) ==
    [stable_pubkey |-> job[t].record.stable_pubkey,
     key_package_ref |-> job[t].record.key_package_ref,
     is_last_resort |-> job[t].record.is_last_resort, serial |-> stored + 1]

(* It is a record with the request's data and the next number. *)
LEMMA RowType ==
    ASSUME TypeOK, NEW t \in Threads, job[t].op = "publish"
    PROVE  /\ Row(t) \in Record /\ Row(t).serial = stored + 1
           /\ Row(t).stable_pubkey = job[t].record.stable_pubkey
           /\ Row(t).key_package_ref = job[t].record.key_package_ref
           /\ Row(t).is_last_resort = job[t].record.is_last_resort
<1>1. job[t] \in PublishJob
  BY JobKinds
<1>2. stored + 1 \in Nat
  BY DEF TypeOK
<1> QED  BY <1>1, <1>2, PublishParts DEF Row, Record

(***************************************************************************)
(* What a step does to the store and to the job of a thread.               *)
(***************************************************************************)
(* The record at a place goes. *)
Drops(n) ==
    /\ n \in DOMAIN kps
    /\ kps' = RemoveAt(kps, n)
    /\ stored' = stored

(* The store stays. *)
SameStore == kps' = kps /\ stored' = stored

(* One round of the eviction loop. *)
LEMMA EvictEffect ==
    ASSUME TypeOK, NEW t \in Threads, EvictNext(t)
    PROVE  /\ job[t] \in PublishJob
           /\ \E r \in job[t].evict :
                /\ \A q \in job[t].evict : r.serial <= q.serial
                /\ job' = [job EXCEPT ![t] = [job[t] EXCEPT !.evict = @ \ {r}]]
                /\ LET n == LocateByRef(kps, r.key_package_ref) IN
                   (n = 0 /\ SameStore) \/ Drops(n)
           /\ UNCHANGED <<backend, requests, stored, spent, doubled>>
<1>1. job[t] \in PublishJob
  BY JobKinds DEF EvictNext
<1>2. PICK r \in job[t].evict :
        /\ \A q \in job[t].evict : r.serial <= q.serial
        /\ kps' = Removed(kps, r.key_package_ref)
        /\ job' = [job EXCEPT ![t].evict = @ \ {r}]
  BY DEF EvictNext
<1>3. stored' = stored
  BY DEF EvictNext
<1>4. kps \in Seq(Record)
  BY DEF TypeOK
<1>5. LET n == LocateByRef(kps, r.key_package_ref) IN
      (n = 0 /\ SameStore) \/ Drops(n)
  BY <1>2, <1>3, <1>4, RemovedShape DEF SameStore, Drops
<1> QED  BY <1>1, <1>2, <1>5 DEF EvictNext

(* A removal by the owner. *)
LEMMA RemoveEffect ==
    ASSUME TypeOK, NEW t \in Threads, RemoveDo(t)
    PROVE  LET n == LocateByRef(kps, job[t].ref) IN
           /\ job[t] \in RemoveJob
           /\ (n = 0 /\ SameStore) \/ Drops(n)
           /\ job' = [job EXCEPT ![t] = Idle]
           /\ UNCHANGED <<backend, requests, stored, spent, doubled>>
<1>1. job[t] \in RemoveJob
  BY JobKinds DEF RemoveDo
<1>2. kps \in Seq(Record)
  BY DEF TypeOK
<1>3. kps' = Removed(kps, job[t].ref) /\ stored' = stored
  BY DEF RemoveDo
<1>4. LET n == LocateByRef(kps, job[t].ref) IN (n = 0 /\ SameStore) \/ Drops(n)
  BY <1>2, <1>3, RemovedShape DEF SameStore, Drops
<1> QED  BY <1>1, <1>4 DEF RemoveDo

(* A consume takes a regular record out, and leaves a last-resort one. *)
LEMMA ConsumeEffect ==
    ASSUME TypeOK, NEW identifier, ConsumeKeyPackage(identifier)
    PROVE  \E n \in DOMAIN kps :
             /\ IF kps[n].is_last_resort
                THEN SameStore /\ spent' = spent
                ELSE Drops(n) /\ spent' = spent \cup {Package(kps[n])}
             /\ UNCHANGED <<backend, job, requests, stored, doubled>>
<1> DEFINE n == ConsumePick(backend, kps, identifier)
<1>1. kps \in Seq(Record)
  BY DEF TypeOK
<1>2. n # 0 /\ kps' = Consumed(backend, kps, identifier) /\ stored' = stored
  BY DEF ConsumeKeyPackage
<1>3. n \in DOMAIN kps /\ kps' = IF kps[n].is_last_resort THEN kps ELSE RemoveAt(kps, n)
  BY <1>1, <1>2, ConsumedShape
<1>4. /\ spent' = IF kps[n].is_last_resort THEN spent ELSE spent \cup {Package(kps[n])}
      /\ UNCHANGED <<backend, job, requests, stored, doubled>>
  BY DEF ConsumeKeyPackage
<1> QED  BY <1>2, <1>3, <1>4 DEF SameStore, Drops

(* The insert at the end of a publish. *)
LEMMA InsertEffect ==
    ASSUME TypeOK, NEW t \in Threads, PublishInsert(t)
    PROVE  /\ job[t] \in PublishJob /\ job[t].evict = {} /\ ~ job[t].exceeded
           /\ ~ Refuses(backend, kps, job[t].record)
           /\ kps' = Published(backend, kps, Row(t)) /\ stored' = stored + 1
           /\ spent' = spent \ {job[t].record}
           /\ doubled' = IF \E r \in ToSet(kps) : Package(r) = job[t].record
                         THEN doubled \cup {job[t].record} ELSE doubled \ {job[t].record}
           /\ job' = [job EXCEPT ![t] = Idle]
           /\ UNCHANGED <<backend, requests>>
BY JobKinds DEF PublishInsert, Row

(* Whatever a job becomes, the types of the other jobs stay. *)
LEMMA JobType ==
    ASSUME TypeOK, NEW t \in Threads, NEW j,
           j = Idle \/ j \in PublishJob \/ j \in RemoveJob,
           job' = [job EXCEPT ![t] = j]
    PROVE  job' \in [Threads -> {Idle}
                  \cup [op : {"publish"}, record : Submitted,
                        evict : SUBSET Record, exceeded : BOOLEAN]
                  \cup [op : {"remove"}, stable_pubkey : Identities, ref : Refs]]
<1> DEFINE J == {Idle} \cup PublishJob \cup RemoveJob
<1>1. job \in [Threads -> J]
  BY DEF TypeOK, PublishJob, RemoveJob
<1>2. j \in J
  OBVIOUS
<1> HIDE DEF J
<1>3. job' \in [Threads -> J]
  BY <1>1, <1>2
<1> QED  BY <1>3 DEF J, PublishJob, RemoveJob

(* What a listing makes the thread do. *)
ListJob(pk, ref, lr) ==
    [op |-> "publish",
     record |-> [stable_pubkey |-> pk, key_package_ref |-> ref, is_last_resort |-> lr],
     evict |-> Displaced(Own(kps, pk), lr),
     exceeded |-> QuotaExceeded(Own(kps, pk), lr)]

(* The listing at its start. *)
LEMMA ListEffect ==
    ASSUME TypeOK, NEW t, NEW pk, NEW ref, NEW lr, PublishList(t, pk, ref, lr)
    PROVE  /\ ListJob(pk, ref, lr) \in PublishJob
           /\ job[t] = Idle
           /\ <<t, pk, ref, lr>> \in MayPublish
           /\ job' = [job EXCEPT ![t] = ListJob(pk, ref, lr)]
           /\ UNCHANGED <<backend, kps, stored, spent, doubled>>
           /\ requests' \in 0 .. MaxPublishes
<1>0. t \in Threads /\ pk \in Identities /\ ref \in Refs /\ lr \in BOOLEAN
  BY KeyPackagesAssumption DEF PublishList
<1>1. Own(kps, pk) \subseteq Record
  BY RecordFields DEF TypeOK, Own, ToSet
<1>2. Displaced(Own(kps, pk), lr) \subseteq Record
  BY <1>1 DEF Displaced, LastResort, Oldest
<1>3. QuotaExceeded(Own(kps, pk), lr) \in BOOLEAN
  BY DEF QuotaExceeded
<1>4. [stable_pubkey |-> pk, key_package_ref |-> ref, is_last_resort |-> lr] \in Submitted
  BY <1>0 DEF Submitted
<1>5. requests' \in 0 .. MaxPublishes
  BY KeyPackagesAssumption DEF PublishList, TypeOK
<1>6. /\ job[t] = Idle
      /\ <<t, pk, ref, lr>> \in MayPublish
      /\ job' = [job EXCEPT ![t] = ListJob(pk, ref, lr)]
      /\ UNCHANGED <<backend, kps, stored, spent, doubled>>
  BY DEF PublishList, ListJob
<1>7. ListJob(pk, ref, lr) \in PublishJob
  BY <1>2, <1>3, <1>4 DEF PublishJob, ListJob
<1> QED  BY <1>5, <1>6, <1>7

(* The store keeps its type. *)
LEMMA DropType ==
    ASSUME TypeOK, NEW n, Drops(n)
    PROVE  kps' \in Seq(Record) /\ stored' \in Nat
BY RemoveAtShape DEF TypeOK, Drops

(* Every step keeps the types. *)
LEMMA TypeStep ==
    ASSUME TypeOK, Next
    PROVE  TypeOK'
<1>1. ASSUME NEW t \in Threads, NEW pk, NEW ref, NEW lr, PublishList(t, pk, ref, lr)
      PROVE  TypeOK'
  <2>1. /\ ListJob(pk, ref, lr) \in PublishJob
        /\ job' = [job EXCEPT ![t] = ListJob(pk, ref, lr)]
        /\ UNCHANGED <<backend, kps, stored, spent, doubled>> /\ requests' \in 0 .. MaxPublishes
    BY <1>1, ListEffect
  <2> QED  BY <2>1, JobType DEF TypeOK
<1>2. ASSUME NEW t \in Threads, EvictNext(t)
      PROVE  TypeOK'
  <2>1. job[t] \in PublishJob /\ UNCHANGED <<backend, requests, stored, spent, doubled>>
    BY <1>2, EvictEffect
  <2>2. PICK r \in job[t].evict :
          /\ job' = [job EXCEPT ![t] = [job[t] EXCEPT !.evict = @ \ {r}]]
          /\ LET n == LocateByRef(kps, r.key_package_ref) IN (n = 0 /\ SameStore) \/ Drops(n)
    BY <1>2, EvictEffect
  <2>3. [job[t] EXCEPT !.evict = @ \ {r}] \in PublishJob
    BY <2>1 DEF PublishJob
  <2>4. kps' \in Seq(Record)
    BY <2>2, DropType DEF TypeOK, SameStore
  <2> QED  BY <2>1, <2>2, <2>3, <2>4, JobType DEF TypeOK
<1>3. ASSUME NEW t \in Threads, PublishFails(t) \/ StorageFails(t)
      PROVE  TypeOK'
  <2>1. /\ job' = [job EXCEPT ![t] = Idle]
        /\ UNCHANGED <<backend, kps, requests, stored, spent, doubled>>
    BY <1>3 DEF PublishFails, StorageFails
  <2> QED  BY <2>1, JobType DEF TypeOK
<1>4. ASSUME NEW t \in Threads, PublishInsert(t)
      PROVE  TypeOK'
  <2>1. /\ job[t] \in PublishJob /\ kps' = Published(backend, kps, Row(t))
        /\ stored' = stored + 1 /\ job' = [job EXCEPT ![t] = Idle]
        /\ spent' \subseteq spent /\ doubled' \subseteq doubled \cup {job[t].record}
        /\ UNCHANGED <<backend, requests>>
    BY <1>4, InsertEffect
  <2>2. Row(t) \in Record
    BY <1>4, RowType DEF PublishInsert
  <2>3. kps' \in Seq(Record)
    BY <2>1, <2>2, PublishedShape DEF TypeOK, Placed
  <2>4. job[t].record \in Submitted
    BY <2>1, PublishParts
  <2> QED  BY <2>1, <2>3, <2>4, JobType DEF TypeOK
<1>5. ASSUME NEW t \in Threads, NEW pk \in Identities, NEW ref \in Refs, RemoveGet(t, pk, ref)
      PROVE  TypeOK'
  <2>1. /\ job' = [job EXCEPT ![t] = [op |-> "remove", stable_pubkey |-> pk, ref |-> ref]]
        /\ UNCHANGED <<backend, kps, requests, stored, spent, doubled>>
    BY <1>5 DEF RemoveGet
  <2>2. [op |-> "remove", stable_pubkey |-> pk, ref |-> ref] \in RemoveJob
    BY DEF RemoveJob
  <2> QED  BY <2>1, <2>2, JobType DEF TypeOK
<1>6. ASSUME NEW t \in Threads, RemoveDo(t)
      PROVE  TypeOK'
  <2>1. /\ job' = [job EXCEPT ![t] = Idle]
        /\ UNCHANGED <<backend, requests, stored, spent, doubled>>
        /\ LET n == LocateByRef(kps, job[t].ref) IN (n = 0 /\ SameStore) \/ Drops(n)
    BY <1>6, RemoveEffect
  <2>2. kps' \in Seq(Record)
    BY <2>1, DropType DEF TypeOK, SameStore
  <2> QED  BY <2>1, <2>2, JobType DEF TypeOK
<1>7. ASSUME NEW identifier, ConsumeKeyPackage(identifier)
      PROVE  TypeOK'
  <2>1. PICK n \in DOMAIN kps :
          /\ IF kps[n].is_last_resort
             THEN SameStore /\ spent' = spent
             ELSE Drops(n) /\ spent' = spent \cup {Package(kps[n])}
          /\ UNCHANGED <<backend, job, requests, stored, doubled>>
    BY <1>7, ConsumeEffect
  <2>2. kps' \in Seq(Record)
    BY <2>1, DropType DEF TypeOK, SameStore
  <2>3. Package(kps[n]) \in Submitted
    BY PackageType DEF TypeOK
  <2> QED  BY <2>1, <2>2, <2>3 DEF TypeOK
<1> QED  BY <1>1, <1>2, <1>3, <1>4, <1>5, <1>6, <1>7 DEF Next

(***************************************************************************)
(* Numbers, references and hand-outs, for any requests.                    *)
(***************************************************************************)
(* The packages of a store without one of its records. *)
LEMMA DropSet ==
    ASSUME HandInv, NEW n, Drops(n)
    PROVE  /\ ToSet(kps') = ToSet(kps) \ {kps[n]} /\ kps[n] \in ToSet(kps)
           /\ StoreInv'
           /\ backend' = backend => UniqueRefs'
<1>1. kps \in Seq(Record) /\ stored \in Nat /\ n \in DOMAIN kps /\ kps' = RemoveAt(kps, n)
  BY DEF HandInv, TypeOK, Drops
<1>2. /\ Numbered(kps', stored') /\ ToSet(kps') = ToSet(kps) \ {kps[n]}
      /\ DistinctRefs(kps) => DistinctRefs(kps')
  BY <1>1, DropKeeps DEF HandInv, StoreInv, Drops
<1> QED  BY <1>1, <1>2 DEF HandInv, StoreInv, UniqueRefs, ToSet

(* A record that goes without being handed out disturbs nothing. *)
LEMMA DropInv ==
    ASSUME HandInv, NEW n, Drops(n), spent' = spent, doubled' = doubled, backend' = backend
    PROVE  StoreInv' /\ TwiceInv' /\ HandedOnce' /\ UniqueRefs'
<1>1. ToSet(kps') \subseteq ToSet(kps) /\ StoreInv' /\ UniqueRefs'
  BY DropSet
<1>2. TwiceInv'
  BY <1>1 DEF HandInv, TwiceInv
<1>3. HandedOnce'
  BY <1>1 DEF HandInv, HandedOnce
<1> QED  BY <1>1, <1>2, <1>3

(* A regular record that is handed out leaves its package behind only if   *)
(* that was stored twice.                                                  *)
LEMMA HandOutInv ==
    ASSUME HandInv, NEW n, Drops(n), spent' = spent \cup {Package(kps[n])},
           doubled' = doubled, backend' = backend
    PROVE  StoreInv' /\ TwiceInv' /\ HandedOnce' /\ UniqueRefs'
<1>1. ToSet(kps') = ToSet(kps) \ {kps[n]} /\ kps[n] \in ToSet(kps) /\ StoreInv' /\ UniqueRefs'
  BY DropSet
<1>2. TwiceInv'
  BY <1>1 DEF HandInv, TwiceInv
<1>3. ASSUME NEW r \in ToSet(kps'), Package(r) \in spent'
      PROVE  Package(r) \in doubled
  <2>1. CASE Package(r) \in spent
    BY <1>1, <2>1 DEF HandInv, HandedOnce
  <2>2. CASE Package(r) = Package(kps[n])
    BY <1>1, <2>2 DEF HandInv, TwiceInv
  <2> QED  BY <1>3, <2>1, <2>2
<1>4. HandedOnce'
  BY <1>3 DEF HandInv, HandedOnce
<1> QED  BY <1>1, <1>2, <1>4

(* A publish makes its package available again, and doubles it if it was   *)
(* stored.                                                                 *)
LEMMA InsertInv ==
    ASSUME HandInv, NEW t \in Threads, PublishInsert(t)
    PROVE  StoreInv' /\ TwiceInv' /\ HandedOnce' /\ UniqueRefs'
<1> DEFINE rec == job[t].record
<1>1. /\ TypeOK /\ job[t] \in PublishJob /\ job[t].op = "publish"
      /\ ~ Refuses(backend, kps, rec)
      /\ kps' = Published(backend, kps, Row(t))
      /\ stored' = stored + 1 /\ backend' = backend
      /\ spent' = spent \ {rec}
      /\ doubled' = IF \E r \in ToSet(kps) : Package(r) = rec
                    THEN doubled \cup {rec} ELSE doubled \ {rec}
  BY InsertEffect DEF HandInv, PublishJob
<1>2. /\ Row(t) \in Record /\ Row(t).serial = stored + 1
      /\ Row(t).key_package_ref = rec.key_package_ref
  BY <1>1, RowType
<1>3. Package(Row(t)) = rec
  <2>1. rec \in Submitted
    BY <1>1, PublishParts
  <2>2. rec = [stable_pubkey |-> rec.stable_pubkey, key_package_ref |-> rec.key_package_ref,
               is_last_resort |-> rec.is_last_resort]
    BY <2>1 DEF Submitted
  <2> QED  BY <1>1, <2>2, RowType DEF Package
<1>4. kps \in Seq(Record) /\ stored \in Nat /\ Numbered(kps, stored)
  BY <1>1 DEF TypeOK, HandInv, StoreInv
<1>5. Placed(kps', kps, Row(t))
  BY <1>1, <1>2, <1>4, PublishedShape
<1>6. Numbered(kps', stored') /\ ToSet(kps') = ToSet(kps) \cup {Row(t)}
  BY <1>1, <1>2, <1>4, <1>5, AddKeeps
<1>7. StoreInv'
  BY <1>6 DEF StoreInv
<1> HIDE DEF rec
<1>8. ASSUME NEW r \in ToSet(kps), Package(r) = rec
      PROVE  rec \in doubled'
  BY <1>1, <1>8
<1>9. \A p : p # rec => (p \in doubled' <=> p \in doubled)
  BY <1>1
<1>10. TwiceInv'
  <2> SUFFICES ASSUME NEW r \in ToSet(kps'), NEW q \in ToSet(kps'),
                      Package(r) = Package(q), r # q
               PROVE  Package(r) \in doubled'
    BY DEF TwiceInv
  <2>1. CASE Package(r) = rec
    <3>1. r \in ToSet(kps) \/ q \in ToSet(kps)
      BY <1>6
    <3> QED  BY <1>8, <2>1, <3>1
  <2>2. CASE Package(r) # rec
    <3>1. r \in ToSet(kps) /\ q \in ToSet(kps)
      BY <1>3, <1>6, <2>2
    <3>2. Package(r) \in doubled
      BY <3>1 DEF HandInv, TwiceInv
    <3> QED  BY <1>9, <2>2, <3>2
  <2> QED  BY <2>1, <2>2
<1>11. ASSUME backend = "sqlite"
       PROVE  /\ \A i \in DOMAIN kps : kps[i].key_package_ref # Row(t).key_package_ref
              /\ doubled' = {}
  <2>1. LocateByRef(kps, rec.key_package_ref) = 0
    BY <1>1, <1>11 DEF Refuses
  <2>2. \A i \in DOMAIN kps : kps[i].key_package_ref # Row(t).key_package_ref
    <3>1. 0 \notin DOMAIN kps
      BY <1>4
    <3> QED  BY <1>2, <1>4, <2>1, <3>1, Located
  <2>3. \A r \in ToSet(kps) : Package(r) # rec
    <3>1. \A r : Package(r).key_package_ref = r.key_package_ref
      BY DEF Package
    <3> QED  BY <1>2, <2>2, <3>1 DEF ToSet
  <2>4. doubled = {}
    BY <1>11 DEF HandInv, HandedOnce
  <2> QED  BY <1>1, <2>2, <2>3, <2>4
<1>12. HandedOnce'
  <2>1. ASSUME NEW r \in ToSet(kps'), Package(r) \in spent'
        PROVE  Package(r) \in doubled'
    <3>1. Package(r) # rec /\ Package(r) \in spent
      BY <1>1, <2>1
    <3>2. r \in ToSet(kps)
      BY <1>3, <1>6, <3>1
    <3> QED  BY <1>9, <3>1, <3>2 DEF HandInv, HandedOnce
  <2> QED  BY <1>1, <1>11, <2>1 DEF HandedOnce
<1>13. UniqueRefs'
  BY <1>1, <1>2, <1>4, <1>5, <1>11, AddKeeps DEF HandInv, UniqueRefs
<1> QED  BY <1>7, <1>10, <1>12, <1>13

(* Every step keeps numbers, references and hand-outs. *)
LEMMA HandStep ==
    ASSUME HandInv, Next
    PROVE  StoreInv' /\ TwiceInv' /\ HandedOnce' /\ UniqueRefs'
<1> DEFINE Same == spent' = spent /\ doubled' = doubled /\ backend' = backend
<1>0. TypeOK
  BY DEF HandInv
<1>1. ASSUME SameStore, Same
      PROVE  StoreInv' /\ TwiceInv' /\ HandedOnce' /\ UniqueRefs'
  BY <1>1 DEF HandInv, StoreInv, TwiceInv, HandedOnce, UniqueRefs, SameStore
<1>2. ASSUME NEW t \in Threads, NEW pk, NEW ref, NEW lr, PublishList(t, pk, ref, lr)
      PROVE  SameStore /\ Same
  BY <1>2 DEF PublishList, SameStore
<1>3. ASSUME NEW t \in Threads, EvictNext(t)
      PROVE  StoreInv' /\ TwiceInv' /\ HandedOnce' /\ UniqueRefs'
  <2>1. PICK r : LET n == LocateByRef(kps, r.key_package_ref) IN (n = 0 /\ SameStore) \/ Drops(n)
    BY <1>0, <1>3, EvictEffect
  <2>2. Same
    BY <1>0, <1>3, EvictEffect
  <2> QED  BY <1>1, <2>1, <2>2, DropInv
<1>4. ASSUME NEW t \in Threads, PublishFails(t) \/ StorageFails(t)
      PROVE  SameStore /\ Same
  BY <1>4 DEF PublishFails, StorageFails, SameStore
<1>5. ASSUME NEW t \in Threads, NEW pk \in Identities, NEW ref \in Refs, RemoveGet(t, pk, ref)
      PROVE  SameStore /\ Same
  BY <1>5 DEF RemoveGet, SameStore
<1>6. ASSUME NEW t \in Threads, RemoveDo(t)
      PROVE  StoreInv' /\ TwiceInv' /\ HandedOnce' /\ UniqueRefs'
  <2>1. LET n == LocateByRef(kps, job[t].ref) IN (n = 0 /\ SameStore) \/ Drops(n)
    BY <1>0, <1>6, RemoveEffect
  <2>2. Same
    BY <1>0, <1>6, RemoveEffect
  <2> QED  BY <1>1, <2>1, <2>2, DropInv
<1>7. ASSUME NEW identifier, ConsumeKeyPackage(identifier)
      PROVE  StoreInv' /\ TwiceInv' /\ HandedOnce' /\ UniqueRefs'
  <2>1. PICK n \in DOMAIN kps :
          /\ IF kps[n].is_last_resort
             THEN SameStore /\ spent' = spent
             ELSE Drops(n) /\ spent' = spent \cup {Package(kps[n])}
          /\ UNCHANGED <<backend, job, requests, stored, doubled>>
    BY <1>0, <1>7, ConsumeEffect
  <2>2. CASE kps[n].is_last_resort
    BY <1>1, <2>1, <2>2
  <2>3. CASE ~ kps[n].is_last_resort
    BY <2>1, <2>3, HandOutInv
  <2> QED  BY <2>2, <2>3
<1> QED  BY <1>1, <1>2, <1>3, <1>4, <1>5, <1>6, <1>7, InsertInv DEF Next

(* What a server starts with: an empty store, or what a file holds. *)
LEMMA InitStore ==
    ASSUME Init
    PROVE  /\ kps = <<>> \/ (backend = "sqlite" /\ kps \in Persisted)
           /\ kps \in Seq(Record) /\ Numbered(kps, stored) /\ DistinctRefs(kps)
           /\ stored = Len(kps) /\ stored \in Nat
<1>1. (kps = <<>> \/ (backend = "sqlite" /\ kps \in Persisted)) /\ stored = Len(kps)
  BY DEF Init
<1>2. CASE kps = <<>>
  <2>1. kps \in Seq(Record) /\ DOMAIN kps = {} /\ Len(kps) = 0
    BY <1>2
  <2> QED  BY <1>1, <1>2, <2>1 DEF Numbered, DistinctRefs
<1>3. CASE backend = "sqlite" /\ kps \in Persisted
  <2>1. /\ kps \in Seq(Record) /\ \A i \in DOMAIN kps : kps[i].serial = i
        /\ DistinctRefs(kps)
    BY <1>3, PersistedAssumption DEF DistinctRefs
  <2>2. DOMAIN kps = 1 .. Len(kps) /\ Len(kps) \in Nat
    BY <2>1
  <2>3. Numbered(kps, stored)
    BY <1>1, <2>1, <2>2 DEF Numbered
  <2> QED  BY <1>1, <1>3, <2>1, <2>2, <2>3
<1> QED  BY <1>1, <1>2, <1>3

(* The invariant at the start. *)
LEMMA InitHand == Init => HandInv
<1> SUFFICES ASSUME Init PROVE HandInv
  OBVIOUS
<1>1. /\ kps \in Seq(Record) /\ Numbered(kps, stored) /\ DistinctRefs(kps) /\ stored \in Nat
      /\ spent = {} /\ doubled = {}
  BY InitStore DEF Init
<1>2. TypeOK
  BY <1>1, KeyPackagesAssumption DEF Init, TypeOK
<1>3. TwiceInv
  <2> SUFFICES ASSUME NEW r \in ToSet(kps), NEW q \in ToSet(kps), Package(r) = Package(q)
               PROVE  r = q
    BY DEF TwiceInv
  <2>1. PICK i, k \in DOMAIN kps : kps[i] = r /\ kps[k] = q
    BY DEF ToSet
  <2>2. \A x : Package(x).key_package_ref = x.key_package_ref
    BY DEF Package
  <2>3. r.key_package_ref = q.key_package_ref
    BY <2>2
  <2> QED  BY <1>1, <2>1, <2>3 DEF DistinctRefs
<1> QED  BY <1>1, <1>2, <1>3 DEF HandInv, StoreInv, HandedOnce, UniqueRefs

(* So does a stuttering step. *)
LEMMA HandStutter ==
    ASSUME HandInv, UNCHANGED vars
    PROVE  HandInv'
BY DEF vars, HandInv, TypeOK, StoreInv, TwiceInv, Numbered, HandedOnce, UniqueRefs, DistinctRefs

(* Types, numbers, references and hand-outs, whatever the requests and     *)
(* however they interleave.                                                *)
THEOREM HandInvariant == Spec => []HandInv
<1>1. HandInv /\ [Next]_vars => HandInv'
  <2>1. ASSUME HandInv, Next PROVE HandInv'
    <3>1. TypeOK'
      BY <2>1, TypeStep DEF HandInv
    <3> QED  BY <2>1, <3>1, HandStep DEF HandInv
  <2> QED  BY <2>1, HandStutter
<1> QED  BY <1>1, InitHand, PTL DEF Spec

(* The types of what key packages and requests are made of; publish, list, *)
(* remove and consume keep them on both backends.                          *)
THEOREM KeyPackageTypes == Spec => []TypeOK
<1>1. HandInv => TypeOK
  BY DEF HandInv
<1> QED  BY <1>1, HandInvariant, PTL

(* Whatever the clients publish under whatever references, and however     *)
(* consumers, removals and evictions interleave: a regular package that    *)
(* consume_key_package has handed out is not stored, unless it was         *)
(* published again since, or twice while stored, which only memory accepts.*)
THEOREM RegularHandedOnce == Spec => []HandedOnce
<1>1. HandInv => HandedOnce
  BY DEF HandInv
<1> QED  BY <1>1, HandInvariant, PTL

(* Sqlite never has two rows of one reference, so that deleting by         *)
(* reference deletes the row that was found.                               *)
THEOREM ReferencesUnique == Spec => []UniqueRefs
<1>1. HandInv => UniqueRefs
  BY DEF HandInv
<1> QED  BY <1>1, HandInvariant, PTL

(***************************************************************************)
(* Owners, for any requests.                                               *)
(***************************************************************************)
(* The parts of OwnerInv. *)
StoredOwned == \A r \in ToSet(kps) : MayCome(r)

(* A publish request's record and what it displaces are its caller's. *)
PublishOwned(j, t) ==
    /\ <<t, j.record.stable_pubkey, j.record.key_package_ref,
         j.record.is_last_resort>> \in MayPublish
    /\ \A e \in j.evict : MayCome(e) /\ e.stable_pubkey = j.record.stable_pubkey

(* A removal request's reference is its caller's. *)
RemoveOwned(j, t) ==
    /\ <<t, j.stable_pubkey, j.ref>> \in MayRemove
    /\ \E u \in Threads, lr \in BOOLEAN : <<u, j.stable_pubkey, j.ref, lr>> \in MayPublish

(* What OwnerInv says of a thread's job. *)
JobOwned(j, t) ==
    (j.op = "publish" => PublishOwned(j, t)) /\ (j.op = "remove" => RemoveOwned(j, t))

(* OwnerInv, as a statement about the store and one about each job. *)
LEMMA OwnerParts ==
    /\ OwnerInv <=> StoredOwned /\ \A t \in Threads : JobOwned(job[t], t)
    /\ OwnerInv' <=> StoredOwned' /\ \A t \in Threads : JobOwned(job'[t], t)
<1>1. OwnerInv <=> StoredOwned /\ \A t \in Threads : JobOwned(job[t], t)
  <2>1. (\A i \in DOMAIN kps : MayCome(kps[i])) <=> StoredOwned
    BY DEF StoredOwned, ToSet
  <2> QED  BY <2>1, Zenon DEF OwnerInv, JobOwned, PublishOwned, RemoveOwned
<1>2. OwnerInv' <=> StoredOwned' /\ \A t \in Threads : JobOwned(job'[t], t)
  <2>1. (\A i \in DOMAIN kps' : MayCome(kps'[i])) <=> StoredOwned'
    BY DEF StoredOwned, ToSet, MayCome
  <2> QED  BY <2>1, Zenon DEF OwnerInv, JobOwned, PublishOwned, RemoveOwned, MayCome
<1> QED  BY <1>1, <1>2

(* A step that changes one job for an owned one. *)
LEMMA JobOwnedStep ==
    ASSUME TypeOK, NEW t \in Threads, NEW j, job' = [job EXCEPT ![t] = j],
           \A u \in Threads : JobOwned(job[u], u), JobOwned(j, t)
    PROVE  \A u \in Threads : JobOwned(job'[u], u)
<1> TAKE u \in Threads
<1>1. job'[u] = IF u = t THEN j ELSE job[u]
  BY DEF TypeOK
<1> QED  BY <1>1

(* Records that go leave owned ones. *)
LEMMA DropOwned ==
    ASSUME HandInv, StoredOwned, NEW n, Drops(n) \/ SameStore
    PROVE  StoredOwned'
<1>1. ToSet(kps') \subseteq ToSet(kps)
  BY DropKeeps DEF HandInv, StoreInv, TypeOK, Drops, SameStore
<1> QED  BY <1>1 DEF StoredOwned, MayCome

(* An idle thread has nothing that could be another identity's. *)
LEMMA IdleOwned == \A t : JobOwned(Idle, t)
BY DEF JobOwned, Idle

(* Every step keeps the owners. *)
LEMMA OwnerStep ==
    ASSUME HandInv, OwnerInv, Next
    PROVE  OwnerInv'
<1>0. TypeOK /\ StoredOwned /\ \A t \in Threads : JobOwned(job[t], t)
  BY OwnerParts DEF HandInv
<1>1. ASSUME NEW t \in Threads, NEW pk, NEW ref, NEW lr, PublishList(t, pk, ref, lr)
      PROVE  OwnerInv'
  <2>1. /\ <<t, pk, ref, lr>> \in MayPublish
        /\ job' = [job EXCEPT ![t] = ListJob(pk, ref, lr)]
        /\ kps' = kps
    BY <1>0, <1>1, ListEffect
  <2>2. Displaced(Own(kps, pk), lr) \subseteq Own(kps, pk)
    BY DEF Displaced, LastResort, Oldest
  <2>3. \A e \in Own(kps, pk) : MayCome(e) /\ e.stable_pubkey = pk
    BY <1>0 DEF StoredOwned, Own
  <2>4. JobOwned(ListJob(pk, ref, lr), t)
    BY <2>1, <2>2, <2>3 DEF JobOwned, PublishOwned, ListJob
  <2>5. StoredOwned'
    BY <1>0, <2>1 DEF StoredOwned, MayCome
  <2> QED  BY <1>0, <2>1, <2>4, <2>5, JobOwnedStep, OwnerParts
<1>2. ASSUME NEW t \in Threads, EvictNext(t)
      PROVE  OwnerInv'
  <2>1. job[t] \in PublishJob
    BY <1>0, <1>2, EvictEffect
  <2>2. PICK r \in job[t].evict :
          /\ job' = [job EXCEPT ![t] = [job[t] EXCEPT !.evict = @ \ {r}]]
          /\ LET n == LocateByRef(kps, r.key_package_ref) IN (n = 0 /\ SameStore) \/ Drops(n)
    BY <1>0, <1>2, EvictEffect
  <2> DEFINE j == [job[t] EXCEPT !.evict = @ \ {r}]
  <2>3. j.op = job[t].op /\ j.record = job[t].record /\ j.evict = job[t].evict \ {r}
        /\ j.op = "publish"
    BY <2>1 DEF PublishJob
  <2> HIDE DEF j
  <2>4. JobOwned(j, t)
    BY <1>0, <2>3 DEF JobOwned, PublishOwned
  <2>5. StoredOwned'
    BY <1>0, <2>2, DropOwned
  <2> QED  BY <1>0, <2>2, <2>4, <2>5, JobOwnedStep, OwnerParts DEF j
<1>3. ASSUME NEW t \in Threads, PublishFails(t) \/ StorageFails(t)
      PROVE  OwnerInv'
  <2>1. job' = [job EXCEPT ![t] = Idle] /\ kps' = kps
    BY <1>3 DEF PublishFails, StorageFails
  <2>2. StoredOwned'
    BY <1>0, <2>1 DEF StoredOwned, MayCome
  <2> QED  BY <1>0, <2>1, <2>2, IdleOwned, JobOwnedStep, OwnerParts
<1>4. ASSUME NEW t \in Threads, PublishInsert(t)
      PROVE  OwnerInv'
  <2>1. /\ job[t] \in PublishJob /\ job[t].op = "publish"
        /\ kps' = Published(backend, kps, Row(t))
        /\ job' = [job EXCEPT ![t] = Idle]
    BY <1>0, <1>4, InsertEffect DEF PublishJob
  <2>2. ToSet(kps') = ToSet(kps) \cup {Row(t)}
    BY <1>0, <2>1, RowType, PublishedShape, AddKeeps DEF HandInv, StoreInv, TypeOK
  <2>3. MayCome(Row(t))
    BY <1>0, <2>1, RowType DEF MayCome, JobOwned, PublishOwned
  <2>4. StoredOwned'
    BY <1>0, <2>2, <2>3 DEF StoredOwned, MayCome
  <2> QED  BY <1>0, <2>1, <2>4, IdleOwned, JobOwnedStep, OwnerParts
<1>5. ASSUME NEW t \in Threads, NEW pk \in Identities, NEW ref \in Refs, RemoveGet(t, pk, ref)
      PROVE  OwnerInv'
  <2> DEFINE n == LocateByRef(kps, ref)
             j == [op |-> "remove", stable_pubkey |-> pk, ref |-> ref]
  <2>1. /\ <<t, pk, ref>> \in MayRemove /\ n # 0 /\ kps[n].stable_pubkey = pk
        /\ job' = [job EXCEPT ![t] = j] /\ kps' = kps
    BY <1>5 DEF RemoveGet
  <2>2. n \in DOMAIN kps /\ kps[n].key_package_ref = ref
    BY <1>0, <2>1, Located DEF TypeOK
  <2>3. kps[n] \in ToSet(kps) /\ kps[n].is_last_resort \in BOOLEAN
    BY <1>0, <2>2, RecordFields DEF ToSet, TypeOK
  <2>4. \E u \in Threads, lr \in BOOLEAN : <<u, pk, ref, lr>> \in MayPublish
    BY <1>0, <2>1, <2>2, <2>3 DEF StoredOwned, MayCome
  <2>5. JobOwned(j, t)
    BY <2>1, <2>4 DEF JobOwned, RemoveOwned
  <2>6. StoredOwned'
    BY <1>0, <2>1 DEF StoredOwned, MayCome
  <2> QED  BY <1>0, <2>1, <2>5, <2>6, JobOwnedStep, OwnerParts
<1>6. ASSUME NEW t \in Threads, RemoveDo(t)
      PROVE  OwnerInv'
  <2>1. /\ job' = [job EXCEPT ![t] = Idle]
        /\ LET n == LocateByRef(kps, job[t].ref) IN (n = 0 /\ SameStore) \/ Drops(n)
    BY <1>0, <1>6, RemoveEffect
  <2>2. StoredOwned'
    BY <1>0, <2>1, DropOwned
  <2> QED  BY <1>0, <2>1, <2>2, IdleOwned, JobOwnedStep, OwnerParts
<1>7. ASSUME NEW identifier, ConsumeKeyPackage(identifier)
      PROVE  OwnerInv'
  <2>1. PICK n \in DOMAIN kps : (SameStore \/ Drops(n)) /\ job' = job
    BY <1>0, <1>7, ConsumeEffect
  <2>2. StoredOwned'
    BY <1>0, <2>1, DropOwned
  <2> QED  BY <1>0, <2>1, <2>2, OwnerParts
<1> QED  BY <1>1, <1>2, <1>3, <1>4, <1>5, <1>6, <1>7 DEF Next

(* Whatever is stored, about to be stored, displaced or removed was        *)
(* published by the identity it is stored, displaced or removed for.       *)
THEOREM OwnerInvariant == Spec => [](HandInv /\ OwnerInv)
<1>1. Init => OwnerInv
  <2> SUFFICES ASSUME Init PROVE OwnerInv
    OBVIOUS
  <2>1. \A t \in Threads : job[t] = Idle
    BY DEF Init
  <2>2. Idle.op = "idle"
    BY DEF Idle
  <2>3. \A i \in DOMAIN kps : MayCome(kps[i])
    <3>1. CASE kps = <<>>
      BY <3>1
    <3>2. CASE kps \in Persisted
      BY <3>2, PersistedAssumption DEF MayCome
    <3> QED  BY <3>1, <3>2, InitStore
  <2> QED  BY <2>1, <2>2, <2>3 DEF OwnerInv
<1>2. HandInv /\ OwnerInv /\ [Next]_vars => OwnerInv'
  <2>1. ASSUME OwnerInv, UNCHANGED vars PROVE OwnerInv'
    <3>1. kps' = kps /\ job' = job
      BY <2>1 DEF vars
    <3>2. StoredOwned /\ \A t \in Threads : JobOwned(job[t], t)
      BY <2>1, OwnerParts
    <3>3. StoredOwned'
      BY <3>1, <3>2 DEF StoredOwned, MayCome
    <3> QED  BY <3>1, <3>2, <3>3, OwnerParts
  <2> QED  BY <2>1, OwnerStep
<1> QED  BY <1>1, <1>2, HandInvariant, PTL DEF Spec

(***************************************************************************)
(* What a request takes, when a reference belongs to one identity.         *)
(***************************************************************************)
(* Packages with one reference have one owner and one kind. *)
LEMMA OneOwner ==
    ASSUME OnePackagePerRef, NEW a, NEW b, MayCome(a), MayCome(b),
           a.key_package_ref = b.key_package_ref
    PROVE  a.stable_pubkey = b.stable_pubkey /\ a.is_last_resort = b.is_last_resort
<1>1. PICK t \in Threads :
        <<t, a.stable_pubkey, a.key_package_ref, a.is_last_resort>> \in MayPublish
  BY DEF MayCome
<1>2. PICK u \in Threads :
        <<u, b.stable_pubkey, b.key_package_ref, b.is_last_resort>> \in MayPublish
  BY DEF MayCome
<1> DEFINE x == <<t, a.stable_pubkey, a.key_package_ref, a.is_last_resort>>
           y == <<u, b.stable_pubkey, b.key_package_ref, b.is_last_resort>>
<1>3. x[3] = y[3] => x[2] = y[2] /\ x[4] = y[4]
  BY <1>1, <1>2, Zenon DEF OnePackagePerRef
<1>4. /\ x[2] = a.stable_pubkey /\ x[3] = a.key_package_ref /\ x[4] = a.is_last_resort
      /\ y[2] = b.stable_pubkey /\ y[3] = b.key_package_ref /\ y[4] = b.is_last_resort
  OBVIOUS
<1> HIDE DEF x, y
<1> QED  BY <1>3, <1>4

(* The records of the identities after a record went or came. *)
LEMMA OwnDropped ==
    ASSUME HandInv, NEW n, Drops(n)
    PROVE  /\ kps[n] \in ToSet(kps)
           /\ \A pk : Own(kps', pk) = Own(kps, pk) \ {kps[n]}
           /\ \A pk : pk # kps[n].stable_pubkey => Own(kps', pk) = Own(kps, pk)
<1>1. /\ n \in DOMAIN kps /\ ToSet(kps') = ToSet(kps) \ {kps[n]}
  BY DropKeeps DEF HandInv, StoreInv, TypeOK, Drops
<1> QED  BY <1>1 DEF Own, ToSet

(* A store that stays has the same records for everybody. *)
LEMMA OwnSame ==
    ASSUME SameStore
    PROVE  \A pk : Own(kps', pk) = Own(kps, pk)
BY DEF SameStore, Own

(* A new row adds itself to the records of its identity. *)
LEMMA OwnAdded ==
    ASSUME HandInv, NEW t \in Threads, PublishInsert(t)
    PROVE  /\ Own(kps', Row(t).stable_pubkey) = Own(kps, Row(t).stable_pubkey) \cup {Row(t)}
           /\ \A pk : pk # Row(t).stable_pubkey => Own(kps', pk) = Own(kps, pk)
           /\ Row(t) \notin ToSet(kps)
<1>1. TypeOK /\ job[t].op = "publish" /\ kps' = Published(backend, kps, Row(t))
  BY InsertEffect DEF PublishInsert, HandInv
<1>2. Row(t) \in Record /\ Row(t).serial = stored + 1
  BY <1>1, RowType
<1>3. kps \in Seq(Record) /\ stored \in Nat /\ Numbered(kps, stored)
  BY DEF HandInv, StoreInv, TypeOK
<1>4. ToSet(kps') = ToSet(kps) \cup {Row(t)}
  BY <1>1, <1>2, <1>3, PublishedShape, AddKeeps
<1>5. \A r \in ToSet(kps) : r.serial \in Nat /\ r.serial <= stored
  BY <1>3, RecordFields DEF ToSet, Numbered
<1>6. Row(t) \notin ToSet(kps)
  BY <1>2, <1>3, <1>5
<1> QED  BY <1>4, <1>6 DEF Own

(* The located record of a reference that the caller published is the      *)
(* caller's.                                                               *)
LEMMA LocatedOwn ==
    ASSUME OnePackagePerRef, HandInv, OwnerInv, NEW r, MayCome(r),
           LocateByRef(kps, r.key_package_ref) # 0
    PROVE  LET n == LocateByRef(kps, r.key_package_ref) IN
           /\ n \in DOMAIN kps
           /\ kps[n].stable_pubkey = r.stable_pubkey /\ kps[n].is_last_resort = r.is_last_resort
<1> DEFINE n == LocateByRef(kps, r.key_package_ref)
<1>1. n \in DOMAIN kps /\ kps[n].key_package_ref = r.key_package_ref
  BY Located DEF HandInv, TypeOK
<1>2. MayCome(kps[n])
  BY <1>1 DEF OwnerInv
<1> HIDE DEF n
<1>3. kps[n].stable_pubkey = r.stable_pubkey /\ kps[n].is_last_resort = r.is_last_resort
  BY <1>1, <1>2, OneOwner
<1> QED  BY <1>1, <1>3 DEF n

(* remove_key_packages removes a package of its caller, though the owner   *)
(* was checked in an earlier storage call.                                 *)
LEMMA RemovesOwn ==
    ASSUME OnePackagePerRef, HandInv, OwnerInv, NEW t \in Threads, RemoveDo(t),
           LocateByRef(kps, job[t].ref) # 0
    PROVE  kps[LocateByRef(kps, job[t].ref)].stable_pubkey = job[t].stable_pubkey
<1>1. TypeOK /\ job[t].op = "remove"
  BY DEF HandInv, RemoveDo
<1>2. PICK u \in Threads, lr \in BOOLEAN :
        <<u, job[t].stable_pubkey, job[t].ref, lr>> \in MayPublish
  BY <1>1 DEF OwnerInv
<1> DEFINE r == [stable_pubkey |-> job[t].stable_pubkey, key_package_ref |-> job[t].ref,
                 is_last_resort |-> lr]
<1>3. /\ r.stable_pubkey = job[t].stable_pubkey /\ r.key_package_ref = job[t].ref
      /\ r.is_last_resort = lr
  OBVIOUS
<1> HIDE DEF r
<1>4. MayCome(r)
  BY <1>2, <1>3 DEF MayCome
<1> QED  BY <1>3, <1>4, LocatedOwn

(***************************************************************************)
(* Quotas and last-resort packages, when an identity sends one request at  *)
(* a time.                                                                 *)
(***************************************************************************)
(* The store is finite, and so are an identity's records, which have       *)
(* numbers.                                                                *)
LEMMA OwnFinite ==
    ASSUME TypeOK, NEW pk
    PROVE  Own(kps, pk) \subseteq Record /\ IsFiniteSet(Own(kps, pk))
<1>1. kps \in Seq(Record) /\ DOMAIN kps = 1 .. Len(kps) /\ Len(kps) \in Nat
  BY DEF TypeOK
<1>2. kps \in Surjection(1 .. Len(kps), ToSet(kps))
  BY <1>1 DEF Surjection, ToSet
<1>3. IsFiniteSet(1 .. Len(kps))
  BY <1>1, FS_Interval
<1>4. IsFiniteSet(ToSet(kps))
  BY <1>2, <1>3, FS_Surjection
<1>5. Own(kps, pk) \in SUBSET ToSet(kps) /\ ToSet(kps) \subseteq Record
  BY <1>1 DEF Own, ToSet
<1> QED  BY <1>4, <1>5, FS_Subset

(* Dropping a part of a finite set drops as many elements. *)
LEMMA PartCount ==
    ASSUME NEW S, IsFiniteSet(S), NEW T \in SUBSET S
    PROVE  /\ IsFiniteSet(T) /\ IsFiniteSet(S \ T)
           /\ Cardinality(S) \in Nat /\ Cardinality(T) \in Nat
           /\ Cardinality(S \ T) \in Nat
           /\ Cardinality(S \ T) = Cardinality(S) - Cardinality(T)
<1>1. S \cap T = T
  OBVIOUS
<1>2. IsFiniteSet(T) /\ IsFiniteSet(S \ T)
  BY FS_Subset, FS_Difference
<1>3. Cardinality(S \ T) = Cardinality(S) - Cardinality(T)
  BY <1>1, FS_Difference
<1> QED  BY <1>2, <1>3, FS_CardinalityType

(* The n oldest of at least n records leave all but n, and no record in    *)
(* hand has an older one that is not.                                      *)
LEMMA OldestTaken ==
    ASSUME NEW L \in SUBSET Record, IsFiniteSet(L), NEW n \in Nat, n <= Cardinality(L)
    PROVE  /\ Oldest(L, n) \subseteq L
           /\ \A e \in Oldest(L, n) : \A q \in L : q.serial < e.serial => q \in Oldest(L, n)
           /\ Cardinality(L \ Oldest(L, n)) \in Nat
           /\ Cardinality(L \ Oldest(L, n)) <= Cardinality(L) - n
<1> DEFINE E == Oldest(L, n)
           Older(p) == {q \in L : q.serial < p.serial}
<1>0. \A r \in L : r.serial \in Nat
  BY DEF Record
<1>1. E \in SUBSET L /\ \A p : Older(p) \in SUBSET L
  BY DEF Oldest
<1>2. \A p \in L : p \in E <=> Cardinality(Older(p)) < n
  BY DEF Oldest
<1>3. \A e \in E : \A q \in L : q.serial < e.serial => q \in E
  <2> TAKE e \in E
  <2> TAKE q \in L
  <2> HAVE q.serial < e.serial
  <2>1. Older(q) \in SUBSET Older(e)
    BY <1>0, <1>1
  <2>2. IsFiniteSet(Older(e)) /\ IsFiniteSet(Older(q))
    BY <1>1, PartCount
  <2> HIDE DEF Older
  <2>3. Cardinality(Older(q)) <= Cardinality(Older(e))
    BY <2>1, <2>2, FS_Subset
  <2>4. Cardinality(Older(e)) \in Nat /\ Cardinality(Older(q)) \in Nat
    BY <2>2, FS_CardinalityType
  <2> HIDE DEF E
  <2> QED  BY <1>1, <1>2, <2>3, <2>4
<1>4. Cardinality(L) \in Nat /\ Cardinality(L \ E) \in Nat
  BY <1>1, PartCount
<1>5. ASSUME L \ E = {}
      PROVE  Cardinality(L \ E) <= Cardinality(L) - n
  <2> HIDE DEF E
  <2>1. Cardinality(L \ E) = 0
    BY <1>5, FS_EmptySet
  <2> QED  BY <1>4, <2>1
<1>6. ASSUME L \ E # {}
      PROVE  Cardinality(L \ E) <= Cardinality(L) - n
  <2> DEFINE N == {r.serial : r \in L \ E}
  <2>1. N \in SUBSET Nat /\ N # {}
    BY <1>0, <1>6
  <2>2. PICK m \in N : \A k \in N : m <= k
    <3> HIDE DEF N
    <3> QED  BY <2>1, LeastNumber
  <2>3. PICK p \in L \ E : p.serial = m
    OBVIOUS
  <2>4. \A q \in L \ E : p.serial <= q.serial
    BY <2>2, <2>3
  <2>5. Older(p) \subseteq E
    BY <1>0, <2>3, <2>4
  <2>6. L \ E \in SUBSET (L \ Older(p))
    BY <2>5
  <2> HIDE DEF N, E, Older
  <2>7. /\ IsFiniteSet(L \ Older(p)) /\ Cardinality(Older(p)) \in Nat
        /\ Cardinality(L \ Older(p)) \in Nat
        /\ Cardinality(L \ Older(p)) = Cardinality(L) - Cardinality(Older(p))
    BY <1>1, PartCount
  <2>8. Cardinality(L \ E) <= Cardinality(L \ Older(p))
    BY <2>6, <2>7, FS_Subset
  <2>9. ~ (Cardinality(Older(p)) < n)
    BY <1>2, <2>3
  <2> QED  BY <1>4, <2>7, <2>8, <2>9
<1> HIDE DEF E
<1> QED  BY <1>1, <1>3, <1>4, <1>5, <1>6 DEF E

(* Records with numbers of their own, up to some number. *)
Numerals(L) ==
    /\ \A p, q \in L : p.serial = q.serial => p = q
    /\ \E b \in Nat : \A p \in L : p.serial <= b

(* An identity's records are such. *)
LEMMA OwnNumerals ==
    ASSUME HandInv, NEW pk
    PROVE  Numerals(Own(kps, pk))
<1>1. Numbered(kps, stored) /\ stored \in Nat
  BY DEF HandInv, StoreInv, TypeOK
<1>2. \A p \in Own(kps, pk) : \E i \in DOMAIN kps : kps[i] = p
  BY DEF Own, ToSet
<1>3. \A p \in Own(kps, pk) : p.serial <= stored
  BY <1>1, <1>2 DEF Numbered
<1>4. \A p, q \in Own(kps, pk) : p.serial = q.serial => p = q
  BY <1>1, <1>2 DEF Numbered
<1> QED  BY <1>1, <1>3, <1>4 DEF Numerals

(* They have a newest one. *)
LEMMA NewestRecord ==
    ASSUME NEW L \in SUBSET Record, Numerals(L), L # {}
    PROVE  \E p \in L : \A q \in L : q.serial <= p.serial
<1> DEFINE N == {r.serial : r \in L}
<1>1. PICK b \in Nat : \A p \in L : p.serial <= b
  BY DEF Numerals
<1>2. \A r \in L : r.serial \in Nat
  BY DEF Record
<1>3. N \in SUBSET (0 .. b) /\ N # {}
  BY <1>1, <1>2
<1>4. PICK m \in N : \A k \in N : k <= m
  <2> HIDE DEF N
  <2> QED  BY <1>1, <1>3, GreatestNumber
<1> QED  BY <1>4

(* Fewer than all of the oldest leave the newest. *)
LEMMA NewestSpared ==
    ASSUME NEW L \in SUBSET Record, IsFiniteSet(L), Numerals(L),
           NEW n \in Nat, n < Cardinality(L)
    PROVE  L \ Oldest(L, n) # {}
<1> DEFINE Older(p) == {q \in L : q.serial < p.serial}
<1>0. \A r \in L : r.serial \in Nat
  BY DEF Record
<1>1. Cardinality(L) \in Nat /\ L # {}
  BY FS_CardinalityType, FS_EmptySet
<1>2. PICK p \in L : \A q \in L : q.serial <= p.serial
  BY <1>1, NewestRecord
<1>3. Older(p) = L \ {p}
  <2>1. \A q \in L \ {p} : q.serial # p.serial
    BY <1>2 DEF Numerals
  <2> QED  BY <1>0, <1>2, <2>1
<1>4. Cardinality(L \ {p}) = Cardinality(L) - 1
  BY <1>2, FS_RemoveElement
<1>5. ~ (Cardinality(Older(p)) < n)
  <2>1. Cardinality(Older(p)) = Cardinality(L) - 1
    BY <1>3, <1>4
  <2> HIDE DEF Older
  <2> QED  BY <1>1, <2>1
<1>6. p \notin Oldest(L, n)
  BY <1>5 DEF Oldest
<1> QED  BY <1>2, <1>6

(* What enforce_key_package_quota gets from a listing: the oldest          *)
(* last-resort packages to displace, room for the new one behind them,     *)
(* none to displace if the request is refused on a store within the        *)
(* limits, and never all of them under a limit other than one.             *)
LEMMA ListingFair ==
    ASSUME NEW O \in SUBSET Record, IsFiniteSet(O), Numerals(O), NEW j,
           j.record.is_last_resort \in BOOLEAN,
           j.evict = Displaced(O, j.record.is_last_resort),
           j.exceeded = QuotaExceeded(O, j.record.is_last_resort)
    PROVE  /\ Evicting(O, j)
           /\ Within(O) /\ j.exceeded => j.evict = {}
           /\ MaxLastResort # 1 /\ j.evict # {} => LastResort(O) \ j.evict # {}
<1> DEFINE lr == j.record.is_last_resort
           L == LastResort(O)
           E == j.evict
           o == Cardinality(O)
           l == Cardinality(L)
           x == Cardinality(L \ E)
           y == Cardinality(O \ E)
           n == l - MaxLastResort + 1
<1>1. L \in SUBSET O /\ L \in SUBSET Record
  BY DEF LastResort
<1>2. /\ o \in Nat /\ l \in Nat /\ IsFiniteSet(L) /\ IsFiniteSet(O \ L)
      /\ Cardinality(O \ L) \in Nat /\ Cardinality(O \ L) = o - l
  BY <1>1, PartCount
<1>3. MaxPerIdentity \in Nat /\ MaxLastResort \in Nat
  BY KeyPackagesAssumption
<1>4. E = IF lr /\ MaxLastResort > 0 /\ l >= MaxLastResort THEN Oldest(L, n) ELSE {}
  BY DEF Displaced
<1>5. j.exceeded <=> MaxPerIdentity > 0 /\ CountWith(O, lr) > MaxPerIdentity
  BY DEF QuotaExceeded
<1>6. CountWith(O, lr) =
        IF lr THEN o - l + Smaller(l, IF MaxLastResort > 0 THEN MaxLastResort - 1 ELSE 0) + 1
        ELSE o + 1
  BY DEF CountWith
<1>7. Within(O) <=> (MaxLastResort > 0 => /\ MaxPerIdentity > 0 => o <= MaxPerIdentity
                                          /\ l <= MaxLastResort)
  BY DEF Within
<1>8. ASSUME E \subseteq L,
             \A e \in E : \A q \in L : q.serial < e.serial => q \in E,
             ~ lr => E = {},
             lr /\ MaxLastResort > 0 => x < MaxLastResort,
             ~ j.exceeded /\ MaxPerIdentity > 0 /\ MaxLastResort > 0 => y < MaxPerIdentity
      PROVE  Evicting(O, j)
  BY <1>8 DEF Evicting
<1> HIDE DEF L, E, o, l, x, y, n, lr
<1>9. CASE lr /\ MaxLastResort > 0 /\ l >= MaxLastResort
  <2>1. E = Oldest(L, n) /\ n \in Nat /\ n <= l
    BY <1>2, <1>3, <1>4, <1>9 DEF n
  <2>2. /\ E \subseteq L
        /\ \A e \in E : \A q \in L : q.serial < e.serial => q \in E
        /\ x \in Nat /\ x <= l - n
    BY <1>1, <1>2, <2>1, OldestTaken DEF x, l
  <2>3. x < MaxLastResort
    BY <1>2, <1>3, <2>2 DEF n
  <2>4. y = (o - l) + x
    <3>1. O \ E = (O \ L) \cup (L \ E) /\ (O \ L) \cap (L \ E) = {}
      BY <1>1, <2>2
    <3>2. IsFiniteSet(L \ E)
      BY <1>2, <2>2, PartCount
    <3>3. y = Cardinality(O \ L) + x - Cardinality((O \ L) \cap (L \ E))
      BY <1>2, <3>1, <3>2, FS_Union DEF x, y
    <3>4. Cardinality((O \ L) \cap (L \ E)) = 0
      BY <3>1, FS_EmptySet
    <3> QED  BY <1>2, <2>2, <3>3, <3>4
  <2>5. CountWith(O, lr) = (o - l) + MaxLastResort
    BY <1>2, <1>3, <1>6, <1>9 DEF Smaller
  <2>6. ~ j.exceeded /\ MaxPerIdentity > 0 => y < MaxPerIdentity
    BY <1>2, <1>3, <1>5, <2>2, <2>3, <2>4, <2>5
  <2>7. ASSUME Within(O)
        PROVE  ~ j.exceeded
    <3>1. (MaxPerIdentity > 0 => o <= MaxPerIdentity) /\ l <= MaxLastResort
      BY <1>7, <1>9, <2>7
    <3>2. l = MaxLastResort
      BY <1>2, <1>3, <1>9, <3>1
    <3>3. CountWith(O, lr) = o
      BY <1>2, <1>3, <2>5, <3>2
    <3>4. MaxPerIdentity > 0 => ~ (o > MaxPerIdentity)
      BY <1>2, <1>3, <3>1
    <3> QED  BY <1>5, <3>3, <3>4
  <2>8. Evicting(O, j)
    BY <1>8, <1>9, <2>2, <2>3, <2>6
  <2>9. MaxLastResort # 1 => L \ E # {}
    <3>1. ASSUME MaxLastResort # 1
          PROVE  n < l
      BY <1>2, <1>3, <1>9, <3>1 DEF n
    <3>2. Numerals(L)
      BY <1>1 DEF Numerals
    <3> QED  BY <1>1, <1>2, <2>1, <3>1, <3>2, NewestSpared DEF l
  <2> QED  BY <2>7, <2>8, <2>9 DEF L, E
<1>10. CASE ~ (lr /\ MaxLastResort > 0 /\ l >= MaxLastResort)
  <2>1. E = {}
    BY <1>4, <1>10
  <2>2. x = l /\ y = o
    <3>1. L \ E = L /\ O \ E = O
      BY <2>1
    <3> QED  BY <3>1 DEF x, y, l, o
  <2>3. lr /\ MaxLastResort > 0 => x < MaxLastResort
    BY <1>2, <1>3, <1>10, <2>2
  <2>4. MaxLastResort > 0 => CountWith(O, lr) = o + 1
    BY <1>2, <1>3, <1>6, <1>10 DEF Smaller
  <2>5. ~ j.exceeded /\ MaxPerIdentity > 0 /\ MaxLastResort > 0 => y < MaxPerIdentity
    BY <1>2, <1>3, <1>5, <2>2, <2>4
  <2>6. Evicting(O, j)
    BY <1>8, <2>1, <2>3, <2>5
  <2> QED  BY <2>1, <2>6 DEF E
<1> QED  BY <1>9, <1>10

(* Only one thread works for an identity that publishes. *)
LEMMA OnlyThread ==
    ASSUME OneThreadPerIdentity, OwnerInv, NEW t \in Threads, NEW u \in Threads,
           job[u].op = "publish", NEW ref, NEW lr,
           \/ <<t, job[u].record.stable_pubkey, ref, lr>> \in MayPublish
           \/ <<t, job[u].record.stable_pubkey, ref>> \in MayRemove
    PROVE  u = t
<1> DEFINE pk == job[u].record.stable_pubkey
           a == <<u, pk, job[u].record.key_package_ref, job[u].record.is_last_resort>>
           b == <<t, pk, ref, lr>>
           c == <<t, pk, ref>>
<1>1. a \in MayPublish
  BY DEF OwnerInv
<1>2. a[1] = u /\ a[2] = pk /\ b[1] = t /\ b[2] = pk /\ c[1] = t /\ c[2] = pk
  OBVIOUS
<1>3. b \in MayPublish \/ c \in MayRemove
  OBVIOUS
<1> HIDE DEF a, b, c
<1>4. CASE b \in MayPublish
  BY <1>1, <1>2, <1>4, Zenon DEF OneThreadPerIdentity
<1>5. CASE c \in MayRemove
  BY <1>1, <1>2, <1>5, Zenon DEF OneThreadPerIdentity
<1> QED  BY <1>3, <1>4, <1>5

(* Thread t works for identity pk or for none, and no other publishes for  *)
(* it.                                                                     *)
Sole(t, pk) ==
    /\ job[t].op = "publish" => job[t].record.stable_pubkey = pk
    /\ \A u \in Threads : job[u].op = "publish" /\ job[u].record.stable_pubkey = pk => u = t

(* A step of t for pk, after which the job is j, leaves other identities   *)
(* alone ...                                                               *)
StepFor(t, pk, j) ==
    /\ job' = [job EXCEPT ![t] = j]
    /\ \A k \in Identities \ {pk} : Own(kps', k) = Own(kps, k)

(* ... and leaves j with a fair listing and pk within the limits.          *)
Settled(pk, j) ==
    /\ j.op = "publish" => /\ j.record.stable_pubkey = pk
                           /\ Evicting(Own(kps', pk), j) /\ Spares(Own(kps', pk), j)
    /\ PersistedWithin => Within(Own(kps', pk))

(* Then what QuotaInv says of the other identities stays as well. *)
LEMMA CallerStep ==
    ASSUME TypeOK, QuotaInv, NEW t \in Threads, NEW pk \in Identities, NEW j,
           Sole(t, pk), StepFor(t, pk, j), Settled(pk, j)
    PROVE  QuotaInv'
<1> USE DEF Sole, StepFor, Settled
<1>1. \A u \in Threads : job'[u] = IF u = t THEN j ELSE job[u]
  BY DEF TypeOK
<1>2. ASSUME NEW u \in Threads
      PROVE  JobFair(u)'
  <2>1. CASE u = t
    <3>1. job'[u] = j
      BY <1>1, <2>1
    <3> QED  BY <3>1 DEF JobFair
  <2>2. CASE u # t
    <3> DEFINE k == job[u].record.stable_pubkey
    <3>1. job'[u] = job[u]
      BY <1>1, <2>2
    <3> SUFFICES ASSUME job[u].op = "publish"
                 PROVE  Evicting(Own(kps', k), job[u]) /\ Spares(Own(kps', k), job[u])
      BY <3>1 DEF JobFair
    <3>2. k \in Identities \ {pk}
      BY <2>2, JobKinds, PublishParts
    <3>3. Own(kps', k) = Own(kps, k)
      BY <3>2
    <3>4. Evicting(Own(kps, k), job[u]) /\ Spares(Own(kps, k), job[u])
      BY DEF QuotaInv, JobFair
    <3> QED  BY <3>3, <3>4
  <2> QED  BY <2>1, <2>2
<1>3. ASSUME PersistedWithin, NEW k \in Identities
      PROVE  Within(Own(kps', k))
  <2>1. CASE k = pk
    BY <1>3, <2>1
  <2>2. CASE k # pk
    BY <1>3, <2>2 DEF QuotaInv
  <2> QED  BY <2>1, <2>2
<1>4. PersistedWithin => \A k \in Identities : Within(Own(kps', k))
  BY <1>3
<1> QED  BY <1>2, <1>4 DEF QuotaInv, PersistedWithin, Within, Own, LastResort

(* A subset keeps within the limits. *)
LEMMA WithinLess ==
    ASSUME NEW O, IsFiniteSet(O), Within(O), NEW P \in SUBSET O
    PROVE  Within(P)
<1>1. LastResort(O) \in SUBSET O /\ LastResort(P) \in SUBSET LastResort(O)
  BY DEF LastResort
<1>2. /\ IsFiniteSet(P) /\ IsFiniteSet(LastResort(O)) /\ IsFiniteSet(LastResort(P))
      /\ Cardinality(P) <= Cardinality(O)
      /\ Cardinality(LastResort(P)) <= Cardinality(LastResort(O))
  BY <1>1, FS_Subset
<1>3. /\ Cardinality(P) \in Nat /\ Cardinality(O) \in Nat
      /\ Cardinality(LastResort(P)) \in Nat /\ Cardinality(LastResort(O)) \in Nat
  BY <1>2, FS_CardinalityType
<1>4. MaxPerIdentity \in Nat /\ MaxLastResort \in Nat
  BY KeyPackagesAssumption
<1> QED  BY <1>2, <1>3, <1>4 DEF Within

(* A listing starts a request. *)
LEMMA QuotaList ==
    ASSUME OneThreadPerIdentity, HandInv, OwnerInv, QuotaInv,
           NEW t \in Threads, NEW pk, NEW ref, NEW lr, PublishList(t, pk, ref, lr)
    PROVE  QuotaInv'
<1> DEFINE j == ListJob(pk, ref, lr)
           O == Own(kps, pk)
<1>1. /\ TypeOK /\ j \in PublishJob /\ job[t] = Idle /\ <<t, pk, ref, lr>> \in MayPublish
      /\ job' = [job EXCEPT ![t] = j] /\ kps' = kps
  BY ListEffect DEF HandInv
<1>2. /\ j.op = "publish" /\ j.record.stable_pubkey = pk /\ j.record.is_last_resort = lr
      /\ j.evict = Displaced(O, lr) /\ j.exceeded = QuotaExceeded(O, lr)
  BY DEF ListJob
<1> HIDE DEF j
<1>3. pk \in Identities /\ lr \in BOOLEAN
  BY <1>1, KeyPackagesAssumption
<1>4. O \in SUBSET Record /\ IsFiniteSet(O) /\ Numerals(O)
  BY <1>1, OwnFinite, OwnNumerals
<1>5. PersistedWithin => Within(O)
  BY <1>3 DEF QuotaInv
<1>6. job[t].op # "publish"
  BY <1>1 DEF Idle
<1>7. Sole(t, pk)
  BY <1>1, <1>6, OnlyThread DEF Sole
<1> HIDE DEF O
<1>8. Evicting(O, j) /\ Spares(O, j)
  BY <1>2, <1>3, <1>4, <1>5, ListingFair DEF Spares
<1>10. StepFor(t, pk, j)
  BY <1>1 DEF StepFor, TypeOK
<1>11. Settled(pk, j)
  BY <1>1, <1>2, <1>5, <1>8 DEF Settled, O
<1> QED  BY <1>1, <1>3, <1>7, <1>10, <1>11, CallerStep

(* The eviction loop finds the very record it listed, the oldest one it    *)
(* has in hand, although it goes by reference.                             *)
LEMMA EvictsListed ==
    ASSUME OnePackagePerRef, HandInv, OwnerInv, QuotaInv, NEW t \in Threads,
           job[t].op = "publish", NEW r \in job[t].evict,
           \A q \in job[t].evict : r.serial <= q.serial
    PROVE  LET n == LocateByRef(kps, r.key_package_ref) IN n \in DOMAIN kps /\ kps[n] = r
<1> DEFINE n == LocateByRef(kps, r.key_package_ref)
           O == Own(kps, job[t].record.stable_pubkey)
<1>1. TypeOK /\ Numbered(kps, stored) /\ kps \in Seq(Record) /\ DOMAIN kps = 1 .. Len(kps)
      /\ Len(kps) \in Nat
  BY DEF HandInv, StoreInv, TypeOK
<1>2. /\ job[t].evict \subseteq LastResort(O)
      /\ \A e \in job[t].evict : \A q \in LastResort(O) : q.serial < e.serial => q \in job[t].evict
  BY DEF QuotaInv, JobFair, Evicting
<1>3. r \in ToSet(kps) /\ r.stable_pubkey = job[t].record.stable_pubkey /\ r.is_last_resort
  BY <1>2 DEF LastResort, Own
<1>4. PICK i \in DOMAIN kps : kps[i] = r
  BY <1>3 DEF ToSet
<1>5. n \in DOMAIN kps /\ n <= i /\ n # 0
  <2>1. 0 \notin DOMAIN kps
    BY <1>1
  <2> QED  BY <1>1, <1>4, <2>1, Located
<1>6. MayCome(r)
  BY DEF OwnerInv
<1>7. kps[n].stable_pubkey = r.stable_pubkey /\ kps[n].is_last_resort
  BY <1>3, <1>5, <1>6, LocatedOwn
<1> HIDE DEF n
<1>8. kps[n] \in LastResort(O)
  BY <1>3, <1>5, <1>7 DEF LastResort, Own, ToSet
<1>9. CASE n = i
  BY <1>4, <1>5, <1>9 DEF n
<1>10. CASE n # i
  <2>1. n < i
    BY <1>1, <1>5, <1>10
  <2>2. kps[n].serial < r.serial
    BY <1>1, <1>4, <1>5, <1>7, <2>1 DEF Numbered
  <2>3. kps[n] \in job[t].evict
    BY <1>2, <1>8, <2>2
  <2>4. r.serial <= kps[n].serial
    BY <2>3
  <2>5. kps[n].serial \in Nat /\ r.serial \in Nat
    BY <1>1, <1>4, <1>5, RecordFields
  <2> QED  BY <2>2, <2>4, <2>5
<1> QED  BY <1>9, <1>10

(* A publishing request is the only one for its identity. *)
LEMMA SolePublish ==
    ASSUME OneThreadPerIdentity, OwnerInv, NEW t \in Threads, job[t].op = "publish"
    PROVE  Sole(t, job[t].record.stable_pubkey)
<1>1. <<t, job[t].record.stable_pubkey, job[t].record.key_package_ref,
        job[t].record.is_last_resort>> \in MayPublish
  BY DEF OwnerInv
<1> QED  BY <1>1, OnlyThread DEF Sole

(* One removal of the eviction loop. *)
LEMMA QuotaEvict ==
    ASSUME OnePackagePerRef, OneThreadPerIdentity, HandInv, OwnerInv, QuotaInv,
           NEW t \in Threads, EvictNext(t)
    PROVE  QuotaInv'
<1> DEFINE pk == job[t].record.stable_pubkey
           O == Own(kps, pk)
<1>1. TypeOK /\ job[t] \in PublishJob /\ job[t].op = "publish"
  BY EvictEffect DEF HandInv, PublishJob
<1>2. PICK r \in job[t].evict :
        /\ \A q \in job[t].evict : r.serial <= q.serial
        /\ job' = [job EXCEPT ![t] = [job[t] EXCEPT !.evict = @ \ {r}]]
        /\ LET n == LocateByRef(kps, r.key_package_ref) IN (n = 0 /\ SameStore) \/ Drops(n)
  BY <1>1, EvictEffect
<1> DEFINE j == [job[t] EXCEPT !.evict = @ \ {r}]
           n == LocateByRef(kps, r.key_package_ref)
<1>3. n \in DOMAIN kps /\ kps[n] = r
  BY <1>1, <1>2, EvictsListed
<1>4. Drops(n)
  <2>1. 0 \notin DOMAIN kps
    BY <1>1 DEF TypeOK
  <2> QED  BY <1>2, <1>3, <2>1
<1>5. /\ j.op = "publish" /\ j.record = job[t].record /\ j.exceeded = job[t].exceeded
      /\ j.evict = job[t].evict \ {r}
  BY <1>1 DEF PublishJob
<1>6. pk \in Identities
  BY <1>1, PublishParts
<1>7. Evicting(O, job[t]) /\ Spares(O, job[t]) /\ (PersistedWithin => Within(O))
  BY <1>1, <1>6 DEF QuotaInv, JobFair
<1>8. r \in LastResort(O) /\ r.stable_pubkey = pk
  BY <1>7 DEF Evicting, LastResort, Own
<1>9. /\ \A k : k # pk => Own(kps', k) = Own(kps, k)
      /\ Own(kps', pk) = O \ {r}
  BY <1>3, <1>4, <1>8, OwnDropped
<1>10. IsFiniteSet(O)
  BY <1>1, OwnFinite
<1>11. StepFor(t, pk, j)
  BY <1>1, <1>2, <1>9 DEF StepFor, TypeOK
<1> HIDE DEF j, O, n
<1>12. LastResort(O \ {r}) = LastResort(O) \ {r}
  BY DEF LastResort
<1>13. /\ LastResort(O \ {r}) \ j.evict = LastResort(O) \ job[t].evict
       /\ (O \ {r}) \ j.evict = O \ job[t].evict
  BY <1>5, <1>12
<1>14. Evicting(O \ {r}, j)
  <2>1. /\ j.evict \subseteq LastResort(O \ {r})
        /\ \A e \in j.evict : \A q \in LastResort(O \ {r}) : q.serial < e.serial => q \in j.evict
    BY <1>5, <1>7, <1>12 DEF Evicting
  <2>2. ~ j.record.is_last_resort => j.evict = {}
    BY <1>5, <1>7 DEF Evicting
  <2>3. j.record.is_last_resort /\ MaxLastResort > 0
          => Cardinality(LastResort(O \ {r}) \ j.evict) < MaxLastResort
    BY <1>5, <1>7, <1>13 DEF Evicting
  <2>4. ~ j.exceeded /\ MaxPerIdentity > 0 /\ MaxLastResort > 0
          => Cardinality((O \ {r}) \ j.evict) < MaxPerIdentity
    BY <1>5, <1>7, <1>13 DEF Evicting
  <2> QED  BY <2>1, <2>2, <2>3, <2>4 DEF Evicting
<1>15. Spares(O \ {r}, j)
  BY <1>5, <1>7, <1>13 DEF Spares
<1>16. PersistedWithin => Within(O \ {r})
  BY <1>7, <1>10, WithinLess
<1>17. Settled(pk, j)
  BY <1>1, <1>5, <1>9, <1>14, <1>15, <1>16 DEF Settled
<1> QED  BY <1>1, <1>6, <1>11, <1>17, SolePublish, CallerStep

(* There is room for the record that an insert stores. *)
LEMMA InsertRoom ==
    ASSUME OneThreadPerIdentity, HandInv, OwnerInv, QuotaInv,
           NEW t \in Threads, PublishInsert(t)
    PROVE  LET pk == job[t].record.stable_pubkey
               lr == job[t].record.is_last_resort
               O == Own(kps, pk)
               P == Own(kps', pk)
           IN  /\ pk \in Identities /\ job' = [job EXCEPT ![t] = Idle]
               /\ job[t].op = "publish"
               /\ \A k : k # pk => Own(kps', k) = Own(kps, k)
               /\ LastResort(O) \subseteq LastResort(P)
               /\ ~ lr => LastResort(P) = LastResort(O)
               /\ MaxLastResort > 0 /\ MaxPerIdentity > 0 => Cardinality(P) <= MaxPerIdentity
               /\ MaxLastResort > 0 /\ lr => Cardinality(LastResort(P)) <= MaxLastResort
<1> DEFINE pk == job[t].record.stable_pubkey
           lr == job[t].record.is_last_resort
           O == Own(kps, pk)
           L == LastResort(O)
           x == Row(t)
<1>1. /\ TypeOK /\ job[t] \in PublishJob /\ job[t].op = "publish"
      /\ job[t].evict = {} /\ ~ job[t].exceeded
      /\ job' = [job EXCEPT ![t] = Idle]
  BY InsertEffect DEF HandInv, PublishInsert
<1>2. pk \in Identities /\ lr \in BOOLEAN
  BY <1>1, PublishParts
<1>3. x.stable_pubkey = pk /\ x.is_last_resort = lr
  BY <1>1, RowType
<1>4. /\ Own(kps', pk) = O \cup {x} /\ x \notin O
      /\ \A k : k # pk => Own(kps', k) = Own(kps, k)
  BY <1>3, OwnAdded DEF Own
<1>5. Evicting(O, job[t])
  BY <1>1, <1>2 DEF QuotaInv, JobFair
<1>6. IsFiniteSet(O) /\ L \in SUBSET O
  BY <1>1, OwnFinite DEF LastResort
<1>7. LastResort(O \cup {x}) = IF lr THEN L \cup {x} ELSE L
  BY <1>2, <1>3 DEF LastResort
<1>8. MaxPerIdentity \in Nat /\ MaxLastResort \in Nat
  BY KeyPackagesAssumption
<1>9. /\ lr /\ MaxLastResort > 0 => Cardinality(L) < MaxLastResort
      /\ MaxPerIdentity > 0 /\ MaxLastResort > 0 => Cardinality(O) < MaxPerIdentity
  <2>1. L \ {} = L /\ O \ {} = O
    OBVIOUS
  <2> QED  BY <1>1, <1>5, <2>1 DEF Evicting
<1> HIDE DEF L
<1>10. /\ Cardinality(O) \in Nat /\ Cardinality(L) \in Nat
       /\ Cardinality(O \cup {x}) = Cardinality(O) + 1
       /\ Cardinality(L \cup {x}) = Cardinality(L) + 1
  <2>1. x \notin L /\ IsFiniteSet(L)
    BY <1>4, <1>6, FS_Subset
  <2> QED  BY <1>4, <1>6, <2>1, FS_AddElement, FS_CardinalityType
<1> HIDE DEF O, lr
<1>11. MaxLastResort > 0 /\ MaxPerIdentity > 0 => Cardinality(O \cup {x}) <= MaxPerIdentity
  BY <1>8, <1>9, <1>10
<1>12. MaxLastResort > 0 /\ lr => Cardinality(LastResort(O \cup {x})) <= MaxLastResort
  <2> SUFFICES ASSUME MaxLastResort > 0, lr
               PROVE  Cardinality(LastResort(O \cup {x})) <= MaxLastResort
    OBVIOUS
  <2>1. LastResort(O \cup {x}) = L \cup {x} /\ Cardinality(L) < MaxLastResort
    BY <1>7, <1>9
  <2> QED  BY <1>8, <1>10, <2>1
<1>13. L \subseteq LastResort(O \cup {x}) /\ (~ lr => LastResort(O \cup {x}) = L)
  BY <1>7
<1> QED  BY <1>1, <1>2, <1>4, <1>11, <1>12, <1>13 DEF L, O, lr

(* The request ends with the record stored. *)
LEMMA QuotaInsert ==
    ASSUME OneThreadPerIdentity, HandInv, OwnerInv, QuotaInv,
           NEW t \in Threads, PublishInsert(t)
    PROVE  QuotaInv'
<1> DEFINE pk == job[t].record.stable_pubkey
           lr == job[t].record.is_last_resort
           O == Own(kps, pk)
           P == Own(kps', pk)
<1>1. /\ pk \in Identities /\ job' = [job EXCEPT ![t] = Idle] /\ job[t].op = "publish"
      /\ \A k : k # pk => Own(kps', k) = Own(kps, k)
      /\ ~ lr => LastResort(P) = LastResort(O)
      /\ MaxLastResort > 0 /\ MaxPerIdentity > 0 => Cardinality(P) <= MaxPerIdentity
      /\ MaxLastResort > 0 /\ lr => Cardinality(LastResort(P)) <= MaxLastResort
  BY InsertRoom
<1>2. StepFor(t, pk, Idle)
  BY <1>1 DEF StepFor
<1>3. PersistedWithin => Within(O)
  BY <1>1 DEF QuotaInv
<1>4. PersistedWithin => Within(P)
  BY <1>1, <1>3 DEF Within
<1>5. Settled(pk, Idle)
  BY <1>4 DEF Settled, Idle
<1>6. TypeOK /\ Sole(t, pk)
  BY <1>1, SolePublish DEF HandInv
<1> QED  BY <1>1, <1>2, <1>5, <1>6, CallerStep

(* A request is refused, or fails. *)
LEMMA QuotaFails ==
    ASSUME OneThreadPerIdentity, HandInv, OwnerInv, QuotaInv,
           NEW t \in Threads, PublishFails(t) \/ StorageFails(t)
    PROVE  QuotaInv'
<1>1. job' = [job EXCEPT ![t] = Idle] /\ kps' = kps /\ TypeOK
  BY DEF PublishFails, StorageFails, HandInv
<1>2. \A u \in Threads : job'[u] = job[u] \/ job'[u] = Idle
  BY <1>1 DEF TypeOK
<1>3. \A u \in Threads : JobFair(u)'
  <2> TAKE u \in Threads
  <2>1. CASE job'[u] = job[u]
    BY <1>1, <2>1 DEF QuotaInv, JobFair
  <2>2. CASE job'[u] = Idle
    BY <2>2 DEF JobFair, Idle
  <2> QED  BY <1>2, <2>1, <2>2
<1> QED  BY <1>1, <1>3 DEF QuotaInv, PersistedWithin, Within, Own, LastResort

(* A removing thread is the only one that works for its identity. *)
LEMMA SoleRemove ==
    ASSUME OneThreadPerIdentity, OwnerInv, NEW t \in Threads, NEW pk, NEW ref,
           <<t, pk, ref>> \in MayRemove, job[t].op # "publish"
    PROVE  Sole(t, pk) /\ \A u \in Threads :
                            ~ (job[u].op = "publish" /\ job[u].record.stable_pubkey = pk)
<1>1. \A u \in Threads : job[u].op = "publish" /\ job[u].record.stable_pubkey = pk => u = t
  BY OnlyThread
<1> QED  BY <1>1 DEF Sole

(* A removal request starts. *)
LEMMA QuotaRemoveGet ==
    ASSUME OneThreadPerIdentity, HandInv, OwnerInv, QuotaInv,
           NEW t \in Threads, NEW pk \in Identities, NEW ref \in Refs, RemoveGet(t, pk, ref)
    PROVE  QuotaInv'
<1> DEFINE j == [op |-> "remove", stable_pubkey |-> pk, ref |-> ref]
<1>1. /\ TypeOK /\ <<t, pk, ref>> \in MayRemove /\ job[t] = Idle
      /\ job' = [job EXCEPT ![t] = j] /\ kps' = kps
  BY DEF HandInv, RemoveGet
<1>2. job[t].op # "publish" /\ j.op # "publish"
  BY <1>1 DEF Idle
<1> HIDE DEF j
<1>3. /\ Sole(t, pk)
      /\ \A u \in Threads : ~ (job[u].op = "publish" /\ job[u].record.stable_pubkey = pk)
  BY <1>1, <1>2, SoleRemove
<1>4. StepFor(t, pk, j)
  BY <1>1 DEF StepFor, TypeOK
<1>5. PersistedWithin => Within(Own(kps, pk))
  BY DEF QuotaInv
<1>6. Settled(pk, j)
  BY <1>1, <1>2, <1>5 DEF Settled
<1> QED  BY <1>1, <1>3, <1>4, <1>6, CallerStep

(* The owner removes a package. *)
LEMMA QuotaRemove ==
    ASSUME OnePackagePerRef, OneThreadPerIdentity, HandInv, OwnerInv, QuotaInv,
           NEW t \in Threads, RemoveDo(t)
    PROVE  QuotaInv'
<1> DEFINE pk == job[t].stable_pubkey
           n == LocateByRef(kps, job[t].ref)
           O == Own(kps, pk)
<1>1. /\ TypeOK /\ job[t] \in RemoveJob /\ job[t].op = "remove"
      /\ (n = 0 /\ SameStore) \/ Drops(n)
      /\ job' = [job EXCEPT ![t] = Idle]
  BY RemoveEffect DEF HandInv, RemoveDo
<1>2. pk \in Identities /\ <<t, pk, job[t].ref>> \in MayRemove
  BY <1>1 DEF RemoveJob, OwnerInv
<1>3. /\ Sole(t, pk)
      /\ \A u \in Threads : ~ (job[u].op = "publish" /\ job[u].record.stable_pubkey = pk)
  BY <1>1, <1>2, SoleRemove
<1>4. (PersistedWithin => Within(O)) /\ IsFiniteSet(O)
  BY <1>1, <1>2, OwnFinite DEF QuotaInv
<1>5. /\ \A k : k # pk => Own(kps', k) = Own(kps, k)
      /\ Own(kps', pk) \subseteq O
  <2>1. CASE n = 0
    <3>1. 0 \notin DOMAIN kps
      BY <1>1 DEF TypeOK
    <3>2. SameStore
      BY <1>1, <2>1, <3>1 DEF Drops
    <3> QED  BY <3>2, OwnSame
  <2>2. CASE n # 0
    <3>1. Drops(n) /\ kps[n].stable_pubkey = pk
      BY <1>1, <2>2, RemovesOwn
    <3>2. /\ \A k : k # pk => Own(kps', k) = Own(kps, k)
          /\ Own(kps', pk) = O \ {kps[n]}
      BY <3>1, OwnDropped
    <3> QED  BY <3>2
  <2> QED  BY <2>1, <2>2
<1>6. StepFor(t, pk, Idle)
  BY <1>1, <1>5 DEF StepFor, TypeOK
<1> HIDE DEF O
<1>7. Settled(pk, Idle)
  BY <1>4, <1>5, WithinLess DEF Settled, Idle
<1> QED  BY <1>1, <1>2, <1>3, <1>6, <1>7, CallerStep

(* A consume takes at most a regular package. *)
LEMMA QuotaConsume ==
    ASSUME HandInv, QuotaInv, NEW identifier, ConsumeKeyPackage(identifier)
    PROVE  QuotaInv'
<1>1. PICK n \in DOMAIN kps :
        /\ IF kps[n].is_last_resort THEN SameStore ELSE Drops(n)
        /\ job' = job
  BY ConsumeEffect DEF HandInv
<1>2. \A pk : Own(kps', pk) \subseteq Own(kps, pk)
              /\ LastResort(Own(kps', pk)) = LastResort(Own(kps, pk))
  <2>1. CASE kps[n].is_last_resort
    BY <1>1, <2>1, OwnSame
  <2>2. CASE ~ kps[n].is_last_resort
    <3>1. \A pk : Own(kps', pk) = Own(kps, pk) \ {kps[n]}
      BY <1>1, <2>2, OwnDropped
    <3>2. \A S : LastResort(S \ {kps[n]}) = LastResort(S)
      BY <2>2 DEF LastResort
    <3> QED  BY <3>1, <3>2
  <2> QED  BY <2>1, <2>2
<1>3. TypeOK
  BY DEF HandInv
<1>4. ASSUME NEW t \in Threads
      PROVE  JobFair(t)'
  <2> DEFINE O == Own(kps, job[t].record.stable_pubkey)
             P == Own(kps', job[t].record.stable_pubkey)
             j == job[t]
  <2> SUFFICES ASSUME j.op = "publish"
               PROVE  Evicting(P, j) /\ Spares(P, j)
    BY <1>1 DEF JobFair
  <2>1. Evicting(O, j) /\ Spares(O, j)
    BY DEF QuotaInv, JobFair
  <2>2. P \in SUBSET O /\ LastResort(P) = LastResort(O) /\ IsFiniteSet(O)
    BY <1>2, <1>3, OwnFinite
  <2> HIDE DEF O, P, j
  <2>3. P \ j.evict \in SUBSET (O \ j.evict) /\ IsFiniteSet(O \ j.evict)
    BY <2>2, FS_Difference
  <2>4. /\ IsFiniteSet(P \ j.evict)
        /\ Cardinality(P \ j.evict) <= Cardinality(O \ j.evict)
    BY <2>3, FS_Subset
  <2>5. Cardinality(P \ j.evict) \in Nat /\ Cardinality(O \ j.evict) \in Nat
    BY <2>3, <2>4, FS_CardinalityType
  <2>6. MaxPerIdentity \in Nat
    BY KeyPackagesAssumption
  <2>7. ~ j.exceeded /\ MaxPerIdentity > 0 /\ MaxLastResort > 0
          => Cardinality(P \ j.evict) < MaxPerIdentity
    BY <2>1, <2>4, <2>5, <2>6 DEF Evicting
  <2>8. Evicting(P, j)
    BY <2>1, <2>2, <2>7 DEF Evicting
  <2> QED  BY <2>1, <2>2, <2>8 DEF Spares
<1>5. PersistedWithin => \A pk \in Identities : Within(Own(kps', pk))
  BY <1>2, <1>3, OwnFinite, WithinLess DEF QuotaInv
<1> QED  BY <1>4, <1>5 DEF QuotaInv, PersistedWithin, Within, Own, LastResort

(* Every step keeps the invariant. *)
LEMMA QuotaStep ==
    ASSUME OnePackagePerRef, OneThreadPerIdentity, HandInv, OwnerInv, QuotaInv, [Next]_vars
    PROVE  QuotaInv'
<1>1. CASE Next
  BY <1>1, QuotaList, QuotaEvict, QuotaFails, QuotaInsert, QuotaRemoveGet, QuotaRemove,
     QuotaConsume DEF Next
<1>2. CASE UNCHANGED vars
  <2>1. kps' = kps /\ job' = job
    BY <1>2 DEF vars
  <2> QED  BY <2>1 DEF QuotaInv, JobFair, PersistedWithin, Within, Own, LastResort
<1> QED  BY <1>1, <1>2

(* The invariant behind the quotas, for identities that send one request   *)
(* at a time.                                                              *)
THEOREM QuotaInvariant ==
    ASSUME OnePackagePerRef, OneThreadPerIdentity
    PROVE  Spec => []QuotaInv
<1>1. Init => QuotaInv
  <2> SUFFICES ASSUME Init PROVE QuotaInv
    OBVIOUS
  <2>1. \A t \in Threads : job[t].op # "publish"
    BY DEF Init, Idle
  <2>2. ASSUME PersistedWithin, NEW pk \in Identities
        PROVE  Within(Own(kps, pk))
    <3>1. CASE kps = <<>>
      <4>1. Own(kps, pk) = {} /\ LastResort({}) = {} /\ Cardinality({}) = 0
        BY <3>1, FS_EmptySet DEF Own, ToSet, LastResort
      <4>2. MaxPerIdentity \in Nat /\ MaxLastResort \in Nat
        BY KeyPackagesAssumption
      <4> QED  BY <4>1, <4>2 DEF Within
    <3>2. CASE kps \in Persisted
      BY <2>2, <3>2 DEF PersistedWithin
    <3> QED  BY <3>1, <3>2, InitStore
  <2> QED  BY <2>1, <2>2 DEF QuotaInv, JobFair
<1>2. HandInv /\ OwnerInv /\ QuotaInv /\ [Next]_vars => QuotaInv'
  BY QuotaStep
<1> QED  BY <1>1, <1>2, OwnerInvariant, PTL DEF Spec

(***************************************************************************)
(* What a step does to an identity's packages.                             *)
(***************************************************************************)
(* An eviction takes the record it listed, a removal one of its caller's,  *)
(* a consume a regular one, an insert adds one, and nothing else changes   *)
(* the store.                                                              *)
LEMMA StoreSteps ==
    ASSUME OnePackagePerRef, OneThreadPerIdentity, HandInv, OwnerInv, QuotaInv, Next
    PROVE  \/ SameStore
           \/ \E t \in Threads : PublishInsert(t)
           \/ \E n \in DOMAIN kps :
                /\ Drops(n)
                /\ \/ ~ kps[n].is_last_resort
                   \/ \E t \in Threads : /\ EvictNext(t) /\ job[t].op = "publish"
                                         /\ kps[n] \in job[t].evict
                   \/ \E t \in Threads : /\ job[t].op = "remove" /\ job'[t] = Idle
                                         /\ job[t].stable_pubkey = kps[n].stable_pubkey
<1>0. TypeOK /\ 0 \notin DOMAIN kps
  BY DEF HandInv, TypeOK
<1>1. ASSUME NEW t \in Threads, NEW pk, NEW ref, NEW lr, PublishList(t, pk, ref, lr)
      PROVE  SameStore
  BY <1>1 DEF PublishList, SameStore
<1>2. ASSUME NEW t \in Threads, EvictNext(t)
      PROVE  \E n \in DOMAIN kps : Drops(n) /\ job[t].op = "publish" /\ kps[n] \in job[t].evict
  <2>1. job[t].op = "publish"
    BY <1>2 DEF EvictNext
  <2>2. PICK r \in job[t].evict :
          /\ \A q \in job[t].evict : r.serial <= q.serial
          /\ LET n == LocateByRef(kps, r.key_package_ref) IN (n = 0 /\ SameStore) \/ Drops(n)
    BY <1>0, <1>2, EvictEffect
  <2> DEFINE n == LocateByRef(kps, r.key_package_ref)
  <2>3. n \in DOMAIN kps /\ kps[n] = r
    BY <2>1, <2>2, EvictsListed
  <2> QED  BY <1>0, <2>1, <2>2, <2>3
<1>3. ASSUME NEW t \in Threads, PublishFails(t) \/ StorageFails(t)
      PROVE  SameStore
  BY <1>3 DEF PublishFails, StorageFails, SameStore
<1>4. ASSUME NEW t \in Threads, NEW pk \in Identities, NEW ref \in Refs, RemoveGet(t, pk, ref)
      PROVE  SameStore
  BY <1>4 DEF RemoveGet, SameStore
<1>5. ASSUME NEW t \in Threads, RemoveDo(t)
      PROVE  \/ SameStore
             \/ \E n \in DOMAIN kps :
                  /\ Drops(n) /\ job[t].op = "remove" /\ job'[t] = Idle
                  /\ job[t].stable_pubkey = kps[n].stable_pubkey
  <2> DEFINE n == LocateByRef(kps, job[t].ref)
  <2>1. (n = 0 /\ SameStore) \/ Drops(n)
    BY <1>0, <1>5, RemoveEffect
  <2>2. job[t].op = "remove" /\ job'[t] = Idle
    BY <1>0, <1>5 DEF RemoveDo, TypeOK
  <2>3. CASE Drops(n)
    <3>1. n \in DOMAIN kps /\ n # 0
      BY <1>0, <2>3 DEF Drops
    <3>2. kps[n].stable_pubkey = job[t].stable_pubkey
      BY <1>5, <3>1, RemovesOwn
    <3> QED  BY <2>2, <2>3, <3>1, <3>2
  <2> QED  BY <2>1, <2>3
<1>6. ASSUME NEW identifier, ConsumeKeyPackage(identifier)
      PROVE  SameStore \/ \E n \in DOMAIN kps : Drops(n) /\ ~ kps[n].is_last_resort
  BY <1>0, <1>6, ConsumeEffect
<1> QED  BY <1>1, <1>2, <1>3, <1>4, <1>5, <1>6 DEF Next

(* A set that loses elements is finite and does not grow. *)
LEMMA NoGrowth ==
    ASSUME NEW limit, NEW O, IsFiniteSet(O), NEW P \in SUBSET O
    PROVE  GrowsWithin(limit, O, P)
<1>1. IsFiniteSet(P) /\ Cardinality(P) <= Cardinality(O)
  BY FS_Subset
<1>2. Cardinality(P) \in Nat /\ Cardinality(O) \in Nat
  BY <1>1, FS_CardinalityType
<1>3. ~ (Cardinality(P) > Cardinality(O))
  BY <1>1, <1>2
<1> QED  BY <1>3 DEF GrowsWithin

(* No step takes an identity over a limit, also between the listing, the   *)
(* evictions and the insert of one request, with any number of other       *)
(* identities' requests, consumers and storage failures in between, and    *)
(* on a file that was left over the limits.                                *)
THEOREM QuotaHolds ==
    ASSUME OnePackagePerRef, OneThreadPerIdentity, MaxLastResort > 0
    PROVE  Spec => QuotaRespected
<1> DEFINE A == \A pk \in Identities :
                  /\ GrowsWithin(MaxPerIdentity, Own(kps, pk), Own(kps', pk))
                  /\ GrowsWithin(MaxLastResort, LastResort(Own(kps, pk)), LastResort(Own(kps', pk)))
<1>1. ASSUME HandInv, OwnerInv, QuotaInv, Next
      PROVE  A
  <2> SUFFICES ASSUME NEW pk \in Identities
               PROVE  /\ GrowsWithin(MaxPerIdentity, Own(kps, pk), Own(kps', pk))
                      /\ GrowsWithin(MaxLastResort, LastResort(Own(kps, pk)),
                                     LastResort(Own(kps', pk)))
    OBVIOUS
  <2>1. IsFiniteSet(Own(kps, pk)) /\ IsFiniteSet(LastResort(Own(kps, pk)))
    <3>1. IsFiniteSet(Own(kps, pk)) /\ LastResort(Own(kps, pk)) \in SUBSET Own(kps, pk)
      BY <1>1, OwnFinite DEF HandInv, LastResort
    <3> QED  BY <3>1, FS_Subset
  <2>2. ASSUME Own(kps', pk) \subseteq Own(kps, pk)
        PROVE  /\ GrowsWithin(MaxPerIdentity, Own(kps, pk), Own(kps', pk))
               /\ GrowsWithin(MaxLastResort, LastResort(Own(kps, pk)),
                              LastResort(Own(kps', pk)))
    <3>1. LastResort(Own(kps', pk)) \in SUBSET LastResort(Own(kps, pk))
      BY <2>2 DEF LastResort
    <3> QED  BY <2>1, <2>2, <3>1, NoGrowth
  <2>3. CASE SameStore
    BY <2>2, <2>3, OwnSame
  <2>4. ASSUME NEW n \in DOMAIN kps, Drops(n)
        PROVE  Own(kps', pk) \subseteq Own(kps, pk)
    BY <1>1, <2>4, OwnDropped
  <2>5. ASSUME NEW t \in Threads, PublishInsert(t)
        PROVE  /\ GrowsWithin(MaxPerIdentity, Own(kps, pk), Own(kps', pk))
               /\ GrowsWithin(MaxLastResort, LastResort(Own(kps, pk)),
                              LastResort(Own(kps', pk)))
    <3> DEFINE k == job[t].record.stable_pubkey
               lr == job[t].record.is_last_resort
    <3>1. /\ pk # k => Own(kps', pk) = Own(kps, pk)
          /\ ~ lr => LastResort(Own(kps', k)) = LastResort(Own(kps, k))
          /\ MaxPerIdentity > 0 => Cardinality(Own(kps', k)) <= MaxPerIdentity
          /\ lr => Cardinality(LastResort(Own(kps', k))) <= MaxLastResort
      BY <1>1, <2>5, InsertRoom
    <3>2. CASE pk # k
      BY <2>2, <3>1, <3>2
    <3>3. CASE pk = k
      <4>1. GrowsWithin(MaxPerIdentity, Own(kps, pk), Own(kps', pk))
        BY <3>1, <3>3 DEF GrowsWithin
      <4>2. CASE lr
        BY <3>1, <3>3, <4>1, <4>2 DEF GrowsWithin
      <4>3. CASE ~ lr
        BY <2>1, <3>1, <3>3, <4>1, <4>3, NoGrowth
      <4> QED  BY <4>2, <4>3
    <3> QED  BY <3>2, <3>3
  <2> QED  BY <1>1, <2>2, <2>3, <2>4, <2>5, StoreSteps
<1>2. HandInv /\ OwnerInv /\ QuotaInv /\ [Next]_vars => [A]_vars
  BY <1>1
<1> QED  BY <1>2, OwnerInvariant, QuotaInvariant, PTL DEF Spec, QuotaRespected

(* Under any limit but one, an identity that has a last-resort package has *)
(* one until it removes it itself: whatever a file held at the start,      *)
(* whichever requests are refused after they displaced something, and      *)
(* wherever storage fails.                                                 *)
THEOREM LastResortStays ==
    ASSUME OnePackagePerRef, OneThreadPerIdentity, MaxLastResort # 1
    PROVE  Spec => LastResortKept
<1> DEFINE A == \A pk \in Identities :
                  LastResort(Own(kps, pk)) # {} /\ LastResort(Own(kps', pk)) = {}
                    => \E t \in Threads : /\ job[t].op = "remove" /\ job[t].stable_pubkey = pk
                                          /\ job'[t] = Idle
<1>1. ASSUME HandInv, OwnerInv, QuotaInv, Next
      PROVE  A
  <2> SUFFICES ASSUME NEW pk \in Identities, LastResort(Own(kps, pk)) # {},
                      LastResort(Own(kps', pk)) = {}
               PROVE  \E t \in Threads : /\ job[t].op = "remove" /\ job[t].stable_pubkey = pk
                                         /\ job'[t] = Idle
    OBVIOUS
  <2>1. ~ SameStore
    BY OwnSame
  <2>2. ASSUME NEW t \in Threads, PublishInsert(t)
        PROVE  FALSE
    <3> DEFINE k == job[t].record.stable_pubkey
    <3>1. /\ pk # k => Own(kps', pk) = Own(kps, pk)
          /\ LastResort(Own(kps, k)) \subseteq LastResort(Own(kps', k))
      BY <1>1, <2>2, InsertRoom
    <3> QED  BY <3>1
  <2>3. PICK n \in DOMAIN kps :
          /\ Drops(n)
          /\ \/ ~ kps[n].is_last_resort
             \/ \E t \in Threads : /\ EvictNext(t) /\ job[t].op = "publish"
                                   /\ kps[n] \in job[t].evict
             \/ \E t \in Threads : /\ job[t].op = "remove" /\ job'[t] = Idle
                                   /\ job[t].stable_pubkey = kps[n].stable_pubkey
    BY <1>1, <2>1, <2>2, StoreSteps
  <2>4. /\ kps[n] \in ToSet(kps)
        /\ Own(kps', pk) = Own(kps, pk) \ {kps[n]}
        /\ pk # kps[n].stable_pubkey => Own(kps', pk) = Own(kps, pk)
    BY <1>1, <2>3, OwnDropped
  <2>5. pk = kps[n].stable_pubkey
    BY <2>4
  <2>6. LastResort(Own(kps', pk)) = LastResort(Own(kps, pk)) \ {kps[n]}
    BY <2>4 DEF LastResort
  <2>7. kps[n].is_last_resort
    BY <2>6 DEF LastResort
  <2>8. ASSUME NEW t \in Threads, job[t].op = "publish", kps[n] \in job[t].evict
        PROVE  FALSE
    <3>1. job[t].record.stable_pubkey = pk
      BY <1>1, <2>5, <2>8 DEF OwnerInv
    <3>2. Spares(Own(kps, pk), job[t])
      BY <1>1, <2>8, <3>1 DEF QuotaInv, JobFair
    <3>3. LastResort(Own(kps, pk)) \ job[t].evict # {}
      BY <2>8, <3>2 DEF Spares
    <3> QED  BY <2>6, <2>8, <3>3
  <2> QED  BY <2>3, <2>5, <2>7, <2>8
<1>2. HandInv /\ OwnerInv /\ QuotaInv /\ [Next]_vars => [A]_vars
  BY <1>1
<1> QED  BY <1>2, OwnerInvariant, QuotaInvariant, PTL DEF Spec, LastResortKept

(* For any requests, on any file: a publish of an identity within its      *)
(* limits either displaces nothing or is not refused by the quota.         *)
THEOREM RoomIsMade == Spec => EvictsToMakeRoom
<1> DEFINE A == \A t \in Threads :
                  WillBeRefused(t) /\ Within(Own(kps, job'[t].record.stable_pubkey))
                    => job'[t].evict = {}
<1>1. ASSUME HandInv, [Next]_vars
      PROVE  A
  <2> SUFFICES ASSUME NEW u \in Threads, job[u] = Idle, job'[u].op = "publish",
                      job'[u].exceeded, Within(Own(kps, job'[u].record.stable_pubkey))
               PROVE  job'[u].evict = {}
    BY DEF WillBeRefused
  <2>0. TypeOK
    BY <1>1 DEF HandInv
  <2>1. job'[u] # job[u]
    BY DEF Idle
  <2>2. ASSUME NEW t \in Threads, NEW pk, NEW ref, NEW lr, PublishList(t, pk, ref, lr)
        PROVE  job'[u].evict = {}
    <3> DEFINE j == ListJob(pk, ref, lr)
               O == Own(kps, pk)
    <3>1. j \in PublishJob /\ <<t, pk, ref, lr>> \in MayPublish /\ job' = [job EXCEPT ![t] = j]
      BY <2>0, <2>2, ListEffect
    <3>2. /\ j.record.stable_pubkey = pk /\ j.record.is_last_resort = lr
          /\ j.evict = Displaced(O, lr) /\ j.exceeded = QuotaExceeded(O, lr)
      BY DEF ListJob
    <3> HIDE DEF j
    <3>3. t = u /\ job'[u] = j
      BY <2>0, <2>1, <3>1 DEF TypeOK
    <3>4. pk \in Identities /\ lr \in BOOLEAN
      BY <3>1, KeyPackagesAssumption
    <3>5. O \in SUBSET Record /\ IsFiniteSet(O) /\ Numerals(O)
      BY <1>1, OwnFinite, OwnNumerals DEF HandInv
    <3>6. Within(O)
      BY <3>2, <3>3
    <3> HIDE DEF O
    <3>7. Within(O) /\ j.exceeded => j.evict = {}
      <4>1. /\ j.record.is_last_resort \in BOOLEAN
            /\ j.evict = Displaced(O, j.record.is_last_resort)
            /\ j.exceeded = QuotaExceeded(O, j.record.is_last_resort)
        BY <3>2, <3>4
      <4>2. /\ Evicting(O, j)
            /\ Within(O) /\ j.exceeded => j.evict = {}
            /\ MaxLastResort # 1 /\ j.evict # {} => LastResort(O) \ j.evict # {}
        BY ONLY <3>5, <4>1, ListingFair
      <4> QED  BY <4>2
    <3> QED  BY <3>3, <3>6, <3>7
  <2>3. ASSUME NEW t \in Threads, EvictNext(t)
        PROVE  FALSE
    <3>1. job[t].op = "publish" /\ \E j : job' = [job EXCEPT ![t] = j]
      BY <2>0, <2>3, EvictEffect DEF EvictNext
    <3>2. t = u
      BY <2>0, <2>1, <3>1 DEF TypeOK
    <3> QED  BY <3>1, <3>2 DEF Idle
  <2>4. ASSUME NEW t \in Threads, job' = [job EXCEPT ![t] = Idle]
        PROVE  FALSE
    BY <2>0, <2>1, <2>4 DEF TypeOK
  <2>5. ASSUME NEW t \in Threads, NEW pk, NEW ref, RemoveGet(t, pk, ref)
        PROVE  FALSE
    <3> DEFINE j == [op |-> "remove", stable_pubkey |-> pk, ref |-> ref]
    <3>1. job' = [job EXCEPT ![t] = j] /\ j.op = "remove"
      BY <2>5 DEF RemoveGet
    <3> HIDE DEF j
    <3> QED  BY <2>0, <2>1, <3>1 DEF TypeOK
  <2>6. ASSUME NEW identifier, ConsumeKeyPackage(identifier)
        PROVE  FALSE
    BY <2>1, <2>6 DEF ConsumeKeyPackage
  <2>7. ASSUME UNCHANGED vars
        PROVE  FALSE
    BY <2>1, <2>7 DEF vars
  <2> QED  BY <1>1, <2>2, <2>3, <2>4, <2>5, <2>6, <2>7
           DEF Next, PublishFails, StorageFails, PublishInsert, RemoveDo
<1>2. HandInv /\ [Next]_vars => [A]_vars
  BY <1>1
<1> QED  BY <1>2, HandInvariant, PTL DEF Spec, EvictsToMakeRoom

(* Where no file was over the limits at the start, no identity ever is.    *)
THEOREM LimitsHold ==
    ASSUME OnePackagePerRef, OneThreadPerIdentity, PersistedWithin
    PROVE  Spec => [](\A pk \in Identities : Within(Own(kps, pk)))
<1>1. QuotaInv => \A pk \in Identities : Within(Own(kps, pk))
  BY DEF QuotaInv
<1> QED  BY <1>1, QuotaInvariant, PTL
=============================================================================
