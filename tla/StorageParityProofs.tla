------------------------- MODULE StorageParityProofs -------------------------
(***************************************************************************)
(* Proofs about StorageParity: as long as no stored reference is published *)
(* again, the two backends give the same answers and keep the same records *)
(* in the same order, for any identities, references and operations.       *)
(***************************************************************************)
EXTENDS StorageParity, FiniteSetTheorems, WellFoundedInduction, TLAPS

(***************************************************************************)
(* The inductive invariant                                                 *)
(***************************************************************************)
UniqueRefs(kps) ==
    \A i, j \in DOMAIN kps : kps[i].key_package_ref = kps[j].key_package_ref => i = j

(* Every record of the one is in the other. *)
Covers(b, a) == \A i \in DOMAIN a : \E k \in DOMAIN b : b[k] = a[i]

(* An identity's records are in the same order in both. *)
InOrder(a, b) ==
    \A i, j \in DOMAIN a, k, l \in DOMAIN b :
      a[i] = b[k] /\ a[j] = b[l] /\ a[i].stable_pubkey = a[j].stable_pubkey
        => (i < j <=> k < l)

Alike(a, b) ==
    /\ a \in Seq(Record) /\ b \in Seq(Record)
    /\ UniqueRefs(a) /\ UniqueRefs(b)
    /\ Covers(b, a) /\ Covers(a, b)
    /\ InOrder(a, b)

ParityInv == Alike(memory, sqlite) /\ SameReplies

-----------------------------------------------------------------------------
(* A set of numbers has a least one. *)
LEMMA LeastNumber ==
    ASSUME NEW I \in SUBSET Nat, I # {}
    PROVE  \E n \in I : \A m \in I : n <= m
<1>1. PICK n \in I : \A m \in I : ~ (<<m, n>> \in OpToRel(<, Nat))
  BY WFMin, NatLessThanWellFounded
<1>2. \A m \in I : ~ (m < n)
  BY <1>1 DEF OpToRel
<1> QED
  BY <1>2

(* A bounded set of numbers has a greatest one. *)
LEMMA GreatestNumber ==
    ASSUME NEW b \in Nat, NEW I \in SUBSET (0 .. b), I # {}
    PROVE  \E n \in I : \A m \in I : m <= n
<1> DEFINE J == {k \in 0 .. b : b - k \in I}
<1>1. J \in SUBSET Nat
  OBVIOUS
<1>2. PICK i \in I : TRUE
  OBVIOUS
<1>3. b - (b - i) = i /\ b - i \in 0 .. b
  OBVIOUS
<1>4. b - i \in J
  BY <1>3
<1>5. PICK k \in J : \A l \in J : k <= l
  <2> HIDE DEF J
  <2> QED  BY <1>1, <1>4, LeastNumber
<1>6. b - k \in I
  OBVIOUS
<1>7. \A m \in I : m <= b - k
  <2> TAKE m \in I
  <2>1. b - (b - m) = m /\ b - m \in 0 .. b
    OBVIOUS
  <2>2. b - m \in J
    BY <2>1
  <2>3. k <= b - m
    BY <2>2, <1>5
  <2> QED  BY <2>3, <1>5
<1> QED  BY <1>6, <1>7

(* SelectInSeq takes the least place. *)
LEMMA MinOf ==
    ASSUME NEW I \in SUBSET Nat, I # {}
    PROVE  Min(I) \in I /\ \A m \in I : Min(I) <= m
BY LeastNumber, Zenon DEF Min

(* SelectLastInSeq takes the greatest place. *)
LEMMA MaxOf ==
    ASSUME NEW b \in Nat, NEW I \in SUBSET (0 .. b), I # {}
    PROVE  Max(I) \in I /\ \A m \in I : m <= Max(I)
<1>1. \E n \in I : \A m \in I : m <= n
  BY GreatestNumber
<1>2. \E n \in I : \A m \in I : n >= m
  BY <1>1
<1>3. Max(I) \in I /\ \A m \in I : Max(I) >= m
  BY <1>2, Zenon DEF Max
<1> QED  BY <1>3

(* LocateByRef finds the first record with the reference, if there is one. *)
LEMMA Located ==
    ASSUME NEW s \in Seq(Record), NEW ref
    PROVE  LET n == LocateByRef(s, ref) IN
           \/ n = 0 /\ \A i \in DOMAIN s : s[i].key_package_ref # ref
           \/ /\ n \in DOMAIN s /\ s[n].key_package_ref = ref
              /\ \A i \in DOMAIN s : s[i].key_package_ref = ref => n <= i
<1> DEFINE I == {i \in 1 .. Len(s) : s[i].key_package_ref = ref}
<1>1. DOMAIN s = 1 .. Len(s) /\ I \in SUBSET Nat
  OBVIOUS
<1>2. LocateByRef(s, ref) = IF I # {} THEN Min(I) ELSE 0
  BY DEF LocateByRef, SelectInSeq
<1>3. I # {} => Min(I) \in I /\ \A m \in I : Min(I) <= m
  <2> HIDE DEF I
  <2> QED  BY <1>1, MinOf
<1> QED  BY <1>1, <1>2, <1>3

LEMMA FirstRegularPlace ==
    ASSUME NEW s \in Seq(Record), NEW pk
    PROVE  LET n == FirstRegular(s, pk) IN
           \/ n = 0 /\ \A i \in DOMAIN s : s[i].stable_pubkey = pk => s[i].is_last_resort
           \/ /\ n \in DOMAIN s /\ s[n].stable_pubkey = pk /\ ~ s[n].is_last_resort
              /\ \A i \in DOMAIN s : s[i].stable_pubkey = pk /\ ~ s[i].is_last_resort => n <= i
<1> DEFINE I == {i \in 1 .. Len(s) : s[i].stable_pubkey = pk /\ ~ s[i].is_last_resort}
<1>1. DOMAIN s = 1 .. Len(s) /\ I \in SUBSET Nat
  OBVIOUS
<1>2. FirstRegular(s, pk) = IF I # {} THEN Min(I) ELSE 0
  BY DEF FirstRegular, SelectInSeq
<1>3. I # {} => Min(I) \in I /\ \A m \in I : Min(I) <= m
  <2> HIDE DEF I
  <2> QED  BY <1>1, MinOf
<1> QED  BY <1>1, <1>2, <1>3

(* LastOwn finds the last of an identity's records, if there is one. *)
LEMMA LastOwnPlace ==
    ASSUME NEW s \in Seq(Record), NEW pk
    PROVE  LET n == LastOwn(s, pk) IN
           \/ n = 0 /\ \A i \in DOMAIN s : s[i].stable_pubkey # pk
           \/ /\ n \in DOMAIN s /\ s[n].stable_pubkey = pk
              /\ \A i \in DOMAIN s : s[i].stable_pubkey = pk => i <= n
<1> DEFINE I == {i \in 1 .. Len(s) : s[i].stable_pubkey = pk}
<1>1. DOMAIN s = 1 .. Len(s) /\ Len(s) \in Nat /\ I \in SUBSET (0 .. Len(s))
  OBVIOUS
<1>2. LastOwn(s, pk) = IF I # {} THEN Max(I) ELSE 0
  BY DEF LastOwn, SelectLastInSeq
<1>3. I # {} => Max(I) \in I /\ \A m \in I : m <= Max(I)
  <2> HIDE DEF I
  <2> QED  BY <1>1, MaxOf
<1> QED  BY <1>1, <1>2, <1>3

(* What concatenation does, place by place. *)
LEMMA Concat ==
    ASSUME NEW s \in Seq(Record), NEW t \in Seq(Record)
    PROVE  /\ s \o t \in Seq(Record)
           /\ Len(s \o t) = Len(s) + Len(t)
           /\ \A i \in 1 .. Len(s) : (s \o t)[i] = s[i]
           /\ \A i \in (Len(s) + 1) .. (Len(s) + Len(t)) : (s \o t)[i] = t[i - Len(s)]
<1>1. Len(s) \in Nat /\ Len(t) \in Nat
  OBVIOUS
<1>2. \A i \in 1 .. Len(s) : (s \o t)[i] = s[i]
  BY <1>1
<1>3. \A i \in (Len(s) + 1) .. (Len(s) + Len(t)) : (s \o t)[i] = t[i - Len(s)]
  BY <1>1
<1> QED  BY <1>1, <1>2, <1>3

(* What SubSeq keeps, place by place. *)
LEMMA Part ==
    ASSUME NEW s \in Seq(Record), NEW a \in 1 .. (Len(s) + 1), NEW b \in (a - 1) .. Len(s)
    PROVE  /\ SubSeq(s, a, b) \in Seq(Record)
           /\ Len(SubSeq(s, a, b)) = b - a + 1
           /\ \A i \in 1 .. (b - a + 1) : SubSeq(s, a, b)[i] = s[a + i - 1]
<1>1. Len(s) \in Nat
  OBVIOUS
<1> QED  BY <1>1

(* The store without the record at a place. *)
LEMMA RemoveAtShape ==
    ASSUME NEW s \in Seq(Record), NEW n \in DOMAIN s
    PROVE  /\ RemoveAt(s, n) \in Seq(Record)
           /\ Len(RemoveAt(s, n)) = Len(s) - 1
           /\ DOMAIN RemoveAt(s, n) = 1 .. (Len(s) - 1)
           /\ \A i \in 1 .. (Len(s) - 1) :
                RemoveAt(s, n)[i] = IF i < n THEN s[i] ELSE s[i + 1]
<1>1. n \in 1 .. Len(s) /\ Len(s) \in Nat
  OBVIOUS
<1> DEFINE u == SubSeq(s, 1, n - 1)
           v == SubSeq(s, n + 1, Len(s))
<1>2. /\ u \in Seq(Record) /\ Len(u) = n - 1
      /\ \A i \in 1 .. (n - 1) : u[i] = s[i]
  <2>1. /\ 1 \in 1 .. (Len(s) + 1) /\ n - 1 \in (1 - 1) .. Len(s)
        /\ (n - 1) - 1 + 1 = n - 1 /\ \A i \in 1 .. (n - 1) : 1 + i - 1 = i
    BY <1>1
  <2> QED  BY <2>1, Part
<1>3. /\ v \in Seq(Record) /\ Len(v) = Len(s) - n
      /\ \A i \in 1 .. (Len(s) - n) : v[i] = s[n + i]
  <2>1. /\ n + 1 \in 1 .. (Len(s) + 1) /\ Len(s) \in ((n + 1) - 1) .. Len(s)
        /\ Len(s) - (n + 1) + 1 = Len(s) - n
        /\ \A i \in 1 .. (Len(s) - n) : (n + 1) + i - 1 = n + i
    BY <1>1
  <2> QED  BY <2>1, Part
<1>4. RemoveAt(s, n) = u \o v
  BY DEF RemoveAt
<1> HIDE DEF u, v
<1>5. u \o v \in Seq(Record) /\ Len(u \o v) = Len(s) - 1
  BY <1>1, <1>2, <1>3, Concat
<1>6. ASSUME NEW i \in 1 .. (Len(s) - 1)
      PROVE  (u \o v)[i] = IF i < n THEN s[i] ELSE s[i + 1]
  <2>1. CASE i < n
    <3>1. i \in 1 .. (n - 1)
      BY <1>1, <2>1
    <3> QED  BY <1>2, <1>3, <2>1, <3>1, Concat
  <2>2. CASE ~ (i < n)
    <3>1. /\ i \in (Len(u) + 1) .. (Len(u) + Len(v))
          /\ i - Len(u) \in 1 .. (Len(s) - n) /\ n + (i - Len(u)) = i + 1
      BY <1>1, <1>2, <1>3, <2>2
    <3>2. (u \o v)[i] = v[i - Len(u)]
      BY <1>2, <1>3, <3>1, Concat
    <3>3. v[i - Len(u)] = s[i + 1]
      BY <1>3, <3>1
    <3> QED  BY <2>2, <3>2, <3>3
  <2> QED  BY <2>1, <2>2
<1>7. DOMAIN (u \o v) = 1 .. (Len(s) - 1)
  BY <1>5
<1> QED  BY <1>4, <1>5, <1>6, <1>7

(* p is s with a new record, after all of its identity's. *)
Placed(p, s, row) ==
    /\ p \in Seq(Record)
    /\ Len(p) = Len(s) + 1
    /\ DOMAIN p = 1 .. (Len(s) + 1)
    /\ \E m \in 1 .. (Len(s) + 1) :
         /\ \A i \in m .. Len(s) : s[i].stable_pubkey # row.stable_pubkey
         /\ \A i \in 1 .. (Len(s) + 1) :
              p[i] = IF i < m THEN s[i] ELSE IF i = m THEN row ELSE s[i - 1]

(* That is what publish_key_package makes of the store. *)
LEMMA PublishedShape ==
    ASSUME NEW b, NEW s \in Seq(Record), NEW row \in Record
    PROVE  Placed(Published(b, s, row), s, row)
<1> DEFINE own == LastOwn(s, row.stable_pubkey)
<1>1. DOMAIN s = 1 .. Len(s) /\ Len(s) \in Nat
  OBVIOUS
<1>2. CASE b = "memory" /\ own # 0
  <2>1. own \in 1 .. Len(s) /\ \A i \in DOMAIN s : s[i].stable_pubkey = row.stable_pubkey => i <= own
    BY <1>1, <1>2, LastOwnPlace
  <2>2. Published(b, s, row) = InsertAt(s, own + 1, row)
    BY <1>2 DEF Published
  <2> HIDE DEF own
  <2> DEFINE u == SubSeq(s, 1, own)
             v == SubSeq(s, own + 1, Len(s))
             w == u \o <<row>>
  <2>3. /\ u \in Seq(Record) /\ Len(u) = own
        /\ \A i \in 1 .. own : u[i] = s[i]
    <3>1. /\ 1 \in 1 .. (Len(s) + 1) /\ own \in (1 - 1) .. Len(s)
          /\ own - 1 + 1 = own /\ \A i \in 1 .. own : 1 + i - 1 = i
      BY <1>1, <2>1
    <3> QED  BY <3>1, Part
  <2>4. /\ v \in Seq(Record) /\ Len(v) = Len(s) - own
        /\ \A i \in 1 .. (Len(s) - own) : v[i] = s[own + i]
    <3>1. /\ own + 1 \in 1 .. (Len(s) + 1) /\ Len(s) \in ((own + 1) - 1) .. Len(s)
          /\ Len(s) - (own + 1) + 1 = Len(s) - own
          /\ \A i \in 1 .. (Len(s) - own) : (own + 1) + i - 1 = own + i
      BY <1>1, <2>1
    <3> QED  BY <3>1, Part
  <2>5. InsertAt(s, own + 1, row) = w \o v
    <3>1. (own + 1) - 1 = own
      BY <2>1
    <3> QED  BY <3>1 DEF InsertAt
  <2> HIDE DEF u, v
  <2>8. /\ w \in Seq(Record) /\ Len(w) = own + 1
        /\ \A i \in 1 .. own : w[i] = s[i]
        /\ w[own + 1] = row
    <3>1. <<row>> \in Seq(Record) /\ Len(<<row>>) = 1 /\ <<row>>[1] = row
      OBVIOUS
    <3>2. /\ own + 1 \in (Len(u) + 1) .. (Len(u) + 1) /\ (own + 1) - Len(u) = 1
          /\ own \in Nat
      BY <2>1, <2>3
    <3>3. /\ w \in Seq(Record) /\ Len(w) = Len(u) + Len(<<row>>)
          /\ \A i \in 1 .. Len(u) : w[i] = u[i]
          /\ \A i \in (Len(u) + 1) .. (Len(u) + Len(<<row>>)) : w[i] = <<row>>[i - Len(u)]
      BY <2>3, <3>1, Concat
    <3>4. w[own + 1] = row
      BY <3>1, <3>2, <3>3
    <3> QED  BY <2>3, <3>1, <3>3, <3>4
  <2> HIDE DEF w
  <2>9. /\ w \o v \in Seq(Record) /\ Len(w \o v) = Len(s) + 1
    <3>1. w \o v \in Seq(Record) /\ Len(w \o v) = Len(w) + Len(v)
      BY <2>4, <2>8, Concat
    <3>2. (own + 1) + (Len(s) - own) = Len(s) + 1
      BY <1>1, <2>1
    <3> QED  BY <2>4, <2>8, <3>1, <3>2
  <2>10. ASSUME NEW i \in 1 .. (Len(s) + 1)
         PROVE  (w \o v)[i] = IF i < own + 1 THEN s[i]
                              ELSE IF i = own + 1 THEN row ELSE s[i - 1]
    <3>1. CASE i <= own + 1
      <4>1. i \in 1 .. Len(w) /\ (i < own + 1 => i \in 1 .. own) /\ (~ (i < own + 1) => i = own + 1)
        BY <1>1, <2>1, <2>8, <3>1
      <4>2. (w \o v)[i] = w[i]
        BY <2>4, <2>8, <4>1, Concat
      <4> QED  BY <2>8, <4>1, <4>2
    <3>2. CASE ~ (i <= own + 1)
      <4>1. /\ i \in (Len(w) + 1) .. (Len(w) + Len(v))
            /\ i - Len(w) \in 1 .. (Len(s) - own) /\ own + (i - Len(w)) = i - 1
            /\ ~ (i < own + 1) /\ i # own + 1
        BY <1>1, <2>1, <2>4, <2>8, <3>2
      <4>2. (w \o v)[i] = v[i - Len(w)]
        BY <2>4, <2>8, <4>1, Concat
      <4>3. v[i - Len(w)] = s[i - 1]
        BY <2>4, <4>1
      <4> QED  BY <4>1, <4>2, <4>3
    <3> QED  BY <3>1, <3>2
  <2>6. /\ InsertAt(s, own + 1, row) \in Seq(Record)
        /\ Len(InsertAt(s, own + 1, row)) = Len(s) + 1
        /\ DOMAIN InsertAt(s, own + 1, row) = 1 .. (Len(s) + 1)
        /\ \A i \in 1 .. (Len(s) + 1) :
             InsertAt(s, own + 1, row)[i] =
               IF i < own + 1 THEN s[i] ELSE IF i = own + 1 THEN row ELSE s[i - 1]
    <3>1. DOMAIN (w \o v) = 1 .. (Len(s) + 1)
      BY <2>9
    <3>2. \A i \in 1 .. (Len(s) + 1) :
            (w \o v)[i] = IF i < own + 1 THEN s[i]
                          ELSE IF i = own + 1 THEN row ELSE s[i - 1]
      BY <2>10
    <3> DEFINE p == w \o v
    <3>3. InsertAt(s, own + 1, row) = p
      BY <2>5
    <3> HIDE DEF p
    <3>4. /\ p \in Seq(Record) /\ Len(p) = Len(s) + 1 /\ DOMAIN p = 1 .. (Len(s) + 1)
          /\ \A i \in 1 .. (Len(s) + 1) :
               p[i] = IF i < own + 1 THEN s[i] ELSE IF i = own + 1 THEN row ELSE s[i - 1]
      BY <2>9, <3>1, <3>2 DEF p
    <3> QED  BY <3>3, <3>4
  <2>7. own + 1 \in 1 .. (Len(s) + 1) /\ \A i \in (own + 1) .. Len(s) : s[i].stable_pubkey # row.stable_pubkey
    BY <1>1, <2>1
  <2> HIDE DEF own
  <2>11. \E m \in 1 .. (Len(s) + 1) :
           /\ \A i \in m .. Len(s) : s[i].stable_pubkey # row.stable_pubkey
           /\ \A i \in 1 .. (Len(s) + 1) :
                InsertAt(s, own + 1, row)[i] =
                  IF i < m THEN s[i] ELSE IF i = m THEN row ELSE s[i - 1]
    BY <2>6, <2>7, Zenon
  <2> QED  BY <2>2, <2>6, <2>11 DEF Placed
<1>3. CASE ~ (b = "memory" /\ own # 0)
  <2>1. Published(b, s, row) = Append(s, row)
    BY <1>3 DEF Published
  <2>2. Len(s) + 1 \in 1 .. (Len(s) + 1) /\ (Len(s) + 1) .. Len(s) = {}
    BY <1>1
  <2>3. \A i \in 1 .. (Len(s) + 1) :
          Append(s, row)[i] = IF i < Len(s) + 1 THEN s[i]
                              ELSE IF i = Len(s) + 1 THEN row ELSE s[i - 1]
    BY <1>1
  <2>4. Append(s, row) \in Seq(Record) /\ Len(Append(s, row)) = Len(s) + 1
    BY <1>1
  <2> QED  BY <1>1, <2>1, <2>2, <2>3, <2>4 DEF Placed
<1> QED  BY <1>2, <1>3

-----------------------------------------------------------------------------
(* A place, counted without the place h. *)
Skip(h, i) == IF i < h THEN i ELSE i + 1

(* The short one is the long one without place h. *)
Gap(short, long, h) ==
    /\ short \in Seq(Record) /\ long \in Seq(Record)
    /\ h \in DOMAIN long
    /\ \A i \in DOMAIN short : Skip(h, i) \in DOMAIN long /\ Skip(h, i) # h
                               /\ short[i] = long[Skip(h, i)]
    /\ \A k \in DOMAIN long : k # h => \E i \in DOMAIN short : k = Skip(h, i)

LEMMA SkipOrder ==
    ASSUME NEW h \in Nat, NEW i \in Nat, NEW j \in Nat
    PROVE  /\ i < j <=> Skip(h, i) < Skip(h, j)
           /\ Skip(h, i) = Skip(h, j) => i = j
BY DEF Skip

LEMMA Places ==
    ASSUME NEW s \in Seq(Record)
    PROVE  /\ DOMAIN s = 1 .. Len(s) /\ Len(s) \in Nat
           /\ \A i \in DOMAIN s : i \in Nat /\ s[i] \in Record /\ s[i].is_last_resort \in BOOLEAN
<1>1. DOMAIN s = 1 .. Len(s) /\ Len(s) \in Nat
  OBVIOUS
<1>2. ASSUME NEW i \in DOMAIN s PROVE i \in Nat /\ s[i] \in Record /\ s[i].is_last_resort \in BOOLEAN
  <2>1. s[i] \in Record /\ i \in Nat
    BY <1>1
  <2> QED  BY <2>1 DEF Record
<1> QED  BY <1>1, <1>2

LEMMA RemovalGap ==
    ASSUME NEW s \in Seq(Record), NEW n \in DOMAIN s
    PROVE  Gap(Deleted(s, n), s, n)
<1>1. PICK t : t = Deleted(s, n)
  OBVIOUS
<1>2. PICK len \in Nat : len = Len(s) /\ DOMAIN s = 1 .. len
  BY Places
<1>3. /\ t \in Seq(Record) /\ DOMAIN t = 1 .. (len - 1)
      /\ \A i \in 1 .. (len - 1) : t[i] = IF i < n THEN s[i] ELSE s[i + 1]
  BY <1>1, <1>2, RemoveAtShape DEF Deleted
<1>4. n \in 1 .. len
  BY <1>2
<1>5. ASSUME NEW i \in 1 .. (len - 1)
      PROVE  Skip(n, i) \in 1 .. len /\ Skip(n, i) # n /\ t[i] = s[Skip(n, i)]
  BY <1>3, <1>4, <1>5 DEF Skip
<1>6. ASSUME NEW k \in 1 .. len, k # n PROVE \E i \in 1 .. (len - 1) : k = Skip(n, i)
  <2>1. CASE k < n
    <3>1. k \in 1 .. (len - 1) /\ k = Skip(n, k)
      BY <1>4, <2>1 DEF Skip
    <3> QED  BY <3>1
  <2>2. CASE ~ (k < n)
    <3>1. k - 1 \in 1 .. (len - 1) /\ k = Skip(n, k - 1)
      BY <1>4, <1>6, <2>2 DEF Skip
    <3> QED  BY <3>1
  <2> QED  BY <2>1, <2>2
<1> QED  BY <1>1, <1>2, <1>3, <1>5, <1>6 DEF Gap

(* t is s with a new record, after all of its identity's. *)
Grown(t, s, row, m) ==
    /\ Gap(s, t, m) /\ t[m] = row
    /\ \A i \in DOMAIN s : s[i].stable_pubkey = row.stable_pubkey => Skip(m, i) < m

LEMMA PublishedGap ==
    ASSUME NEW b, NEW s \in Seq(Record), NEW row \in Record
    PROVE  \E m : Grown(Published(b, s, row), s, row, m)
<1>1. PICK t : t = Published(b, s, row)
  OBVIOUS
<1>2. PICK len \in Nat : len = Len(s) /\ DOMAIN s = 1 .. len
  BY Places
<1>3. Placed(t, s, row)
  BY <1>1, PublishedShape
<1>4. t \in Seq(Record) /\ DOMAIN t = 1 .. (len + 1)
  BY <1>2, <1>3 DEF Placed
<1>5. PICK m \in 1 .. (len + 1) :
        /\ \A i \in m .. len : s[i].stable_pubkey # row.stable_pubkey
        /\ \A i \in 1 .. (len + 1) :
             t[i] = IF i < m THEN s[i] ELSE IF i = m THEN row ELSE s[i - 1]
  BY <1>2, <1>3 DEF Placed
<1>6. ASSUME NEW i \in 1 .. len
      PROVE  Skip(m, i) \in 1 .. (len + 1) /\ Skip(m, i) # m /\ s[i] = t[Skip(m, i)]
  <2>1. CASE i < m
    <3>1. Skip(m, i) = i /\ i \in 1 .. (len + 1)
      BY <2>1 DEF Skip
    <3> QED  BY <1>5, <2>1, <3>1
  <2>2. CASE ~ (i < m)
    <3>1. /\ Skip(m, i) = i + 1 /\ i + 1 \in 1 .. (len + 1)
          /\ ~ (i + 1 < m) /\ i + 1 # m /\ (i + 1) - 1 = i
      BY <2>2 DEF Skip
    <3> QED  BY <1>5, <3>1
  <2> QED  BY <2>1, <2>2
<1>7. ASSUME NEW k \in 1 .. (len + 1), k # m PROVE \E i \in 1 .. len : k = Skip(m, i)
  <2>1. CASE k < m
    <3>1. k \in 1 .. len /\ k = Skip(m, k)
      BY <2>1 DEF Skip
    <3> QED  BY <3>1
  <2>2. CASE ~ (k < m)
    <3>1. k - 1 \in 1 .. len /\ k = Skip(m, k - 1)
      BY <1>7, <2>2 DEF Skip
    <3> QED  BY <3>1
  <2> QED  BY <2>1, <2>2
<1>8. ASSUME NEW i \in 1 .. len, s[i].stable_pubkey = row.stable_pubkey PROVE Skip(m, i) < m
  <2>1. i < m
    BY <1>5, <1>8
  <2> QED  BY <2>1 DEF Skip
<1>9. m \in DOMAIN t
  BY <1>4
<1>10. t[m] = row
  BY <1>5
<1>11. Gap(s, t, m)
  BY <1>2, <1>4, <1>6, <1>7, <1>9 DEF Gap
<1>12. Grown(t, s, row, m)
  BY <1>2, <1>8, <1>10, <1>11 DEF Grown
<1> QED  BY <1>1, <1>12

-----------------------------------------------------------------------------
LEMMA AlikeTurns ==
    ASSUME NEW a, NEW b, Alike(a, b)
    PROVE  Alike(b, a)
<1>1. InOrder(b, a)
  <2>1. ASSUME NEW i \in DOMAIN b, NEW j \in DOMAIN b, NEW k \in DOMAIN a, NEW l \in DOMAIN a,
               b[i] = a[k], b[j] = a[l], b[i].stable_pubkey = b[j].stable_pubkey
        PROVE  i < j <=> k < l
    <3>1. a[k] = b[i] /\ a[l] = b[j] /\ a[k].stable_pubkey = a[l].stable_pubkey
      BY <2>1
    <3>2. k < l <=> i < j
      BY <3>1 DEF Alike, InOrder
    <3> QED  BY <3>2
  <2> QED  BY <2>1 DEF InOrder
<1> QED  BY <1>1 DEF Alike

(* Taking the same record out of both. *)
LEMMA ShrinkCovers ==
    ASSUME NEW a, NEW b, NEW a2, NEW b2, NEW g, NEW h, Alike(a, b),
           Gap(a2, a, g), Gap(b2, b, h), a[g] = b[h]
    PROVE  UniqueRefs(a2) /\ Covers(b2, a2)
<1>0. /\ \A i \in DOMAIN a : i \in Nat
      /\ \A i \in DOMAIN a2 : i \in Nat
      /\ g \in DOMAIN a /\ h \in DOMAIN b
      /\ \A i \in DOMAIN a2 : Skip(g, i) \in DOMAIN a /\ Skip(g, i) # g /\ a2[i] = a[Skip(g, i)]
      /\ \A i \in DOMAIN b2 : Skip(h, i) \in DOMAIN b /\ Skip(h, i) # h /\ b2[i] = b[Skip(h, i)]
      /\ \A k \in DOMAIN b : k # h => \E i \in DOMAIN b2 : k = Skip(h, i)
  BY Places DEF Gap
<1>1. ASSUME NEW i \in DOMAIN a2, NEW j \in DOMAIN a2,
             a2[i].key_package_ref = a2[j].key_package_ref
      PROVE  i = j
  <2>1. Skip(g, i) = Skip(g, j)
    BY <1>0, <1>1 DEF Alike, UniqueRefs
  <2> QED  BY <1>0, <2>1, SkipOrder
<1>2. ASSUME NEW i \in DOMAIN a2 PROVE \E k \in DOMAIN b2 : b2[k] = a2[i]
  <2>1. PICK p \in DOMAIN a : p = Skip(g, i) /\ p # g /\ a2[i] = a[p]
    BY <1>0
  <2>2. PICK q \in DOMAIN b : b[q] = a[p]
    BY <2>1 DEF Alike, Covers
  <2>3. q # h
    <3> SUFFICES ASSUME q = h PROVE FALSE
      OBVIOUS
    <3>1. a[p] = a[g]
      BY <2>2
    <3>2. p = g
      BY <1>0, <3>1 DEF Alike, UniqueRefs
    <3> QED  BY <2>1, <3>2
  <2>4. PICK k \in DOMAIN b2 : q = Skip(h, k)
    BY <1>0, <2>3
  <2> QED  BY <1>0, <2>1, <2>2, <2>4
<1> QED  BY <1>1, <1>2 DEF UniqueRefs, Covers

LEMMA AlikeShrinks ==
    ASSUME NEW a, NEW b, NEW a2, NEW b2, NEW g, NEW h, Alike(a, b),
           Gap(a2, a, g), Gap(b2, b, h), a[g] = b[h]
    PROVE  Alike(a2, b2)
<1>1. UniqueRefs(a2) /\ Covers(b2, a2)
  BY ShrinkCovers
<1>2. UniqueRefs(b2) /\ Covers(a2, b2)
  <2>1. Alike(b, a) /\ b[h] = a[g]
    BY AlikeTurns
  <2> QED  BY <2>1, ShrinkCovers
<1>3. ASSUME NEW i \in DOMAIN a2, NEW j \in DOMAIN a2, NEW k \in DOMAIN b2, NEW l \in DOMAIN b2,
             a2[i] = b2[k], a2[j] = b2[l], a2[i].stable_pubkey = a2[j].stable_pubkey
      PROVE  i < j <=> k < l
  <2>0. i \in Nat /\ j \in Nat /\ k \in Nat /\ l \in Nat /\ g \in Nat /\ h \in Nat
    BY Places DEF Gap
  <2>1. PICK i2 \in DOMAIN a, j2 \in DOMAIN a :
          i2 = Skip(g, i) /\ j2 = Skip(g, j) /\ a2[i] = a[i2] /\ a2[j] = a[j2]
    BY DEF Gap
  <2>2. PICK k2 \in DOMAIN b, l2 \in DOMAIN b :
          k2 = Skip(h, k) /\ l2 = Skip(h, l) /\ b2[k] = b[k2] /\ b2[l] = b[l2]
    BY DEF Gap
  <2>3. i2 < j2 <=> k2 < l2
    <3>1. a[i2] = b[k2] /\ a[j2] = b[l2] /\ a[i2].stable_pubkey = a[j2].stable_pubkey
      BY <1>3, <2>1, <2>2
    <3>2. InOrder(a, b)
      BY DEF Alike
    <3> QED  BY <3>1, <3>2 DEF InOrder
  <2>4. (i < j <=> i2 < j2) /\ (k < l <=> k2 < l2)
    BY <2>0, <2>1, <2>2, SkipOrder
  <2> QED  BY <2>3, <2>4
<1>4. InOrder(a2, b2)
  BY <1>3 DEF InOrder
<1> QED  BY <1>1, <1>2, <1>4 DEF Alike, Gap

(* Adding the same record to both, after its identity's. *)
LEMMA GrowCovers ==
    ASSUME NEW a, NEW b, NEW a2, NEW b2, NEW g, NEW h, NEW row, Alike(a, b),
           Grown(a2, a, row, g), Grown(b2, b, row, h),
           \A i \in DOMAIN a : a[i].key_package_ref # row.key_package_ref
    PROVE  UniqueRefs(a2) /\ Covers(b2, a2)
<1>0. /\ g \in DOMAIN a2 /\ h \in DOMAIN b2 /\ a2[g] = row /\ b2[h] = row
      /\ \A i \in DOMAIN a : a[i] = a2[Skip(g, i)]
      /\ \A i \in DOMAIN b : Skip(h, i) \in DOMAIN b2 /\ b[i] = b2[Skip(h, i)]
      /\ \A k \in DOMAIN a2 : k # g => \E i \in DOMAIN a : k = Skip(g, i)
  BY DEF Gap, Grown
<1>1. ASSUME NEW i \in DOMAIN a2, NEW j \in DOMAIN a2,
             a2[i].key_package_ref = a2[j].key_package_ref
      PROVE  i = j
  <2>1. CASE i = g /\ j = g
    BY <2>1
  <2>2. CASE i # g /\ j # g
    <3>1. PICK p \in DOMAIN a, q \in DOMAIN a : i = Skip(g, p) /\ j = Skip(g, q)
      BY <1>0, <2>2
    <3>2. p = q
      BY <1>0, <1>1, <3>1 DEF Alike, UniqueRefs
    <3> QED  BY <3>1, <3>2
  <2>3. CASE i = g /\ j # g
    <3>1. PICK q \in DOMAIN a : j = Skip(g, q)
      BY <1>0, <2>3
    <3> QED  BY <1>0, <1>1, <2>3, <3>1
  <2>4. CASE i # g /\ j = g
    <3>1. PICK p \in DOMAIN a : i = Skip(g, p)
      BY <1>0, <2>4
    <3> QED  BY <1>0, <1>1, <2>4, <3>1
  <2> QED  BY <2>1, <2>2, <2>3, <2>4
<1>2. ASSUME NEW i \in DOMAIN a2 PROVE \E k \in DOMAIN b2 : b2[k] = a2[i]
  <2>1. CASE i = g
    BY <1>0, <2>1
  <2>2. CASE i # g
    <3>1. PICK p \in DOMAIN a : i = Skip(g, p)
      BY <1>0, <2>2
    <3>2. PICK q \in DOMAIN b : b[q] = a[p]
      BY DEF Alike, Covers
    <3> QED  BY <1>0, <3>1, <3>2
  <2> QED  BY <2>1, <2>2
<1> QED  BY <1>1, <1>2 DEF UniqueRefs, Covers

LEMMA NewInBoth ==
    ASSUME NEW a, NEW b, Alike(a, b), NEW ref,
           \A i \in DOMAIN a : a[i].key_package_ref # ref
    PROVE  \A i \in DOMAIN b : b[i].key_package_ref # ref
BY DEF Alike, Covers

LEMMA AlikeGrows ==
    ASSUME NEW a, NEW b, NEW a2, NEW b2, NEW g, NEW h, NEW row, Alike(a, b),
           Grown(a2, a, row, g), Grown(b2, b, row, h),
           \A i \in DOMAIN a : a[i].key_package_ref # row.key_package_ref
    PROVE  Alike(a2, b2)
<1>0. /\ g \in DOMAIN a2 /\ h \in DOMAIN b2 /\ a2[g] = row /\ b2[h] = row
      /\ \A i \in DOMAIN a : a[i] = a2[Skip(g, i)]
      /\ \A i \in DOMAIN b : b[i] = b2[Skip(h, i)]
      /\ \A k \in DOMAIN a2 : k # g => \E i \in DOMAIN a : k = Skip(g, i)
      /\ \A k \in DOMAIN b2 : k # h => \E i \in DOMAIN b : k = Skip(h, i)
      /\ \A i \in DOMAIN a : a[i].stable_pubkey = row.stable_pubkey => Skip(g, i) < g
      /\ \A i \in DOMAIN b : b[i].stable_pubkey = row.stable_pubkey => Skip(h, i) < h
      /\ a2 \in Seq(Record) /\ b2 \in Seq(Record)
  BY DEF Gap, Grown
<1>1. /\ \A i \in DOMAIN a : i \in Nat
      /\ \A i \in DOMAIN b : i \in Nat
      /\ \A i \in DOMAIN a2 : i \in Nat
      /\ \A i \in DOMAIN b2 : i \in Nat
  BY <1>0, Places DEF Alike
<1>2. UniqueRefs(a2) /\ Covers(b2, a2)
  BY GrowCovers
<1>3. UniqueRefs(b2) /\ Covers(a2, b2)
  <2>1. Alike(b, a) /\ \A i \in DOMAIN b : b[i].key_package_ref # row.key_package_ref
    BY AlikeTurns, NewInBoth
  <2> QED  BY <2>1, GrowCovers
<1>4. ASSUME NEW i \in DOMAIN a2, NEW j \in DOMAIN a2, NEW k \in DOMAIN b2, NEW l \in DOMAIN b2,
             a2[i] = b2[k], a2[j] = b2[l], a2[i].stable_pubkey = a2[j].stable_pubkey
      PROVE  i < j <=> k < l
  <2>1. (i = g <=> k = h) /\ (j = g <=> l = h)
    BY <1>0, <1>2, <1>3, <1>4 DEF UniqueRefs
  <2>2. CASE i = g /\ j = g
    BY <1>1, <2>1, <2>2
  <2>3. CASE i = g /\ j # g
    <3>1. PICK p \in DOMAIN a : j = Skip(g, p)
      BY <1>0, <2>3
    <3>2. PICK q \in DOMAIN b : l = Skip(h, q)
      BY <1>0, <2>1, <2>3
    <3>3. j < g /\ l < h
      BY <1>0, <1>4, <2>3, <3>1, <3>2
    <3> QED  BY <1>1, <2>1, <2>3, <3>3
  <2>4. CASE i # g /\ j = g
    <3>1. PICK p \in DOMAIN a : i = Skip(g, p)
      BY <1>0, <2>4
    <3>2. PICK q \in DOMAIN b : k = Skip(h, q)
      BY <1>0, <2>1, <2>4
    <3>3. i < g /\ k < h
      BY <1>0, <1>4, <2>4, <3>1, <3>2
    <3> QED  BY <1>1, <2>1, <2>4, <3>3
  <2>5. CASE i # g /\ j # g
    <3>1. PICK i2 \in DOMAIN a, j2 \in DOMAIN a :
            i = Skip(g, i2) /\ j = Skip(g, j2) /\ a2[i] = a[i2] /\ a2[j] = a[j2]
      BY <1>0, <2>5
    <3>2. PICK k2 \in DOMAIN b, l2 \in DOMAIN b :
            k = Skip(h, k2) /\ l = Skip(h, l2) /\ b2[k] = b[k2] /\ b2[l] = b[l2]
      BY <1>0, <2>1, <2>5
    <3>3. i2 < j2 <=> k2 < l2
      BY <1>4, <3>1, <3>2 DEF Alike, InOrder
    <3>4. (i2 < j2 <=> i < j) /\ (k2 < l2 <=> k < l)
      BY <1>0, <1>1, <3>1, <3>2, SkipOrder
    <3> QED  BY <3>3, <3>4
  <2> QED  BY <2>2, <2>3, <2>4, <2>5
<1>5. InOrder(a2, b2)
  BY <1>4 DEF InOrder
<1> QED  BY <1>0, <1>2, <1>3, <1>5 DEF Alike

-----------------------------------------------------------------------------
(* Places with the same record, or none in either. *)
Matching(a, n, b, m) ==
    \/ n = 0 /\ m = 0
    \/ n \in DOMAIN a /\ m \in DOMAIN b /\ a[n] = b[m]

(* Both find the same record by its reference. *)
LEMMA LocateMatches ==
    ASSUME NEW a, NEW b, Alike(a, b), NEW ref
    PROVE  Matching(a, LocateByRef(a, ref), b, LocateByRef(b, ref))
<1>1. PICK n : n = LocateByRef(a, ref)
  OBVIOUS
<1>2. PICK m : m = LocateByRef(b, ref)
  OBVIOUS
<1>3. \/ n = 0 /\ \A i \in DOMAIN a : a[i].key_package_ref # ref
      \/ n \in DOMAIN a /\ a[n].key_package_ref = ref
  BY <1>1, Located DEF Alike
<1>4. \/ m = 0 /\ \A i \in DOMAIN b : b[i].key_package_ref # ref
      \/ m \in DOMAIN b /\ b[m].key_package_ref = ref
  BY <1>2, Located DEF Alike
<1>5. CASE n = 0 /\ \A i \in DOMAIN a : a[i].key_package_ref # ref
  <2>1. \A i \in DOMAIN b : b[i].key_package_ref # ref
    BY <1>5, NewInBoth
  <2>2. m = 0
    BY <1>4, <2>1
  <2> QED  BY <1>1, <1>2, <1>5, <2>2 DEF Matching
<1>6. CASE n \in DOMAIN a /\ a[n].key_package_ref = ref
  <2>1. PICK k \in DOMAIN b : b[k] = a[n]
    BY <1>6 DEF Alike, Covers
  <2>2. m \in DOMAIN b /\ b[m].key_package_ref = ref
    BY <1>4, <1>6, <2>1
  <2>3. m = k
    BY <1>6, <2>1, <2>2 DEF Alike, UniqueRefs
  <2> QED  BY <1>1, <1>2, <1>6, <2>1, <2>3 DEF Matching
<1> QED  BY <1>3, <1>5, <1>6

(* The record to take of an identity: first in the order of the query. *)
Best(s, pk, n) ==
    /\ n \in DOMAIN s /\ s[n].stable_pubkey = pk
    /\ \A i \in DOMAIN s : s[i].stable_pubkey = pk => SqlOrder(s, n, i)

BestOrNone(s, pk, n) ==
    \/ n = 0 /\ \A i \in DOMAIN s : s[i].stable_pubkey # pk
    \/ Best(s, pk, n)

(* The search of the memory backend finds it, ... *)
LEMMA SearchIsBest ==
    ASSUME NEW s \in Seq(Record), NEW pk
    PROVE  BestOrNone(s, pk, FirstRegularElseLast(s, pk))
<1>1. PICK f : f = FirstRegular(s, pk)
  OBVIOUS
<1>2. PICK l : l = LastOwn(s, pk)
  OBVIOUS
<1>3. FirstRegularElseLast(s, pk) = IF f # 0 THEN f ELSE l
  BY <1>1, <1>2 DEF FirstRegularElseLast
<1>4. \/ f = 0 /\ \A i \in DOMAIN s : s[i].stable_pubkey = pk => s[i].is_last_resort
      \/ /\ f \in DOMAIN s /\ s[f].stable_pubkey = pk /\ ~ s[f].is_last_resort
         /\ \A i \in DOMAIN s : s[i].stable_pubkey = pk /\ ~ s[i].is_last_resort => f <= i
  BY <1>1, FirstRegularPlace
<1>5. \/ l = 0 /\ \A i \in DOMAIN s : s[i].stable_pubkey # pk
      \/ /\ l \in DOMAIN s /\ s[l].stable_pubkey = pk
         /\ \A i \in DOMAIN s : s[i].stable_pubkey = pk => i <= l
  BY <1>2, LastOwnPlace
<1>6. \A i \in DOMAIN s : i \in Nat /\ i # 0
  BY Places
<1>7. CASE f # 0
  <2>1. Best(s, pk, f)
    BY <1>4, <1>7 DEF Best, SqlOrder
  <2> QED  BY <1>3, <1>7, <2>1 DEF BestOrNone
<1>8. CASE f = 0
  <2>1. \A i \in DOMAIN s : s[i].stable_pubkey = pk => s[i].is_last_resort
    BY <1>4, <1>6, <1>8
  <2>2. CASE l = 0
    BY <1>3, <1>5, <1>6, <1>8, <2>2 DEF BestOrNone
  <2>3. CASE l # 0
    <3>1. \A i \in DOMAIN s : s[i].stable_pubkey = pk => l >= i
      BY <1>5, <1>6, <2>3
    <3>2. Best(s, pk, l)
      BY <1>5, <2>1, <2>3, <3>1 DEF Best, SqlOrder
    <3> QED  BY <1>3, <1>8, <3>2 DEF BestOrNone
  <2> QED  BY <2>2, <2>3
<1> QED  BY <1>7, <1>8

(* ... and so does the query of the sqlite backend. *)
LEMMA QueryIsBest ==
    ASSUME NEW s \in Seq(Record), NEW pk
    PROVE  BestOrNone(s, pk, FirstInSqlOrder(s, pk))
<1> DEFINE rows == {n \in DOMAIN s : s[n].stable_pubkey = pk}
<1>1. FirstInSqlOrder(s, pk) =
        IF rows = {} THEN 0 ELSE CHOOSE n \in rows : \A m \in rows : SqlOrder(s, n, m)
  BY DEF FirstInSqlOrder
<1>2. CASE rows = {}
  BY <1>1, <1>2 DEF BestOrNone
<1>3. CASE rows # {}
  <2>1. PICK n : n = FirstRegularElseLast(s, pk) /\ BestOrNone(s, pk, n)
    BY SearchIsBest
  <2>2. Best(s, pk, n)
    BY <1>3, <2>1 DEF BestOrNone
  <2>3. n \in rows /\ \A m \in rows : SqlOrder(s, n, m)
    BY <2>2 DEF Best
  <2>4. \E k \in rows : \A m \in rows : SqlOrder(s, k, m)
    BY <2>3
  <2>5. PICK c : c = CHOOSE k \in rows : \A m \in rows : SqlOrder(s, k, m)
    OBVIOUS
  <2>6. c \in rows /\ \A m \in rows : SqlOrder(s, c, m)
    <3> HIDE DEF rows
    <3> QED  BY <2>4, <2>5, Zenon
  <2>7. Best(s, pk, c)
    BY <2>6 DEF Best
  <2> QED  BY <1>1, <1>3, <2>5, <2>7 DEF BestOrNone
<1> QED  BY <1>2, <1>3

(* In both it is the same record. *)
LEMMA BestMatches ==
    ASSUME NEW a, NEW b, Alike(a, b), NEW pk, NEW n, NEW m,
           BestOrNone(a, pk, n), BestOrNone(b, pk, m)
    PROVE  Matching(a, n, b, m)
<1>0. /\ \A i \in DOMAIN a : i \in Nat /\ a[i].is_last_resort \in BOOLEAN
      /\ \A i \in DOMAIN b : i \in Nat /\ b[i].is_last_resort \in BOOLEAN
  BY Places DEF Alike
<1>1. CASE n = 0 /\ \A i \in DOMAIN a : a[i].stable_pubkey # pk
  <2>1. \A i \in DOMAIN b : b[i].stable_pubkey # pk
    BY <1>1 DEF Alike, Covers
  <2>2. m = 0
    BY <2>1 DEF BestOrNone, Best
  <2> QED  BY <1>1, <2>2 DEF Matching
<1>2. CASE Best(a, pk, n)
  <2>1. PICK k \in DOMAIN b : b[k] = a[n]
    BY <1>2 DEF Alike, Covers, Best
  <2>2. Best(b, pk, m)
    BY <1>2, <2>1 DEF BestOrNone, Best
  <2>3. PICK l \in DOMAIN a : a[l] = b[m]
    <3>1. m \in DOMAIN b /\ Covers(a, b)
      BY <2>2 DEF Alike, Best
    <3> QED  BY <3>1 DEF Covers
  <2>4. n \in DOMAIN a /\ m \in DOMAIN b /\ a[n].stable_pubkey = pk /\ b[m].stable_pubkey = pk
    BY <1>2, <2>2 DEF Best
  <2>5. SqlOrder(a, n, l) /\ SqlOrder(b, m, k)
    BY <1>2, <2>1, <2>2, <2>3, <2>4 DEF Best
  <2>6. (n < l <=> k < m) /\ (l < n <=> m < k)
    BY <2>1, <2>3, <2>4 DEF Alike, InOrder
  <2>7. n = l
    BY <1>0, <2>1, <2>3, <2>4, <2>5, <2>6 DEF SqlOrder
  <2> QED  BY <2>3, <2>4, <2>7 DEF Matching
<1> QED  BY <1>1, <1>2 DEF BestOrNone

(* So both consume the same record. *)
LEMMA PickMatches ==
    ASSUME NEW a, NEW b, Alike(a, b), NEW identifier
    PROVE  Matching(a, ConsumePick("memory", a, identifier),
                    b, ConsumePick("sqlite", b, identifier))
<1>1. PICK n : n = LocateByRef(a, identifier)
  OBVIOUS
<1>2. PICK m : m = LocateByRef(b, identifier)
  OBVIOUS
<1>3. Matching(a, n, b, m)
  BY <1>1, <1>2, LocateMatches
<1>4. n = 0 <=> m = 0
  BY <1>3, Places DEF Matching, Alike
<1>5. ConsumePick("memory", a, identifier) =
        IF n # 0 THEN n ELSE FirstRegularElseLast(a, identifier)
  BY <1>1 DEF ConsumePick
<1>6. ConsumePick("sqlite", b, identifier) =
        IF m # 0 THEN m ELSE FirstInSqlOrder(b, identifier)
  BY <1>2 DEF ConsumePick
<1>7. Matching(a, FirstRegularElseLast(a, identifier), b, FirstInSqlOrder(b, identifier))
  BY SearchIsBest, QueryIsBest, BestMatches DEF Alike
<1> QED  BY <1>3, <1>4, <1>5, <1>6, <1>7

-----------------------------------------------------------------------------
(* Places that hold the same records are equally many. *)
LEMMA EquallyMany ==
    ASSUME NEW a, NEW b, Alike(a, b), NEW S \in SUBSET DOMAIN a, NEW T \in SUBSET DOMAIN b,
           \A i \in S : \E k \in T : b[k] = a[i],
           \A k \in T : \E i \in S : b[k] = a[i]
    PROVE  Cardinality(S) = Cardinality(T)
<1> DEFINE f == [i \in S |-> CHOOSE k \in T : b[k] = a[i]]
<1>1. ASSUME NEW i \in S PROVE f[i] \in T /\ b[f[i]] = a[i]
  <2>1. \E k \in T : b[k] = a[i]
    OBVIOUS
  <2> QED  BY <2>1
<1>2. f \in [S -> T]
  BY <1>1
<1> HIDE DEF f
<1>3. ASSUME NEW i \in S, NEW j \in S, f[i] = f[j] PROVE i = j
  <2>1. a[i] = a[j]
    BY <1>1, <1>3
  <2>2. i \in DOMAIN a /\ j \in DOMAIN a
    OBVIOUS
  <2> QED  BY <2>1, <2>2 DEF Alike, UniqueRefs
<1>4. ASSUME NEW k \in T PROVE \E i \in S : f[i] = k
  <2>1. PICK i \in S : b[k] = a[i]
    OBVIOUS
  <2>2. b[f[i]] = b[k] /\ f[i] \in T
    BY <1>1, <2>1
  <2>3. f[i] = k
    BY <2>2 DEF Alike, UniqueRefs
  <2> QED  BY <2>3
<1>5. f \in Bijection(S, T)
  BY <1>2, <1>3, <1>4 DEF Bijection, Injection, Surjection, IsInjective
<1>6. IsFiniteSet(S)
  <2>1. PICK n \in Nat : DOMAIN a = 1 .. n
    BY Places DEF Alike
  <2>2. IsFiniteSet(1 .. n) /\ S \in SUBSET (1 .. n)
    BY <2>1, FS_Interval
  <2> QED  BY <2>2, FS_Subset
<1> QED  BY <1>5, <1>6, FS_Bijection DEF ExistsBijection

(* The places of an identity's records, and those with k - 1 before them. *)
OwnPlaces(s, pk) == {n \in DOMAIN s : s[n].stable_pubkey = pk}
Earlier(s, pk, n) == {m \in OwnPlaces(s, pk) : m < n}
PlacesAt(s, pk, k) == {n \in OwnPlaces(s, pk) : Cardinality(Earlier(s, pk, n)) = k - 1}
RecordsAt(s, pk, k) == {s[n] : n \in PlacesAt(s, pk, k)}

LEMMA ListIs ==
    ASSUME NEW s, NEW pk
    PROVE  ListKeyPackagesForIdentity(s, pk) =
             [k \in 1 .. Cardinality(OwnPlaces(s, pk)) |->
                CHOOSE r \in RecordsAt(s, pk, k) : TRUE]
BY Zenon DEF RecordsAt, ListKeyPackagesForIdentity, PlacesAt, Earlier, OwnPlaces

(* A record has as many before it in both. *)
LEMMA EquallyEarly ==
    ASSUME NEW a, NEW b, Alike(a, b), NEW pk,
           NEW i \in OwnPlaces(a, pk), NEW k \in OwnPlaces(b, pk), a[i] = b[k]
    PROVE  Cardinality(Earlier(a, pk, i)) = Cardinality(Earlier(b, pk, k))
<1>1. /\ Earlier(a, pk, i) \in SUBSET DOMAIN a /\ Earlier(b, pk, k) \in SUBSET DOMAIN b
  BY DEF Earlier, OwnPlaces
<1>2. ASSUME NEW j \in Earlier(a, pk, i) PROVE \E l \in Earlier(b, pk, k) : b[l] = a[j]
  <2>1. j \in DOMAIN a /\ a[j].stable_pubkey = pk /\ j < i
    BY DEF Earlier, OwnPlaces
  <2>2. PICK l \in DOMAIN b : b[l] = a[j]
    BY <2>1 DEF Alike, Covers
  <2>3. l < k
    BY <2>1, <2>2 DEF Alike, InOrder, OwnPlaces
  <2> QED  BY <2>1, <2>2, <2>3 DEF Earlier, OwnPlaces
<1>3. ASSUME NEW l \in Earlier(b, pk, k) PROVE \E j \in Earlier(a, pk, i) : b[l] = a[j]
  <2>1. l \in DOMAIN b /\ b[l].stable_pubkey = pk /\ l < k
    BY DEF Earlier, OwnPlaces
  <2>2. PICK j \in DOMAIN a : a[j] = b[l]
    BY <2>1 DEF Alike, Covers
  <2>3. j < i
    BY <2>1, <2>2 DEF Alike, InOrder, OwnPlaces
  <2> QED  BY <2>1, <2>2, <2>3 DEF Earlier, OwnPlaces
<1> QED  BY <1>1, <1>2, <1>3, EquallyMany

LEMMA SamePlaceRecords ==
    ASSUME NEW a, NEW b, Alike(a, b), NEW pk, NEW k
    PROVE  RecordsAt(a, pk, k) \subseteq RecordsAt(b, pk, k)
<1> SUFFICES ASSUME NEW i \in PlacesAt(a, pk, k)
             PROVE  \E l \in PlacesAt(b, pk, k) : a[i] = b[l]
  BY DEF RecordsAt
<1>1. i \in OwnPlaces(a, pk) /\ Cardinality(Earlier(a, pk, i)) = k - 1
  BY DEF PlacesAt
<1>2. PICK l \in DOMAIN b : b[l] = a[i]
  BY <1>1 DEF Alike, Covers, OwnPlaces
<1>3. l \in OwnPlaces(b, pk)
  BY <1>1, <1>2 DEF OwnPlaces
<1>4. Cardinality(Earlier(b, pk, l)) = k - 1
  BY <1>1, <1>2, <1>3, EquallyEarly
<1> QED  BY <1>2, <1>3, <1>4 DEF PlacesAt

LEMMA ListsAgree ==
    ASSUME NEW a, NEW b, Alike(a, b), NEW pk
    PROVE  ListKeyPackagesForIdentity(a, pk) = ListKeyPackagesForIdentity(b, pk)
<1>1. Alike(b, a)
  BY AlikeTurns
<1>2. \A k : RecordsAt(a, pk, k) = RecordsAt(b, pk, k)
  <2> TAKE k
  <2>1. RecordsAt(a, pk, k) \subseteq RecordsAt(b, pk, k)
    BY SamePlaceRecords
  <2>2. RecordsAt(b, pk, k) \subseteq RecordsAt(a, pk, k)
    BY <1>1, SamePlaceRecords
  <2> QED  BY <2>1, <2>2
<1>3. Cardinality(OwnPlaces(a, pk)) = Cardinality(OwnPlaces(b, pk))
  <2>1. OwnPlaces(a, pk) \in SUBSET DOMAIN a /\ OwnPlaces(b, pk) \in SUBSET DOMAIN b
    BY DEF OwnPlaces
  <2>2. \A i \in OwnPlaces(a, pk) : \E k \in OwnPlaces(b, pk) : b[k] = a[i]
    BY DEF OwnPlaces, Alike, Covers
  <2>3. \A k \in OwnPlaces(b, pk) : \E i \in OwnPlaces(a, pk) : b[k] = a[i]
    BY DEF OwnPlaces, Alike, Covers
  <2> QED  BY <2>1, <2>2, <2>3, EquallyMany
<1> DEFINE List(s, len) == [k \in 1 .. len |-> CHOOSE r \in RecordsAt(s, pk, k) : TRUE]
<1>4. \A len : List(a, len) = List(b, len)
  BY <1>2
<1>5. /\ ListKeyPackagesForIdentity(a, pk) = List(a, Cardinality(OwnPlaces(a, pk)))
      /\ ListKeyPackagesForIdentity(b, pk) = List(b, Cardinality(OwnPlaces(b, pk)))
  BY ListIs
<1> HIDE DEF List
<1> QED  BY <1>3, <1>4, <1>5

-----------------------------------------------------------------------------
(* The same record comes back. *)
LEMMA SameAnswer ==
    ASSUME NEW a, NEW b, Alike(a, b), NEW n, NEW m, Matching(a, n, b, m)
    PROVE  /\ n = 0 <=> m = 0
           /\ Some(a, n) = Some(b, m)
           /\ n # 0 => n \in DOMAIN a /\ m \in DOMAIN b /\ a[n] = b[m]
<1>1. 0 \notin DOMAIN a /\ 0 \notin DOMAIN b
  BY Places DEF Alike
<1> QED  BY <1>1 DEF Matching, Some

(* Taking out what was found in both. *)
LEMMA DeletedAlike ==
    ASSUME NEW a, NEW b, Alike(a, b), NEW n \in DOMAIN a, NEW m \in DOMAIN b, a[n] = b[m]
    PROVE  Alike(Deleted(a, n), Deleted(b, m))
<1>1. PICK a2 : a2 = Deleted(a, n) /\ Gap(a2, a, n)
  BY RemovalGap DEF Alike
<1>2. PICK b2 : b2 = Deleted(b, m) /\ Gap(b2, b, m)
  BY RemovalGap DEF Alike
<1>3. Alike(a2, b2)
  BY <1>1, <1>2, AlikeShrinks
<1> QED  BY <1>1, <1>2, <1>3

LEMMA ParityInit == Init => ParityInv
<1> SUFFICES ASSUME Init PROVE ParityInv
  OBVIOUS
<1>1. PICK none : none = <<>> /\ none \in Seq(Record) /\ DOMAIN none = {}
  <2>1. <<>> \in Seq(Record) /\ DOMAIN <<>> = {}
    OBVIOUS
  <2> QED  BY <2>1
<1>2. Alike(none, none)
  BY <1>1 DEF Alike, UniqueRefs, Covers, InOrder
<1>3. memory = none /\ sqlite = none /\ reply.memory = reply.sqlite
  BY <1>1 DEF Init
<1> QED  BY <1>2, <1>3 DEF ParityInv, SameReplies

LEMMA ParityPublish ==
    ASSUME ReuseRefs = FALSE, ParityInv, NEW rec \in Record, PublishKeyPackage(rec)
    PROVE  ParityInv'
<1>1. Alike(memory, sqlite)
  BY DEF ParityInv
<1>2. LocateByRef(memory, rec.key_package_ref) = 0
  BY DEF PublishKeyPackage
<1>3. LocateByRef(sqlite, rec.key_package_ref) = 0
  BY <1>1, <1>2, LocateMatches, SameAnswer
<1>4. Refuses("sqlite", sqlite, rec) = FALSE
  BY <1>3 DEF Refuses
<1>5. /\ memory' = Published("memory", memory, rec)
      /\ sqlite' = Published("sqlite", sqlite, rec)
      /\ reply' = [memory |-> <<rec>>, sqlite |-> <<rec>>]
  BY <1>4 DEF PublishKeyPackage
<1>6. PICK a2, g : a2 = Published("memory", memory, rec) /\ Grown(a2, memory, rec, g)
  BY <1>1, PublishedGap DEF Alike
<1>7. PICK b2, h : b2 = Published("sqlite", sqlite, rec) /\ Grown(b2, sqlite, rec, h)
  BY <1>1, PublishedGap DEF Alike
<1>8. \A i \in DOMAIN memory : memory[i].key_package_ref # rec.key_package_ref
  <2>1. 0 \notin DOMAIN memory
    BY <1>1, Places DEF Alike
  <2>2. memory \in Seq(Record)
    BY <1>1 DEF Alike
  <2> QED  BY <1>2, <2>1, <2>2, Located
<1>9. Alike(a2, b2)
  BY <1>1, <1>6, <1>7, <1>8, AlikeGrows
<1> QED  BY <1>5, <1>6, <1>7, <1>9 DEF ParityInv, SameReplies

LEMMA ParityRemove ==
    ASSUME ParityInv, NEW ref, RemoveKeyPackage(ref)
    PROVE  ParityInv'
<1>1. Alike(memory, sqlite)
  BY DEF ParityInv
<1>2. PICK n, m : n = LocateByRef(memory, ref) /\ m = LocateByRef(sqlite, ref)
  OBVIOUS
<1>3. /\ memory' = IF n = 0 THEN memory ELSE Deleted(memory, n)
      /\ sqlite' = IF m = 0 THEN sqlite ELSE Deleted(sqlite, m)
      /\ reply' = [memory |-> Some(memory, n), sqlite |-> Some(sqlite, m)]
  BY <1>2 DEF RemoveKeyPackage, Removed
<1>4. /\ n = 0 <=> m = 0
      /\ Some(memory, n) = Some(sqlite, m)
      /\ n # 0 => n \in DOMAIN memory /\ m \in DOMAIN sqlite /\ memory[n] = sqlite[m]
  BY <1>1, <1>2, LocateMatches, SameAnswer
<1>5. Alike(memory', sqlite')
  BY <1>1, <1>3, <1>4, DeletedAlike
<1> QED  BY <1>3, <1>4, <1>5 DEF ParityInv, SameReplies

LEMMA ParityConsume ==
    ASSUME ParityInv, NEW identifier, ConsumeKeyPackage(identifier)
    PROVE  ParityInv'
<1>1. Alike(memory, sqlite)
  BY DEF ParityInv
<1>2. PICK n, m : /\ n = ConsumePick("memory", memory, identifier)
                  /\ m = ConsumePick("sqlite", sqlite, identifier)
  OBVIOUS
<1>3. /\ memory' = IF n = 0 \/ memory[n].is_last_resort THEN memory ELSE Deleted(memory, n)
      /\ sqlite' = IF m = 0 \/ sqlite[m].is_last_resort THEN sqlite ELSE Deleted(sqlite, m)
      /\ reply' = [memory |-> Some(memory, n), sqlite |-> Some(sqlite, m)]
  BY <1>2 DEF ConsumeKeyPackage, Consumed
<1>4. /\ n = 0 <=> m = 0
      /\ Some(memory, n) = Some(sqlite, m)
      /\ n # 0 => n \in DOMAIN memory /\ m \in DOMAIN sqlite /\ memory[n] = sqlite[m]
  BY <1>1, <1>2, PickMatches, SameAnswer
<1>5. Alike(memory', sqlite')
  <2>1. CASE n = 0 \/ memory[n].is_last_resort
    <3>1. m = 0 \/ sqlite[m].is_last_resort
      BY <1>4, <2>1
    <3> QED  BY <1>1, <1>3, <2>1, <3>1
  <2>2. CASE ~ (n = 0 \/ memory[n].is_last_resort)
    <3>1. ~ (m = 0 \/ sqlite[m].is_last_resort)
      BY <1>4, <2>2
    <3> QED  BY <1>1, <1>3, <1>4, <2>2, <3>1, DeletedAlike
  <2> QED  BY <2>1, <2>2
<1> QED  BY <1>3, <1>4, <1>5 DEF ParityInv, SameReplies

-----------------------------------------------------------------------------
(* The two stores hold the same records, an identity's in the same order,  *)
(* as long as no stored reference is published again.                      *)
THEOREM StoresAlike ==
    ASSUME ReuseRefs = FALSE
    PROVE  Spec => []ParityInv
<1>1. ParityInv /\ [Next]_vars => ParityInv'
  <2> SUFFICES ASSUME ParityInv, [Next]_vars PROVE ParityInv'
    OBVIOUS
  <2>1. CASE UNCHANGED vars
    BY <2>1 DEF ParityInv, SameReplies, vars
  <2>2. CASE \E rec \in Record : PublishKeyPackage(rec)
    BY <2>2, ParityPublish
  <2>3. CASE \E ref \in Refs : RemoveKeyPackage(ref)
    BY <2>3, ParityRemove
  <2>4. CASE \E identifier \in Refs \cup Identities : ConsumeKeyPackage(identifier)
    BY <2>4, ParityConsume
  <2> QED  BY <2>1, <2>2, <2>3, <2>4 DEF Next
<1> QED  BY <1>1, ParityInit, PTL DEF Spec

(* Consume and remove hand out the same record from both backends: the     *)
(* search of the memory backend and the query of the sqlite backend agree. *)
THEOREM RepliesAgree ==
    ASSUME ReuseRefs = FALSE
    PROVE  Spec => []SameReplies
<1>1. ParityInv => SameReplies
  BY DEF ParityInv
<1> QED  BY <1>1, StoresAlike, PTL

(* Both backends list an identity's records alike, oldest first.           *)
THEOREM RecordsAgree ==
    ASSUME ReuseRefs = FALSE
    PROVE  Spec => []SameRecords
<1>1. ParityInv => SameRecords
  BY ListsAgree DEF ParityInv, SameRecords
<1> QED  BY <1>1, StoresAlike, PTL
=============================================================================
