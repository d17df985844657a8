----------------------- MODULE PublishAdmissionProofs -----------------------
(***************************************************************************)
(* Proofs about PublishAdmission: what the encoder writes the reader gives *)
(* back, for every description, so that the parser passes exactly the      *)
(* well-formed packages.  The facts about flattened sequences and lists of *)
(* entries are inductions over their length, written with LeastNumber.     *)
(***************************************************************************)
EXTENDS PublishAdmission, SequenceTheorems, WellFoundedInduction, TLAPS

Byte == 0 .. 255
Bytes == Seq(Byte)

(* A non-empty set of numbers has a least one. *)
LEMMA LeastNumber ==
    ASSUME NEW I \in SUBSET Nat, I # {}
    PROVE  \E n \in I : \A m \in I : n <= m
<1>1. PICK n \in I : \A m \in I : ~ (<<m, n>> \in OpToRel(<, Nat))
  BY WFMin, NatLessThanWellFounded
<1>2. \A m \in I : ~ (m < n)
  BY <1>1 DEF OpToRel
<1> QED
  BY <1>2

(* Induction, for a set of numbers instead of a predicate. *)
LEMMA AllNumbers ==
    ASSUME NEW I \in SUBSET Nat, 0 \in I, \A n \in I : n + 1 \in I
    PROVE  \A n \in Nat : n \in I
<1> DEFINE J == Nat \ I
<1> SUFFICES ASSUME J # {} PROVE FALSE
  OBVIOUS
<1>1. J \in SUBSET Nat
  OBVIOUS
<1>2. PICK n \in J : \A m \in J : n <= m
  <2> HIDE DEF J
  <2> QED  BY <1>1, LeastNumber
<1>3. n \in Nat /\ n # 0 /\ n \notin I
  OBVIOUS
<1>4. n - 1 \in Nat /\ n - 1 \notin J
  <2>1. n - 1 \in Nat
    BY <1>3
  <2>2. ~ (n <= n - 1)
    BY <1>3
  <2> QED  BY <2>1, <2>2, <1>2
<1>5. n - 1 \in I
  BY <1>4
<1>6. (n - 1) + 1 = n
  BY <1>3
<1> QED  BY <1>3, <1>5, <1>6

-----------------------------------------------------------------------------
(* The prefixes FlattenSeq goes through. *)
Flat(seqs) ==
    LET flatten[k \in 1 .. Len(seqs)] ==
          IF k = 1 THEN seqs[k] ELSE flatten[k - 1] \o seqs[k]
    IN  flatten

(* Where sequence k + 1 begins in the flattened sequence, from 0. *)
Offset(seqs, k) == IF k = 0 THEN 0 ELSE Len(Flat(seqs)[k])

(* The function f is Flat(seqs), as far as n. *)
Flattens(f, seqs, n) ==
    f = [k \in 1 .. n |-> IF k = 1 THEN seqs[k] ELSE f[k - 1] \o seqs[k]]

LEMMA FlattensExists ==
    ASSUME NEW seqs
    PROVE  \A n \in Nat : \E f : Flattens(f, seqs, n)
<1> DEFINE I == {n \in Nat : \E f : Flattens(f, seqs, n)}
<1>1. 0 \in I
  <2>1. Flattens([k \in 1 .. 0 |-> seqs[k]], seqs, 0)
    BY DEF Flattens
  <2> QED  BY <2>1
<1>2. ASSUME NEW n \in I PROVE n + 1 \in I
  <2>1. PICK f : Flattens(f, seqs, n)
    OBVIOUS
  <2> DEFINE g == [k \in 1 .. n + 1 |->
                     IF k = n + 1 THEN (IF k = 1 THEN seqs[k] ELSE f[k - 1] \o seqs[k])
                     ELSE f[k]]
  <2>2. \A k \in 1 .. n : f[k] = IF k = 1 THEN seqs[k] ELSE f[k - 1] \o seqs[k]
    BY <2>1 DEF Flattens
  <2>3. ASSUME NEW k \in 1 .. n + 1
        PROVE  g[k] = IF k = 1 THEN seqs[k] ELSE g[k - 1] \o seqs[k]
    <3>1. CASE k = n + 1
      <4>1. k # 1 => k - 1 \in 1 .. n + 1 /\ k - 1 # n + 1
        BY <3>1
      <4> QED  BY <3>1, <4>1
    <3>2. CASE k # n + 1
      <4>1. k \in 1 .. n /\ (k # 1 => k - 1 \in 1 .. n + 1 /\ k - 1 # n + 1)
        BY <3>2
      <4> QED  BY <3>2, <4>1, <2>2
    <3> QED  BY <3>1, <3>2
  <2>4. Flattens(g, seqs, n + 1)
    <3>1. g = [k \in 1 .. n + 1 |-> g[k]]
      OBVIOUS
    <3> HIDE DEF g
    <3> QED  BY <2>3, <3>1 DEF Flattens
  <2> QED  BY <2>4
<1>3. I \in SUBSET Nat
  OBVIOUS
<1>4. \A n \in Nat : n \in I
  <2> HIDE DEF I
  <2> QED  BY <1>1, <1>2, <1>3, AllNumbers
<1> QED  BY <1>4

LEMMA FlatDef ==
    ASSUME NEW seqs, Len(seqs) \in Nat
    PROVE  Flattens(Flat(seqs), seqs, Len(seqs))
<1>1. \E f : Flattens(f, seqs, Len(seqs))
  BY FlattensExists
<1> QED  BY <1>1, Zenon DEF Flat, Flattens

(* The flattened sequence is the last of the prefixes. *)
LEMMA FlattenIsFlat ==
    ASSUME NEW seqs
    PROVE  FlattenSeq(seqs) = IF Len(seqs) = 0 THEN seqs ELSE Flat(seqs)[Len(seqs)]
BY Zenon DEF FlattenSeq, Flat

(* The piece stands in buf after the first at bytes ... *)
Holds(buf, at, piece) ==
    /\ at + Len(piece) <= Len(buf)
    /\ \A n \in 1 .. Len(piece) : buf[at + n] = piece[n]

(* ... or as much of it as buf is long. *)
Agrees(buf, at, piece) ==
    \A n \in 1 .. Len(piece) : at + n <= Len(buf) => buf[at + n] = piece[n]

LEMMA ConcatBytes ==
    ASSUME NEW a \in Bytes, NEW b \in Bytes
    PROVE  /\ a \o b \in Bytes
           /\ Len(a) \in Nat /\ Len(b) \in Nat /\ Len(a \o b) = Len(a) + Len(b)
           /\ \A n \in 1 .. Len(a) : (a \o b)[n] = a[n]
           /\ \A n \in 1 .. Len(b) : (a \o b)[Len(a) + n] = b[n]
<1>1. /\ a \o b \in Bytes
      /\ Len(a) \in Nat /\ Len(b) \in Nat /\ Len(a \o b) = Len(a) + Len(b)
      /\ \A n \in 1 .. Len(a) + Len(b) :
            (a \o b)[n] = IF n <= Len(a) THEN a[n] ELSE b[n - Len(a)]
  BY ConcatProperties, LenProperties DEF Bytes
<1>2. ASSUME NEW n \in 1 .. Len(b) PROVE (a \o b)[Len(a) + n] = b[n]
  <2>1. Len(a) + n \in 1 .. Len(a) + Len(b) /\ ~ (Len(a) + n <= Len(a))
    BY <1>1
  <2>2. (Len(a) + n) - Len(a) = n
    BY <1>1
  <2> QED  BY <1>1, <2>1, <2>2
<1>3. ASSUME NEW n \in 1 .. Len(a) PROVE (a \o b)[n] = a[n]
  <2>1. n \in 1 .. Len(a) + Len(b) /\ n <= Len(a)
    BY <1>1
  <2> QED  BY <1>1, <2>1
<1> QED  BY <1>1, <1>2, <1>3

LEMMA HoldsInLonger ==
    ASSUME NEW a \in Bytes, NEW b \in Bytes, NEW at \in Nat, NEW piece \in Bytes,
           Holds(a, at, piece)
    PROVE  Holds(a \o b, at, piece)
<1>0. Len(piece) \in Nat
  BY LenProperties DEF Bytes
<1>1. at + Len(piece) <= Len(a \o b)
  BY <1>0, ConcatBytes DEF Holds
<1>2. ASSUME NEW n \in 1 .. Len(piece) PROVE (a \o b)[at + n] = piece[n]
  <2>1. at + n \in 1 .. Len(a)
    BY <1>0, ConcatBytes DEF Holds
  <2> QED  BY <2>1, ConcatBytes DEF Holds
<1> QED  BY <1>1, <1>2 DEF Holds

LEMMA HoldsAtEnd ==
    ASSUME NEW a \in Bytes, NEW b \in Bytes
    PROVE  Holds(a \o b, Len(a), b)
BY ConcatBytes DEF Holds

(* What Flat does, step by step. *)
LEMMA FlatSteps ==
    ASSUME NEW seqs \in Seq(Bytes)
    PROVE  /\ Len(seqs) \in Nat
           /\ 1 <= Len(seqs) => Flat(seqs)[1] = seqs[1]
           /\ \A k \in 2 .. Len(seqs) : Flat(seqs)[k] = Flat(seqs)[k - 1] \o seqs[k]
           /\ \A k \in 1 .. Len(seqs) : seqs[k] \in Bytes
<1>1. Len(seqs) \in Nat /\ \A k \in 1 .. Len(seqs) : seqs[k] \in Bytes
  BY LenProperties, ElementOfSeq
<1>2. Flattens(Flat(seqs), seqs, Len(seqs))
  BY <1>1, FlatDef
<1>3. \A k \in 1 .. Len(seqs) :
        Flat(seqs)[k] = IF k = 1 THEN seqs[k] ELSE Flat(seqs)[k - 1] \o seqs[k]
  BY <1>2 DEF Flattens
<1>4. ASSUME NEW k \in 2 .. Len(seqs)
      PROVE  Flat(seqs)[k] = Flat(seqs)[k - 1] \o seqs[k]
  <2>1. k \in 1 .. Len(seqs) /\ k # 1
    BY <1>1
  <2> QED  BY <1>3, <2>1
<1>5. ASSUME 1 <= Len(seqs) PROVE Flat(seqs)[1] = seqs[1]
  <2>1. 1 \in 1 .. Len(seqs)
    BY <1>1, <1>5
  <2> QED  BY <1>3, <2>1
<1> QED  BY <1>1, <1>4, <1>5

(* The n-th prefix is a sequence of bytes, and holds each of the first n   *)
(* sequences at its offset.                                                *)
PrefixHolds(seqs, n) ==
    /\ Flat(seqs)[n] \in Bytes
    /\ \A k \in 1 .. n : /\ Offset(seqs, k - 1) \in Nat
                         /\ Offset(seqs, k) = Offset(seqs, k - 1) + Len(seqs[k])
                         /\ Holds(Flat(seqs)[n], Offset(seqs, k - 1), seqs[k])

LEMMA PrefixesHold ==
    ASSUME NEW seqs \in Seq(Bytes)
    PROVE  \A n \in 1 .. Len(seqs) : PrefixHolds(seqs, n)
<1> DEFINE I == {n \in Nat : n \in 1 .. Len(seqs) => PrefixHolds(seqs, n)}
<1>0. Len(seqs) \in Nat
  BY FlatSteps
<1>1. 0 \in I
  OBVIOUS
<1>2. ASSUME NEW n \in I PROVE n + 1 \in I
  <2> SUFFICES ASSUME n + 1 \in 1 .. Len(seqs) PROVE PrefixHolds(seqs, n + 1)
    OBVIOUS
  <2>0. n \in Nat /\ seqs[n + 1] \in Bytes
    BY FlatSteps
  <2>1. CASE n = 0
    <3>0. 0 + 1 = 1 /\ 1 <= Len(seqs)
      BY <2>1, <1>0
    <3>1. Flat(seqs)[1] = seqs[1] /\ seqs[1] \in Bytes /\ Len(seqs[1]) \in Nat
      BY <2>1, <2>0, <3>0, FlatSteps, LenProperties DEF Bytes
    <3>2. Offset(seqs, 0) = 0 /\ Offset(seqs, 1) = Len(seqs[1])
      BY <3>1 DEF Offset
    <3>3. Holds(seqs[1], 0, seqs[1])
      BY <3>1 DEF Holds
    <3>4. ASSUME NEW k \in 1 .. 1 PROVE k = 1 /\ k - 1 = 0
      OBVIOUS
    <3> QED  BY <2>1, <3>1, <3>2, <3>3, <3>4 DEF PrefixHolds
  <2>2. CASE n # 0
    <3>1. n \in 1 .. Len(seqs) /\ n + 1 \in 2 .. Len(seqs) /\ (n + 1) - 1 = n
      BY <2>0, <2>2
    <3>2. PrefixHolds(seqs, n)
      BY <3>1
    <3>3. Flat(seqs)[n + 1] = Flat(seqs)[n] \o seqs[n + 1]
      BY <3>1, FlatSteps
    <3>4. Flat(seqs)[n] \in Bytes
      BY <3>2 DEF PrefixHolds
    <3>5. Flat(seqs)[n + 1] \in Bytes
      BY <2>0, <3>3, <3>4, ConcatBytes
    <3>6. /\ Offset(seqs, n) = Len(Flat(seqs)[n])
          /\ Offset(seqs, n + 1) = Len(Flat(seqs)[n + 1])
      BY <3>1 DEF Offset
    <3>7. /\ Offset(seqs, n) \in Nat
          /\ Offset(seqs, n + 1) = Offset(seqs, n) + Len(seqs[n + 1])
          /\ Holds(Flat(seqs)[n + 1], Offset(seqs, n), seqs[n + 1])
      <4> DEFINE a == Flat(seqs)[n]
      <4> DEFINE b == seqs[n + 1]
      <4>1. a \in Bytes /\ b \in Bytes
        BY <2>0, <3>4
      <4> HIDE DEF a, b
      <4>2. Len(a) \in Nat /\ Len(a \o b) = Len(a) + Len(b) /\ Holds(a \o b, Len(a), b)
        BY <4>1, ConcatBytes, HoldsAtEnd
      <4> QED  BY <4>2, <3>3, <3>6 DEF a, b
    <3>8. ASSUME NEW k \in 1 .. n
          PROVE  /\ Offset(seqs, k - 1) \in Nat
                 /\ Offset(seqs, k) = Offset(seqs, k - 1) + Len(seqs[k])
                 /\ Holds(Flat(seqs)[n + 1], Offset(seqs, k - 1), seqs[k])
      <4>1. k \in 1 .. Len(seqs)
        BY <3>1
      <4>2. seqs[k] \in Bytes
        BY <4>1, FlatSteps
      <4>3. /\ Offset(seqs, k - 1) \in Nat
            /\ Offset(seqs, k) = Offset(seqs, k - 1) + Len(seqs[k])
            /\ Holds(Flat(seqs)[n], Offset(seqs, k - 1), seqs[k])
        BY <3>2 DEF PrefixHolds
      <4> QED  BY <4>2, <4>3, <3>3, <3>4, <2>0, HoldsInLonger
    <3>9. \A k \in 1 .. n + 1 : k \in 1 .. n \/ k = n + 1
      BY <2>0
    <3> QED  BY <3>1, <3>5, <3>7, <3>8, <3>9 DEF PrefixHolds
  <2> QED  BY <2>1, <2>2
<1>3. I \in SUBSET Nat
  OBVIOUS
<1>4. \A n \in Nat : n \in I
  <2> HIDE DEF I
  <2> QED  BY <1>1, <1>2, <1>3, AllNumbers
<1> QED  BY <1>0, <1>4

(* FlattenSeq puts the sequences one after the other. *)
LEMMA Flattened ==
    ASSUME NEW seqs \in Seq(Bytes)
    PROVE  /\ FlattenSeq(seqs) \in Bytes
           /\ Offset(seqs, 0) = 0
           /\ Offset(seqs, Len(seqs)) = Len(FlattenSeq(seqs))
           /\ \A k \in 0 .. Len(seqs) : Offset(seqs, k) \in Nat
           /\ \A k \in 1 .. Len(seqs) :
                /\ Offset(seqs, k) = Offset(seqs, k - 1) + Len(seqs[k])
                /\ Holds(FlattenSeq(seqs), Offset(seqs, k - 1), seqs[k])
<1>0. /\ Len(seqs) \in Nat
      /\ \A k \in 1 .. Len(seqs) : seqs[k] \in Bytes /\ Len(seqs[k]) \in Nat
  BY FlatSteps, LenProperties DEF Bytes
<1>1. Offset(seqs, 0) = 0
  BY DEF Offset
<1>2. CASE Len(seqs) = 0
  <2>1. FlattenSeq(seqs) = seqs
    BY <1>2, FlattenIsFlat
  <2>2. seqs = <<>>
    BY <1>2, EmptySeq
  <2>3. FlattenSeq(seqs) \in Bytes /\ Len(FlattenSeq(seqs)) = 0
    BY <2>1, <2>2 DEF Bytes
  <2> QED  BY <1>1, <1>2, <2>3
<1>3. CASE Len(seqs) # 0
  <2>1. Len(seqs) \in 1 .. Len(seqs)
    BY <1>0, <1>3
  <2>2. PrefixHolds(seqs, Len(seqs))
    BY <2>1, PrefixesHold
  <2>3. FlattenSeq(seqs) = Flat(seqs)[Len(seqs)]
    BY <1>3, FlattenIsFlat
  <2>4. Offset(seqs, Len(seqs)) = Len(FlattenSeq(seqs))
    BY <1>3, <2>3 DEF Offset
  <2>5. FlattenSeq(seqs) \in Bytes
    BY <2>2, <2>3 DEF PrefixHolds
  <2>6. \A k \in 1 .. Len(seqs) :
                /\ Offset(seqs, k - 1) \in Nat
                /\ Offset(seqs, k) = Offset(seqs, k - 1) + Len(seqs[k])
                /\ Holds(FlattenSeq(seqs), Offset(seqs, k - 1), seqs[k])
    BY <2>2, <2>3 DEF PrefixHolds
  <2>7. ASSUME NEW k \in 0 .. Len(seqs) PROVE Offset(seqs, k) \in Nat
    <3>1. k = 0 \/ k \in 1 .. Len(seqs)
      BY <1>0
    <3> QED  BY <1>0, <1>1, <2>6, <3>1
  <2> QED  BY <1>1, <2>4, <2>5, <2>6, <2>7
<1> QED  BY <1>0, <1>2, <1>3

-----------------------------------------------------------------------------
(* The prefix the encoder writes for a length. *)
Prefix(size, n) ==
    LET high == n \div 65536
        low == n % 65536
    IN  CASE size = 1 -> <<n>>
          [] size = 2 -> <<64 + n \div 256, n % 256>>
          [] size = 4 -> <<128 + high \div 256, high % 256, low \div 256, low % 256>>
          [] size = 8 -> <<192, 0, 0, 0, high \div 256, high % 256, low \div 256, low % 256>>

LEMMA VarIsPrefixed ==
    ASSUME NEW size, NEW data
    PROVE  Var(size, data) = Prefix(size, Len(data)) \o data
BY DEF Var, Prefix

LEMMA ByteTuples ==
    ASSUME NEW a \in Byte, NEW b \in Byte, NEW c \in Byte, NEW d \in Byte
    PROVE  /\ <<a>> \in Bytes /\ Len(<<a>>) = 1
           /\ <<a, b>> \in Bytes /\ Len(<<a, b>>) = 2
           /\ <<a, b, c, d>> \in Bytes /\ Len(<<a, b, c, d>>) = 4
BY DEF Bytes

LEMMA EightBytes ==
    ASSUME NEW a \in Byte, NEW b \in Byte,
           NEW c \in Byte, NEW d \in Byte, NEW e \in Byte, NEW f \in Byte
    PROVE  <<a, b, b, b, c, d, e, f>> \in Bytes /\ Len(<<a, b, b, b, c, d, e, f>>) = 8
BY DEF Bytes

LEMMA HighAndLow ==
    ASSUME NEW n \in Nat, n < 65536
    PROVE  /\ n % 256 \in Byte /\ n \div 256 \in Byte
           /\ n < 16384 => n \div 256 < 64
           /\ (n \div 256) * 256 + (n % 256) = n
BY DEF Byte

(* The four bytes of a length below 2^30. *)
FourBytes(n, th, tl, lh, ll) ==
    /\ (n \div 65536) \div 256 = th /\ (n \div 65536) % 256 = tl
    /\ (n % 65536) \div 256 = lh /\ (n % 65536) % 256 = ll
    /\ th < 64
    /\ ((th * 256 + tl) * 256 + lh) * 256 + ll = n

LEMMA FourBytesOf ==
    ASSUME NEW n \in Nat, n < 2 ^ 30
    PROVE  \E th, tl, lh, ll \in Byte : FourBytes(n, th, tl, lh, ll)
<1>1. 2 ^ 30 = 1073741824
  OBVIOUS
<1>2. PICK top \in Nat, low \in Nat :
        /\ top = n \div 65536 /\ low = n % 65536
        /\ top < 16384 /\ low < 65536 /\ top * 65536 + low = n
  BY <1>1
<1>3. PICK th \in Byte, tl \in Byte :
        top \div 256 = th /\ top % 256 = tl /\ th < 64 /\ th * 256 + tl = top
  BY <1>2, HighAndLow
<1>4. PICK lh \in Byte, ll \in Byte : low \div 256 = lh /\ low % 256 = ll /\ lh * 256 + ll = low
  BY <1>2, HighAndLow
<1>5. ((th * 256 + tl) * 256 + lh) * 256 + ll = n
  BY <1>2, <1>3, <1>4 DEF Byte
<1> QED  BY <1>2, <1>3, <1>4, <1>5 DEF FourBytes

LEMMA PrefixBytes ==
    ASSUME NEW size \in {1, 2, 4, 8}, NEW n \in Nat, Fits(size, n)
    PROVE  Prefix(size, n) \in Bytes /\ Len(Prefix(size, n)) = size
<1>0. n < 2 ^ 30 /\ (size = 1 => n < 64) /\ (size = 2 => n < 16384)
  <2>1. 2 ^ 30 = 1073741824
    OBVIOUS
  <2> QED  BY <2>1 DEF Fits
<1>2. PICK th \in Byte, tl \in Byte, lh \in Byte, ll \in Byte : FourBytes(n, th, tl, lh, ll)
  BY <1>0, FourBytesOf
<1>3. CASE size = 1
  <2>1. Prefix(size, n) = <<n>>
    BY <1>3 DEF Prefix
  <2>2. n \in Byte
    BY <1>0, <1>3 DEF Byte
  <2> QED  BY <1>3, <2>1, <2>2, ByteTuples
<1>4. CASE size = 2
  <2>1. PICK high \in Byte, low \in Byte : n \div 256 = high /\ n % 256 = low /\ high < 64
    BY <1>0, <1>4, HighAndLow
  <2>2. Prefix(size, n) = <<64 + high, low>>
    BY <1>4, <2>1 DEF Prefix
  <2>3. 64 + high \in Byte
    BY <2>1 DEF Byte
  <2> QED  BY <1>4, <2>2, <2>3, ByteTuples
<1>5. CASE size = 4
  <2>1. PICK first \in Byte : first = 128 + th
    BY <1>2 DEF Byte, FourBytes
  <2>2. Prefix(size, n) = <<first, tl, lh, ll>>
    BY <1>2, <1>5, <2>1 DEF Prefix, FourBytes
  <2>3. <<first, tl, lh, ll>> \in Bytes /\ Len(<<first, tl, lh, ll>>) = 4
    BY ByteTuples
  <2> QED  BY <1>5, <2>2, <2>3
<1>6. CASE size = 8
  <2>1. PICK first \in Byte, zero \in Byte : first = 192 /\ zero = 0
    BY DEF Byte
  <2>2. Prefix(size, n) = <<first, zero, zero, zero, th, tl, lh, ll>>
    BY <1>2, <1>6, <2>1 DEF Prefix, FourBytes
  <2> QED  BY <1>6, <2>2, EightBytes
<1> QED  BY <1>3, <1>4, <1>5, <1>6

LEMMA VarBytes ==
    ASSUME NEW size \in {1, 2, 4, 8}, NEW data \in Bytes, Fits(size, Len(data))
    PROVE  /\ Var(size, data) \in Bytes
           /\ Len(data) \in Nat
           /\ Len(Var(size, data)) = size + Len(data)
<1>1. Len(data) \in Nat
  BY LenProperties DEF Bytes
<1>2. Prefix(size, Len(data)) \in Bytes /\ Len(Prefix(size, Len(data))) = size
  BY <1>1, PrefixBytes
<1>3. PICK prefix \in Bytes : prefix = Prefix(size, Len(data))
  BY <1>2
<1>4. prefix \o data \in Bytes /\ Len(prefix \o data) = Len(prefix) + Len(data)
  BY ConcatBytes
<1>5. Var(size, data) = prefix \o data
  BY <1>3, VarIsPrefixed
<1> QED  BY <1>1, <1>2, <1>3, <1>4, <1>5

LEMMA AgreesParts ==
    ASSUME NEW buf, Len(buf) \in Nat, NEW at \in Nat, NEW a \in Bytes, NEW b \in Bytes,
           Agrees(buf, at, a \o b)
    PROVE  Agrees(buf, at, a) /\ Agrees(buf, at + Len(a), b)
<1>1. /\ Len(a) \in Nat /\ Len(b) \in Nat /\ Len(a \o b) = Len(a) + Len(b)
      /\ \A n \in 1 .. Len(a) : (a \o b)[n] = a[n]
      /\ \A n \in 1 .. Len(b) : (a \o b)[Len(a) + n] = b[n]
  BY ConcatBytes
<1>2. ASSUME NEW n \in 1 .. Len(a), at + n <= Len(buf) PROVE buf[at + n] = a[n]
  <2>1. n \in 1 .. Len(a \o b)
    BY <1>1
  <2> QED  BY <1>1, <1>2, <2>1 DEF Agrees
<1>3. ASSUME NEW n \in 1 .. Len(b), at + Len(a) + n <= Len(buf)
      PROVE  buf[at + Len(a) + n] = b[n]
  <2>1. Len(a) + n \in 1 .. Len(a \o b) /\ at + (Len(a) + n) = at + Len(a) + n
    BY <1>1
  <2>2. buf[at + (Len(a) + n)] = (a \o b)[Len(a) + n]
    BY <1>3, <2>1 DEF Agrees
  <2> QED  BY <1>1, <2>1, <2>2
<1> QED  BY <1>2, <1>3 DEF Agrees

(* The length read_var_bytes puts together, after each byte of the prefix. *)
Lengths(buf, at, size) ==
    LET length[k \in 0 .. size - 1] ==
          IF k = 0 THEN buf[at + 1] % 64 ELSE length[k - 1] * 256 + buf[at + 1 + k]
    IN  length

IsLengths(f, buf, at, n) ==
    f = [k \in 0 .. n |->
           IF k = 0 THEN buf[at + 1] % 64 ELSE f[k - 1] * 256 + buf[at + 1 + k]]

LEMMA LengthsExist ==
    ASSUME NEW buf, NEW at
    PROVE  \A n \in Nat : \E f : IsLengths(f, buf, at, n)
<1> DEFINE I == {n \in Nat : \E f : IsLengths(f, buf, at, n)}
<1>1. 0 \in I
  <2> DEFINE g == [k \in 0 .. 0 |-> buf[at + 1] % 64]
  <2>1. IsLengths(g, buf, at, 0)
    BY DEF IsLengths
  <2> QED  BY <2>1
<1>2. ASSUME NEW n \in I PROVE n + 1 \in I
  <2>1. PICK f : IsLengths(f, buf, at, n)
    OBVIOUS
  <2> DEFINE g == [k \in 0 .. n + 1 |->
                     IF k = n + 1 THEN f[k - 1] * 256 + buf[at + 1 + k] ELSE f[k]]
  <2>2. \A k \in 0 .. n :
          f[k] = IF k = 0 THEN buf[at + 1] % 64 ELSE f[k - 1] * 256 + buf[at + 1 + k]
    BY <2>1 DEF IsLengths
  <2>3. ASSUME NEW k \in 0 .. n + 1
        PROVE  g[k] = IF k = 0 THEN buf[at + 1] % 64 ELSE g[k - 1] * 256 + buf[at + 1 + k]
    <3>1. CASE k = n + 1
      <4>1. k # 0 /\ k - 1 \in 0 .. n + 1 /\ k - 1 # n + 1
        BY <3>1
      <4> QED  BY <3>1, <4>1
    <3>2. CASE k # n + 1
      <4>1. k \in 0 .. n /\ (k # 0 => k - 1 \in 0 .. n + 1 /\ k - 1 # n + 1)
        BY <3>2
      <4> QED  BY <3>2, <4>1, <2>2
    <3> QED  BY <3>1, <3>2
  <2>4. IsLengths(g, buf, at, n + 1)
    <3>1. g = [k \in 0 .. n + 1 |-> g[k]]
      OBVIOUS
    <3> HIDE DEF g
    <3> QED  BY <2>3, <3>1 DEF IsLengths
  <2> QED  BY <2>4
<1>3. I \in SUBSET Nat
  OBVIOUS
<1>4. \A n \in Nat : n \in I
  <2> HIDE DEF I
  <2> QED  BY <1>1, <1>2, <1>3, AllNumbers
<1> QED  BY <1>4

LEMMA LengthSteps ==
    ASSUME NEW buf, NEW at, NEW size \in {1, 2, 4}
    PROVE  /\ Lengths(buf, at, size)[0] = buf[at + 1] % 64
           /\ \A k \in 1 .. size - 1 :
                Lengths(buf, at, size)[k] =
                  Lengths(buf, at, size)[k - 1] * 256 + buf[at + 1 + k]
<1>1. size - 1 \in Nat
  OBVIOUS
<1>2. \E f : IsLengths(f, buf, at, size - 1)
  BY <1>1, LengthsExist
<1>3. IsLengths(Lengths(buf, at, size), buf, at, size - 1)
  BY <1>2, Zenon DEF Lengths, IsLengths
<1> HIDE DEF Lengths
<1> QED  BY <1>1, <1>3 DEF IsLengths

LEMMA ReadVarByLengths ==
    ASSUME NEW buf, NEW at
    PROVE  ReadVarBytes(buf, at) =
             IF at >= Len(buf) \/ buf[at + 1] \div 64 = 3 THEN Err
             ELSE LET size == 2 ^ (buf[at + 1] \div 64)
                  IN  IF at + size > Len(buf) THEN Err
                      ELSE ReadFixed(buf, at + size, Lengths(buf, at, size)[size - 1])
BY Zenon DEF ReadVarBytes, Lengths

(* The first byte of a prefix says that it has this size. *)
SizeAt(buf, at, size) ==
    buf[at + 1] \div 64 # 3 /\ size = 2 ^ (buf[at + 1] \div 64)

(* The prefix, if all of it is there, says this length. *)
LengthAt(buf, at, size, n) ==
    at + size <= Len(buf) => Lengths(buf, at, size)[size - 1] = n

(* What follows the prefix is read with this length, or refused. *)
ReadsLength(buf, at, size, n) ==
    ReadVarBytes(buf, at) =
      IF at + size + n > Len(buf) THEN Err
      ELSE Read(SubSeq(buf, at + size + 1, at + size + n), at + size + n)

(* A length read at a place, whatever it is, is followed by that many      *)
(* bytes or is refused.                                                    *)
LEMMA ReadVarOfSize ==
    ASSUME NEW buf \in Bytes, NEW at \in Nat, at < Len(buf), NEW size \in {1, 2, 4},
           SizeAt(buf, at, size),
           NEW n \in Nat, LengthAt(buf, at, size, n)
    PROVE  ReadsLength(buf, at, size, n)
<1>0. Len(buf) \in Nat
  BY LenProperties DEF Bytes
<1>1. ~ (at >= Len(buf) \/ buf[at + 1] \div 64 = 3)
  BY <1>0 DEF SizeAt
<1>2. ReadVarBytes(buf, at) =
        IF at + size > Len(buf) THEN Err
        ELSE ReadFixed(buf, at + size, Lengths(buf, at, size)[size - 1])
  BY <1>1, ReadVarByLengths, Zenon DEF SizeAt
<1>3. CASE at + size > Len(buf)
  <2>1. at + size + n > Len(buf)
    BY <1>0, <1>3
  <2> QED  BY <1>2, <1>3, <2>1 DEF ReadsLength
<1>4. CASE ~ (at + size > Len(buf))
  <2>1. Lengths(buf, at, size)[size - 1] = n
    BY <1>0, <1>4 DEF LengthAt
  <2>2. ReadVarBytes(buf, at) = ReadFixed(buf, at + size, n)
    BY <1>2, <1>4, <2>1
  <2> QED  BY <2>2 DEF ReadFixed, ReadsLength
<1> QED  BY <1>3, <1>4

(* The bytes of a prefix, as far as they are there, and what they say. *)
LEMMA PrefixRead ==
    ASSUME NEW buf \in Bytes, NEW at \in Nat, at < Len(buf),
           NEW size \in {1, 2, 4}, NEW n \in Nat, Fits(size, n),
           Agrees(buf, at, Prefix(size, n))
    PROVE  /\ SizeAt(buf, at, size)
           /\ LengthAt(buf, at, size, n)
<1>0. Len(buf) \in Nat /\ n < 2 ^ 30 /\ (size = 1 => n < 64) /\ (size = 2 => n < 16384)
  <2>1. 2 ^ 30 = 1073741824
    OBVIOUS
  <2> QED  BY <2>1, LenProperties DEF Bytes, Fits
<1>3. CASE size = 1
  <2>1. Prefix(size, n) = <<n>>
    BY <1>3 DEF Prefix
  <2>2. Agrees(buf, at, <<n>>)
    BY <2>1
  <2>3. buf[at + 1] = n
    BY <2>2, <1>0 DEF Agrees
  <2>4. n \div 64 = 0 /\ n % 64 = n /\ 2 ^ 0 = 1
    BY <1>0, <1>3
  <2>5. Lengths(buf, at, size)[0] = n
    BY <2>3, <2>4, LengthSteps
  <2>6. SizeAt(buf, at, size)
    <3>1. buf[at + 1] \div 64 = 0 /\ 0 # 3 /\ 2 ^ 0 = 1
      BY <2>3, <2>4
    <3> QED  BY <1>3, <3>1, Zenon DEF SizeAt
  <2> QED  BY <1>3, <2>5, <2>6 DEF LengthAt
<1>4. CASE size = 2
  <2>0. PICK high \in Byte, low \in Byte :
          n \div 256 = high /\ n % 256 = low /\ high < 64 /\ high * 256 + low = n
    BY <1>0, <1>4, HighAndLow
  <2>1. Prefix(size, n) = <<64 + high, low>>
    BY <1>4, <2>0 DEF Prefix
  <2>2. Agrees(buf, at, <<64 + high, low>>)
    BY <2>1
  <2>3. buf[at + 1] = 64 + high /\ (at + 2 <= Len(buf) => buf[at + 2] = low)
    BY <2>2, <1>0 DEF Agrees
  <2>4. (64 + high) \div 64 = 1 /\ (64 + high) % 64 = high /\ 2 ^ 1 = 2
    BY <2>0 DEF Byte
  <2>5. Lengths(buf, at, size)[0] = high
    BY <2>3, <2>4, LengthSteps
  <2>6. Lengths(buf, at, size)[1] = Lengths(buf, at, size)[0] * 256 + buf[at + 2]
    <3>1. 1 \in 1 .. size - 1 /\ at + 1 + 1 = at + 2 /\ 1 - 1 = 0
      BY <1>4
    <3> QED  BY <3>1, LengthSteps
  <2>7. ASSUME at + 2 <= Len(buf) PROVE Lengths(buf, at, size)[1] = n
    <3>1. Lengths(buf, at, size)[1] = high * 256 + low
      BY <2>3, <2>5, <2>6, <2>7
    <3> QED  BY <2>0, <3>1
  <2>8. size - 1 = 1
    BY <1>4
  <2>9. SizeAt(buf, at, size)
    <3>1. buf[at + 1] \div 64 = 1 /\ 1 # 3 /\ 2 ^ 1 = 2
      BY <2>3, <2>4
    <3> QED  BY <1>4, <3>1, Zenon DEF SizeAt
  <2> QED  BY <1>4, <2>7, <2>8, <2>9 DEF LengthAt
<1>5. CASE size = 4
  <2>0. PICK th \in Byte, tl \in Byte, lh \in Byte, ll \in Byte : FourBytes(n, th, tl, lh, ll)
    BY <1>0, FourBytesOf
  <2>1. PICK first \in Byte : first = 128 + th /\ first \div 64 = 2 /\ first % 64 = th
    BY <2>0 DEF Byte, FourBytes
  <2>2. Agrees(buf, at, <<first, tl, lh, ll>>)
    <3>1. Prefix(size, n) = <<first, tl, lh, ll>>
      BY <1>5, <2>0, <2>1 DEF Prefix, FourBytes
    <3> QED  BY <3>1
  <2>3. /\ buf[at + 1] = first
        /\ at + 4 <= Len(buf) => buf[at + 2] = tl /\ buf[at + 3] = lh /\ buf[at + 4] = ll
    BY <2>2, <1>0 DEF Agrees
  <2>4. 2 ^ 2 = 4
    OBVIOUS
  <2>5. Lengths(buf, at, size)[0] = th
    <3>1. Lengths(buf, at, size)[0] = buf[at + 1] % 64
      BY <1>5, LengthSteps
    <3> QED  BY <2>1, <2>3, <3>1
  <2>6. /\ Lengths(buf, at, size)[1] = Lengths(buf, at, size)[0] * 256 + buf[at + 2]
        /\ Lengths(buf, at, size)[2] = Lengths(buf, at, size)[1] * 256 + buf[at + 3]
        /\ Lengths(buf, at, size)[3] = Lengths(buf, at, size)[2] * 256 + buf[at + 4]
    <3>1. \A k \in {1, 2, 3} : k \in 1 .. size - 1 /\ at + 1 + k = at + (k + 1)
      BY <1>5
    <3>2. 1 - 1 = 0 /\ 2 - 1 = 1 /\ 3 - 1 = 2 /\ 1 + 1 = 2 /\ 2 + 1 = 3 /\ 3 + 1 = 4
      OBVIOUS
    <3> QED  BY <3>1, <3>2, LengthSteps
  <2>7. ASSUME at + 4 <= Len(buf) PROVE Lengths(buf, at, size)[3] = n
    <3>1. Lengths(buf, at, size)[1] = th * 256 + tl
      BY <2>3, <2>5, <2>6, <2>7
    <3>2. Lengths(buf, at, size)[2] = (th * 256 + tl) * 256 + lh
      BY <2>3, <2>6, <2>7, <3>1
    <3>3. Lengths(buf, at, size)[3] = ((th * 256 + tl) * 256 + lh) * 256 + ll
      BY <2>3, <2>6, <2>7, <3>2
    <3> QED  BY <2>0, <3>3 DEF FourBytes
  <2>8. size - 1 = 3
    BY <1>5
  <2>9. SizeAt(buf, at, size)
    <3>1. buf[at + 1] \div 64 = 2 /\ 2 # 3 /\ 2 ^ 2 = 4
      BY <2>1, <2>3, <2>4
    <3> QED  BY <1>5, <3>1, Zenon DEF SizeAt
  <2> QED  BY <1>5, <2>7, <2>8, <2>9 DEF LengthAt
<1> QED  BY <1>3, <1>4, <1>5

(* The bytes after a place where data stands are data. *)
LEMMA ReadBack ==
    ASSUME NEW buf \in Bytes, NEW at \in Nat, NEW data \in Bytes, Agrees(buf, at, data),
           at + Len(data) <= Len(buf)
    PROVE  SubSeq(buf, at + 1, at + Len(data)) = data
<1>0. Len(buf) \in Nat /\ Len(data) \in Nat
      /\ \A n \in 1 .. Len(buf) : buf[n] \in Byte
  BY LenProperties, ElementOfSeq DEF Bytes
<1>1. at + 1 \in Int /\ at + Len(data) \in Int
      /\ \A n \in at + 1 .. at + Len(data) : buf[n] \in Byte
  BY <1>0
<1>2. PICK m \in Int, e \in Int : m = at + 1 /\ e = at + Len(data)
  BY <1>1
<1>3. PICK s : s = SubSeq(buf, m, e)
  OBVIOUS
<1>4. /\ s \in Seq(Byte)
      /\ Len(s) = IF m <= e THEN e - m + 1 ELSE 0
      /\ \A n \in 1 .. e - m + 1 : s[n] = buf[m + n - 1]
  <2>1. \A n \in m .. e : buf[n] \in Byte
    BY <1>1, <1>2
  <2> QED  BY <1>3, <2>1, SubSeqProperties
<1>5. Len(s) = Len(data) /\ \A n \in 1 .. Len(data) : s[n] = data[n]
  <2>1. Len(s) = Len(data)
    BY <1>0, <1>2, <1>4
  <2>2. ASSUME NEW n \in 1 .. Len(data) PROVE s[n] = data[n]
    <3>1. n \in 1 .. e - m + 1 /\ m + n - 1 = at + n
      BY <1>0, <1>2
    <3>2. at + n <= Len(buf)
      BY <1>0
    <3> QED  BY <1>4, <3>1, <3>2 DEF Agrees
  <2> QED  BY <2>1, <2>2
<1>6. s \in Seq(Byte) /\ data \in Seq(Byte) /\ \A n \in 1 .. Len(s) : s[n] = data[n]
  BY <1>4, <1>5 DEF Bytes
<1>7. s = data
  BY <1>5, <1>6, SeqEqual
<1> QED  BY <1>2, <1>3, <1>7

(* What the encoder writes with a prefix of 1, 2 or 4 bytes, read_var_bytes *)
(* reads; of a truncated one it reads nothing.                             *)
THEOREM ReadVar ==
    ASSUME NEW buf \in Bytes, NEW at \in Nat, NEW size \in {1, 2, 4},
           NEW data \in Bytes, Fits(size, Len(data)), Agrees(buf, at, Var(size, data))
    PROVE  ReadVarBytes(buf, at) =
             IF at + size + Len(data) > Len(buf) THEN Err
             ELSE Read(data, at + size + Len(data))
<1>0. Len(buf) \in Nat /\ Len(data) \in Nat
  BY LenProperties DEF Bytes
<1>1. PICK prefix \in Bytes : prefix = Prefix(size, Len(data)) /\ Len(prefix) = size
  BY <1>0, PrefixBytes
<1>2. Agrees(buf, at, prefix) /\ Agrees(buf, at + size, data)
  <2>1. Agrees(buf, at, prefix \o data)
    BY <1>1, VarIsPrefixed
  <2> QED  BY <1>0, <1>1, <2>1, AgreesParts
<1>3. CASE at >= Len(buf)
  <2>1. ReadVarBytes(buf, at) = Err
    BY <1>3, ReadVarByLengths, Zenon
  <2>2. at + size + Len(data) > Len(buf)
    BY <1>0, <1>3
  <2> QED  BY <2>1, <2>2
<1>4. CASE at < Len(buf)
  <2>1. PICK n \in Nat : n = Len(data)
    BY <1>0
  <2>2. /\ SizeAt(buf, at, size)
        /\ LengthAt(buf, at, size, n)
    BY <1>1, <1>2, <1>4, <2>1, PrefixRead
  <2>3. ReadsLength(buf, at, size, n)
    BY <1>4, <2>2, ReadVarOfSize, Zenon
  <2>4. ReadVarBytes(buf, at) =
          IF at + size + n > Len(buf) THEN Err
          ELSE Read(SubSeq(buf, at + size + 1, at + size + n), at + size + n)
    BY <2>3 DEF ReadsLength
  <2>5. ASSUME ~ (at + size + n > Len(buf))
        PROVE  SubSeq(buf, at + size + 1, at + size + n) = data
    <3>1. at + size \in Nat /\ (at + size) + Len(data) <= Len(buf)
      BY <1>0, <2>1, <2>5
    <3> QED  BY <1>2, <2>1, <3>1, ReadBack
  <2> QED  BY <2>1, <2>4, <2>5
<1> QED  BY <1>0, <1>3, <1>4

(* The prefix of eight bytes is refused. *)
LEMMA ReadVarOfEight ==
    ASSUME NEW buf \in Bytes, NEW at \in Nat, NEW data \in Bytes, Fits(8, Len(data)),
           Agrees(buf, at, Var(8, data))
    PROVE  ReadVarBytes(buf, at) = Err
<1>0. Len(buf) \in Nat /\ Len(data) \in Nat
  BY LenProperties DEF Bytes
<1>1. PICK prefix \in Bytes : prefix = Prefix(8, Len(data)) /\ Len(prefix) = 8
  BY <1>0, PrefixBytes
<1>2. Agrees(buf, at, prefix)
  <2>1. Agrees(buf, at, prefix \o data)
    BY <1>1, VarIsPrefixed
  <2> QED  BY <1>0, <1>1, <2>1, AgreesParts
<1>3. CASE at >= Len(buf)
  BY <1>3, ReadVarByLengths, Zenon
<1>4. CASE ~ (at >= Len(buf))
  <2>1. prefix[1] = 192
    BY <1>1 DEF Prefix
  <2>2. buf[at + 1] = 192
    BY <1>0, <1>1, <1>2, <1>4, <2>1 DEF Agrees
  <2>3. buf[at + 1] \div 64 = 3
    BY <2>2
  <2> QED  BY <2>3, ReadVarByLengths, Zenon
<1> QED  BY <1>3, <1>4

(* Whatever the bytes are, a field that read_var_bytes reads lies inside   *)
(* of them.                                                                *)
THEOREM ReadVarInside ==
    ASSUME NEW buf \in Bytes, NEW at \in Nat
    PROVE  \/ ReadVarBytes(buf, at) = Err
           \/ \E data \in Bytes, next \in at + 1 .. Len(buf) :
                ReadVarBytes(buf, at) = Read(data, next)
<1>0. Len(buf) \in Nat /\ \A k \in 1 .. Len(buf) : buf[k] \in 0 .. 255
  BY LenProperties, ElementOfSeq DEF Bytes, Byte
<1>1. CASE at >= Len(buf) \/ buf[at + 1] \div 64 = 3
  BY <1>1, ReadVarByLengths, Zenon
<1>2. CASE ~ (at >= Len(buf) \/ buf[at + 1] \div 64 = 3)
  <2>1. at < Len(buf) /\ buf[at + 1] \in 0 .. 255
    BY <1>0, <1>2
  <2>2. buf[at + 1] \div 64 \in {0, 1, 2} /\ buf[at + 1] % 64 \in Nat
    <3>1. ASSUME NEW b \in 0 .. 255, b \div 64 # 3
          PROVE  b \div 64 \in {0, 1, 2} /\ b % 64 \in Nat
      BY <3>1
    <3> QED  BY <1>2, <2>1, <3>1
  <2>3. PICK size \in {1, 2, 4} : SizeAt(buf, at, size)
    <3>1. 2 ^ 0 = 1 /\ 2 ^ 1 = 2 /\ 2 ^ 2 = 4
      OBVIOUS
    <3>2. 2 ^ (buf[at + 1] \div 64) \in {1, 2, 4}
      <4>1. ASSUME NEW q \in {0, 1, 2} PROVE 2 ^ q \in {1, 2, 4}
        BY <3>1, Zenon
      <4> QED  BY <2>2, <4>1, Zenon
    <3> QED  BY <1>2, <3>2, Zenon DEF SizeAt
  <2>4. PICK n \in Nat : LengthAt(buf, at, size, n)
    <3>1. CASE at + size <= Len(buf)
      <4> DEFINE l == Lengths(buf, at, size)
      <4>1. \A k \in 0 .. size - 1 : buf[at + 1 + k] \in 0 .. 255
        BY <1>0, <3>1
      <4>2. l[0] \in Nat
        BY <2>2, LengthSteps
      <4>3. \A k \in 1 .. size - 1 : l[k] = l[k - 1] * 256 + buf[at + 1 + k]
        BY LengthSteps
      <4> HIDE DEF l
      <4>4. ASSUME NEW k \in 1 .. size - 1, l[k - 1] \in Nat PROVE l[k] \in Nat
        <5>1. k \in 0 .. size - 1
          OBVIOUS
        <5>2. PICK b \in 0 .. 255 : b = buf[at + 1 + k]
          BY <4>1, <5>1
        <5>3. l[k] = l[k - 1] * 256 + b
          BY <4>3, <5>2
        <5> QED  BY <4>4, <5>3
      <4>5. l[size - 1] \in Nat
        <5>1. CASE size = 1
          BY <4>2, <5>1
        <5>2. CASE size = 2
          <6>1. 1 \in 1 .. size - 1 /\ 1 - 1 = 0 /\ size - 1 = 1
            BY <5>2
          <6> QED  BY <4>2, <4>4, <6>1
        <5>3. CASE size = 4
          <6>1. /\ 1 \in 1 .. size - 1 /\ 2 \in 1 .. size - 1 /\ 3 \in 1 .. size - 1
                /\ 1 - 1 = 0 /\ 2 - 1 = 1 /\ 3 - 1 = 2 /\ size - 1 = 3
            BY <5>3
          <6>2. l[1] \in Nat
            BY <4>2, <4>4, <6>1
          <6>3. l[2] \in Nat
            BY <4>4, <6>1, <6>2
          <6> QED  BY <4>4, <6>1, <6>3
        <5> QED  BY <5>1, <5>2, <5>3
      <4> QED  BY <4>5 DEF l, LengthAt
    <3>2. CASE ~ (at + size <= Len(buf))
      <4>1. 0 \in Nat
        OBVIOUS
      <4> QED  BY <3>2, <4>1, Zenon DEF LengthAt
    <3> QED  BY <3>1, <3>2, Zenon
  <2>5. ReadVarBytes(buf, at) =
          IF at + size + n > Len(buf) THEN Err
          ELSE Read(SubSeq(buf, at + size + 1, at + size + n), at + size + n)
    <3>1. ReadsLength(buf, at, size, n)
      BY <2>1, <2>3, <2>4, ReadVarOfSize
    <3> QED  BY <3>1 DEF ReadsLength
  <2>6. ASSUME ~ (at + size + n > Len(buf))
        PROVE  /\ at + size + n \in at + 1 .. Len(buf)
               /\ SubSeq(buf, at + size + 1, at + size + n) \in Bytes
    <3>1. at + size + n \in at + 1 .. Len(buf)
      BY <1>0, <2>6
    <3>2. PICK m \in Int, e \in Int : m = at + size + 1 /\ e = at + size + n
      OBVIOUS
    <3>3. \A k \in m .. e : buf[k] \in Byte
      BY <1>0, <2>6, <3>2 DEF Byte
    <3>4. SubSeq(buf, m, e) \in Seq(Byte)
      BY <3>3, SubSeqProperties
    <3> QED  BY <3>1, <3>2, <3>4 DEF Bytes
  <2> QED  BY <2>5, <2>6
<1> QED  BY <1>1, <1>2

-----------------------------------------------------------------------------
(* What Entries makes of the entries from each offset on. *)
EntriesFrom(buf) ==
    LET from[k \in 0 .. Len(buf)] ==
          LET data == ReadVarBytes(buf, k + 2)
          IN  IF k = Len(buf) THEN [list |-> <<>>, whole |-> TRUE]
              ELSE IF k + 2 > Len(buf) THEN [list |-> <<>>, whole |-> FALSE]
              ELSE IF ~ data.ok THEN [list |-> <<>>, whole |-> FALSE]
              ELSE LET rest == from[data.value.next]
                   IN  [rest EXCEPT !.list =
                          <<[id |-> buf[k + 1] * 256 + buf[k + 2],
                             data |-> data.value.data]>> \o @]
    IN  from

(* One step of it, with f for what follows. *)
EntryStep(buf, f, k) ==
    LET data == ReadVarBytes(buf, k + 2)
    IN  IF k = Len(buf) THEN [list |-> <<>>, whole |-> TRUE]
        ELSE IF k + 2 > Len(buf) THEN [list |-> <<>>, whole |-> FALSE]
        ELSE IF ~ data.ok THEN [list |-> <<>>, whole |-> FALSE]
        ELSE LET rest == f[data.value.next]
             IN  [rest EXCEPT !.list =
                    <<[id |-> buf[k + 1] * 256 + buf[k + 2],
                       data |-> data.value.data]>> \o @]

ListsFrom(f, buf, low) == f = [k \in low .. Len(buf) |-> EntryStep(buf, f, k)]

(* A step looks only at what follows it: the reader always moves on. *)
LEMMA EntryStepLooksAhead ==
    ASSUME NEW buf \in Bytes, NEW k \in 0 .. Len(buf), NEW f, NEW g,
           \A j \in k + 1 .. Len(buf) : f[j] = g[j]
    PROVE  EntryStep(buf, f, k) = EntryStep(buf, g, k)
<1>0. Len(buf) \in Nat /\ k + 2 \in Nat
  BY LenProperties DEF Bytes
<1>1. PICK r : r = ReadVarBytes(buf, k + 2)
  OBVIOUS
<1>2. CASE r = Err
  <2>1. ~ r.ok
    BY <1>2 DEF Err
  <2> QED  BY <1>1, <2>1 DEF EntryStep
<1>3. CASE r # Err
  <2>1. PICK data \in Bytes, next \in k + 2 + 1 .. Len(buf) : r = Read(data, next)
    BY <1>0, <1>1, <1>3, ReadVarInside
  <2>2. next \in k + 1 .. Len(buf) /\ r.value.next = next
    BY <1>0, <2>1 DEF Read, Ok
  <2>3. f[r.value.next] = g[r.value.next]
    BY <2>2
  <2> QED  BY <1>1, <2>3, Zenon DEF EntryStep
<1> QED  BY <1>2, <1>3

LEMMA ListsFromExists ==
    ASSUME NEW buf \in Bytes
    PROVE  \E f : ListsFrom(f, buf, 0)
<1> DEFINE I == {n \in Nat : n <= Len(buf) => \E f : ListsFrom(f, buf, Len(buf) - n)}
<1>0. Len(buf) \in Nat
  BY LenProperties DEF Bytes
<1>1. 0 \in I
  <2> DEFINE g == [k \in Len(buf) .. Len(buf) |-> EntryStep(buf, <<>>, k)]
  <2>1. ASSUME NEW k \in Len(buf) .. Len(buf) PROVE g[k] = EntryStep(buf, g, k)
    <3>1. k = Len(buf)
      BY <1>0
    <3>2. \A f : EntryStep(buf, f, k) = [list |-> <<>>, whole |-> TRUE]
      BY <3>1 DEF EntryStep
    <3> QED  BY <3>2
  <2>2. g = [k \in Len(buf) .. Len(buf) |-> g[k]]
    OBVIOUS
  <2>3. ListsFrom(g, buf, Len(buf))
    <3> HIDE DEF g
    <3> QED  BY <2>1, <2>2 DEF ListsFrom
  <2>4. Len(buf) - 0 = Len(buf)
    BY <1>0
  <2> QED  BY <2>3, <2>4
<1>2. ASSUME NEW n \in I PROVE n + 1 \in I
  <2> SUFFICES ASSUME n + 1 <= Len(buf) PROVE \E f : ListsFrom(f, buf, Len(buf) - (n + 1))
    OBVIOUS
  <2>0. PICK low \in Nat : low = Len(buf) - (n + 1) /\ low + 1 = Len(buf) - n
    BY <1>0
  <2>1. PICK f : ListsFrom(f, buf, low + 1)
    BY <1>0, <2>0
  <2> DEFINE g == [k \in low .. Len(buf) |->
                     IF k = low THEN EntryStep(buf, f, k) ELSE f[k]]
  <2>2. \A k \in low + 1 .. Len(buf) : f[k] = EntryStep(buf, f, k)
    BY <2>1 DEF ListsFrom
  <2>3. \A k \in low + 1 .. Len(buf) : g[k] = f[k]
    BY <1>0, <2>0
  <2>4. ASSUME NEW k \in low .. Len(buf) PROVE g[k] = EntryStep(buf, g, k)
    <3>1. \A j \in k + 1 .. Len(buf) : f[j] = g[j]
      BY <1>0, <2>0, <2>3
    <3>2. k \in 0 .. Len(buf)
      BY <2>0
    <3>3. EntryStep(buf, f, k) = EntryStep(buf, g, k)
      <4> HIDE DEF g
      <4> QED  BY <3>1, <3>2, EntryStepLooksAhead
    <3>4. g[k] = EntryStep(buf, f, k)
      <4>1. k = low \/ k \in low + 1 .. Len(buf)
        BY <1>0, <2>0
      <4> QED  BY <2>2, <2>3, <4>1
    <3> QED  BY <3>3, <3>4
  <2>5. g = [k \in low .. Len(buf) |-> g[k]]
    OBVIOUS
  <2>6. ListsFrom(g, buf, low)
    <3> HIDE DEF g
    <3> QED  BY <2>4, <2>5 DEF ListsFrom
  <2> QED  BY <2>0, <2>6
<1>3. I \in SUBSET Nat
  OBVIOUS
<1>4. \A n \in Nat : n \in I
  <2> HIDE DEF I
  <2> QED  BY <1>1, <1>2, <1>3, AllNumbers
<1>5. Len(buf) \in I /\ Len(buf) - Len(buf) = 0
  BY <1>0, <1>4
<1> QED  BY <1>0, <1>5

LEMMA EntriesSteps ==
    ASSUME NEW buf \in Bytes
    PROVE  /\ Entries(buf) = EntriesFrom(buf)[0]
           /\ \A k \in 0 .. Len(buf) : EntriesFrom(buf)[k] = EntryStep(buf, EntriesFrom(buf), k)
<1>1. \E f : ListsFrom(f, buf, 0)
  BY ListsFromExists
<1>2. ListsFrom(EntriesFrom(buf), buf, 0)
  BY <1>1, Zenon DEF EntriesFrom, ListsFrom, EntryStep
<1>3. Entries(buf) = EntriesFrom(buf)[0]
  BY Zenon DEF Entries, EntriesFrom
<1> QED  BY <1>2, <1>3, Zenon DEF ListsFrom

LEMMA HoldsAgrees ==
    ASSUME NEW buf, Len(buf) \in Nat, NEW at \in Nat, NEW piece \in Bytes,
           Holds(buf, at, piece)
    PROVE  Agrees(buf, at, piece)
BY DEF Holds, Agrees

LEMMA HoldsParts ==
    ASSUME NEW buf, Len(buf) \in Nat, NEW at \in Nat, NEW a \in Bytes, NEW b \in Bytes,
           Holds(buf, at, a \o b)
    PROVE  Holds(buf, at, a) /\ Holds(buf, at + Len(a), b)
<1>1. Len(a) \in Nat /\ Len(b) \in Nat /\ Len(a \o b) = Len(a) + Len(b) /\ a \o b \in Bytes
  BY ConcatBytes
<1>2. Agrees(buf, at, a) /\ Agrees(buf, at + Len(a), b)
  BY <1>1, HoldsAgrees, AgreesParts
<1>3. at + (Len(a) + Len(b)) <= Len(buf)
  BY <1>1 DEF Holds
<1>4. ASSUME NEW n \in 1 .. Len(a) PROVE buf[at + n] = a[n]
  <2>1. at + n <= Len(buf)
    BY <1>1, <1>3
  <2> QED  BY <1>2, <2>1 DEF Agrees
<1>5. ASSUME NEW n \in 1 .. Len(b) PROVE buf[at + Len(a) + n] = b[n]
  <2>1. at + Len(a) + n <= Len(buf)
    BY <1>1, <1>3
  <2> QED  BY <1>2, <2>1 DEF Agrees
<1> QED  BY <1>1, <1>3, <1>4, <1>5 DEF Holds

(* Entries that can be encoded. *)
Entry(size) == {e \in [id : Ids, data : Bytes] : Fits(size, Len(e.data))}

Encoded(size, list) == [k \in DOMAIN list |-> EncodeComponent(size, list[k])]

LEMMA U16Bytes ==
    ASSUME NEW id \in Ids
    PROVE  /\ U16(id) \in Bytes /\ Len(U16(id)) = 2
           /\ U16(id)[1] * 256 + U16(id)[2] = id
<1>1. PICK high \in Byte, low \in Byte :
        id \div 256 = high /\ id % 256 = low /\ high * 256 + low = id
  <2>1. id \in Nat /\ id < 65536
    BY DEF Ids
  <2> QED  BY <2>1, HighAndLow
<1>2. U16(id) = <<high, low>>
  BY <1>1 DEF U16
<1>3. <<high, low>> \in Bytes /\ Len(<<high, low>>) = 2
  BY ByteTuples
<1>4. <<high, low>>[1] = high /\ <<high, low>>[2] = low
  OBVIOUS
<1> QED  BY <1>1, <1>2, <1>3, <1>4, Zenon

LEMMA EntryBytes ==
    ASSUME NEW size \in {1, 2, 4, 8}, NEW e \in Entry(size)
    PROVE  /\ e = [id |-> e.id, data |-> e.data]
           /\ EncodeComponent(size, e) \in Bytes
           /\ Len(e.data) \in Nat
           /\ Len(EncodeComponent(size, e)) = 2 + size + Len(e.data)
<1>0. e \in [id : Ids, data : Bytes] /\ Fits(size, Len(e.data))
  BY DEF Entry
<1>1. e = [id |-> e.id, data |-> e.data] /\ e.id \in Ids /\ e.data \in Bytes
  BY <1>0
<1>2. PICK id \in Ids, data \in Bytes : id = e.id /\ data = e.data
  BY <1>1
<1>4. PICK two \in Bytes : two = U16(id) /\ Len(two) = 2
  BY U16Bytes
<1>5. PICK var \in Bytes :
        var = Var(size, data) /\ Len(var) = size + Len(data) /\ Len(data) \in Nat
  BY <1>0, <1>2, VarBytes
<1>6. two \o var \in Bytes /\ Len(two \o var) = Len(two) + Len(var)
  BY ConcatBytes
<1>7. EncodeComponent(size, e) = two \o var
  BY <1>2, <1>4, <1>5 DEF EncodeComponent
<1>8. Len(EncodeComponent(size, e)) = 2 + size + Len(data)
  BY <1>4, <1>5, <1>6, <1>7
<1> QED  BY <1>1, <1>2, <1>5, <1>6, <1>7, <1>8

(* One entry is read as it was written, and the reader goes on behind it. *)
EntryIsRead(buf, at, id, data, n, f) ==
    /\ at + n <= Len(buf)
    /\ EntryStep(buf, f, at) =
         [f[at + n] EXCEPT !.list = <<[id |-> id, data |-> data]>> \o @]

LEMMA EntryRead ==
    ASSUME NEW buf \in Bytes, NEW at \in Nat, NEW size \in {1, 2, 4},
           NEW id \in Ids, NEW data \in Bytes,
           NEW n \in Nat, n = Len(data), Fits(size, n), NEW f,
           Holds(buf, at, U16(id) \o Var(size, data))
    PROVE  EntryIsRead(buf, at, id, data, 2 + size + n, f)
<1>0. Len(buf) \in Nat
  BY LenProperties DEF Bytes
<1>2. PICK two \in Bytes : two = U16(id) /\ Len(two) = 2 /\ two[1] * 256 + two[2] = id
  BY U16Bytes
<1>3. PICK var \in Bytes : var = Var(size, data) /\ Len(var) = size + n
  BY VarBytes
<1>4. Holds(buf, at, two \o var)
  BY <1>2, <1>3
<1>5. Holds(buf, at, two) /\ Holds(buf, at + Len(two), var)
  BY <1>0, <1>4, HoldsParts
<1>6. PICK place \in Nat : place = at + 2
  OBVIOUS
<1>7. Holds(buf, place, var)
  BY <1>2, <1>5, <1>6
<1>8. buf[at + 1] = two[1] /\ buf[at + 2] = two[2]
  BY <1>2, <1>5 DEF Holds
<1>9. Agrees(buf, place, Var(size, data))
  BY <1>0, <1>3, <1>7, HoldsAgrees
<1>10. place + (size + n) <= Len(buf)
  BY <1>3, <1>7 DEF Holds
<1>11. PICK next \in Nat :
         next = at + (2 + size + n) /\ next = place + size + n /\ next <= Len(buf) /\ next > at + 2
  BY <1>0, <1>6, <1>10
<1>12. ReadVarBytes(buf, place) = Read(data, next)
  <2>1. ReadVarBytes(buf, place) =
          IF place + size + n > Len(buf) THEN Err ELSE Read(data, place + size + n)
    BY <1>9, ReadVar
  <2>2. ~ (place + size + n > Len(buf))
    BY <1>0, <1>11
  <2> QED  BY <1>11, <2>1, <2>2
<1>13. at # Len(buf) /\ ~ (at + 2 > Len(buf))
  BY <1>0, <1>11
<1>14. buf[at + 1] * 256 + buf[at + 2] = id
  BY <1>2, <1>8
<1>15. PICK r : r = ReadVarBytes(buf, at + 2)
  OBVIOUS
<1>16. r.ok /\ r.value.data = data /\ r.value.next = next
  BY <1>6, <1>12, <1>15 DEF Read, Ok
<1>17. EntryStep(buf, f, at) =
         [f[next] EXCEPT !.list = <<[id |-> id, data |-> data]>> \o @]
  BY <1>13, <1>14, <1>15, <1>16, Zenon DEF EntryStep
<1> QED  BY <1>11, <1>17, Zenon DEF EntryIsRead

LEMMA EncodedList ==
    ASSUME NEW size \in {1, 2, 4, 8}, NEW list \in Seq(Entry(size))
    PROVE  /\ Encoded(size, list) \in Seq(Bytes)
           /\ Len(list) \in Nat
           /\ Len(Encoded(size, list)) = Len(list)
           /\ \A k \in 1 .. Len(list) :
                /\ list[k] \in Entry(size)
                /\ Encoded(size, list)[k] = EncodeComponent(size, list[k])
<1>1. /\ Len(list) \in Nat /\ DOMAIN list = 1 .. Len(list)
      /\ \A k \in 1 .. Len(list) : list[k] \in Entry(size)
  BY LenProperties, ElementOfSeq
<1>2. Encoded(size, list) = [k \in 1 .. Len(list) |-> EncodeComponent(size, list[k])]
  BY <1>1 DEF Encoded
<1>3. \A k \in 1 .. Len(list) : EncodeComponent(size, list[k]) \in Bytes
  BY <1>1, EntryBytes
<1>4. Encoded(size, list) \in [1 .. Len(list) -> Bytes]
  BY <1>2, <1>3
<1>5. Encoded(size, list) \in Seq(Bytes) /\ DOMAIN Encoded(size, list) = 1 .. Len(list)
  BY <1>1, <1>4, IsASeq
<1>6. Len(Encoded(size, list)) = Len(list)
  <2>1. /\ Len(Encoded(size, list)) \in Nat
        /\ DOMAIN Encoded(size, list) = 1 .. Len(Encoded(size, list))
    BY <1>5, LenProperties
  <2> QED  BY <1>1, <1>5, <2>1
<1> QED  BY <1>1, <1>2, <1>5, <1>6

(* Nothing follows the list, or one byte that makes it incomplete. *)
JunkSays(junk, whole) ==
    \/ Len(junk) = 0 /\ whole = TRUE
    \/ Len(junk) = 1 /\ whole = FALSE

(* The prefix sizes the reader takes. *)
ReadSizes == {1, 2, 4}

(* Entries as they are encoded, and what follows them. *)
Listing(size, list, junk) == FlattenSeq(Encoded(size, list)) \o junk

(* A list of encoded entries is read as that list, and a byte after it     *)
(* makes it incomplete.                                                    *)

LEMMA EntriesRead ==
    ASSUME NEW size \in ReadSizes, NEW list \in Seq(Entry(size)),
           NEW junk \in Bytes, NEW whole, JunkSays(junk, whole)
    PROVE  Entries(Listing(size, list, junk)) = [list |-> list, whole |-> whole]
<1> PICK buf : buf = Listing(size, list, junk)
  OBVIOUS
<1> SUFFICES Entries(buf) = [list |-> list, whole |-> whole]
  OBVIOUS
<1> size \in {1, 2, 4} /\ size \in {1, 2, 4, 8}
  BY DEF ReadSizes
<1>0. /\ Encoded(size, list) \in Seq(Bytes)
      /\ Len(list) \in Nat
      /\ Len(Encoded(size, list)) = Len(list)
      /\ \A k \in 1 .. Len(list) :
           /\ list[k] \in Entry(size)
           /\ Encoded(size, list)[k] = EncodeComponent(size, list[k])
  BY EncodedList
<1>1. PICK seqs \in Seq(Bytes) : seqs = Encoded(size, list)
  BY <1>0
<1>2. PICK total \in Nat : total = Len(list) /\ total = Len(seqs)
  BY <1>0, <1>1
<1>3. PICK flat \in Bytes : flat = FlattenSeq(seqs)
  BY Flattened
<1>4. /\ Offset(seqs, 0) = 0
      /\ Offset(seqs, total) = Len(flat)
      /\ \A k \in 0 .. total : Offset(seqs, k) \in Nat
      /\ \A k \in 1 .. total : /\ Offset(seqs, k) = Offset(seqs, k - 1) + Len(seqs[k])
                               /\ Holds(flat, Offset(seqs, k - 1), seqs[k])
  BY <1>2, <1>3, Flattened
<1>5. Len(junk) \in {0, 1}
  BY DEF JunkSays
<1>6. buf = flat \o junk
  BY <1>1, <1>3 DEF Listing
<1>7. buf \in Bytes /\ Len(flat) \in Nat /\ Len(buf) = Len(flat) + Len(junk)
  BY <1>6, ConcatBytes
<1> DEFINE From == EntriesFrom(buf)
<1> DEFINE Reads(k) ==
      From[Offset(seqs, k)] = [list |-> SubSeq(list, k + 1, total), whole |-> whole]
<1>8. /\ Entries(buf) = From[0]
      /\ \A k \in 0 .. Len(buf) : From[k] = EntryStep(buf, From, k)
  BY <1>7, EntriesSteps
<1> HIDE DEF From
<1>9. Reads(total)
  <2>1. SubSeq(list, total + 1, total) = <<>>
    <3>1. total + 1 \in Int /\ total \in Int /\ total < total + 1
      OBVIOUS
    <3> QED  BY <3>1, SubSeqEmpty
  <2>2. PICK at \in Nat : at = Len(flat)
    BY <1>7
  <2>3. at \in 0 .. Len(buf)
    BY <1>5, <1>7, <2>2
  <2>4. From[at] = EntryStep(buf, From, at)
    BY <1>8, <2>3
  <2>5. CASE Len(junk) = 0 /\ whole = TRUE
    <3>1. at = Len(buf)
      BY <1>5, <1>7, <2>2, <2>5
    <3>2. EntryStep(buf, From, at) = [list |-> <<>>, whole |-> TRUE]
      BY <3>1 DEF EntryStep
    <3> QED  BY <1>4, <2>1, <2>2, <2>4, <2>5, <3>2
  <2>6. CASE Len(junk) = 1 /\ whole = FALSE
    <3>1. at # Len(buf) /\ at + 2 > Len(buf)
      BY <1>5, <1>7, <2>2, <2>6
    <3>2. EntryStep(buf, From, at) = [list |-> <<>>, whole |-> FALSE]
      BY <3>1 DEF EntryStep
    <3> QED  BY <1>4, <2>1, <2>2, <2>4, <2>6, <3>2
  <2> QED  BY <2>5, <2>6 DEF JunkSays
<1>10. ASSUME NEW k \in 1 .. total, Reads(k) PROVE Reads(k - 1)
  <2>1. list[k] \in Entry(size) /\ seqs[k] = EncodeComponent(size, list[k])
    BY <1>0, <1>1, <1>2
  <2>2. PICK id \in Ids, data \in Bytes :
          list[k] = [id |-> id, data |-> data] /\ Fits(size, Len(data))
    BY <2>1 DEF Entry
  <2>3. PICK n \in Nat, step \in Nat : n = Len(data) /\ step = 2 + size + n
    BY LenProperties DEF Bytes
  <2>4. PICK at \in Nat : at = Offset(seqs, k - 1)
    <3>1. k - 1 \in 0 .. total
      OBVIOUS
    <3> QED  BY <1>4, <3>1
  <2>5. seqs[k] = U16(id) \o Var(size, data) /\ Len(seqs[k]) = step /\ seqs[k] \in Bytes
    <3>1. list[k].id = id /\ list[k].data = data
      BY <2>2
    <3>2. seqs[k] = U16(id) \o Var(size, data)
      BY <2>1, <3>1, Zenon DEF EncodeComponent
    <3>3. seqs[k] \in Bytes /\ Len(seqs[k]) = 2 + size + Len(list[k].data)
      <4>1. /\ EncodeComponent(size, list[k]) \in Bytes
            /\ Len(EncodeComponent(size, list[k])) = 2 + size + Len(list[k].data)
        BY <2>1, EntryBytes, Zenon
      <4> QED  BY <2>1, <4>1, Zenon
    <3> QED  BY <2>3, <3>1, <3>2, <3>3
  <2>6. Holds(buf, at, seqs[k])
    <3>1. Holds(flat, at, seqs[k])
      BY <1>4, <2>4
    <3> QED  BY <1>6, <2>5, <3>1, HoldsInLonger
  <2>7. Holds(buf, at, U16(id) \o Var(size, data))
    BY <2>5, <2>6
  <2>8. /\ at + step <= Len(buf)
        /\ EntryStep(buf, From, at) =
             [From[at + step] EXCEPT !.list = <<[id |-> id, data |-> data]>> \o @]
    <3>1. Fits(size, n)
      BY <2>2, <2>3
    <3>2. buf \in Bytes
      BY <1>7
    <3>3. EntryIsRead(buf, at, id, data, step, From)
      BY <2>3, <2>7, <3>1, <3>2, EntryRead
    <3> QED  BY <3>3, Zenon DEF EntryIsRead
  <2>9. Offset(seqs, k) = at + step
    <3>1. Offset(seqs, k) = Offset(seqs, k - 1) + Len(seqs[k])
      BY <1>4
    <3> QED  BY <2>4, <2>5, <3>1
  <2>10. From[at] = EntryStep(buf, From, at)
    <3>1. at \in 0 .. Len(buf)
      BY <1>5, <1>7, <2>8
    <3> QED  BY <1>8, <3>1
  <2>11. PICK rest : rest = SubSeq(list, k + 1, total)
    OBVIOUS
  <2>12. From[at + step] = [list |-> rest, whole |-> whole]
    BY <1>10, <2>9, <2>11
  <2>13. From[at] = [list |-> <<list[k]>> \o rest, whole |-> whole]
    <3>1. PICK one : one = <<list[k]>>
      OBVIOUS
    <3>2. From[at] = [From[at + step] EXCEPT !.list = one \o @]
      BY <2>2, <2>8, <2>10, <3>1, Zenon
    <3>3. PICK r : r = From[at + step]
      OBVIOUS
    <3>4. From[at] = [r EXCEPT !.list = one \o @] /\ r = [list |-> rest, whole |-> whole]
      BY <2>12, <3>2, <3>3, Zenon
    <3>5. From[at] = [list |-> one \o rest, whole |-> whole]
      BY <3>4
    <3> QED  BY <3>1, <3>5, Zenon
  <2>14. SubSeq(list, k, total) = <<list[k]>> \o rest
    <3>1. k \in 1 .. Len(list) /\ total \in k .. Len(list)
      BY <1>2
    <3> QED  BY <2>11, <3>1, SubSeqRecursiveFirst
  <2>15. (k - 1) + 1 = k
    OBVIOUS
  <2> QED  BY <2>4, <2>13, <2>14, <2>15
<1> HIDE DEF Reads
<1> DEFINE I == {m \in Nat : m <= total => Reads(total - m)}
<1>11. 0 \in I
  <2>1. total - 0 = total
    OBVIOUS
  <2> QED  BY <1>9, <2>1
<1>12. ASSUME NEW m \in I PROVE m + 1 \in I
  <2> SUFFICES ASSUME m + 1 <= total PROVE Reads(total - (m + 1))
    OBVIOUS
  <2>1. PICK k \in 1 .. total : k = total - m /\ k - 1 = total - (m + 1)
    OBVIOUS
  <2>2. Reads(k)
    BY <2>1
  <2> QED  BY <1>10, <2>1, <2>2
<1>13. I \in SUBSET Nat
  OBVIOUS
<1>14. \A m \in Nat : m \in I
  <2> HIDE DEF I
  <2> QED  BY <1>11, <1>12, <1>13, AllNumbers
<1>15. Reads(0)
  <2>1. total \in I
    BY <1>14
  <2>2. total - total = 0 /\ total <= total
    OBVIOUS
  <2> QED  BY <2>1, <2>2
<1>16. SubSeq(list, 1, total) = list
  BY <1>2, SubSeqFull
<1>17. 0 + 1 = 1
  OBVIOUS
<1> QED  BY <1>4, <1>8, <1>15, <1>16, <1>17 DEF Reads

-----------------------------------------------------------------------------
JunkAt(e, where) == IF e.junk = where THEN <<0>> ELSE <<>>

(* An extension whose lengths fit. *)
ExtensionFits(size, e) ==
    /\ e \in Extension
    /\ Fits(size, Len(Dictionary(size, e)))
    /\ Fits(size, Len(EncodeComponents(size, e.components)) + 1)
    /\ \A c \in DOMAIN e.components : Fits(size, Len(e.components[c].data))

LEMMA ExtensionParts ==
    ASSUME NEW size, NEW e, ExtensionFits(size, e)
    PROVE  /\ e.type \in Ids
           /\ e.components \in Seq(Components)
           /\ e.junk \in {"none", "inside", "after"}
<1>1. e \in Extension
  BY Zenon DEF ExtensionFits
<1> QED  BY <1>1 DEF Extension

LEMMA JunkBytes ==
    ASSUME NEW e, NEW where
    PROVE  /\ JunkAt(e, where) \in Bytes
           /\ Len(JunkAt(e, where)) = IF e.junk = where THEN 1 ELSE 0
<1>1. PICK zero \in Byte : zero = 0
  BY DEF Byte
<1>2. <<zero>> \in Bytes /\ Len(<<zero>>) = 1
  BY ByteTuples
<1>3. <<>> \in Bytes /\ Len(<<>>) = 0
  BY DEF Bytes
<1> QED  BY <1>1, <1>2, <1>3 DEF JunkAt

LEMMA ComponentsAreEntries ==
    ASSUME NEW size \in {1, 2, 4, 8}, NEW e, ExtensionFits(size, e)
    PROVE  /\ e.components \in Seq(Entry(size))
           /\ EncodeComponents(size, e.components) = FlattenSeq(Encoded(size, e.components))
           /\ EncodeComponents(size, e.components) \in Bytes
<1>1. PICK cs \in Seq(Components) : cs = e.components
  BY ExtensionParts
<1>2. Len(cs) \in Nat /\ DOMAIN cs = 1 .. Len(cs) /\ cs \in [1 .. Len(cs) -> Components]
  BY LenProperties
<1>3. ASSUME NEW k \in 1 .. Len(cs) PROVE cs[k] \in Entry(size)
  <2>1. cs[k] \in [id : Ids, data : Bytes]
    <3>1. Components = [id : Ids, data : Bytes]
      BY Zenon DEF Components, Byte, Bytes
    <3> QED  BY <1>2, <3>1
  <2>2. Fits(size, Len(cs[k].data))
    BY <1>1, <1>2 DEF ExtensionFits
  <2> QED  BY <2>1, <2>2 DEF Entry
<1>4. cs \in [1 .. Len(cs) -> Entry(size)]
  BY <1>2, <1>3
<1>5. cs \in Seq(Entry(size))
  BY <1>2, <1>4
<1>6. EncodeComponents(size, cs) = FlattenSeq(Encoded(size, cs))
  BY DEF EncodeComponents, Encoded
<1>7. Encoded(size, cs) \in Seq(Bytes)
  BY <1>5, EncodedList
<1>8. FlattenSeq(Encoded(size, cs)) \in Bytes
  BY <1>7, Flattened
<1> QED  BY <1>1, <1>5, <1>6, <1>8

(* The dictionary of an extension: its bytes, and how they are read. *)
DictionaryIs(dict, e, inner, next) ==
    /\ ReadVarBytes(dict, 0) = Read(inner, next)
    /\ next = Len(dict) <=> e.junk # "after"
    /\ Entries(inner) = [list |-> e.components, whole |-> e.junk # "inside"]

LEMMA DictionaryRead ==
    ASSUME NEW size \in {1, 2, 4, 8}, NEW e, ExtensionFits(size, e)
    PROVE  /\ Dictionary(size, e) \in Bytes
           /\ size # 8 =>
                \E inner \in Bytes, next \in Nat :
                  DictionaryIs(Dictionary(size, e), e, inner, next)
<1>1. PICK cs \in Bytes : cs = EncodeComponents(size, e.components)
  BY ComponentsAreEntries
<1>2. PICK in \in Bytes : in = JunkAt(e, "inside")
  BY JunkBytes
<1>3. PICK after \in Bytes : after = JunkAt(e, "after")
  BY JunkBytes
<1>4. Len(in) = (IF e.junk = "inside" THEN 1 ELSE 0) /\ Len(after) = IF e.junk = "after" THEN 1 ELSE 0
  BY <1>2, <1>3, JunkBytes
<1>5. PICK inner \in Bytes : inner = cs \o in /\ Len(inner) = Len(cs) + Len(in)
  BY ConcatBytes
<1>6. Len(cs) \in Nat /\ Len(inner) \in Nat /\ Len(inner) <= Len(cs) + 1
  BY <1>4, <1>5, LenProperties DEF Bytes
<1>7. Fits(size, Len(inner))
  BY <1>1, <1>6 DEF ExtensionFits, Fits
<1>8. PICK var \in Bytes : var = Var(size, inner) /\ Len(var) = size + Len(inner)
  BY <1>7, VarBytes
<1>9. PICK dict \in Bytes : dict = var \o after /\ Len(dict) = Len(var) + Len(after)
  BY ConcatBytes
<1>10. dict = Dictionary(size, e)
  BY <1>1, <1>2, <1>3, <1>5, <1>8, <1>9, Zenon DEF Dictionary, JunkAt
<1>11. PICK next \in Nat : next = size + Len(inner)
  BY <1>6
<1>12. ASSUME size # 8 PROVE DictionaryIs(dict, e, inner, next)
  <2>1. Len(dict) \in Nat /\ Len(var) \in Nat /\ Len(after) \in Nat
    BY LenProperties DEF Bytes
  <2>2. Holds(var, 0, var)
    BY <2>1 DEF Holds
  <2>3. Holds(dict, 0, var)
    BY <1>9, <2>2, HoldsInLonger
  <2>4. Agrees(dict, 0, var)
    BY <2>1, <2>3, HoldsAgrees
  <2>5. size \in {1, 2, 4} /\ size \in ReadSizes /\ 0 \in Nat
    BY <1>12 DEF ReadSizes
  <2>6. ReadVarBytes(dict, 0) =
          IF 0 + size + Len(inner) > Len(dict) THEN Err ELSE Read(inner, 0 + size + Len(inner))
    BY <1>7, <1>8, <2>4, <2>5, ReadVar
  <2>7. 0 + size + Len(inner) = next /\ ~ (next > Len(dict))
    BY <1>4, <1>6, <1>8, <1>9, <1>11, <2>1
  <2>8. ReadVarBytes(dict, 0) = Read(inner, next)
    BY <2>6, <2>7
  <2>9. next = Len(dict) <=> e.junk # "after"
    BY <1>4, <1>6, <1>8, <1>9, <1>11, <2>1
  <2>10. PICK whole : whole = (e.junk # "inside")
    OBVIOUS
  <2>11. JunkSays(in, whole)
    BY <1>4, <2>10 DEF JunkSays
  <2>12. PICK list \in Seq(Entry(size)) : list = e.components
    BY ComponentsAreEntries
  <2>13. inner = Listing(size, list, in)
    BY <1>1, <1>5, <2>12, ComponentsAreEntries DEF Listing
  <2>14. Entries(inner) = [list |-> list, whole |-> whole]
    <3>1. Entries(Listing(size, list, in)) = [list |-> list, whole |-> whole]
      BY <2>5, <2>11, EntriesRead, Zenon
    <3> QED  BY <2>13, <3>1, Zenon
  <2> QED  BY <2>8, <2>9, <2>10, <2>12, <2>14, Zenon DEF DictionaryIs
<1> QED  BY <1>10, <1>12

(* What is_last_resort_extension answers to what the description says. *)
Verdict(says) ==
    CASE says = "marked" -> Ok(TRUE)
      [] says = "malformed" -> Err
      [] OTHER -> Ok(FALSE)

LEMMA ExtensionVerdict ==
    ASSUME NEW size \in {1, 2, 4}, NEW e, ExtensionFits(size, e)
    PROVE  (IF e.type = 6 THEN IsLastResortExtension(Dictionary(size, e)) ELSE Ok(FALSE))
             = Verdict(Says(e))
<1>0. PICK inner \in Bytes, next \in Nat : DictionaryIs(Dictionary(size, e), e, inner, next)
  BY DictionaryRead
<1>1. /\ ReadVarBytes(Dictionary(size, e), 0) = Read(inner, next)
      /\ next = Len(Dictionary(size, e)) <=> e.junk # "after"
      /\ Entries(inner) = [list |-> e.components, whole |-> e.junk # "inside"]
  BY <1>0, Zenon DEF DictionaryIs
<1>2. e.junk \in {"none", "inside", "after"}
  BY ExtensionParts
<1>3. PICK marked : marked = \E k \in DOMAIN e.components :
                               e.components[k].id = 4 /\ e.components[k].data = <<>>
  OBVIOUS
<1>4. Says(e) = IF e.type # 6 THEN "nothing"
                ELSE IF e.junk = "after" THEN "malformed"
                ELSE IF marked THEN "marked"
                ELSE IF e.junk = "inside" THEN "malformed" ELSE "nothing"
  BY <1>3 DEF Says
<1>5. PICK dict : dict = Dictionary(size, e)
  OBVIOUS
<1>6. /\ ReadVarBytes(dict, 0).ok
      /\ ReadVarBytes(dict, 0).value.data = inner
      /\ ReadVarBytes(dict, 0).value.next = next
  BY <1>1, <1>5 DEF Read, Ok
<1>7. Entries(inner).list = e.components /\ Entries(inner).whole = (e.junk # "inside")
  BY <1>1
<1>8. IsLastResortExtension(dict) =
        IF next # Len(dict) THEN Err
        ELSE IF \E k \in DOMAIN e.components : IsMarker(e.components[k]) THEN Ok(TRUE)
        ELSE IF e.junk # "inside" THEN Ok(FALSE) ELSE Err
  BY <1>6, <1>7, Zenon DEF IsLastResortExtension
<1>9. (\E k \in DOMAIN e.components : IsMarker(e.components[k])) <=> marked
  BY <1>3, Zenon DEF IsMarker, LAST_RESORT_KEY_PACKAGE_COMPONENT_ID
<1>10. CASE e.type # 6
  BY <1>4, <1>10 DEF Verdict
<1>11. CASE e.type = 6 /\ e.junk = "after"
  <2>1. IsLastResortExtension(dict) = Err
    BY <1>1, <1>5, <1>8, <1>11
  <2>2. Says(e) = "malformed"
    BY <1>4, <1>11
  <2> QED  BY <1>5, <1>11, <2>1, <2>2 DEF Verdict
<1>12. CASE e.type = 6 /\ e.junk # "after" /\ marked
  <2>1. IsLastResortExtension(dict) = Ok(TRUE)
    BY <1>1, <1>5, <1>8, <1>9, <1>12
  <2>2. Says(e) = "marked"
    BY <1>4, <1>12
  <2> QED  BY <1>5, <1>12, <2>1, <2>2 DEF Verdict
<1>13. CASE e.type = 6 /\ e.junk # "after" /\ ~ marked /\ e.junk = "inside"
  <2>1. IsLastResortExtension(dict) = Err
    BY <1>1, <1>5, <1>8, <1>9, <1>13
  <2>2. Says(e) = "malformed"
    BY <1>4, <1>13
  <2> QED  BY <1>5, <1>13, <2>1, <2>2 DEF Verdict
<1>14. CASE e.type = 6 /\ e.junk # "after" /\ ~ marked /\ e.junk # "inside"
  <2>1. IsLastResortExtension(dict) = Ok(FALSE)
    BY <1>1, <1>5, <1>8, <1>9, <1>14
  <2>2. Says(e) = "nothing"
    BY <1>4, <1>14
  <2> QED  BY <1>5, <1>14, <2>1, <2>2 DEF Verdict
<1> QED  BY <1>3, <1>10, <1>11, <1>12, <1>13, <1>14

(* The extensions of a package, as entries. *)
ExtensionEntries(p) ==
    [k \in DOMAIN p.extensions |->
       [id |-> p.extensions[k].type, data |-> Dictionary(p.size, p.extensions[k])]]

LEMMA ExtensionsDescribed ==
    ASSUME NEW p, Describes(p)
    PROVE  /\ p.size \in {1, 2, 4, 8}
           /\ Len(p.extensions) \in Nat
           /\ DOMAIN p.extensions = 1 .. Len(p.extensions)
           /\ \A k \in 1 .. Len(p.extensions) : ExtensionFits(p.size, p.extensions[k])
<1>1. PICK es \in Seq(Extension) : es = p.extensions
  BY DEF Describes
<1>2. /\ Len(es) \in Nat /\ DOMAIN es = 1 .. Len(es)
      /\ \A k \in 1 .. Len(es) : es[k] \in Extension
  BY LenProperties, ElementOfSeq
<1>3. ASSUME NEW k \in 1 .. Len(es) PROVE ExtensionFits(p.size, es[k])
  BY <1>1, <1>2, Zenon DEF Describes, ExtensionFits
<1>4. p.size \in {1, 2, 4, 8}
  BY DEF Describes
<1> QED  BY <1>1, <1>2, <1>3, <1>4

LEMMA ExtensionsAreEntries ==
    ASSUME NEW p, Describes(p)
    PROVE  /\ ExtensionEntries(p) \in Seq(Entry(p.size))
           /\ EncodeExtensions(p) = FlattenSeq(Encoded(p.size, ExtensionEntries(p)))
           /\ EncodeExtensions(p) \in Bytes
<1>0. /\ p.size \in {1, 2, 4, 8}
      /\ Len(p.extensions) \in Nat
      /\ DOMAIN p.extensions = 1 .. Len(p.extensions)
      /\ \A k \in 1 .. Len(p.extensions) : ExtensionFits(p.size, p.extensions[k])
  BY ExtensionsDescribed
<1>1. PICK n \in Nat : n = Len(p.extensions)
  BY <1>0
<1>2. PICK list : list = ExtensionEntries(p)
  OBVIOUS
<1>3. list = [k \in 1 .. n |->
                [id |-> p.extensions[k].type, data |-> Dictionary(p.size, p.extensions[k])]]
  BY <1>0, <1>1, <1>2 DEF ExtensionEntries
<1>4. ASSUME NEW k \in 1 .. n
      PROVE  [id |-> p.extensions[k].type, data |-> Dictionary(p.size, p.extensions[k])]
               \in Entry(p.size)
  <2>1. PICK e : e = p.extensions[k] /\ ExtensionFits(p.size, e)
    BY <1>0, <1>1
  <2>2. Dictionary(p.size, e) \in Bytes /\ Fits(p.size, Len(Dictionary(p.size, e)))
    BY <1>0, <2>1, DictionaryRead DEF ExtensionFits
  <2>3. e.type \in Ids
    BY <2>1, ExtensionParts
  <2> QED  BY <2>1, <2>2, <2>3 DEF Entry
<1>5. list \in [1 .. n -> Entry(p.size)]
  BY <1>3, <1>4
<1>6. list \in Seq(Entry(p.size))
  BY <1>5
<1>7. DOMAIN list = DOMAIN p.extensions
  BY <1>0, <1>1, <1>3
<1>8. ASSUME NEW k \in DOMAIN p.extensions
      PROVE  EncodeComponent(p.size, list[k]) = EncodeExtension(p.size, p.extensions[k])
  <2>1. /\ list[k].id = p.extensions[k].type
        /\ list[k].data = Dictionary(p.size, p.extensions[k])
    BY <1>0, <1>1, <1>3
  <2> QED  BY <2>1, Zenon DEF EncodeComponent, EncodeExtension
<1>9. Encoded(p.size, list) = [k \in DOMAIN p.extensions |-> EncodeExtension(p.size, p.extensions[k])]
  BY <1>7, <1>8 DEF Encoded
<1>10. EncodeExtensions(p) = FlattenSeq(Encoded(p.size, list))
  BY <1>9, Zenon DEF EncodeExtensions
<1>11. Encoded(p.size, list) \in Seq(Bytes)
  BY <1>0, <1>6, EncodedList
<1>12. FlattenSeq(Encoded(p.size, list)) \in Bytes
  BY <1>11, Flattened
<1> QED  BY <1>2, <1>6, <1>10, <1>12

LEMMA ExtensionsRead ==
    ASSUME NEW p, Describes(p), p.size # 8
    PROVE  Entries(EncodeExtensions(p)) = [list |-> ExtensionEntries(p), whole |-> TRUE]
<1>0. PICK size \in {1, 2, 4} : size = p.size
  BY ExtensionsDescribed
<1>1. PICK list \in Seq(Entry(size)) : list = ExtensionEntries(p)
  BY <1>0, ExtensionsAreEntries
<1>2. PICK flat \in Bytes : flat = EncodeExtensions(p) /\ flat = FlattenSeq(Encoded(size, list))
  BY <1>0, <1>1, ExtensionsAreEntries
<1>3. PICK none \in Bytes : none = <<>> /\ Len(none) = 0
  <2>1. <<>> \in Bytes /\ Len(<<>>) = 0
    BY DEF Bytes
  <2> QED  BY <2>1
<1>4. flat = flat \o none
  <2>1. flat \in Seq(Byte)
    BY DEF Bytes
  <2>2. flat \o <<>> = flat
    BY <2>1, ConcatEmptySeq
  <2> QED  BY <1>3, <2>2
<1>5. PICK whole : whole = TRUE
  OBVIOUS
<1>6. JunkSays(none, whole)
  BY <1>3, <1>5 DEF JunkSays
<1>7. flat = Listing(size, list, none)
  BY <1>2, <1>4 DEF Listing
<1>9. size \in ReadSizes
  BY DEF ReadSizes
<1>8. Entries(flat) = [list |-> list, whole |-> whole]
  <2>1. Entries(Listing(size, list, none)) = [list |-> list, whole |-> whole]
    BY <1>6, <1>9, EntriesRead, Zenon
  <2> QED  BY <1>7, <2>1, Zenon
<1> QED  BY <1>1, <1>2, <1>5, <1>8

LEMMA MinOf ==
    ASSUME NEW I \in SUBSET Nat, I # {}
    PROVE  Min(I) \in I
<1>1. \E n \in I : \A m \in I : n <= m
  BY LeastNumber
<1> QED  BY <1>1, Zenon DEF Min

SaysWords == {"nothing", "malformed", "marked"}

LEMMA SaysWord == ASSUME NEW e PROVE Says(e) \in SaysWords
BY DEF Says, SaysWords

LEMMA VerdictIsNothing ==
    ASSUME NEW w \in SaysWords
    PROVE  Verdict(w) # Ok(FALSE) <=> w # "nothing"
<1>1. Err # Ok(FALSE)
  <2>1. Err.ok = FALSE /\ Ok(FALSE).ok = TRUE
    BY DEF Err, Ok
  <2> QED  BY <2>1
<1>2. Ok(TRUE) # Ok(FALSE)
  <2>1. Ok(TRUE).value = TRUE /\ Ok(FALSE).value = FALSE
    BY DEF Ok
  <2> QED  BY <2>1
<1>3. CASE w = "nothing"
  BY <1>3 DEF Verdict
<1>4. CASE w = "malformed"
  BY <1>1, <1>4 DEF Verdict
<1>5. CASE w = "marked"
  BY <1>2, <1>5 DEF Verdict
<1> QED  BY <1>3, <1>4, <1>5 DEF SaysWords

(* The first place where the description says something. *)
Speaking(p) == {k \in 1 .. Len(p.extensions) : Says(p.extensions[k]) # "nothing"}

FirstSpeaking(p) == IF Speaking(p) # {} THEN Min(Speaking(p)) ELSE 0

LEMMA DecisiveIs ==
    ASSUME NEW p
    PROVE  Decisive(p) = IF FirstSpeaking(p) = 0 THEN "nothing"
                         ELSE Says(p.extensions[FirstSpeaking(p)])
BY Zenon DEF Decisive, SelectInSeq, FirstSpeaking, Speaking

(* The search for the marker, given the verdict on each extension. *)
FirstVerdict(vs) ==
    LET I == {k \in 1 .. Len(vs) : vs[k] # Ok(FALSE)} IN IF I # {} THEN Min(I) ELSE 0

Verdicts(list) ==
    [k \in DOMAIN list |->
       IF list[k].id = APP_DATA_DICTIONARY_EXTENSION_TYPE
       THEN IsLastResortExtension(list[k].data) ELSE Ok(FALSE)]

LEMMA DetectIs ==
    ASSUME NEW buf
    PROVE  DetectLastResort(buf) =
             IF FirstVerdict(Verdicts(Entries(buf).list)) # 0
             THEN Verdicts(Entries(buf).list)[FirstVerdict(Verdicts(Entries(buf).list))]
             ELSE IF Entries(buf).whole THEN Ok(FALSE) ELSE Err
BY Zenon DEF DetectLastResort, SelectInSeq, FirstVerdict, Verdicts

(* What detect_last_resort makes of any encoded list of extensions is what *)
(* their description says.                                                 *)
THEOREM DetectRead ==
    ASSUME NEW p, Describes(p), p.size # 8
    PROVE  /\ DetectLastResort(EncodeExtensions(p)) = Verdict(Decisive(p))
           /\ Decisive(p) \in SaysWords
<1>0. /\ p.size \in {1, 2, 4}
      /\ Len(p.extensions) \in Nat
      /\ DOMAIN p.extensions = 1 .. Len(p.extensions)
      /\ \A k \in 1 .. Len(p.extensions) : ExtensionFits(p.size, p.extensions[k])
  BY ExtensionsDescribed
<1>1. PICK buf : buf = EncodeExtensions(p)
  OBVIOUS
<1>2. Entries(buf).list = ExtensionEntries(p) /\ Entries(buf).whole = TRUE
  BY <1>1, ExtensionsRead
<1>3. PICK n \in Nat : n = Len(p.extensions)
  BY <1>0
<1>4. PICK vs : vs = Verdicts(ExtensionEntries(p))
  OBVIOUS
<1>5. /\ ExtensionEntries(p) \in [1 .. n -> Entry(p.size)]
      /\ \A k \in 1 .. n :
           /\ ExtensionEntries(p)[k].id = p.extensions[k].type
           /\ ExtensionEntries(p)[k].data = Dictionary(p.size, p.extensions[k])
  <2>1. PICK list : list = ExtensionEntries(p)
    OBVIOUS
  <2>2. list = [k \in 1 .. n |->
                  [id |-> p.extensions[k].type, data |-> Dictionary(p.size, p.extensions[k])]]
    BY <1>0, <1>3, <2>1 DEF ExtensionEntries
  <2>3. list \in Seq(Entry(p.size)) /\ DOMAIN list = 1 .. n
    BY <2>1, <2>2, ExtensionsAreEntries
  <2>4. list \in [1 .. n -> Entry(p.size)]
    BY <2>3, LenProperties
  <2> QED  BY <2>1, <2>2, <2>4
<1>6. DOMAIN ExtensionEntries(p) = 1 .. n
  BY <1>5
<1>7. ASSUME NEW k \in 1 .. n PROVE vs[k] = Verdict(Says(p.extensions[k]))
  <2>1. PICK e : e = p.extensions[k] /\ ExtensionFits(p.size, e)
    BY <1>0, <1>3
  <2>2. vs[k] = IF e.type = APP_DATA_DICTIONARY_EXTENSION_TYPE
                THEN IsLastResortExtension(Dictionary(p.size, e)) ELSE Ok(FALSE)
    BY <1>4, <1>5, <1>6, <2>1 DEF Verdicts
  <2>3. vs[k] = IF e.type = 6 THEN IsLastResortExtension(Dictionary(p.size, e)) ELSE Ok(FALSE)
    BY <2>2, Zenon DEF APP_DATA_DICTIONARY_EXTENSION_TYPE
  <2> QED  BY <1>0, <2>1, <2>3, ExtensionVerdict
<1>8. Len(vs) = n
  <2>1. DOMAIN vs = 1 .. n
    BY <1>4, <1>6 DEF Verdicts
  <2>2. \A k \in 1 .. n : vs[k] \in {vs[j] : j \in 1 .. n}
    OBVIOUS
  <2>3. vs = [k \in 1 .. n |-> vs[k]]
    BY <1>4, <2>1 DEF Verdicts
  <2>4. vs \in Seq({vs[j] : j \in 1 .. n})
    BY <2>2, <2>3
  <2>5. Len(vs) \in Nat /\ DOMAIN vs = 1 .. Len(vs)
    BY <2>4, LenProperties
  <2> QED  BY <2>1, <2>5
<1>9. {k \in 1 .. Len(vs) : vs[k] # Ok(FALSE)} = Speaking(p)
  <2>1. \A k \in 1 .. n : vs[k] # Ok(FALSE) <=> Says(p.extensions[k]) # "nothing"
    BY <1>7, SaysWord, VerdictIsNothing
  <2> QED  BY <1>3, <1>8, <2>1 DEF Speaking
<1>10. PICK first : first = FirstSpeaking(p)
  OBVIOUS
<1>11. FirstVerdict(vs) = first
  BY <1>9, <1>10, Zenon DEF FirstVerdict, FirstSpeaking
<1>12. first # 0 => first \in 1 .. n
  <2>1. Speaking(p) \in SUBSET Nat /\ Speaking(p) \subseteq 1 .. n
    BY <1>3 DEF Speaking
  <2>2. Speaking(p) # {} => Min(Speaking(p)) \in 1 .. n
    BY <2>1, MinOf
  <2> QED  BY <1>10, <2>2 DEF FirstSpeaking
<1>13. Decisive(p) = IF first = 0 THEN "nothing" ELSE Says(p.extensions[first])
  BY <1>10, DecisiveIs
<1>14. DetectLastResort(buf) = IF first # 0 THEN vs[first] ELSE Ok(FALSE)
  <2>1. vs = Verdicts(Entries(buf).list)
    BY <1>2, <1>4
  <2>2. DetectLastResort(buf) = IF FirstVerdict(vs) # 0 THEN vs[FirstVerdict(vs)]
                                ELSE IF Entries(buf).whole THEN Ok(FALSE) ELSE Err
    BY <2>1, DetectIs
  <2> QED  BY <1>2, <1>11, <2>2
<1>15. Verdict("nothing") = Ok(FALSE)
  BY DEF Verdict
<1>16. DetectLastResort(buf) = Verdict(Decisive(p))
  BY <1>7, <1>12, <1>13, <1>14, <1>15
<1>17. Decisive(p) \in SaysWords
  BY <1>13, SaysWord DEF SaysWords
<1> QED  BY <1>1, <1>16, <1>17

-----------------------------------------------------------------------------
(* What the fields hold, without the prefixes. *)
Contents(p) ==
    << <<0, p.version>>, <<0, 1>>, <<7>>, <<7>>, <<7>>, <<0, p.cred_type>>, p.identity,
       <<>>, <<>>, <<>>, <<>>, <<>>, <<p.source>>, Lifetime, <<>>, <<7>>,
       EncodeExtensions(p), [k \in 1 .. p.signature |-> 7] >>

FixedFields == {1, 2, 6, 13, 14}
SizedFields == {7, 17, 18}

(* The size of the prefix of field k. *)
SizeOf(p, k) == IF k \in SizedFields THEN p.size ELSE 1

LEMMA LayoutKinds ==
    /\ Len(Layout) = 18
    /\ \A k \in 1 .. 18 :
         /\ Layout[k] = "version" <=> k = 1
         /\ Layout[k] = "cipher_suite" <=> k = 2
         /\ Layout[k] = "cred_type" <=> k = 6
         /\ Layout[k] = "identity" <=> k = 7
         /\ Layout[k] = "source" <=> k = 13
         /\ Layout[k] = "lifetime" <=> k = 14
         /\ Layout[k] = "extensions" <=> k = 17
BY DEF Layout

LEMMA ContentsBytes ==
    ASSUME NEW p, Describes(p)
    PROVE  \A k \in 1 .. 18 : Contents(p)[k] \in Bytes
<1>1. p.version \in Byte /\ p.cred_type \in Byte /\ p.source \in Byte /\ p.identity \in Bytes
  BY DEF Describes, Byte, Bytes
<1>2. PICK zero \in Byte, one \in Byte, seven \in Byte : zero = 0 /\ one = 1 /\ seven = 7
  BY DEF Byte
<1>3. /\ <<zero, p.version>> \in Bytes /\ <<zero, one>> \in Bytes /\ <<seven>> \in Bytes
      /\ <<zero, p.cred_type>> \in Bytes /\ <<p.source>> \in Bytes
  BY <1>1, ByteTuples
<1>4. <<>> \in Bytes
  BY DEF Bytes
<1>5. Lifetime \in Bytes
  <2>1. PICK n \in Nat : n = 16
    OBVIOUS
  <2>2. Lifetime \in [1 .. n -> Byte]
    BY <2>1 DEF Lifetime, Byte
  <2> QED  BY <2>2 DEF Bytes
<1>6. [k \in 1 .. p.signature |-> 7] \in Bytes
  <2>1. PICK n \in Nat : n = p.signature
    BY DEF Describes
  <2>2. [k \in 1 .. n |-> 7] \in [1 .. n -> Byte]
    BY DEF Byte
  <2> QED  BY <2>1, <2>2 DEF Bytes
<1>7. EncodeExtensions(p) \in Bytes
  BY ExtensionsAreEntries
<1>8. /\ Contents(p)[1] = <<zero, p.version>> /\ Contents(p)[2] = <<zero, one>>
      /\ Contents(p)[6] = <<zero, p.cred_type>> /\ Contents(p)[7] = p.identity
      /\ Contents(p)[13] = <<p.source>> /\ Contents(p)[14] = Lifetime
      /\ Contents(p)[17] = EncodeExtensions(p)
      /\ Contents(p)[18] = [k \in 1 .. p.signature |-> 7]
      /\ \A k \in {3, 4, 5, 16} : Contents(p)[k] = <<seven>>
      /\ \A k \in {8, 9, 10, 11, 12, 15} : Contents(p)[k] = <<>>
  BY <1>2 DEF Contents
<1>9. \A k \in 1 .. 18 :
        k \in {1, 2, 6, 7, 13, 14, 17, 18} \cup {3, 4, 5, 16} \cup {8, 9, 10, 11, 12, 15}
  OBVIOUS
<1>10. \A k \in {1, 2, 6, 7, 13, 14, 17, 18} : Contents(p)[k] \in Bytes
  BY <1>1, <1>3, <1>5, <1>6, <1>7, <1>8
<1>11. \A k \in {3, 4, 5, 16} \cup {8, 9, 10, 11, 12, 15} : Contents(p)[k] \in Bytes
  BY <1>3, <1>4, <1>8
<1> QED  BY <1>9, <1>10, <1>11

LEMMA FieldsAre ==
    ASSUME NEW p, Describes(p)
    PROVE  /\ Len(Fields(p)) = 18 /\ DOMAIN Fields(p) = 1 .. 18
           /\ \A k \in FixedFields : Fields(p)[k] = Contents(p)[k]
           /\ \A k \in 1 .. 18 : k \notin FixedFields =>
                Fields(p)[k] = Var(SizeOf(p, k), Contents(p)[k])
BY DEF Fields, Contents, FixedFields, SizedFields, SizeOf

LEMMA ContentsLengths ==
    ASSUME NEW p, Describes(p)
    PROVE  /\ Len(Contents(p)[1]) = 2 /\ Len(Contents(p)[2]) = 2 /\ Len(Contents(p)[6]) = 2
           /\ Len(Contents(p)[13]) = 1 /\ Len(Contents(p)[14]) = 16
           /\ \A k \in {3, 4, 5, 8, 9, 10, 11, 12, 15, 16} : Len(Contents(p)[k]) \in {0, 1}
           /\ Contents(p)[7] = p.identity
           /\ Contents(p)[17] = EncodeExtensions(p)
           /\ Len(Contents(p)[18]) = p.signature
<1>1. /\ Contents(p)[1] = <<0, p.version>> /\ Contents(p)[2] = <<0, 1>>
      /\ Contents(p)[6] = <<0, p.cred_type>> /\ Contents(p)[13] = <<p.source>>
      /\ Contents(p)[7] = p.identity
      /\ Contents(p)[17] = EncodeExtensions(p)
      /\ Contents(p)[14] = Lifetime
      /\ Contents(p)[18] = [k \in 1 .. p.signature |-> 7]
      /\ \A k \in {3, 4, 5, 16} : Contents(p)[k] = <<7>>
      /\ \A k \in {8, 9, 10, 11, 12, 15} : Contents(p)[k] = <<>>
  BY DEF Contents
<1>2. PICK n \in Nat : n = p.signature
  BY DEF Describes
<1>3. Len([k \in 1 .. n |-> 7]) = n
  OBVIOUS
<1>4. Len(Lifetime) = 16
  <2>1. PICK m \in Nat : m = 16
    OBVIOUS
  <2>2. Len([k \in 1 .. m |-> 0]) = m
    OBVIOUS
  <2> QED  BY <2>1, <2>2 DEF Lifetime
<1>5. /\ Len(Contents(p)[1]) = 2 /\ Len(Contents(p)[2]) = 2 /\ Len(Contents(p)[6]) = 2
      /\ Len(Contents(p)[13]) = 1
  BY <1>1
<1>6. \A k \in {3, 4, 5, 16} : Len(Contents(p)[k]) = 1
  <2>1. PICK key : key = <<7>>
    OBVIOUS
  <2>2. \A k \in {3, 4, 5, 16} : Contents(p)[k] = key
    BY <1>1, <2>1
  <2>3. Len(key) = 1
    BY <2>1
  <2> QED  BY <2>2, <2>3
<1>7. \A k \in {8, 9, 10, 11, 12, 15} : Len(Contents(p)[k]) = 0
  <2>1. PICK none : none = <<>> /\ Len(none) = 0
    OBVIOUS
  <2>2. \A k \in {8, 9, 10, 11, 12, 15} : Contents(p)[k] = none
    BY <1>1, <2>1
  <2> QED  BY <2>1, <2>2
<1>8. ASSUME NEW k \in {3, 4, 5, 8, 9, 10, 11, 12, 15, 16} PROVE Len(Contents(p)[k]) \in {0, 1}
  <2>1. k \in {3, 4, 5, 16} \/ k \in {8, 9, 10, 11, 12, 15}
    OBVIOUS
  <2> QED  BY <1>6, <1>7, <2>1
<1> QED  BY <1>1, <1>2, <1>3, <1>4, <1>5, <1>8

LEMMA ContentsFit ==
    ASSUME NEW p, Describes(p), NEW k \in 1 .. 18, k \notin FixedFields
    PROVE  SizeOf(p, k) \in {1, 2, 4, 8} /\ Fits(SizeOf(p, k), Len(Contents(p)[k]))
<1>0. p.size \in {1, 2, 4, 8}
  BY DEF Describes
<1>1. CASE k \in SizedFields
  <2>1. SizeOf(p, k) = p.size
    BY <1>1 DEF SizeOf
  <2>2. Fits(p.size, Len(Contents(p)[k]))
    BY <1>1, ContentsLengths DEF Describes, SizedFields
  <2> QED  BY <1>0, <2>1, <2>2
<1>2. CASE k \notin SizedFields
  <2>1. SizeOf(p, k) = 1
    BY <1>2 DEF SizeOf
  <2>2. k \in {3, 4, 5, 8, 9, 10, 11, 12, 15, 16}
    BY <1>2 DEF SizedFields, FixedFields
  <2>3. Len(Contents(p)[k]) \in {0, 1}
    BY <2>2, ContentsLengths
  <2>4. Fits(1, Len(Contents(p)[k]))
    <3>1. PICK n \in {0, 1} : n = Len(Contents(p)[k])
      BY <2>3
    <3>2. Fits(1, n)
      BY DEF Fits
    <3> QED  BY <3>1, <3>2
  <2> QED  BY <2>1, <2>4
<1> QED  BY <1>1, <1>2

LEMMA FieldsBytes ==
    ASSUME NEW p, Describes(p)
    PROVE  /\ Fields(p) \in Seq(Bytes)
           /\ \A k \in 1 .. 18 :
                /\ Fields(p)[k] \in Bytes
                /\ Len(Contents(p)[k]) \in Nat
                /\ Len(Fields(p)[k]) = IF k \in FixedFields THEN Len(Contents(p)[k])
                                       ELSE SizeOf(p, k) + Len(Contents(p)[k])
<1>1. ASSUME NEW k \in 1 .. 18
      PROVE  /\ Fields(p)[k] \in Bytes
             /\ Len(Contents(p)[k]) \in Nat
             /\ Len(Fields(p)[k]) = IF k \in FixedFields THEN Len(Contents(p)[k])
                                    ELSE SizeOf(p, k) + Len(Contents(p)[k])
  <2>1. PICK data \in Bytes : data = Contents(p)[k] /\ Len(data) \in Nat
    BY ContentsBytes, LenProperties DEF Bytes
  <2>2. CASE k \in FixedFields
    BY <2>1, <2>2, FieldsAre
  <2>3. CASE k \notin FixedFields
    <3>1. PICK size \in {1, 2, 4, 8} : size = SizeOf(p, k) /\ Fits(size, Len(data))
      BY <2>1, <2>3, ContentsFit
    <3>2. Var(size, data) \in Bytes /\ Len(Var(size, data)) = size + Len(data)
      BY <3>1, VarBytes
    <3>3. Fields(p)[k] = Var(size, data)
      BY <2>1, <2>3, <3>1, FieldsAre
    <3> QED  BY <2>1, <2>3, <3>1, <3>2, <3>3
  <2> QED  BY <2>2, <2>3
<1>2. Fields(p) \in Seq(Bytes)
  <2>1. PICK fs : fs = Fields(p)
    OBVIOUS
  <2>2. \A k \in 1 .. 18 : fs[k] \in Bytes
    BY <1>1, <2>1
  <2>3. PICK n \in Nat : n = 18
    OBVIOUS
  <2>4. fs = [k \in 1 .. n |-> fs[k]]
    <3>1. DOMAIN fs = 1 .. n
      BY <2>1, <2>3, FieldsAre
    <3>2. fs = [k \in DOMAIN fs |-> fs[k]]
      BY <2>1 DEF Fields
    <3> QED  BY <3>1, <3>2, Zenon
  <2>5. fs \in [1 .. n -> Bytes]
    BY <2>2, <2>3, <2>4
  <2>6. fs \in Seq(Bytes)
    BY <2>5
  <2> QED  BY <2>1, <2>6
<1> QED  BY <1>1, <1>2

(* A field that stands at a place is read there as what it holds. *)
LEMMA FieldRead ==
    ASSUME NEW p, Describes(p), NEW k \in 1 .. 18, SizeOf(p, k) # 8 \/ k \in FixedFields,
           NEW buf \in Bytes, NEW at \in Nat, Agrees(buf, at, Fields(p)[k])
    PROVE  ReadField(Layout[k], buf, at) =
             IF at + Len(Fields(p)[k]) > Len(buf) THEN Err
             ELSE Read(Contents(p)[k], at + Len(Fields(p)[k]))
<1>0. Len(buf) \in Nat
  BY LenProperties DEF Bytes
<1>1. PICK data \in Bytes : data = Contents(p)[k] /\ Len(data) \in Nat
  BY ContentsBytes, LenProperties DEF Bytes
<1>2. CASE k \in FixedFields
  <2>1. PICK n \in Nat : n = Len(data) /\ Fields(p)[k] = data
    BY <1>1, <1>2, FieldsAre
  <2>2. ReadField(Layout[k], buf, at) = ReadFixed(buf, at, n)
    <3>1. n = Len(Contents(p)[k])
      BY <1>1, <2>1
    <3>2. \/ k \in {1, 2, 6} /\ n = 2
          \/ k = 13 /\ n = 1
          \/ k = 14 /\ n = 16
      BY <1>2, <3>1, ContentsLengths DEF FixedFields
    <3>3. \/ Layout[k] \in {"version", "cipher_suite", "cred_type"} /\ n = 2
          \/ Layout[k] = "source" /\ n = 1
          \/ Layout[k] = "lifetime" /\ n = 16
      BY <3>2, LayoutKinds
    <3> QED  BY <3>3 DEF ReadField
  <2>3. ASSUME ~ (at + n > Len(buf)) PROVE SubSeq(buf, at + 1, at + n) = data
    <3>1. at + Len(data) <= Len(buf)
      BY <1>0, <1>1, <2>1, <2>3
    <3>2. Agrees(buf, at, data)
      BY <2>1
    <3> QED  BY <2>1, <3>1, <3>2, ReadBack
  <2>4. ReadFixed(buf, at, n) = IF at + n > Len(buf) THEN Err ELSE Read(data, at + n)
    BY <2>3 DEF ReadFixed
  <2> QED  BY <1>1, <2>1, <2>2, <2>4
<1>3. CASE k \notin FixedFields
  <2>1. PICK size \in {1, 2, 4} : size = SizeOf(p, k) /\ Fits(size, Len(data))
    BY <1>1, <1>3, ContentsFit
  <2>2. Fields(p)[k] = Var(size, data)
    BY <1>1, <1>3, <2>1, FieldsAre
  <2>3. ReadField(Layout[k], buf, at) = ReadVarBytes(buf, at)
    <3>1. Layout[k] \notin {"version", "cipher_suite", "cred_type", "source", "lifetime"}
      BY <1>3, LayoutKinds DEF FixedFields
    <3> QED  BY <3>1 DEF ReadField
  <2>4. ReadVarBytes(buf, at) =
          IF at + size + Len(data) > Len(buf) THEN Err ELSE Read(data, at + size + Len(data))
    BY <2>1, <2>2, ReadVar
  <2>5. Len(Fields(p)[k]) = size + Len(data)
    BY <1>1, <1>3, <2>1, FieldsBytes
  <2>6. at + (size + Len(data)) = at + size + Len(data)
    <3>1. PICK n \in Nat : n = Len(data)
      BY <1>1
    <3>2. at + (size + n) = at + size + n
      OBVIOUS
    <3> QED  BY <3>1, <3>2
  <2> QED  BY <1>1, <2>3, <2>4, <2>5, <2>6
<1> QED  BY <1>2, <1>3

(* An identity with a prefix of eight bytes is not read. *)
LEMMA FieldOfEight ==
    ASSUME NEW p, Describes(p), p.size = 8, NEW buf \in Bytes, NEW at \in Nat,
           Agrees(buf, at, Fields(p)[7])
    PROVE  ReadField(Layout[7], buf, at) = Err
<1>1. PICK data \in Bytes : data = Contents(p)[7]
  BY ContentsBytes
<1>2. 7 \in 1 .. 18 /\ 7 \notin FixedFields /\ 7 \in SizedFields
  BY DEF FixedFields, SizedFields
<1>3. SizeOf(p, 7) = 8
  BY <1>2 DEF SizeOf
<1>4. Fits(8, Len(data)) /\ Fields(p)[7] = Var(8, data)
  BY <1>1, <1>2, <1>3, ContentsFit, FieldsAre
<1>5. ReadVarBytes(buf, at) = Err
  BY <1>4, ReadVarOfEight
<1>6. Layout[7] = "identity"
  BY <1>2, LayoutKinds
<1> QED  BY <1>5, <1>6 DEF ReadField

(* What was sent is what was encoded, as far as both go; they are equally  *)
(* long only if nothing is cut off and nothing follows.                    *)
LEMMA SentAgrees ==
    ASSUME NEW p, Describes(p)
    PROVE  /\ Encode(p) \in Bytes /\ Len(Encode(p)) \in Nat
           /\ Sent(p) \in Bytes /\ Len(Sent(p)) \in Nat
           /\ Agrees(Sent(p), 0, Encode(p))
           /\ Len(Sent(p)) = Len(Encode(p)) <=> p.cut = 0 /\ p.tail = <<>>
<1>1. PICK whole \in Bytes : whole = Encode(p) /\ Len(whole) \in Nat
  BY FieldsBytes, Flattened, LenProperties DEF Encode, Bytes
<1>2. /\ p.cut \in 0 .. Len(whole) /\ p.tail \in Bytes
      /\ p.cut = 0 \/ p.tail = <<>>
  BY <1>1 DEF Describes, Bytes, Byte
<1>3. PICK cut \in Nat, n \in Nat : cut = p.cut /\ n = Len(whole) - cut
  <2>1. PICK long \in Nat : long = Len(whole)
    BY <1>1
  <2>2. PICK cut \in 0 .. long : cut = p.cut
    BY <1>2, <2>1
  <2>3. cut \in Nat /\ long - cut \in Nat
    OBVIOUS
  <2> QED  BY <2>1, <2>2, <2>3
<1>4. PICK tail \in Bytes : tail = p.tail
  BY <1>2
<1>5. PICK front \in Bytes :
        front = SubSeq(whole, 1, n) /\ Len(front) = n /\ \A k \in 1 .. n : front[k] = whole[k]
  <2>1. n <= Len(whole)
    BY <1>1, <1>3
  <2>2. SubSeq(whole, 1, n) \in Bytes
    BY <1>1, <2>1 DEF Bytes
  <2>3. Len(SubSeq(whole, 1, n)) = n /\ \A k \in 1 .. n : SubSeq(whole, 1, n)[k] = whole[k]
    BY <1>1, <2>1 DEF Bytes
  <2> QED  BY <2>2, <2>3
<1>6. PICK sent : sent = front \o tail
  OBVIOUS
<1>7. Sent(p) = sent
  BY <1>1, <1>3, <1>4, <1>5, <1>6 DEF Sent
<1>8. /\ sent \in Bytes /\ Len(tail) \in Nat /\ Len(sent) = n + Len(tail)
      /\ \A k \in 1 .. n : sent[k] = front[k]
  <2>1. /\ front \o tail \in Bytes /\ Len(tail) \in Nat
        /\ Len(front \o tail) = Len(front) + Len(tail)
        /\ \A k \in 1 .. Len(front) : (front \o tail)[k] = front[k]
    BY ConcatBytes
  <2> QED  BY <1>5, <1>6, <2>1
<1>9. tail = <<>> <=> Len(tail) = 0
  BY EmptySeq DEF Bytes
<1>10. cut = 0 \/ Len(tail) = 0
  BY <1>2, <1>3, <1>4, <1>9
<1>11. Len(sent) = Len(whole) <=> cut = 0 /\ tail = <<>>
  <2>1. PICK long \in Nat, more \in Nat : long = Len(whole) /\ more = Len(tail)
    BY <1>1, <1>8
  <2>2. Len(sent) = n + more /\ n = long - cut /\ (cut = 0 \/ more = 0)
    BY <1>3, <1>8, <1>10, <2>1
  <2>3. n + more = long <=> cut = 0 /\ more = 0
    BY <2>2
  <2> QED  BY <1>9, <2>1, <2>2, <2>3
<1>12. Agrees(sent, 0, whole)
  <2>1. ASSUME NEW k \in 1 .. Len(whole), k <= Len(sent) PROVE sent[k] = whole[k]
    <3>1. k \in 1 .. n
      <4>1. PICK long \in Nat, more \in Nat : long = Len(whole) /\ more = Len(tail)
        BY <1>1, <1>8
      <4>2. Len(sent) = n + more /\ n = long - cut /\ (cut = 0 \/ more = 0)
        BY <1>3, <1>8, <1>10, <4>1
      <4>3. k \in 1 .. long /\ k <= n + more
        BY <2>1, <4>1, <4>2
      <4> QED  BY <4>2, <4>3
    <3> QED  BY <1>5, <1>8, <3>1
  <2>2. \A k \in 1 .. Len(whole) : 0 + k = k
    BY <1>1
  <2> QED  BY <2>1, <2>2 DEF Agrees
<1> QED  BY <1>1, <1>3, <1>4, <1>7, <1>8, <1>11, <1>12

(* Where the fields stand in what was sent. *)
LEMMA FieldPlaces ==
    ASSUME NEW p, Describes(p)
    PROVE  /\ Offset(Fields(p), 0) = 0
           /\ Offset(Fields(p), 18) = Len(Encode(p))
           /\ \A k \in 0 .. 18 : Offset(Fields(p), k) \in Nat
           /\ \A k \in 1 .. 18 :
                /\ Offset(Fields(p), k) = Offset(Fields(p), k - 1) + Len(Fields(p)[k])
                /\ Offset(Fields(p), k) <= Len(Encode(p))
                /\ Agrees(Sent(p), Offset(Fields(p), k - 1), Fields(p)[k])
<1>1. PICK fs \in Seq(Bytes) : fs = Fields(p) /\ Len(fs) = 18
  BY FieldsBytes, FieldsAre
<1>2. PICK whole \in Bytes : whole = FlattenSeq(fs) /\ whole = Encode(p) /\ Len(whole) \in Nat
  BY <1>1, SentAgrees DEF Encode
<1>3. PICK sent \in Bytes : sent = Sent(p) /\ Len(sent) \in Nat /\ Agrees(sent, 0, whole)
  BY <1>2, SentAgrees
<1>4. /\ Offset(fs, 0) = 0
      /\ Offset(fs, 18) = Len(whole)
      /\ \A k \in 0 .. 18 : Offset(fs, k) \in Nat
      /\ \A k \in 1 .. 18 :
           /\ Offset(fs, k) = Offset(fs, k - 1) + Len(fs[k])
           /\ Holds(whole, Offset(fs, k - 1), fs[k])
  BY <1>1, <1>2, Flattened
<1>5. ASSUME NEW k \in 1 .. 18
      PROVE  Offset(fs, k) <= Len(whole) /\ Agrees(sent, Offset(fs, k - 1), fs[k])
  <2>1. PICK at \in Nat : at = Offset(fs, k - 1)
    <3>1. PICK j \in 0 .. 18 : j = k - 1
      OBVIOUS
    <3> QED  BY <1>4, <3>1
  <2>2. PICK piece \in Bytes : piece = fs[k] /\ Len(piece) \in Nat
    BY <1>1, FieldsBytes, LenProperties DEF Bytes
  <2>3. Holds(whole, at, piece)
    BY <1>4, <2>1, <2>2
  <2>4. Offset(fs, k) <= Len(whole)
    BY <1>4, <2>1, <2>2, <2>3 DEF Holds
  <2>5. ASSUME NEW n \in 1 .. Len(piece), at + n <= Len(sent) PROVE sent[at + n] = piece[n]
    <3>1. at + n \in 1 .. Len(whole) /\ whole[at + n] = piece[n]
      BY <1>2, <2>2, <2>3 DEF Holds
    <3>2. 0 + (at + n) = at + n
      BY <2>2
    <3>3. PICK m \in 1 .. Len(whole) : m = at + n
      BY <3>1
    <3>4. m <= Len(sent) /\ 0 + m = m
      BY <1>2, <2>5, <3>3
    <3>5. sent[m] = whole[m]
      BY <1>3, <3>4 DEF Agrees
    <3> QED  BY <3>1, <3>3, <3>5
  <2>6. Agrees(sent, at, piece)
    BY <2>5 DEF Agrees
  <2> QED  BY <2>1, <2>2, <2>4, <2>6
<1> QED  BY <1>1, <1>2, <1>3, <1>4, <1>5

(* One read of the parser at the place of field k. *)
FieldOutcome(p, k, read) ==
    /\ read.ok => /\ read.value.data = Contents(p)[k]
                  /\ read.value.next = Offset(Fields(p), k)
                  /\ Offset(Fields(p), k) <= Len(Sent(p))
                  /\ k = 7 => p.size # 8
    /\ read.ok \in BOOLEAN
    /\ WellFormed(p) => read.ok

LEMMA FieldOutcomes ==
    ASSUME NEW p, Describes(p), NEW k \in 1 .. 18, k > 7 => p.size # 8
    PROVE  FieldOutcome(p, k, ReadField(Layout[k], Sent(p), Offset(Fields(p), k - 1)))
<1>1. PICK sent \in Bytes : sent = Sent(p) /\ Len(sent) \in Nat
  BY SentAgrees
<1>2. PICK j \in 0 .. 18 : j = k - 1
  OBVIOUS
<1>3. PICK at \in Nat, next \in Nat :
        at = Offset(Fields(p), k - 1) /\ next = Offset(Fields(p), k)
  <2>1. PICK l \in 0 .. 18 : l = k
    OBVIOUS
  <2>2. Offset(Fields(p), j) \in Nat /\ Offset(Fields(p), l) \in Nat
    BY FieldPlaces
  <2> QED  BY <1>2, <2>1, <2>2
<1>4. next = at + Len(Fields(p)[k]) /\ next <= Len(Encode(p)) /\ Agrees(sent, at, Fields(p)[k])
  BY <1>1, <1>3, FieldPlaces
<1>5. PICK read : read = ReadField(Layout[k], sent, at)
  OBVIOUS
<1>6. Err.ok = FALSE
  BY DEF Err
<1>7. CASE k = 7 /\ p.size = 8
  <2>1. read = Err
    BY <1>4, <1>5, <1>7, FieldOfEight
  <2>2. ~ WellFormed(p)
    BY <1>7 DEF WellFormed
  <2>3. FieldOutcome(p, k, read)
    BY <1>6, <2>1, <2>2 DEF FieldOutcome
  <2> QED  BY <1>1, <1>3, <1>5, <2>3
<1>8. CASE ~ (k = 7 /\ p.size = 8)
  <2>1. SizeOf(p, k) # 8 \/ k \in FixedFields
    BY <1>8 DEF SizeOf, SizedFields
  <2>2. read = IF next > Len(sent) THEN Err ELSE Read(Contents(p)[k], next)
    <3>1. ReadField(Layout[k], sent, at) =
            IF at + Len(Fields(p)[k]) > Len(sent) THEN Err
            ELSE Read(Contents(p)[k], at + Len(Fields(p)[k]))
      BY <1>4, <2>1, FieldRead
    <3> QED  BY <1>4, <1>5, <3>1, Zenon
  <2>3. CASE next > Len(sent)
    <3>1. read.ok = FALSE
      BY <1>6, <2>2, <2>3
    <3>2. ~ WellFormed(p)
      <4>1. Len(sent) # Len(Encode(p))
        <5>1. PICK long \in Nat : long = Len(Encode(p))
          BY SentAgrees
        <5> QED  BY <1>1, <1>4, <2>3, <5>1
      <4> QED  BY <1>1, <4>1, SentAgrees DEF WellFormed
    <3>3. FieldOutcome(p, k, read)
      BY <3>1, <3>2 DEF FieldOutcome
    <3> QED  BY <1>1, <1>3, <1>5, <3>3
  <2>4. CASE ~ (next > Len(sent))
    <3>1. read = Read(Contents(p)[k], next) /\ next <= Len(sent)
      BY <1>1, <2>2, <2>4
    <3>2. read.ok = TRUE /\ read.value.data = Contents(p)[k] /\ read.value.next = next
      BY <3>1 DEF Read, Ok
    <3>3. FieldOutcome(p, k, read)
      BY <1>1, <1>3, <1>8, <3>1, <3>2 DEF FieldOutcome
    <3> QED  BY <1>1, <1>3, <1>5, <3>3
  <2> QED  BY <2>3, <2>4
<1> QED  BY <1>7, <1>8

(* What the first n fields must be for the parser to get past them. *)
PassedUpTo(p, n) ==
    /\ n >= 1 => p.version = 1
    /\ n >= 6 => p.cred_type = 1
    /\ n >= 7 => IsUtf8(p.identity) /\ p.size # 8
    /\ n >= 13 => p.source = 1
    /\ n >= 17 => Decisive(p) # "malformed"

LEMMA VerdictIsOk ==
    ASSUME NEW w \in SaysWords
    PROVE  /\ Verdict(w).ok = (w # "malformed")
           /\ w # "malformed" => Verdict(w).value = (w = "marked")
<1>1. CASE w = "nothing"
  BY <1>1 DEF Verdict, Ok
<1>2. CASE w = "malformed"
  BY <1>2 DEF Verdict, Err
<1>3. CASE w = "marked"
  BY <1>3 DEF Verdict, Ok
<1> QED  BY <1>1, <1>2, <1>3 DEF SaysWords

(* Which contents the parser accepts. *)
Accepted(p, k) ==
    /\ k = 1 => p.version = 1
    /\ k = 6 => p.cred_type = 1
    /\ k = 7 => IsUtf8(p.identity)
    /\ k = 13 => p.source = 1
    /\ k = 17 => Decisive(p) # "malformed"

LEMMA AcceptableIs ==
    ASSUME NEW p, Describes(p), NEW k \in 1 .. 18, k > 7 => p.size # 8
    PROVE  Acceptable(Layout[k], Contents(p)[k]) <=> Accepted(p, k)
<1>1. /\ Contents(p)[1] = <<0, p.version>> /\ Contents(p)[6] = <<0, p.cred_type>>
      /\ Contents(p)[7] = p.identity /\ Contents(p)[13] = <<p.source>>
      /\ Contents(p)[17] = EncodeExtensions(p)
  BY DEF Contents
<1>2. CASE k = 1
  <2>1. Layout[k] = "version"
    BY <1>2, LayoutKinds
  <2>2. Acceptable(Layout[k], Contents(p)[k]) <=> Contents(p)[k] = <<0, 1>>
    BY <2>1 DEF Acceptable
  <2>3. <<0, p.version>> = <<0, 1>> <=> p.version = 1
    OBVIOUS
  <2> QED  BY <1>1, <1>2, <2>2, <2>3 DEF Accepted
<1>3. CASE k = 6
  <2>1. Layout[k] = "cred_type"
    BY <1>3, LayoutKinds
  <2>2. Acceptable(Layout[k], Contents(p)[k]) <=> Contents(p)[k] = <<0, 1>>
    BY <2>1 DEF Acceptable
  <2>3. <<0, p.cred_type>> = <<0, 1>> <=> p.cred_type = 1
    OBVIOUS
  <2> QED  BY <1>1, <1>3, <2>2, <2>3 DEF Accepted
<1>4. CASE k = 7
  <2>1. Layout[k] = "identity"
    BY <1>4, LayoutKinds
  <2>2. Acceptable(Layout[k], Contents(p)[k]) <=> IsUtf8(Contents(p)[k])
    BY <2>1 DEF Acceptable
  <2> QED  BY <1>1, <1>4, <2>2 DEF Accepted
<1>5. CASE k = 13
  <2>1. Layout[k] = "source"
    BY <1>5, LayoutKinds
  <2>2. Acceptable(Layout[k], Contents(p)[k]) <=> Contents(p)[k] = <<1>>
    BY <2>1 DEF Acceptable
  <2>3. <<p.source>> = <<1>> <=> p.source = 1
    OBVIOUS
  <2> QED  BY <1>1, <1>5, <2>2, <2>3 DEF Accepted
<1>6. CASE k = 17
  <2>1. Layout[k] = "extensions"
    BY <1>6, LayoutKinds
  <2>2. Acceptable(Layout[k], Contents(p)[k]) <=> DetectLastResort(Contents(p)[k]).ok
    BY <2>1 DEF Acceptable
  <2>3. DetectLastResort(Contents(p)[k]) = Verdict(Decisive(p)) /\ Decisive(p) \in SaysWords
    BY <1>1, <1>6, DetectRead
  <2>4. Verdict(Decisive(p)).ok = (Decisive(p) # "malformed")
    BY <2>3, VerdictIsOk
  <2>5. DetectLastResort(Contents(p)[k]).ok = (Decisive(p) # "malformed")
    BY <2>3, <2>4
  <2>6. Accepted(p, k) <=> Decisive(p) # "malformed"
    BY <1>6 DEF Accepted
  <2> QED  BY <2>2, <2>5, <2>6
<1>7. CASE k \notin {1, 6, 7, 13, 17}
  <2>1. Layout[k] \notin {"version", "cred_type", "identity", "source", "extensions"}
    BY <1>7, LayoutKinds
  <2>2. Acceptable(Layout[k], Contents(p)[k])
    BY <2>1 DEF Acceptable
  <2> QED  BY <1>7, <2>2 DEF Accepted
<1> QED  BY <1>2, <1>3, <1>4, <1>5, <1>6, <1>7

-----------------------------------------------------------------------------
(* The cursor stands where the next field begins, what has been read is    *)
(* what the description says, and the reply is the one it calls for.       *)
AdmissionInv ==
    /\ input \in Inputs
    /\ bytes = Sent(input.package)
    /\ stage \in {"enter", "parse", "bind", "admitted", "rejected"}
    /\ field \in 0 .. 18
    /\ stage = "enter" => field = 0
    /\ i = Offset(Fields(input.package), field)
    /\ i <= Len(bytes)
    /\ PassedUpTo(input.package, field)
    /\ identity = IF field >= 7 THEN input.package.identity ELSE <<>>
    /\ is_last_resort = (field >= 17 /\ Decisive(input.package) = "marked")
    /\ stage \in {"bind", "admitted"} => field = 18 /\ WellFormed(input.package)
    /\ ParsesExactly
    /\ OwnIdentityOnly

LEMMA AdmissionInit == Init => AdmissionInv
<1> SUFFICES ASSUME Init PROVE AdmissionInv
  OBVIOUS
<1>1. Describes(input.package)
  BY InputsAssumption DEF Init
<1>2. Offset(Fields(input.package), 0) = 0 /\ Len(Sent(input.package)) \in Nat
  BY <1>1, FieldPlaces, SentAgrees
<1>3. PassedUpTo(input.package, 0)
  BY DEF PassedUpTo
<1>4. field = 0 /\ field \in 0 .. 18 /\ ~ (field >= 7) /\ ~ (field >= 17)
  BY DEF Init
<1>5. is_last_resort = (field >= 17 /\ Decisive(input.package) = "marked")
  BY <1>4, Zenon DEF Init
<1>6. /\ input \in Inputs /\ bytes = Sent(input.package) /\ stage = "enter"
      /\ i = 0 /\ identity = <<>>
  BY DEF Init
<1>7. i = Offset(Fields(input.package), field) /\ i <= Len(bytes)
  BY <1>2, <1>4, <1>6
<1>8. PassedUpTo(input.package, field)
  BY <1>3, <1>4
<1> QED  BY <1>4, <1>5, <1>6, <1>7, <1>8 DEF AdmissionInv, ParsesExactly, OwnIdentityOnly

LEMMA AdmissionEnter == AdmissionInv /\ Enter => AdmissionInv'
<1> SUFFICES ASSUME AdmissionInv, Enter PROVE AdmissionInv'
  OBVIOUS
<1>1. /\ stage = "enter"
      /\ \/ stage' = "parse"
         \/ /\ stage' = "rejected"
            /\ \/ Missing \in {input.caller, input.event}
               \/ input.kp_ref = "" \/ input.text # "base64"
      /\ UNCHANGED <<input, bytes, field, i, identity, is_last_resort>>
  BY Zenon DEF Enter
<1>2. field = 0
  BY <1>1 DEF AdmissionInv
<1> QED  BY <1>1, <1>2 DEF AdmissionInv, ParsesExactly, OwnIdentityOnly

(* The field read next: where it is and what reading it gives. *)
LEMMA NextField ==
    ASSUME AdmissionInv, field < Len(Layout)
    PROVE  \E k \in 1 .. 18 :
             /\ k = field + 1 /\ k - 1 = field
             /\ Describes(input.package)
             /\ k > 7 => input.package.size # 8
             /\ FieldOutcome(input.package, k, ReadField(Layout[k], bytes, i))
             /\ PassedUpTo(input.package, field)
<1>1. Len(Layout) = 18
  BY LayoutKinds
<1>2. PICK k \in 1 .. 18 : k = field + 1 /\ k - 1 = field
  BY <1>1 DEF AdmissionInv
<1>3. Describes(input.package)
  BY InputsAssumption DEF AdmissionInv
<1>4. k > 7 => input.package.size # 8
  BY <1>2 DEF AdmissionInv, PassedUpTo
<1>5. FieldOutcome(input.package, k,
        ReadField(Layout[k], Sent(input.package), Offset(Fields(input.package), k - 1)))
  BY <1>3, <1>4, FieldOutcomes
<1>6. bytes = Sent(input.package) /\ i = Offset(Fields(input.package), k - 1)
  BY <1>2 DEF AdmissionInv
<1>7. FieldOutcome(input.package, k, ReadField(Layout[k], bytes, i))
  BY <1>5, <1>6
<1>8. PassedUpTo(input.package, field)
  BY DEF AdmissionInv
<1> QED  BY <1>2, <1>3, <1>4, <1>7, <1>8

LEMMA AdmissionParseField == AdmissionInv /\ ParseField => AdmissionInv'
<1> SUFFICES ASSUME AdmissionInv, ParseField PROVE AdmissionInv'
  OBVIOUS
<1>1. PICK k \in 1 .. 18 :
        /\ k = field + 1 /\ k - 1 = field
        /\ Describes(input.package)
        /\ k > 7 => input.package.size # 8
        /\ FieldOutcome(input.package, k, ReadField(Layout[k], bytes, i))
        /\ PassedUpTo(input.package, field)
  BY NextField DEF ParseField
<1>2. PICK p : p = input.package
  OBVIOUS
<1>3. PICK read : read = ReadField(Layout[k], bytes, i)
  OBVIOUS
<1>4. /\ stage = "parse" /\ field < Len(Layout)
      /\ read.ok /\ Acceptable(Layout[k], read.value.data)
      /\ field' = field + 1
      /\ i' = read.value.next
      /\ identity' = IF Layout[k] = "identity" THEN read.value.data ELSE identity
      /\ is_last_resort' = IF Layout[k] = "extensions"
                           THEN DetectLastResort(read.value.data).value ELSE is_last_resort
      /\ UNCHANGED <<input, bytes, stage>>
  BY <1>1, <1>3, Zenon DEF ParseField
<1>5. /\ read.value.data = Contents(p)[k]
      /\ read.value.next = Offset(Fields(p), k)
      /\ Offset(Fields(p), k) <= Len(Sent(p))
      /\ k = 7 => p.size # 8
  BY <1>1, <1>2, <1>3, <1>4 DEF FieldOutcome
<1>6. Accepted(p, k)
  BY <1>1, <1>2, <1>4, <1>5, AcceptableIs
<1>7. PassedUpTo(p, field')
  BY <1>1, <1>2, <1>4, <1>5, <1>6 DEF PassedUpTo, Accepted
<1>8. i' = Offset(Fields(p), field') /\ i' <= Len(bytes)
  BY <1>1, <1>2, <1>4, <1>5 DEF AdmissionInv
<1>9. identity' = IF field' >= 7 THEN p.identity ELSE <<>>
  <2>1. CASE k = 7
    <3>1. Layout[k] = "identity" /\ Contents(p)[k] = p.identity
      BY <2>1, LayoutKinds DEF Contents
    <3> QED  BY <1>1, <1>4, <1>5, <2>1, <3>1
  <2>2. CASE k # 7
    <3>1. Layout[k] # "identity"
      BY <2>2, LayoutKinds
    <3>2. identity' = identity /\ (field' >= 7 <=> field >= 7)
      BY <1>1, <1>4, <2>2, <3>1
    <3> QED  BY <1>2, <3>2 DEF AdmissionInv
  <2> QED  BY <2>1, <2>2
<1>10. is_last_resort' = (field' >= 17 /\ Decisive(p) = "marked")
  <2>1. CASE k = 17
    <3>1. Layout[k] = "extensions" /\ Contents(p)[k] = EncodeExtensions(p) /\ p.size # 8
      BY <1>1, <1>2, <2>1, LayoutKinds DEF Contents
    <3>2. DetectLastResort(EncodeExtensions(p)) = Verdict(Decisive(p)) /\ Decisive(p) \in SaysWords
      BY <1>1, <1>2, <3>1, DetectRead
    <3>3. Decisive(p) # "malformed"
      BY <1>6, <2>1 DEF Accepted
    <3>4. Verdict(Decisive(p)).value = (Decisive(p) = "marked")
      BY <3>2, <3>3, VerdictIsOk
    <3>5. is_last_resort' = (Decisive(p) = "marked")
      BY <1>4, <1>5, <3>1, <3>2, <3>4
    <3>6. field' >= 17
      BY <1>1, <1>4, <2>1
    <3> QED  BY <3>5, <3>6
  <2>2. CASE k # 17
    <3>1. Layout[k] # "extensions"
      BY <2>2, LayoutKinds
    <3>2. is_last_resort' = is_last_resort
      BY <1>4, <3>1, Zenon
    <3>3. field' = k /\ field = k - 1
      BY <1>1, <1>4
    <3>4. k >= 17 <=> k - 1 >= 17
      BY <2>2
    <3>5. field' >= 17 <=> field >= 17
      BY <3>3, <3>4
    <3> QED  BY <1>2, <3>2, <3>5 DEF AdmissionInv
  <2> QED  BY <2>1, <2>2
<1>11. /\ input' = input /\ bytes' = bytes /\ stage' = stage /\ field' \in 0 .. 18
       /\ stage' = "parse"
  BY <1>1, <1>4
<1>12. ParsesExactly' /\ OwnIdentityOnly'
  BY <1>11 DEF ParsesExactly, OwnIdentityOnly
<1> QED  BY <1>2, <1>7, <1>8, <1>9, <1>10, <1>11, <1>12 DEF AdmissionInv

LEMMA AdmissionParseFails == AdmissionInv /\ ParseFails => AdmissionInv'
<1> SUFFICES ASSUME AdmissionInv, ParseFails PROVE AdmissionInv'
  OBVIOUS
<1>1. PICK k \in 1 .. 18 :
        /\ k = field + 1 /\ k - 1 = field
        /\ Describes(input.package)
        /\ k > 7 => input.package.size # 8
        /\ FieldOutcome(input.package, k, ReadField(Layout[k], bytes, i))
        /\ PassedUpTo(input.package, field)
  BY NextField DEF ParseFails
<1>2. PICK p : p = input.package
  OBVIOUS
<1>3. PICK read : read = ReadField(Layout[k], bytes, i)
  OBVIOUS
<1>4. /\ stage = "parse"
      /\ IF read.ok THEN ~ Acceptable(Layout[k], read.value.data) ELSE TRUE
      /\ stage' = "rejected"
      /\ UNCHANGED <<input, bytes, field, i, identity, is_last_resort>>
  BY <1>1, <1>3, Zenon DEF ParseFails
<1>5. ~ WellFormed(p)
  <2> SUFFICES ASSUME WellFormed(p) PROVE FALSE
    OBVIOUS
  <2>1. read.ok
    BY <1>1, <1>2, <1>3 DEF FieldOutcome
  <2>2. read.value.data = Contents(p)[k]
    BY <1>1, <1>2, <1>3, <2>1 DEF FieldOutcome
  <2>3. Accepted(p, k)
    BY DEF WellFormed, Accepted
  <2>4. Acceptable(Layout[k], Contents(p)[k])
    BY <1>1, <1>2, <2>3, AcceptableIs
  <2> QED  BY <1>4, <2>1, <2>2, <2>4
<1> QED  BY <1>2, <1>4, <1>5 DEF AdmissionInv, ParsesExactly, OwnIdentityOnly

LEMMA AdmissionParseEnds == AdmissionInv /\ ParseEnds => AdmissionInv'
<1> SUFFICES ASSUME AdmissionInv, ParseEnds PROVE AdmissionInv'
  OBVIOUS
<1>1. PICK p : p = input.package /\ Describes(p)
  BY InputsAssumption DEF AdmissionInv
<1>2. field = 18 /\ stage = "parse"
  BY LayoutKinds DEF ParseEnds
<1>3. i = Len(Encode(p)) /\ bytes = Sent(p)
  BY <1>1, <1>2, FieldPlaces DEF AdmissionInv
<1>4. i = Len(bytes) <=> p.cut = 0 /\ p.tail = <<>>
  BY <1>1, <1>3, SentAgrees
<1>5. i = Len(bytes) <=> WellFormed(p)
  BY <1>1, <1>2, <1>4 DEF WellFormed, AdmissionInv, PassedUpTo
<1>6. /\ stage' = IF i = Len(bytes) THEN "bind" ELSE "rejected"
      /\ UNCHANGED <<input, bytes, field, i, identity, is_last_resort>>
  BY DEF ParseEnds
<1> QED  BY <1>1, <1>2, <1>5, <1>6 DEF AdmissionInv, ParsesExactly, OwnIdentityOnly

LEMMA AdmissionBind == AdmissionInv /\ Bind => AdmissionInv'
<1> SUFFICES ASSUME AdmissionInv, Bind PROVE AdmissionInv'
  OBVIOUS
<1>1. field = 18 /\ WellFormed(input.package) /\ identity = input.package.identity
  BY DEF AdmissionInv, Bind
<1>2. /\ stage' = IF input.event # input.caller \/ identity # input.event
                  THEN "rejected" ELSE "admitted"
      /\ UNCHANGED <<input, bytes, field, i, identity, is_last_resort>>
  BY DEF Bind
<1> QED  BY <1>1, <1>2 DEF AdmissionInv, ParsesExactly, OwnIdentityOnly

LEMMA AdmissionStutter == AdmissionInv /\ UNCHANGED vars => AdmissionInv'
BY DEF AdmissionInv, vars, ParsesExactly, OwnIdentityOnly

(* Parser and admission check keep to the description of the package in    *)
(* every reachable state, whatever packages are sent.                      *)
THEOREM AdmissionInvariant == Spec => []AdmissionInv
<1>1. AdmissionInv /\ [Next]_vars => AdmissionInv'
  BY AdmissionEnter, AdmissionParseField, AdmissionParseFails, AdmissionParseEnds,
     AdmissionBind, AdmissionStutter DEF Next
<1> QED  BY <1>1, AdmissionInit, PTL DEF Spec

(* The cursor stays within the package and what is read of it is of the    *)
(* type the code declares (Cursor and parse_key_package).                  *)
THEOREM TypeCorrect == Spec => []TypeOK
<1>1. AdmissionInv => TypeOK
  <2> SUFFICES ASSUME AdmissionInv PROVE TypeOK
    OBVIOUS
  <2>1. PICK p : p = input.package /\ Describes(p)
    BY InputsAssumption DEF AdmissionInv
  <2>2. bytes \in Seq(0 .. 255) /\ Len(bytes) \in Nat
    BY <2>1, SentAgrees DEF AdmissionInv, Bytes, Byte
  <2>3. i \in 0 .. Len(bytes)
    <3>1. Offset(Fields(p), field) \in Nat
      BY <2>1, FieldPlaces DEF AdmissionInv
    <3> QED  BY <2>1, <2>2, <3>1 DEF AdmissionInv
  <2>4. IsUtf8(identity)
    <3>1. CASE field >= 7
      BY <3>1 DEF AdmissionInv, PassedUpTo
    <3>2. CASE ~ (field >= 7)
      <4>1. identity = <<>>
        BY <3>2 DEF AdmissionInv
      <4> QED  BY <4>1 DEF IsUtf8
    <3> QED  BY <3>1, <3>2
  <2>5. is_last_resort \in BOOLEAN
    BY DEF AdmissionInv
  <2> QED  BY <2>2, <2>3, <2>4, <2>5, LayoutKinds DEF TypeOK, AdmissionInv
<1> QED  BY <1>1, AdmissionInvariant, PTL

(* parse_key_package lets through exactly the well-formed packages,        *)
(* whatever their lengths, prefix sizes, and extensions: it refuses no     *)
(* well-formed one and accepts no other.                                   *)
THEOREM ParserIsExact == Spec => []ParsesExactly
<1>1. AdmissionInv => ParsesExactly
  BY DEF AdmissionInv
<1> QED  BY <1>1, AdmissionInvariant, PTL

(* detect_last_resort finds the marker exactly in the packages whose first *)
(* telling dictionary carries it.                                          *)
THEOREM LastResortIsExact == Spec => []LastResortExact
<1>1. AdmissionInv => LastResortExact
  BY DEF AdmissionInv, LastResortExact
<1> QED  BY <1>1, AdmissionInvariant, PTL

(* publish_key_package admits only what caller, signer and credential      *)
(* agree on.                                                               *)
THEOREM NobodyForAnother == Spec => []OwnIdentityOnly
<1>1. AdmissionInv => OwnIdentityOnly
  BY DEF AdmissionInv
<1> QED  BY <1>1, AdmissionInvariant, PTL
=============================================================================
