------------------------- MODULE RateLimiterProofs -------------------------
(***************************************************************************)
(* Proofs about RateLimiter.  The types and NothingForfeited are inductive *)
(* as they stand.  WithinRate is about every interval of the past; it      *)
(* follows from BudgetInv, which is about the intervals that end when the  *)
(* key's bucket was last settled and counts the tokens left in it.         *)
(***************************************************************************)
EXTENDS RateLimiter, FiniteSetTheorems, TLAPS

(* A full bucket is a number of fractions of a token. *)
LEMMA FullNat == Full \in Nat
BY RateAssumption DEF Full

(* Refilling over two adjacent spans is refilling over their union. *)
LEMMA RefillAdds ==
    ASSUME NEW r \in Nat, NEW a \in Int, NEW b \in Int, NEW c \in Int
    PROVE  r * (b - a) + r * (c - b) = r * (c - a)
OBVIOUS

(* More time, more refill. *)
LEMMA RefillMonotone ==
    ASSUME NEW r \in Nat, NEW a \in Int, NEW b \in Int, a <= b
    PROVE  /\ r * a \in Int
           /\ r * a <= r * b
           /\ a >= 0 => r * a >= 0
OBVIOUS

(* A request that counts towards an interval makes at most one more. *)
LEMMA OneMore ==
    ASSUME NEW S, NEW T, NEW x, IsFiniteSet(S), T \subseteq S \cup {x}
    PROVE  /\ Cardinality(S) \in Nat
           /\ Cardinality(T) \in Nat
           /\ IsFiniteSet(T)
           /\ Cardinality(T) <= Cardinality(S) + 1
<1>1. /\ IsFiniteSet(S \cup {x})
      /\ Cardinality(S \cup {x}) \in Nat
      /\ Cardinality(S \cup {x}) <= Cardinality(S) + 1
  BY FS_AddElement, FS_CardinalityType
<1>2. /\ IsFiniteSet(T)
      /\ Cardinality(T) <= Cardinality(S \cup {x})
  BY <1>1, FS_Subset
<1> QED  BY <1>1, <1>2, FS_CardinalityType

(* The tokens a check finds, whatever the order of the readings. *)
LEMMA AvailableProperties ==
    ASSUME TypeOK, NEW k \in Keys, NEW now \in 0 .. MaxClock
    PROVE  /\ Available(k, now) \in 0 .. Full
           /\ k \notin Kept(now) => Available(k, now) = Full
           /\ k \in Kept(now) =>
                /\ k \in DOMAIN buckets
                /\ Available(k, now) <= Full
                /\ now >= buckets[k].last_refill_at =>
                     Available(k, now) <= buckets[k].tokens
                                            + Rate * (now - buckets[k].last_refill_at)
                /\ Available(k, now) # Full =>
                     Available(k, now) >= buckets[k].tokens
                                            + Rate * (now - buckets[k].last_refill_at)
<1>1. Full \in Nat /\ Rate \in Nat /\ MaxClock \in Nat
  BY FullNat, RateAssumption
<1>2. CASE k \notin Kept(now)
  BY <1>1, <1>2 DEF Available
<1>3. CASE k \in Kept(now)
  <2> DEFINE b == buckets[k]
             e == Elapsed(now, b.last_refill_at)
  <2>1. k \in DOMAIN buckets
    BY <1>3 DEF Kept
  <2>2. b.tokens \in 0 .. Full /\ b.last_refill_at \in Nat
    BY <2>1 DEF TypeOK, Bucket
  <2>3. /\ e \in Nat
        /\ e >= now - b.last_refill_at
        /\ now >= b.last_refill_at => e = now - b.last_refill_at
    BY <2>2 DEF Elapsed
  <2>4. /\ e * Rate \in Nat
        /\ e * Rate >= Rate * (now - b.last_refill_at)
        /\ now >= b.last_refill_at => e * Rate = Rate * (now - b.last_refill_at)
        /\ Rate * (now - b.last_refill_at) \in Int
    BY <1>1, <2>2, <2>3, RefillMonotone
  <2>5. Available(k, now) = Smaller(b.tokens + e * Rate, Full)
    BY <1>3 DEF Available
  <2> QED  BY <1>1, <1>3, <2>1, <2>2, <2>4, <2>5 DEF Smaller
<1> QED  BY <1>2, <1>3

(* What a check leaves in the bucket. *)
LEMMA TokensLeftProperties ==
    ASSUME TypeOK, NEW k \in Keys, NEW now \in 0 .. MaxClock
    PROVE  /\ TokensLeft(k, now) \in 0 .. Full
           /\ Available(k, now) >= Unit => TokensLeft(k, now) = Available(k, now) - Unit
           /\ ~ (Available(k, now) >= Unit) => TokensLeft(k, now) = Available(k, now)
BY AvailableProperties, FullNat, RateAssumption DEF TokensLeft

(* A thread that checks has a reading. *)
LEMMA ReadingType ==
    ASSUME TypeOK, NEW t \in Threads, reading[t] # NoReading
    PROVE  reading[t].key \in Keys /\ reading[t].now \in 0 .. MaxClock
BY DEF TypeOK

-----------------------------------------------------------------------------
(* Without buckets and requests there is nothing to exceed. *)
LEMMA InitRate == Init => RateInv /\ NothingForfeited
<1> SUFFICES ASSUME Init PROVE RateInv /\ NothingForfeited
  OBVIOUS
<1>1. TypeOK
  BY RateAssumption DEF Init, TypeOK
<1>2. \A k \in Keys : allowed[k] = {} /\ IsFiniteSet(allowed[k])
  BY FS_EmptySet DEF Init
<1>3. ReadingsInv
  BY <1>2 DEF Init, ReadingsInv
<1>4. \A k \in Keys : \A from, to : Cardinality(AllowedIn(k, from, to)) = 0
  <2>1. \A k \in Keys : \A from, to : AllowedIn(k, from, to) = {}
    BY <1>2 DEF AllowedIn
  <2> QED  BY <2>1, FS_EmptySet
<1>5. BudgetInv
  <2> SUFFICES ASSUME NEW k \in Keys
               PROVE  /\ Settled(k) = 0
                      /\ Level(k) = Full
                      /\ \A from \in 0 .. 0 :
                           Unit * Cardinality(AllowedIn(k, from, 0)) + Full
                             <= Full + Rate * (0 - from)
    BY <1>2 DEF BudgetInv
  <2>1. Settled(k) = 0 /\ Level(k) = Full
    BY DEF Init, Settled, Level
  <2> QED  BY <2>1, <1>4, FullNat, RateAssumption
<1>6. WithinRate
  BY <1>4, FullNat, RateAssumption DEF WithinRate, Init
<1>7. NothingForfeited
  BY DEF NothingForfeited, Init
<1> QED  BY <1>1, <1>3, <1>5, <1>6, <1>7 DEF RateInv

(* Every step keeps the types. *)
LEMMA RateTypeStep == RateInv /\ Next => TypeOK'
<1> SUFFICES ASSUME RateInv, Next PROVE TypeOK'
  OBVIOUS
<1> USE RateAssumption DEF RateInv
<1>1. CASE Tick
  BY <1>1 DEF Tick, TypeOK
<1>2. ASSUME NEW t \in Threads, NEW k \in Keys, ReadClock(t, k)
      PROVE  TypeOK'
  BY <1>2 DEF ReadClock, TypeOK
<1>3. ASSUME NEW t \in Threads, Check(t)
      PROVE  TypeOK'
  <2> DEFINE k == reading[t].key
             now == reading[t].now
             new == [tokens |-> TokensLeft(k, now),
                     last_refill_at |-> now, last_seen_at |-> now]
  <2>1. reading[t] # NoReading /\ k \in Keys /\ now \in 0 .. MaxClock
    BY <1>3, ReadingType DEF Check
  <2>2. new \in Bucket
    BY <2>1, TokensLeftProperties DEF Bucket
  <2>3. DOMAIN buckets' \subseteq Keys /\ buckets' \in [DOMAIN buckets' -> Bucket]
    <3>1. \A i \in Kept(now) : i \in Keys /\ buckets[i] \in Bucket
      BY DEF Kept, TypeOK
    <3> HIDE DEF new, k, now
    <3>2. buckets' = [i \in Kept(now) \cup (IF Available(k, now) >= Unit THEN {k} ELSE {}) |->
                        IF i = k THEN new ELSE buckets[i]]
      BY <1>3 DEF Check, new, k, now
    <3> QED  BY <2>1, <2>2, <3>1, <3>2
  <2>4. allowed' \in [Keys -> SUBSET (Nat \X Nat)]
    <3>1. \A S \in SUBSET allowed[k] : Cardinality(S) \in Nat
      BY <2>1, FS_Subset, FS_CardinalityType DEF ReadingsInv
    <3>2. 1 + Cardinality({a \in allowed[k] : a[1] = now}) \in Nat
      BY <3>1
    <3>3. <<now, 1 + Cardinality({a \in allowed[k] : a[1] = now})>> \in Nat \X Nat
      BY <2>1, <3>2
    <3> HIDE DEF k, now
    <3>4. allowed' = [allowed EXCEPT ![k] =
                        IF Available(k, now) >= Unit
                        THEN @ \cup {<<now, 1 + Cardinality({a \in @ : a[1] = now})>>}
                        ELSE @]
      BY <1>3 DEF Check, k, now
    <3>5. /\ allowed[k] \in SUBSET (Nat \X Nat)
          /\ allowed \in [Keys -> SUBSET (Nat \X Nat)]
      BY <2>1 DEF TypeOK
    <3> HIDE RateAssumption DEF RateInv
    <3> QED  BY <2>1, <3>3, <3>4, <3>5
  <2>5. applied' \in [latest : 0 .. MaxClock, late : BOOLEAN]
    BY <1>3, <2>1 DEF Check, TypeOK
  <2>6. window' \in [Keys -> [at : Nat, used : Nat]]
    BY <1>3, <2>1 DEF Check, TypeOK
  <2>7. reading' \in [Threads -> [key : Keys, now : 0 .. MaxClock] \cup {NoReading}]
    BY <1>3 DEF Check, TypeOK
  <2> QED  BY <1>3, <2>3, <2>4, <2>5, <2>6, <2>7 DEF Check, TypeOK
<1> QED  BY <1>1, <1>2, <1>3 DEF Next

(* A check moves one key; the buckets of the others stay or are evicted. *)
CheckEffect(k, now) ==
    /\ k \in Keys /\ now \in 0 .. MaxClock /\ now <= clock
    /\ clock' = clock
    /\ DOMAIN buckets' = Kept(now) \cup (IF Available(k, now) >= Unit THEN {k} ELSE {})
    /\ \A i \in DOMAIN buckets' :
         buckets'[i] = IF i = k
                       THEN [tokens |-> TokensLeft(k, now),
                             last_refill_at |-> now, last_seen_at |-> now]
                       ELSE buckets[i]
    /\ \A i \in Keys \ {k} : allowed'[i] = allowed[i]
    /\ ~ (Available(k, now) >= Unit) => allowed'[k] = allowed[k]
    /\ Available(k, now) >= Unit =>
         \E x : x[1] = now /\ allowed'[k] = allowed[k] \cup {x}
    /\ applied'.latest >= applied.latest /\ applied'.latest >= now
    /\ applied'.latest \in {applied.latest, now}
    /\ ~ applied'.late =>
         ~ applied.late /\ now >= applied.latest /\ applied'.latest = now

(* A check does what CheckEffect says to the key it is about. *)
LEMMA CheckShape ==
    ASSUME RateInv, NEW t \in Threads, Check(t)
    PROVE  CheckEffect(reading[t].key, reading[t].now)
<1> DEFINE k == reading[t].key
           now == reading[t].now
<1>1. reading[t] # NoReading /\ clock' = clock
  BY DEF Check
<1>2. k \in Keys /\ now \in 0 .. MaxClock /\ now <= clock
  BY <1>1, ReadingType DEF RateInv, ReadingsInv
<1>3. applied \in [latest : 0 .. MaxClock, late : BOOLEAN]
  BY DEF RateInv, TypeOK
<1>4. /\ applied'.latest >= applied.latest /\ applied'.latest >= now
      /\ applied'.latest \in {applied.latest, now}
      /\ ~ applied'.late => ~ applied.late /\ now >= applied.latest /\ applied'.latest = now
  BY <1>2, <1>3, RateAssumption DEF Check
<1>5. /\ DOMAIN buckets' = Kept(now) \cup (IF Available(k, now) >= Unit THEN {k} ELSE {})
      /\ \A i \in DOMAIN buckets' :
           buckets'[i] = IF i = k
                         THEN [tokens |-> TokensLeft(k, now),
                               last_refill_at |-> now, last_seen_at |-> now]
                         ELSE buckets[i]
  BY Zenon DEF Check
<1>6. allowed \in [Keys -> SUBSET (Nat \X Nat)]
  BY DEF RateInv, TypeOK
<1>7. allowed' = [allowed EXCEPT ![k] =
                    IF Available(k, now) >= Unit
                    THEN @ \cup {<<now, 1 + Cardinality({a \in @ : a[1] = now})>>}
                    ELSE @]
  BY DEF Check
<1> HIDE DEF k, now
<1>8. /\ \A i \in Keys \ {k} : allowed'[i] = allowed[i]
      /\ ~ (Available(k, now) >= Unit) => allowed'[k] = allowed[k]
      /\ Available(k, now) >= Unit => \E x : x[1] = now /\ allowed'[k] = allowed[k] \cup {x}
  <2>1. /\ \A i \in Keys \ {k} : allowed'[i] = allowed[i]
        /\ ~ (Available(k, now) >= Unit) => allowed'[k] = allowed[k]
    BY <1>2, <1>6, <1>7
  <2>2. ASSUME Available(k, now) >= Unit
        PROVE  \E x : x[1] = now /\ allowed'[k] = allowed[k] \cup {x}
    <3> DEFINE x == <<now, 1 + Cardinality({a \in allowed[k] : a[1] = now})>>
    <3>1. allowed'[k] = allowed[k] \cup {x}
      BY <1>2, <1>6, <1>7, <2>2
    <3>2. x[1] = now
      OBVIOUS
    <3> QED  BY <3>1, <3>2
  <2> QED  BY <2>1, <2>2
<1> QED  BY <1>1, <1>2, <1>4, <1>5, <1>8 DEF CheckEffect, k, now

(* Readings in progress and in buckets stay behind the clock. *)
LEMMA ReadingsStep == RateInv /\ Next => ReadingsInv'
<1> SUFFICES ASSUME RateInv, Next PROVE ReadingsInv'
  OBVIOUS
<1>0. TypeOK /\ ReadingsInv /\ TypeOK'
  BY RateTypeStep DEF RateInv
<1>1. CASE Tick
  BY <1>0, <1>1, RateAssumption DEF Tick, ReadingsInv, TypeOK
<1>2. ASSUME NEW t \in Threads, NEW k \in Keys, ReadClock(t, k)
      PROVE  ReadingsInv'
  <2>1. \A u \in Threads : reading'[u] # NoReading => reading'[u].now <= clock
    BY <1>0, <1>2 DEF ReadClock, ReadingsInv, TypeOK
  <2> QED  BY <1>0, <1>2, <2>1 DEF ReadClock, ReadingsInv
<1>3. ASSUME NEW t \in Threads, Check(t)
      PROVE  ReadingsInv'
  <2>e. PICK k, now : CheckEffect(k, now)
    BY <1>3, CheckShape
  <2>0. /\ k \in Keys /\ now \in 0 .. MaxClock /\ now <= clock
        /\ clock' = clock
        /\ applied'.latest \in Int /\ applied.latest \in Int /\ clock \in Int
    BY <1>0, <2>e, RateAssumption DEF CheckEffect, TypeOK
  <2>1. /\ applied'.latest <= clock
        /\ applied'.latest >= applied.latest /\ applied'.latest >= now
    BY <1>0, <2>e, <2>0 DEF ReadingsInv, CheckEffect
  <2>2. \A u \in Threads : reading'[u] # NoReading => reading'[u].now <= clock
    BY <1>0, <1>3 DEF Check, ReadingsInv, TypeOK
  <2>3. ASSUME NEW i \in DOMAIN buckets'
        PROVE  /\ buckets'[i].last_refill_at <= applied'.latest
               /\ buckets'[i].last_seen_at = buckets'[i].last_refill_at
    <3>1. CASE i = k
      <4>1. buckets'[i] = [tokens |-> TokensLeft(k, now),
                           last_refill_at |-> now, last_seen_at |-> now]
        BY <2>e, <2>3, <3>1 DEF CheckEffect
      <4> QED  BY <2>1, <4>1
    <3>2. CASE i # k
      <4>1. i \in DOMAIN buckets /\ buckets'[i] = buckets[i]
        BY <2>0, <2>e, <2>3, <3>2 DEF Kept, CheckEffect
      <4>2. buckets[i].last_refill_at \in Int
        BY <1>0, <4>1 DEF TypeOK, Bucket
      <4> QED  BY <1>0, <2>0, <2>1, <4>1, <4>2 DEF ReadingsInv
    <3> QED  BY <3>1, <3>2
  <2>4. ASSUME NEW i \in Keys
        PROVE  /\ \A a \in allowed'[i] : a[1] <= applied'.latest
               /\ IsFiniteSet(allowed'[i])
    <3>1. \A a \in allowed[i] : a[1] <= applied'.latest
      <4>1. \A a \in allowed[i] : a[1] \in Int /\ a[1] <= applied.latest
        BY <1>0 DEF ReadingsInv, TypeOK
      <4> QED  BY <2>0, <2>1, <4>1
    <3>2. IsFiniteSet(allowed[i])
      BY <1>0 DEF ReadingsInv
    <3>3. CASE allowed'[i] = allowed[i]
      BY <3>1, <3>2, <3>3
    <3>4. CASE allowed'[i] # allowed[i]
      <4>1. PICK x : x[1] = now /\ allowed'[i] = allowed[i] \cup {x}
        BY <2>e, <3>4 DEF CheckEffect
      <4> QED  BY <2>1, <3>1, <3>2, <4>1, FS_AddElement
    <3> QED  BY <3>3, <3>4
  <2> QED  BY <2>0, <2>1, <2>2, <2>3, <2>4 DEF ReadingsInv
<1> QED  BY <1>1, <1>2, <1>3 DEF Next

-----------------------------------------------------------------------------
(* The hypothesis under which WithinRate is stated. *)
InOrder == IdleBucketsAreFull /\ ~ applied.late

(* The key's requests up to some moment are those up to when it was last   *)
(* settled, if that was before.                                            *)
LEMMA AllowedUpTo ==
    ASSUME RateInv, InOrder, NEW k \in Keys, NEW from \in Nat,
           NEW to \in Nat, Settled(k) <= to
    PROVE  /\ Settled(k) \in Nat
           /\ IsFiniteSet(AllowedIn(k, from, to))
           /\ AllowedIn(k, from, to) = AllowedIn(k, from, Settled(k))
           /\ from > Settled(k) => AllowedIn(k, from, to) = {}
<1>1. \A a \in allowed[k] : a[1] \in Nat /\ a[1] <= Settled(k)
  BY DEF RateInv, TypeOK, BudgetInv, InOrder
<1>2. Settled(k) \in Nat
  BY RateAssumption DEF RateInv, TypeOK, Bucket, Settled
<1>3. IsFiniteSet(AllowedIn(k, from, to))
  BY FS_Subset DEF RateInv, ReadingsInv, AllowedIn
<1> QED  BY <1>1, <1>2, <1>3 DEF AllowedIn

(* A check finds no more than the budget of every interval up to now. *)
LEMMA BudgetAtCheck ==
    ASSUME RateInv, InOrder, NEW k \in Keys,
           NEW now \in 0 .. MaxClock, applied.latest <= now,
           NEW from \in 0 .. now
    PROVE  /\ Settled(k) <= now
           /\ Cardinality(AllowedIn(k, from, now)) \in Nat
           /\ Unit * Cardinality(AllowedIn(k, from, now)) + Available(k, now)
                <= Full + Rate * (now - from)
<1>0. /\ TypeOK /\ ReadingsInv
      /\ Full \in Nat /\ Rate \in Nat /\ Unit \in Nat /\ IdleTtl \in Nat /\ MaxClock \in Nat
      /\ applied.latest \in Nat
  BY FullNat, RateAssumption DEF RateInv, TypeOK
<1>1. /\ Available(k, now) \in 0 .. Full
      /\ k \in DOMAIN buckets => buckets[k] \in Bucket
  BY <1>0, AvailableProperties DEF TypeOK
<1>2. Settled(k) <= now /\ Settled(k) \in Nat
  BY <1>0, <1>1 DEF ReadingsInv, Settled, Bucket
<1> DEFINE N == Cardinality(AllowedIn(k, from, now))
<1>3. N \in Nat
  BY <1>2, AllowedUpTo, FS_CardinalityType
<1>4. CASE from > Settled(k)
  <2>1. N = 0
    BY <1>2, <1>4, AllowedUpTo, FS_EmptySet
  <2>2. Rate * (now - from) >= 0 /\ Rate * (now - from) \in Int
    BY <1>0, RefillMonotone
  <2> QED  BY <1>0, <1>1, <1>2, <1>3, <2>1, <2>2
<1>5. CASE from <= Settled(k)
  <2>1. Unit * N + Level(k) <= Full + Rate * (Settled(k) - from)
    <3>1. AllowedIn(k, from, now) = AllowedIn(k, from, Settled(k))
      BY <1>2, AllowedUpTo
    <3>2. from \in 0 .. Settled(k)
      BY <1>2, <1>5
    <3>3. Unit * Cardinality(AllowedIn(k, from, Settled(k))) + Level(k)
            <= Full + Rate * (Settled(k) - from)
      BY <3>2 DEF RateInv, BudgetInv, InOrder
    <3> QED  BY <3>1, <3>3
  <2>2. /\ Rate * (Settled(k) - from) + Rate * (now - Settled(k)) = Rate * (now - from)
        /\ Rate * (Settled(k) - from) \in Int
        /\ Rate * (now - Settled(k)) \in Nat
        /\ Rate * (now - from) \in Int
        /\ Unit * N \in Nat
    BY <1>0, <1>2, <1>3, RefillAdds, RefillMonotone
  <2>3. Available(k, now) <= Level(k) + Rate * (now - Settled(k))
    <3>1. CASE k \in Kept(now)
      BY <1>0, <1>2, <3>1, AvailableProperties DEF Settled, Level
    <3>2. CASE k \notin DOMAIN buckets
      BY <1>0, <1>1, <2>2, <3>2 DEF Level
    <3>3. CASE k \in DOMAIN buckets /\ k \notin Kept(now)
      <4>1. IdleTtl > 0 /\ now - Settled(k) >= IdleTtl
        BY <1>0, <1>1, <1>2, <3>3 DEF Kept, ReadingsInv, Settled, Bucket
      <4>2. Rate * IdleTtl >= Full /\ Rate * IdleTtl \in Nat
        BY <1>0, <4>1 DEF InOrder, IdleBucketsAreFull
      <4>3. Rate * (now - Settled(k)) >= Rate * IdleTtl
        BY <1>0, <1>2, <4>1, RefillMonotone
      <4>4. Level(k) \in Nat
        BY <1>0, <1>1, <3>3 DEF Level, Bucket
      <4> QED  BY <1>0, <1>1, <2>2, <4>2, <4>3, <4>4
    <3> QED  BY <3>1, <3>2, <3>3
  <2>4. Level(k) \in Nat
    BY <1>0, <1>1 DEF Level, Bucket
  <2> HIDE DEF N
  <2> QED  BY <1>0, <1>1, <1>2, <2>1, <2>2, <2>3, <2>4, <1>3 DEF N
<1> QED  BY <1>2, <1>4, <1>5

(* What was allowed in an interval is paid for by the bucket. *)
LEMMA BudgetStep == RateInv /\ Next => BudgetInv'
<1> SUFFICES ASSUME RateInv, Next, InOrder', NEW k \in Keys
             PROVE  /\ \A a \in allowed'[k] : a[1] <= Settled(k)'
                    /\ \A from \in 0 .. Settled(k)' :
                         Unit * Cardinality(AllowedIn(k, from, Settled(k))') + Level(k)'
                           <= Full + Rate * (Settled(k)' - from)
  BY DEF BudgetInv, InOrder
<1>0. /\ TypeOK /\ ReadingsInv /\ BudgetInv
      /\ Full \in Nat /\ Rate \in Nat /\ Unit \in Nat /\ MaxClock \in Nat
  BY FullNat, RateAssumption DEF RateInv
<1>1. CASE UNCHANGED <<buckets, allowed, applied>>
  <2>1. /\ Settled(k)' = Settled(k) /\ Level(k)' = Level(k) /\ allowed'[k] = allowed[k]
        /\ \A from : AllowedIn(k, from, Settled(k))' = AllowedIn(k, from, Settled(k))
    BY <1>1 DEF Settled, Level, AllowedIn
  <2>2. InOrder
    BY <1>1 DEF InOrder
  <2> QED  BY <1>0, <2>1, <2>2 DEF BudgetInv, InOrder
<1>2. ASSUME NEW t \in Threads, Check(t)
      PROVE  /\ \A a \in allowed'[k] : a[1] <= Settled(k)'
             /\ \A from \in 0 .. Settled(k)' :
                  Unit * Cardinality(AllowedIn(k, from, Settled(k))') + Level(k)'
                    <= Full + Rate * (Settled(k)' - from)
  <2>1. PICK kk, now : CheckEffect(kk, now)
    BY <1>2, CheckShape
  <2>2. InOrder /\ now >= applied.latest /\ applied'.latest = now /\ now \in 0 .. MaxClock
    BY <2>1 DEF InOrder, CheckEffect
  <2>3. CASE k \in DOMAIN buckets' /\ k # kk
    <3>1. k \in DOMAIN buckets /\ buckets'[k] = buckets[k] /\ allowed'[k] = allowed[k]
      BY <2>1, <2>3 DEF CheckEffect, Kept
    <3>2. /\ Settled(k)' = Settled(k) /\ Level(k)' = Level(k)
          /\ \A from : AllowedIn(k, from, Settled(k))' = AllowedIn(k, from, Settled(k))
      BY <2>3, <3>1 DEF Settled, Level, AllowedIn
    <3> QED  BY <1>0, <2>2, <3>1, <3>2 DEF BudgetInv, InOrder
  <2>4. CASE k \notin DOMAIN buckets' \/ k = kk
    <3>1. Settled(k)' = now
      <4>1. CASE k \in DOMAIN buckets'
        BY <2>1, <2>4, <4>1 DEF Settled, CheckEffect
      <4>2. CASE k \notin DOMAIN buckets'
        BY <2>2, <4>2 DEF Settled
      <4> QED  BY <4>1, <4>2
    <3>2. \A a \in allowed[k] : a[1] \in Nat /\ a[1] <= now
      BY <1>0, <2>2 DEF TypeOK, ReadingsInv
    <3>3. Available(k, now) \in 0 .. Full /\ (k \notin Kept(now) => Available(k, now) = Full)
      BY <1>0, <2>2, AvailableProperties
    <3>4. \A from \in 0 .. now :
            /\ IsFiniteSet(AllowedIn(k, from, now))
            /\ Cardinality(AllowedIn(k, from, now)) \in Nat
            /\ Unit * Cardinality(AllowedIn(k, from, now)) + Available(k, now)
                 <= Full + Rate * (now - from)
      <4> TAKE from \in 0 .. now
      <4>1. Settled(k) <= now /\ applied.latest <= now
        BY <1>0, <2>2, BudgetAtCheck DEF TypeOK
      <4> QED  BY <2>2, <4>1, BudgetAtCheck, AllowedUpTo
    <3>5. CASE k = kk /\ Available(k, now) >= Unit
      <4>1. PICK x : x[1] = now /\ allowed'[k] = allowed[k] \cup {x}
        BY <2>1, <3>5 DEF CheckEffect
      <4>2. Level(k)' = Available(k, now) - Unit
        <5>1. k \in DOMAIN buckets' /\ buckets'[k].tokens = TokensLeft(k, now)
          BY <2>1, <3>5 DEF CheckEffect
        <5> QED  BY <1>0, <2>2, <3>5, <5>1, TokensLeftProperties DEF Level
      <4>3. \A a \in allowed'[k] : a[1] <= now
        BY <2>2, <3>2, <4>1
      <4>4. ASSUME NEW from \in 0 .. now
            PROVE  Unit * Cardinality(AllowedIn(k, from, now)') + Level(k)'
                     <= Full + Rate * (now - from)
        <5> DEFINE S == AllowedIn(k, from, now)
                   T == AllowedIn(k, from, now)'
        <5>1. T \subseteq S \cup {x}
          BY <4>1 DEF AllowedIn
        <5>2. IsFiniteSet(S)
          BY <3>4
        <5>3. /\ Cardinality(S) \in Nat /\ Cardinality(T) \in Nat
              /\ Cardinality(T) <= Cardinality(S) + 1
          <6> HIDE DEF S, T
          <6> QED  BY <5>1, <5>2, OneMore
        <5>4. Unit * Cardinality(S) + Available(k, now) <= Full + Rate * (now - from)
          BY <3>4
        <5> HIDE DEF S, T
        <5>5. /\ Unit * Cardinality(T) <= Unit * Cardinality(S) + Unit
              /\ Unit * Cardinality(T) \in Int /\ Unit * Cardinality(S) \in Int
              /\ Rate * (now - from) \in Int
          <6>1. Unit * Cardinality(T) <= Unit * (Cardinality(S) + 1)
            BY <1>0, <5>3, RefillMonotone
          <6> QED  BY <1>0, <2>2, <5>3, <6>1
        <5>6. Unit * Cardinality(T) + (Available(k, now) - Unit) <= Full + Rate * (now - from)
          BY <1>0, <3>3, <5>4, <5>5
        <5> QED  BY <4>2, <5>6 DEF T
      <4> QED  BY <3>1, <4>3, <4>4
    <3>6. CASE ~ (k = kk /\ Available(k, now) >= Unit)
      <4>1. allowed'[k] = allowed[k]
        BY <2>1, <3>6 DEF CheckEffect
      <4>2. Level(k)' = Available(k, now)
        <5>1. CASE k \in DOMAIN buckets'
          <6>1. k = kk /\ ~ (Available(k, now) >= Unit)
            BY <2>4, <3>6, <5>1
          <6>2. buckets'[k].tokens = TokensLeft(k, now)
            BY <2>1, <5>1, <6>1 DEF CheckEffect
          <6> QED  BY <1>0, <2>2, <5>1, <6>1, <6>2, TokensLeftProperties DEF Level
        <5>2. CASE k \notin DOMAIN buckets'
          <6>1. k \notin Kept(now)
            BY <2>1, <5>2 DEF CheckEffect
          <6> QED  BY <3>3, <5>2, <6>1 DEF Level
        <5> QED  BY <5>1, <5>2
      <4>3. \A from : AllowedIn(k, from, now)' = AllowedIn(k, from, now)
        BY <4>1 DEF AllowedIn
      <4> QED  BY <3>1, <3>2, <3>4, <4>1, <4>2, <4>3
    <3> QED  BY <3>5, <3>6
  <2> QED  BY <2>3, <2>4
<1> QED  BY <1>1, <1>2 DEF Next, Tick, ReadClock

(* Hence no interval exceeds the burst and the refill. *)
LEMMA WithinStep == RateInv /\ Next => WithinRate'
<1> SUFFICES ASSUME RateInv, Next, InOrder', NEW k \in Keys,
                    NEW from \in 0 .. clock', NEW to \in from .. clock'
             PROVE  Unit * Cardinality(AllowedIn(k, from, to)') <= Full + Rate * (to - from)
  BY DEF WithinRate, InOrder
<1>0. /\ TypeOK /\ ReadingsInv /\ WithinRate
      /\ TypeOK' /\ ReadingsInv' /\ BudgetInv'
      /\ Full \in Nat /\ Rate \in Nat /\ Unit \in Nat /\ MaxClock \in Nat
      /\ clock \in Nat /\ clock' \in Nat
      /\ Rate * (to - from) \in Nat
  BY FullNat, RateAssumption, RateTypeStep, ReadingsStep, BudgetStep, RefillMonotone
     DEF RateInv, TypeOK
(* Nothing was allowed in the interval. *)
<1>1. CASE AllowedIn(k, from, to)' = {}
  BY <1>0, <1>1, FS_EmptySet
(* No request was added to the interval. *)
<1>2. ASSUME InOrder, NEW mid \in from .. to, from <= clock, mid <= clock,
             AllowedIn(k, from, to)' = AllowedIn(k, from, mid)
      PROVE  Unit * Cardinality(AllowedIn(k, from, to)') <= Full + Rate * (to - from)
  <2>1. Unit * Cardinality(AllowedIn(k, from, mid)) <= Full + Rate * (mid - from)
    BY <1>0, <1>2 DEF WithinRate, InOrder
  <2>2. /\ Rate * (mid - from) <= Rate * (to - from) /\ Rate * (mid - from) \in Int
    BY <1>0, RefillMonotone
  <2>3. Cardinality(AllowedIn(k, from, mid)) \in Nat
    BY <1>0, FS_Subset, FS_CardinalityType DEF ReadingsInv, AllowedIn
  <2>4. Unit * Cardinality(AllowedIn(k, from, mid)) \in Int
    BY <1>0, <2>3
  <2> QED  BY <1>0, <1>2, <2>1, <2>2, <2>4
<1>3. CASE Tick
  <2>0. clock' = clock + 1 /\ allowed' = allowed /\ applied' = applied
    BY <1>3 DEF Tick
  <2>1. InOrder
    BY <2>0 DEF InOrder
  <2>2. \A a \in allowed[k] : a[1] \in Nat /\ a[1] <= clock
    BY <1>0 DEF TypeOK, ReadingsInv
  <2>3. CASE to <= clock
    <3>1. AllowedIn(k, from, to)' = AllowedIn(k, from, to)
      BY <2>0 DEF AllowedIn
    <3> QED  BY <1>0, <1>2, <2>1, <2>3, <3>1
  <2>4. CASE to = clock + 1 /\ from <= clock
    <3>1. AllowedIn(k, from, to)' = AllowedIn(k, from, clock)
      BY <1>0, <2>0, <2>2, <2>4 DEF AllowedIn
    <3> QED  BY <1>0, <1>2, <2>1, <2>4, <3>1
  <2>5. CASE from = clock + 1
    <3>1. AllowedIn(k, from, to)' = {}
      BY <1>0, <2>0, <2>2, <2>5 DEF AllowedIn
    <3> QED  BY <1>1, <3>1
  <2> QED  BY <1>0, <2>0, <2>3, <2>4, <2>5
<1>4. ASSUME NEW t \in Threads, NEW kk \in Keys, ReadClock(t, kk)
      PROVE  Unit * Cardinality(AllowedIn(k, from, to)') <= Full + Rate * (to - from)
  <2>1. clock' = clock /\ InOrder /\ AllowedIn(k, from, to)' = AllowedIn(k, from, to)
    BY <1>4 DEF ReadClock, InOrder, AllowedIn
  <2> QED  BY <1>0, <1>2, <2>1
<1>5. ASSUME NEW t \in Threads, Check(t)
      PROVE  Unit * Cardinality(AllowedIn(k, from, to)') <= Full + Rate * (to - from)
  <2>1. PICK kk, now : CheckEffect(kk, now)
    BY <1>5, CheckShape
  <2>2. /\ InOrder /\ applied'.latest = now /\ now \in Nat
        /\ clock' = clock
    BY <2>1 DEF InOrder, CheckEffect
  <2>3. CASE AllowedIn(k, from, to)' = AllowedIn(k, from, to)
    BY <1>0, <1>2, <2>2, <2>3
  <2>4. CASE k = kk /\ Available(k, now) >= Unit /\ now <= to
    <3>1. k \in DOMAIN buckets' /\ buckets'[k].last_refill_at = now
      BY <2>1, <2>4 DEF CheckEffect
    <3>2. Settled(k)' = now /\ Level(k)' \in Nat
      BY <1>0, <3>1 DEF Settled, Level, TypeOK, Bucket
    <3>3. \A a \in allowed'[k] : a[1] \in Nat /\ a[1] <= now
      BY <1>0, <2>2 DEF TypeOK, ReadingsInv
    <3>4. CASE from > now
      <4>1. AllowedIn(k, from, to)' = {}
        BY <1>0, <2>2, <3>3, <3>4 DEF AllowedIn
      <4> QED  BY <1>1, <4>1
    <3>5. CASE from <= now
      <4>1. AllowedIn(k, from, to)' = AllowedIn(k, from, now)'
        BY <1>0, <2>2, <2>4, <3>3, <3>5 DEF AllowedIn
      <4>2. Unit * Cardinality(AllowedIn(k, from, now)') + Level(k)' <= Full + Rate * (now - from)
        <5>1. from \in 0 .. now
          BY <1>0, <2>2, <3>5
        <5> QED  BY <1>0, <3>2, <5>1 DEF BudgetInv, InOrder
      <4>3. Rate * (now - from) <= Rate * (to - from) /\ Rate * (now - from) \in Int
        BY <1>0, <2>2, <2>4, RefillMonotone
      <4>4. Cardinality(AllowedIn(k, from, now)') \in Nat
        <5>1. IsFiniteSet(allowed'[k]) /\ AllowedIn(k, from, now)' \subseteq allowed'[k]
          BY <1>0 DEF ReadingsInv, AllowedIn
        <5> QED  BY <5>1, FS_Subset, FS_CardinalityType
      <4>5. Unit * Cardinality(AllowedIn(k, from, now)') \in Int
        BY <1>0, <4>4
      <4> QED  BY <1>0, <3>2, <4>1, <4>2, <4>3, <4>5
    <3> QED  BY <1>0, <2>2, <3>4, <3>5
  <2>5. CASE ~ (k = kk /\ Available(k, now) >= Unit) \/ to < now
    <3>1. \/ allowed'[k] = allowed[k]
          \/ to < now /\ (\E x : x[1] = now /\ allowed'[k] = allowed[k] \cup {x})
      <4>1. CASE k # kk \/ ~ (Available(k, now) >= Unit)
        BY <2>1, <4>1 DEF CheckEffect
      <4>2. CASE k = kk /\ Available(k, now) >= Unit
        BY <2>1, <2>5, <4>2 DEF CheckEffect
      <4> QED  BY <4>1, <4>2
    <3>2. CASE allowed'[k] = allowed[k]
      BY <2>3, <3>2 DEF AllowedIn
    <3>3. ASSUME to < now, NEW x, x[1] = now, allowed'[k] = allowed[k] \cup {x}
          PROVE  AllowedIn(k, from, to)' = AllowedIn(k, from, to)
      <4>1. x[1] \notin from .. to
        BY <1>0, <2>2, <3>3
      <4> QED  BY <3>3, <4>1, Zenon DEF AllowedIn
    <3> QED  BY <2>3, <3>1, <3>2, <3>3
  <2> QED  BY <1>0, <2>2, <2>4, <2>5
<1> QED  BY <1>3, <1>4, <1>5 DEF Next

-----------------------------------------------------------------------------
(* A check takes a token for a request it allows, and nothing else. *)
LEMMA ForfeitStep == TypeOK /\ NothingForfeited /\ RateInv /\ Next => NothingForfeited'
<1> SUFFICES ASSUME TypeOK, NothingForfeited, RateInv, Next, NEW k \in DOMAIN buckets'
             PROVE  buckets'[k].tokens >=
                      Full + Rate * (buckets'[k].last_refill_at - window'[k].at)
                           - window'[k].used * Unit
  BY DEF NothingForfeited
<1>0. Full \in Nat /\ Rate \in Nat /\ Unit \in Nat /\ MaxClock \in Nat
  BY FullNat, RateAssumption
<1>1. CASE UNCHANGED <<buckets, window>>
  BY <1>1 DEF NothingForfeited
<1>2. ASSUME NEW t \in Threads, Check(t)
      PROVE  buckets'[k].tokens >=
               Full + Rate * (buckets'[k].last_refill_at - window'[k].at)
                    - window'[k].used * Unit
  <2> DEFINE kk == reading[t].key
             now == reading[t].now
             w == IF Available(kk, now) = Full THEN [at |-> now, used |-> 0] ELSE window[kk]
  <2>1. CheckEffect(kk, now)
    BY <1>2, CheckShape
  <2>2. window' = [window EXCEPT ![kk] = IF Available(kk, now) >= Unit
                                         THEN [w EXCEPT !.used = @ + 1] ELSE w]
    BY <1>2 DEF Check
  <2>3. /\ kk \in Keys /\ now \in 0 .. MaxClock
        /\ k = kk \/ (k \in DOMAIN buckets /\ k \in Keys /\ buckets'[k] = buckets[k])
        /\ window \in [Keys -> [at : Nat, used : Nat]]
    BY <2>1 DEF CheckEffect, Kept, TypeOK
  <2> HIDE DEF kk, now, w
  <2>4. CASE k # kk
    <3>1. window'[k] = window[k]
      BY <2>2, <2>3, <2>4
    <3> QED  BY <2>3, <2>4, <3>1 DEF NothingForfeited
  <2>5. CASE k = kk
    <3>1. buckets'[k].tokens = TokensLeft(k, now) /\ buckets'[k].last_refill_at = now
      BY <2>1, <2>5 DEF CheckEffect
    <3>2. Available(k, now) >= Full + Rate * (now - w.at) - w.used * Unit
      <4>1. CASE Available(k, now) = Full
        BY <1>0, <2>3, <2>5, <4>1 DEF w
      <4>2. CASE Available(k, now) # Full
        <5> DEFINE b == buckets[k]
        <5>1. /\ k \in DOMAIN buckets
              /\ Available(k, now) >= b.tokens + Rate * (now - b.last_refill_at)
              /\ Available(k, now) \in Nat
          BY <1>0, <2>3, <2>5, <4>2, AvailableProperties
        <5>2. b.tokens \in Nat /\ b.last_refill_at \in Nat
          BY <1>0, <5>1 DEF TypeOK, Bucket
        <5>3. w = window[k] /\ w.at \in Nat /\ w.used \in Nat
          BY <2>3, <2>5, <4>2 DEF w
        <5>4. b.tokens >= Full + Rate * (b.last_refill_at - w.at) - w.used * Unit
          BY <5>1, <5>3 DEF NothingForfeited
        <5>5. Rate * (b.last_refill_at - w.at) + Rate * (now - b.last_refill_at)
                = Rate * (now - w.at)
          BY <1>0, <2>3, <5>2, <5>3, RefillAdds
        <5>6. /\ Rate * (b.last_refill_at - w.at) \in Int
              /\ Rate * (now - b.last_refill_at) \in Int
              /\ Rate * (now - w.at) \in Int
              /\ w.used * Unit \in Int
          BY <1>0, <2>3, <5>2, <5>3
        <5> HIDE DEF b
        <5> QED  BY <1>0, <5>1, <5>2, <5>4, <5>5, <5>6
      <4> QED  BY <4>1, <4>2
    <3>3. w.at \in Nat /\ w.used \in Nat /\ w = [at |-> w.at, used |-> w.used]
      BY <2>3 DEF w
    <3>4. Available(k, now) \in Nat
      BY <1>0, <2>3, <2>5, AvailableProperties
    <3>5. Rate * (now - w.at) \in Int /\ w.used * Unit \in Int
          /\ (w.used + 1) * Unit = w.used * Unit + Unit
      BY <1>0, <2>3, <3>3
    <3>6. CASE Available(k, now) >= Unit
      <4>1. window'[k].at = w.at /\ window'[k].used = w.used + 1
        BY <2>2, <2>3, <2>5, <3>3, <3>6
      <4>2. TokensLeft(k, now) = Available(k, now) - Unit
        BY <2>3, <2>5, <3>6, TokensLeftProperties
      <4> QED  BY <1>0, <3>1, <3>2, <3>4, <3>5, <4>1, <4>2
    <3>7. CASE ~ (Available(k, now) >= Unit)
      <4>1. window'[k] = w
        BY <2>2, <2>3, <2>5, <3>7
      <4>2. TokensLeft(k, now) = Available(k, now)
        BY <2>3, <2>5, <3>7, TokensLeftProperties
      <4> QED  BY <3>1, <3>2, <4>1, <4>2
    <3> QED  BY <3>6, <3>7
  <2> QED  BY <2>4, <2>5
<1> QED  BY <1>1, <1>2 DEF Next, Tick, ReadClock

(* A stuttering step changes nothing. *)
LEMMA RateStutter ==
    RateInv /\ NothingForfeited /\ UNCHANGED vars => RateInv' /\ NothingForfeited'
<1> SUFFICES ASSUME RateInv, NothingForfeited, UNCHANGED vars
             PROVE  RateInv' /\ NothingForfeited'
  OBVIOUS
<1> USE DEF vars
<1>1. TypeOK'
  BY DEF RateInv, TypeOK
<1>2. ReadingsInv'
  BY DEF RateInv, ReadingsInv
<1>3. BudgetInv'
  BY DEF RateInv, BudgetInv, Settled, Level, AllowedIn
<1>4. WithinRate'
  BY DEF RateInv, WithinRate, AllowedIn
<1>5. NothingForfeited'
  BY DEF NothingForfeited
<1> QED  BY <1>1, <1>2, <1>3, <1>4, <1>5 DEF RateInv

(* The invariant the other theorems follow from. *)
THEOREM RateInvariant == Spec => [](RateInv /\ NothingForfeited)
<1>1. Init => RateInv /\ NothingForfeited
  BY InitRate
<1>2. RateInv /\ NothingForfeited /\ [Next]_vars => RateInv' /\ NothingForfeited'
  <2> SUFFICES ASSUME RateInv, NothingForfeited, Next PROVE RateInv' /\ NothingForfeited'
    BY RateStutter
  <2> QED  BY RateTypeStep, ReadingsStep, BudgetStep, WithinStep, ForfeitStep DEF RateInv
<1> QED  BY <1>1, <1>2, PTL DEF Spec

(* The limiter's state is well-formed: a bucket never holds more than the  *)
(* burst, nor less than nothing, whatever the order of the clock readings. *)
THEOREM LimiterTypeCorrect == Spec => []TypeOK
<1>1. RateInv => TypeOK
  BY DEF RateInv
<1> QED  BY <1>1, RateInvariant, PTL

(* check never allows a key more requests in an interval than the burst    *)
(* and the refill rate earn, for any rate, burst, idle time and number of  *)
(* callers, if idle buckets would be full and readings are in order.       *)
THEOREM RateRespected == Spec => []WithinRate
<1>1. RateInv => WithinRate
  BY DEF RateInv
<1> QED  BY <1>1, RateInvariant, PTL

(* check never costs a caller more tokens than it was granted: denied      *)
(* requests and late clock readings forfeit no refill.                     *)
THEOREM RefillKept == Spec => []NothingForfeited
BY RateInvariant, PTL
=============================================================================
