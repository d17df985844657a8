---------------------------- MODULE RateLimiter ----------------------------
(***************************************************************************)
(* The per-identity token bucket (cordn-core/src/ratelimit.rs) as the      *)
(* adapter calls it: the caller reads the clock first and takes the        *)
(* bucket mutex afterwards, so two threads may apply their readings out of *)
(* order (adapter.rs, assert_within_rate_limit).  A disabled limiter, which *)
(* allows everything and keeps no bucket, is left out.                     *)
(*                                                                         *)
(* Tokens are counted in fractions, Unit of them to a token, of which Rate *)
(* are added per clock tick: the f64 arithmetic without its rounding.      *)
(***************************************************************************)
EXTENDS Integers, FiniteSets

CONSTANTS
    Keys,        \* caller pubkeys
    Threads,     \* request-handling threads
    MayCall,     \* the pairs <<thread, key>> that issue requests
    Unit,        \* fractions to one token
    Rate,        \* refill_tokens_per_ms, in fractions per tick
    Burst,       \* bucket capacity, in tokens
    IdleTtl,     \* idle_ttl_ms, in ticks; 0 keeps buckets forever
    MaxClock     \* bound: ticks of the clock

ASSUME RateAssumption ==
    /\ Unit \in Nat \ {0} /\ Rate \in Nat /\ Burst \in Nat
    /\ IdleTtl \in Nat /\ MaxClock \in Nat
    /\ MayCall \subseteq Threads \X Keys

Full == Burst * Unit

(* A bucket that is forgotten as idle would have been full again anyway:   *)
(* true of the defaults (500 a minute, 160 tokens, one hour), and for the  *)
(* operator to keep true when configuring other values.                    *)
IdleBucketsAreFull == IdleTtl > 0 => Rate * IdleTtl >= Full

VARIABLES
    clock,     \* the wall clock
    reading,   \* per thread: the key and the clock reading of its request
    buckets,   \* TokenBucketState by key
    allowed,   \* history: the requests allowed, by key: clock reading and
               \* number among those of the same reading
    applied,   \* history: the latest clock reading applied, and whether one
               \* was applied after a later one
    window     \* history: since the bucket was last full, when and how many

vars == <<clock, reading, buckets, allowed, applied, window>>

NoReading == [now |-> -1]

Bucket == [tokens : 0 .. Full, last_refill_at : Nat, last_seen_at : Nat]

Smaller(a, b) == IF a <= b THEN a ELSE b

ElapsedUnclamped(now, then) == now - then

(* Time since the last refill; a clock reading from before it counts as 0. *)
Elapsed(now, then) == IF now >= then THEN now - then ELSE 0

(* evict_idle_buckets: the keys that stay. *)
Kept(now) ==
    {k \in DOMAIN buckets :
        IdleTtl = 0 \/ now - buckets[k].last_seen_at < IdleTtl}

AvailableUncapped(k, now) ==
    IF k \in Kept(now)
    THEN buckets[k].tokens + Elapsed(now, buckets[k].last_refill_at) * Rate
    ELSE Full

(* The tokens a key may draw on at `now`; a new bucket starts full. *)
Available(k, now) ==
    IF k \in Kept(now)
    THEN Smaller(buckets[k].tokens
                   + Elapsed(now, buckets[k].last_refill_at) * Rate, Full)
    ELSE Full

TokensLeftForgetful(k, now) ==
    LET available == Available(k, now)
    IN  IF available >= Unit THEN available - Unit
        ELSE IF k \in Kept(now) THEN buckets[k].tokens ELSE available

(* What stays in the bucket: a denied request keeps what was refilled. *)
TokensLeft(k, now) ==
    LET available == Available(k, now)
    IN  IF available >= Unit THEN available - Unit ELSE available

-----------------------------------------------------------------------------
Init ==
    /\ clock = 0
    /\ reading = [t \in Threads |-> NoReading]
    /\ buckets = [k \in {} |-> 0]
    /\ allowed = [k \in Keys |-> {}]
    /\ applied = [latest |-> 0, late |-> FALSE]
    /\ window = [k \in Keys |-> [at |-> 0, used |-> 0]]

Tick ==
    /\ clock < MaxClock
    /\ clock' = clock + 1
    /\ UNCHANGED <<reading, buckets, allowed, applied, window>>

(* assert_within_rate_limit evaluates (self.now)() before check. *)
ReadClock(t, k) ==
    /\ <<t, k>> \in MayCall
    /\ reading[t] = NoReading
    /\ reading' = [reading EXCEPT ![t] = [key |-> k, now |-> clock]]
    /\ UNCHANGED <<clock, buckets, allowed, applied, window>>

(* check, under the bucket mutex.  A key without a bucket gets one only if *)
(* its first request is allowed.                                           *)
Check(t) ==
    LET k == reading[t].key
        now == reading[t].now
        available == Available(k, now)
        granted == available >= Unit
    IN
    /\ reading[t] # NoReading
    /\ buckets' =
         [i \in Kept(now) \cup (IF granted THEN {k} ELSE {}) |->
            IF i = k
            THEN [tokens |-> TokensLeft(k, now),
                  last_refill_at |-> now, last_seen_at |-> now]
            ELSE buckets[i]]
    /\ allowed' = [allowed EXCEPT ![k] =
                     IF granted THEN @ \cup {<<now, 1 + Cardinality({a \in @ : a[1] = now})>>}
                     ELSE @]
    /\ applied' = IF now >= applied.latest THEN [applied EXCEPT !.latest = now]
                  ELSE [applied EXCEPT !.late = TRUE]
    /\ window' = [window EXCEPT ![k] =
                    LET w == IF available = Full THEN [at |-> now, used |-> 0] ELSE @
                    IN  IF granted THEN [w EXCEPT !.used = @ + 1] ELSE w]
    /\ reading' = [reading EXCEPT ![t] = NoReading]
    /\ UNCHANGED clock

Next ==
    \/ Tick
    \/ \E t \in Threads : Check(t) \/ \E k \in Keys : ReadClock(t, k)

Spec == Init /\ [][Next]_vars

-----------------------------------------------------------------------------
TypeOK ==
    /\ clock \in 0 .. MaxClock
    /\ reading \in [Threads -> [key : Keys, now : 0 .. MaxClock] \cup {NoReading}]
    /\ DOMAIN buckets \subseteq Keys
    /\ buckets \in [DOMAIN buckets -> Bucket]
    /\ allowed \in [Keys -> SUBSET (Nat \X Nat)]
    /\ applied \in [latest : 0 .. MaxClock, late : BOOLEAN]
    /\ window \in [Keys -> [at : Nat, used : Nat]]

(* The requests of a key that were allowed with a reading in from .. to. *)
AllowedIn(k, from, to) == {a \in allowed[k] : a[1] \in from .. to}

(* In no interval of time is a key allowed more requests than the burst    *)
(* plus what the refill rate earns in the interval, whatever was refilled, *)
(* denied, forgotten as idle or created again inside it, as long as clock  *)
(* readings are applied in order: a late one sets last_refill_at back.     *)
WithinRate ==
    IdleBucketsAreFull /\ ~ applied.late =>
        \A k \in Keys : \A from \in 0 .. clock : \A to \in from .. clock :
            Unit * Cardinality(AllowedIn(k, from, to)) <= Full + Rate * (to - from)

(* A bucket never holds less than the refill since it was last full, minus *)
(* what was drawn since: denied requests (which move last_refill_at too)   *)
(* cost nothing, so a client that keeps retrying is not starved, not even  *)
(* by readings applied out of order.                                       *)
NothingForfeited ==
    \A k \in DOMAIN buckets :
        buckets[k].tokens >=
            Full + Rate * (buckets[k].last_refill_at - window[k].at)
                 - window[k].used * Unit

(***************************************************************************)
(* Inductive strengthening of WithinRate (proved in RateLimiterProofs).    *)
(***************************************************************************)
(* When the state of a key was last settled, and the tokens it had then; a *)
(* key without a bucket stands for a full one at any time.                 *)
Settled(k) == IF k \in DOMAIN buckets THEN buckets[k].last_refill_at ELSE applied.latest
Level(k) == IF k \in DOMAIN buckets THEN buckets[k].tokens ELSE Full

(* No reading, bucket or allowed request is from the future. *)
ReadingsInv ==
    /\ applied.latest <= clock
    /\ \A t \in Threads : reading[t] # NoReading => reading[t].now <= clock
    /\ \A k \in DOMAIN buckets :
         /\ buckets[k].last_refill_at <= applied.latest
         /\ buckets[k].last_seen_at = buckets[k].last_refill_at
    /\ \A k \in Keys : \A a \in allowed[k] : a[1] <= applied.latest
    /\ \A k \in Keys : IsFiniteSet(allowed[k])

(* What was allowed since some moment and what is left in the bucket were  *)
(* in the bucket at that moment or refilled since.                         *)
BudgetInv ==
    IdleBucketsAreFull /\ ~ applied.late =>
        \A k \in Keys :
            /\ \A a \in allowed[k] : a[1] <= Settled(k)
            /\ \A from \in 0 .. Settled(k) :
                 Unit * Cardinality(AllowedIn(k, from, Settled(k))) + Level(k)
                   <= Full + Rate * (Settled(k) - from)

RateInv == TypeOK /\ ReadingsInv /\ BudgetInv /\ WithinRate
=============================================================================
