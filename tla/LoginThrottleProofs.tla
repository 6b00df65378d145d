------------------------- MODULE LoginThrottleProofs --------------------------
(***************************************************************************)
(* Proofs about LoginThrottle, for any number of attempts, accounts, limit *)
(* and times: how far a limit is overshot, what ends a block, what forgets *)
(* a failure, and how many failures a source gets through.                 *)
(***************************************************************************)
EXTENDS LoginThrottle, FiniteSetTheorems, SequenceTheorems, TLAPS

Buckets == [exists : BOOLEAN, start : Nat, failures : Nat,
            until : Nat \cup {NotBlocked}, updated : Nat]

Verifying(r, k) == attempt[r].at = "verify" /\ k \in KeysOf(attempt[r].account)
InFlight(k) == {r \in Attempts : Verifying(r, k)}

Typed ==
    /\ now \in Nat
    /\ bucket \in [Keys -> Buckets]
    /\ attempt \in [Attempts -> [at : {"idle", "verify"}, account : Keys]]

(* Of a bucket: when it was written, and how long its block lasts. *)
Dated(b, t) ==
    /\ b.start <= b.updated /\ b.updated <= t
    /\ b.until # NotBlocked => b.until <= b.updated + Cooldown
    /\ ~b.exists => b.failures = 0 /\ b.until = NotBlocked

(* A bucket at its limit is blocked, and while the block lasts the failures*)
(* it counts and the attempts it let through do not exceed the bound.      *)
Limited(k, b, m, t) ==
    b.failures >= Limit(k) =>
       /\ b.until # NotBlocked
       /\ b.failures <= Limit(k) + Cardinality(Attempts) - 1
       /\ b.until > t => b.failures + m <= Limit(k) + Cardinality(Attempts) - 1

Inv ==
    /\ Typed
    /\ \A k \in Keys : Dated(bucket[k], now)
    /\ \A k \in Keys : Limited(k, bucket[k], Cardinality(InFlight(k)), now)

-----------------------------------------------------------------------------
(* Sizes *)

LEMMA Sizes ==
    /\ Cardinality(Attempts) \in Nat
    /\ \A k : Cardinality(InFlight(k)) \in Nat
    /\ \A r \in Attempts : Cardinality(Attempts) >= 1
<1>1. Cardinality(Attempts) \in Nat
    BY AttemptsAssumption, FS_CardinalityType
<1>2. \A k : InFlight(k) \in SUBSET Attempts
    BY DEF InFlight
<1>3. \A k : IsFiniteSet(InFlight(k))
    BY <1>2, AttemptsAssumption, FS_Subset
<1>4. \A k : Cardinality(InFlight(k)) \in Nat
    BY <1>3, FS_CardinalityType
<1>5. \A r \in Attempts : Cardinality(Attempts) # 0
    BY AttemptsAssumption, FS_EmptySet
<1>6. QED
    BY <1>1, <1>4, <1>5

LEMMA SizesCompare ==
    ASSUME NEW S \in SUBSET Attempts, NEW T \in SUBSET S
    PROVE  Cardinality(T) <= Cardinality(S)
<1>1. IsFiniteSet(S)
    BY AttemptsAssumption, FS_Subset
<1>2. QED
    BY <1>1, FS_Subset

LEMMA OneLess ==
    ASSUME NEW S \in SUBSET Attempts, NEW r \in S
    PROVE  Cardinality(S \ {r}) = Cardinality(S) - 1
<1>1. IsFiniteSet(S)
    BY AttemptsAssumption, FS_Subset
<1>2. QED
    BY <1>1, FS_RemoveElement

-----------------------------------------------------------------------------
(* What is done to one bucket *)

LEMMA Limits == \A k : Limit(k) \in Nat /\ Limit(k) >= 1
BY LimitAssumption DEF Limit

LEMMA CleanedIs ==
    ASSUME Typed, NEW b \in Buckets, Dated(b, now)
    PROVE  /\ Cleaned(b) \in Buckets /\ Dated(Cleaned(b), now)
           /\ Cleaned(b) = b \/ (Cleaned(b) = NoBucket /\ b.exists /\ b.updated < now - Ttl)
           /\ NoBucket.failures = 0 /\ NoBucket.until = NotBlocked /\ ~NoBucket.exists
<1>1. NoBucket \in Buckets /\ Dated(NoBucket, now)
    BY DEF NoBucket, Buckets, Dated, Typed
<1>2. NoBucket.failures = 0 /\ NoBucket.until = NotBlocked /\ ~NoBucket.exists
    BY DEF NoBucket
<1>3. QED
    BY <1>1, <1>2 DEF Cleaned

(* The bucket a failure is counted in: it is new, or its window or block   *)
(* has run out, or it is the one there is.                                 *)
LEMMA CurrentIs ==
    ASSUME Typed, NEW b \in Buckets, Dated(b, now), NEW c, c = Current(Fetched(Cleaned(b)))
    PROVE  /\ c \in Buckets /\ c.exists /\ c.start <= now
           /\ c.until # NotBlocked => c.until <= now + Cooldown
           /\ \/ c.failures = 0 /\ c.until = NotBlocked
              \/ c = b /\ b.exists /\ ~Elapsed(b)
           /\ c.failures < b.failures =>
                 Elapsed(b) \/ (b.exists /\ b.updated < now - Ttl)
<1>1. /\ Cleaned(b) \in Buckets /\ Dated(Cleaned(b), now)
      /\ Cleaned(b) = b \/ (Cleaned(b) = NoBucket /\ b.exists /\ b.updated < now - Ttl)
      /\ NoBucket.failures = 0 /\ NoBucket.until = NotBlocked /\ ~NoBucket.exists
    BY CleanedIs
<1> DEFINE f == Fetched(Cleaned(b))
<1>2. /\ f \in Buckets /\ f.exists /\ f.start <= now
      /\ f.until # NotBlocked => f.until <= now + Cooldown
      /\ f.failures = Cleaned(b).failures
      /\ f = b \/ (f.failures = 0 /\ f.until = NotBlocked)
    <2>1. CASE Cleaned(b).exists
        <3>1. f = Cleaned(b) /\ f = b
            BY <1>1, <2>1 DEF Fetched
        <3>2. QED
            BY <1>1, <2>1, <3>1, LimitAssumption DEF Dated, Typed, Buckets
    <2>2. CASE ~Cleaned(b).exists
        <3>1. f = [exists |-> TRUE, start |-> now, failures |-> 0,
                   until |-> NotBlocked, updated |-> now]
            BY <2>2 DEF Fetched
        <3>2. Cleaned(b).failures = 0
            BY <1>1, <2>2 DEF Dated
        <3>3. QED
            BY <3>1, <3>2 DEF Typed, Buckets
    <2>3. QED
        BY <2>1, <2>2
<1> HIDE DEF f
<1>3. c = IF Elapsed(f) THEN [f EXCEPT !.start = now, !.failures = 0, !.until = NotBlocked]
          ELSE f
    BY DEF Current, f
<1>4. /\ c \in Buckets /\ c.exists /\ c.start <= now
      /\ \/ c.failures = 0 /\ c.until = NotBlocked /\ Elapsed(f)
         \/ c = f /\ ~Elapsed(f)
    <2>1. CASE Elapsed(f)
        <3>1. c = [f EXCEPT !.start = now, !.failures = 0, !.until = NotBlocked]
            BY <1>3, <2>1
        <3>2. now \in Nat
            BY DEF Typed
        <3>3. /\ c \in Buckets /\ c.exists = f.exists /\ c.start = now
              /\ c.failures = 0 /\ c.until = NotBlocked
            <4>1. c = [exists |-> f.exists, start |-> now, failures |-> 0,
                       until |-> NotBlocked, updated |-> f.updated]
                BY <1>2, <3>1 DEF Buckets
            <4>2. QED
                BY <1>2, <3>2, <4>1 DEF Buckets
        <3>4. QED
            BY <1>2, <2>1, <3>2, <3>3
    <2>2. CASE ~Elapsed(f)
        BY <1>2, <1>3, <2>2
    <2>3. QED
        BY <2>1, <2>2
<1>5. c.failures < b.failures => Elapsed(b) \/ (b.exists /\ b.updated < now - Ttl)
    <2> SUFFICES ASSUME c.failures < b.failures, ~(b.exists /\ b.updated < now - Ttl)
                 PROVE  Elapsed(b)
        OBVIOUS
    <2>1. Cleaned(b) = b /\ f.failures = b.failures
        BY <1>1, <1>2
    <2>2. b.failures \in Nat /\ b.failures # 0
        BY <1>4 DEF Buckets
    <2>3. f = b
        BY <1>2, <2>1, <2>2
    <2>4. QED
        BY <1>4, <2>3 DEF Buckets
<1>6. QED
    BY <1>2, <1>4, <1>5

(* One more failure. *)
LEMMA FailedIs ==
    ASSUME Typed, NEW k \in Keys, NEW b \in Buckets, Dated(b, now)
    PROVE  /\ Failed(k, b) \in Buckets /\ Dated(Failed(k, b), now)
           /\ Failed(k, b).exists
           /\ Failed(k, b).failures >= Limit(k) => Failed(k, b).until = now + Cooldown
           /\ \/ Failed(k, b).failures = 1
              \/ Failed(k, b).failures = b.failures + 1 /\ b.exists /\ ~Elapsed(b)
           /\ Failed(k, b).failures < b.failures =>
                 Elapsed(b) \/ (b.exists /\ b.updated < now - Ttl)
<1> DEFINE c == Current(Fetched(Cleaned(b)))
           n == c.failures + 1
           d == Failed(k, b)
<1>1. /\ c \in Buckets /\ c.exists /\ c.start <= now
      /\ c.until # NotBlocked => c.until <= now + Cooldown
      /\ \/ c.failures = 0 /\ c.until = NotBlocked
         \/ c = b /\ b.exists /\ ~Elapsed(b)
      /\ c.failures < b.failures =>
            Elapsed(b) \/ (b.exists /\ b.updated < now - Ttl)
    BY CurrentIs
<1>2. d = [c EXCEPT !.failures = n, !.updated = now,
                    !.until = IF n >= Limit(k) THEN now + Cooldown ELSE @]
    BY DEF Failed
<1>3. now \in Nat /\ Cooldown \in Nat /\ c.failures \in Nat /\ n \in Nat
    BY <1>1, LimitAssumption DEF Typed, Buckets
<1> HIDE DEF c, d
<1>4. /\ d \in Buckets /\ d.exists /\ d.start = c.start /\ d.updated = now
      /\ d.failures = n
      /\ d.until = IF n >= Limit(k) THEN now + Cooldown ELSE c.until
    <2>1. now + Cooldown \in Nat
        BY <1>3
    <2> HIDE DEF n
    <2>2. QED
        BY <1>1, <1>2, <1>3, <2>1 DEF Buckets
<1>5. Dated(d, now)
    BY <1>1, <1>3, <1>4 DEF Dated
<1>6. d.failures >= Limit(k) => d.until = now + Cooldown
    BY <1>4
<1>7. d.failures = 1 \/ (d.failures = b.failures + 1 /\ b.exists /\ ~Elapsed(b))
    BY <1>1, <1>4
<1>8. d.failures < b.failures => Elapsed(b) \/ (b.exists /\ b.updated < now - Ttl)
    <2>1. b.failures \in Nat
        BY DEF Buckets
    <2>2. d.failures < b.failures => c.failures < b.failures
        BY <1>3, <1>4, <2>1
    <2>3. QED
        BY <1>1, <2>2
<1>9. QED
    BY <1>4, <1>5, <1>6, <1>7, <1>8 DEF d

LEMMA ForgivenIs ==
    ASSUME Typed, NEW b \in Buckets, Dated(b, now)
    PROVE  /\ Forgiven(b) \in Buckets /\ Dated(Forgiven(b), now)
           /\ Forgiven(b).failures = 0
<1> DEFINE c == Cleaned(b)
<1>1. c \in Buckets /\ Dated(c, now)
    BY CleanedIs
<1>2. Forgiven(b) = IF c.exists THEN [c EXCEPT !.start = now, !.failures = 0,
                                              !.until = NotBlocked, !.updated = now]
                    ELSE c
    BY DEF Forgiven
<1>3. now \in Nat
    BY DEF Typed
<1> HIDE DEF c
<1>4. CASE c.exists
    <2>1. /\ Forgiven(b) \in Buckets /\ Forgiven(b).failures = 0
          /\ Forgiven(b).start = now /\ Forgiven(b).updated = now
          /\ Forgiven(b).until = NotBlocked
        <3>1. Forgiven(b) = [exists |-> c.exists, start |-> now, failures |-> 0,
                             until |-> NotBlocked, updated |-> now]
            BY <1>1, <1>2, <1>4 DEF Buckets
        <3>2. QED
            BY <1>1, <1>3, <3>1 DEF Buckets
    <2>2. QED
        BY <1>3, <1>4, <2>1 DEF Dated
<1>5. CASE ~c.exists
    BY <1>1, <1>2, <1>5 DEF Dated
<1>6. QED
    BY <1>4, <1>5

-----------------------------------------------------------------------------
(* Every action keeps the invariant. *)

LEMMA Initially == Init => Inv
<1> SUFFICES ASSUME Init PROVE Inv
    OBVIOUS
<1>1. /\ now = 0 /\ bucket = [k \in Keys |-> NoBucket]
      /\ attempt = [r \in Attempts |-> [at |-> "idle", account |-> Source]]
    BY DEF Init
<1>2. /\ NoBucket \in Buckets /\ NoBucket.failures = 0 /\ NoBucket.until = NotBlocked
      /\ NoBucket.start = 0 /\ NoBucket.updated = 0
    BY DEF NoBucket, Buckets
<1>3. Typed
    BY <1>1, <1>2 DEF Typed, Keys
<1> HIDE DEF NoBucket
<1>4. \A k \in Keys : Dated(bucket[k], now)
    BY <1>1, <1>2 DEF Dated
<1>5. \A k \in Keys : ~(bucket[k].failures >= Limit(k))
    BY <1>1, <1>2, Limits
<1>6. QED
    BY <1>3, <1>4, <1>5 DEF Inv, Limited

LEMMA TickStep == Inv /\ Tick => Inv'
<1> SUFFICES ASSUME Inv, Tick PROVE Inv'
    OBVIOUS
<1>1. now' = now + 1 /\ bucket' = bucket /\ attempt' = attempt /\ now \in Nat
    BY DEF Inv, Typed, Tick
<1>2. Typed'
    BY <1>1 DEF Inv, Typed
<1>3. \A k : InFlight(k)' = InFlight(k)
    BY <1>1 DEF InFlight, Verifying
<1>4. ASSUME NEW k \in Keys
      PROVE  /\ Dated(bucket[k], now + 1)
             /\ Limited(k, bucket[k], Cardinality(InFlight(k)), now + 1)
    <2>1. /\ bucket[k] \in Buckets /\ Dated(bucket[k], now)
          /\ Limited(k, bucket[k], Cardinality(InFlight(k)), now)
        BY DEF Inv, Typed
    <2>2. Dated(bucket[k], now + 1)
        BY <1>1, <2>1 DEF Dated, Buckets
    <2>3. bucket[k].until # NotBlocked /\ bucket[k].until > now + 1 => bucket[k].until > now
        BY <1>1, <2>1 DEF Buckets
    <2>4. QED
        BY <2>1, <2>2, <2>3 DEF Limited
<1>5. QED
    BY <1>1, <1>2, <1>3, <1>4 DEF Inv

LEMMA CleanedLimited ==
    ASSUME Typed, NEW k, NEW b \in Buckets, Dated(b, now), NEW m \in Nat, NEW n \in Nat,
           n <= m, Limited(k, b, m, now)
    PROVE  Limited(k, Cleaned(b), n, now)
<1>1. CASE Cleaned(b) = b
    <2>1. b.failures \in Nat /\ Limit(k) \in Nat /\ Cardinality(Attempts) \in Nat
        BY Limits, Sizes DEF Buckets
    <2>2. b.failures + m <= Limit(k) + Cardinality(Attempts) - 1 =>
             b.failures + n <= Limit(k) + Cardinality(Attempts) - 1
        BY <2>1
    <2>3. QED
        BY <1>1, <2>2 DEF Limited
<1>2. CASE Cleaned(b).failures = 0
    BY <1>2, Limits DEF Limited
<1>3. QED
    BY <1>1, <1>2, CleanedIs

LEMMA ForgivenLimited ==
    ASSUME Typed, NEW k, NEW b \in Buckets, Dated(b, now), NEW n
    PROVE  Limited(k, Forgiven(b), n, now)
BY Limits, ForgivenIs DEF Limited

(* The failure that reaches the limit was not turned away, and neither was *)
(* any that goes past it: they were let through together.                  *)
LEMMA FailedLimited ==
    ASSUME Typed, NEW k \in Keys, NEW b \in Buckets, Dated(b, now),
           NEW m \in Nat, m >= 1, m <= Cardinality(Attempts),
           Limited(k, b, m, now)
    PROVE  Limited(k, Failed(k, b), m - 1, now)
<1> DEFINE d == Failed(k, b)
           B == Limit(k) + Cardinality(Attempts) - 1
<1>1. /\ d.failures \in Nat /\ b.failures \in Nat
      /\ d.failures >= Limit(k) => d.until = now + Cooldown
      /\ \/ d.failures = 1
         \/ d.failures = b.failures + 1 /\ b.exists /\ ~Elapsed(b)
    BY FailedIs DEF Buckets
<1>2. /\ Limit(k) \in Nat /\ Limit(k) >= 1 /\ Cardinality(Attempts) \in Nat
      /\ Cooldown \in Nat /\ now \in Nat
    BY Limits, Sizes, LimitAssumption DEF Typed
<1>3. now + Cooldown # NotBlocked
    BY <1>2 DEF NotBlocked
<1>4. d.failures >= Limit(k) => d.failures + (m - 1) <= B
    <2>1. CASE d.failures <= Limit(k)
        BY <1>1, <1>2, <2>1
    <2>2. CASE d.failures > Limit(k)
        <3>1. d.failures = b.failures + 1 /\ ~Elapsed(b) /\ b.failures >= Limit(k)
            BY <1>1, <1>2, <2>2
        <3>2. b.until # NotBlocked
            BY <3>1 DEF Limited
        <3>3. b.until > now
            BY <1>2, <3>1, <3>2 DEF Elapsed, Buckets
        <3>4. b.failures + m <= B
            BY <3>1, <3>3 DEF Limited
        <3>5. QED
            BY <1>1, <1>2, <3>1, <3>4
    <2>3. QED
        BY <1>1, <1>2, <2>1, <2>2
<1>5. d.failures >= Limit(k) => d.failures <= B
    BY <1>1, <1>2, <1>4
<1> HIDE DEF d
<1>6. QED
    BY <1>1, <1>3, <1>4, <1>5 DEF Limited, d

(* An attempt is let through by buckets that do not block it.              *)
LEMMA UnblockedLimited ==
    ASSUME Typed, NEW k, NEW b \in Buckets, Dated(b, now), NEW m, NEW n,
           Limited(k, b, m, now), ~Blocked(b)
    PROVE  Limited(k, b, n, now)
BY DEF Limited, Dated, Blocked

(* An attempt that is answered is in flight no more.                       *)
LEMMA Answered ==
    ASSUME Inv, NEW r \in Attempts, attempt[r].at = "verify",
           attempt' = [attempt EXCEPT ![r].at = "idle"]
    PROVE  /\ attempt' \in [Attempts -> [at : {"idle", "verify"}, account : Keys]]
           /\ AnsweredNow(r)
           /\ \A k : InFlight(k)' = InFlight(k) \ {r}
           /\ \A k \in KeysOf(attempt[r].account) :
                 Cardinality(InFlight(k)') = Cardinality(InFlight(k)) - 1
           /\ \A k : Cardinality(InFlight(k)') \in Nat
           /\ \A k : Cardinality(InFlight(k)') <= Cardinality(InFlight(k))
<1>1. attempt \in [Attempts -> [at : {"idle", "verify"}, account : Keys]]
    BY DEF Inv, Typed
<1>2. /\ attempt' \in [Attempts -> [at : {"idle", "verify"}, account : Keys]]
      /\ attempt'[r].at = "idle" /\ \A q \in Attempts \ {r} : attempt'[q] = attempt[q]
    BY <1>1
<1>3. \A k : InFlight(k)' = InFlight(k) \ {r}
    BY <1>2 DEF InFlight, Verifying
<1>4. \A k : InFlight(k) \in SUBSET Attempts
    BY DEF InFlight
<1>5. \A k \in KeysOf(attempt[r].account) : r \in InFlight(k)
    BY DEF InFlight, Verifying
<1>6. \A k \in KeysOf(attempt[r].account) :
         Cardinality(InFlight(k)') = Cardinality(InFlight(k)) - 1
    BY <1>3, <1>4, <1>5, OneLess
<1>7. \A k : Cardinality(InFlight(k)') <= Cardinality(InFlight(k))
    BY <1>3, <1>4, SizesCompare
<1>8. \A k : Cardinality(InFlight(k)') \in Nat
    <2> TAKE k
    <2>1. InFlight(k) \ {r} \in SUBSET Attempts
        BY <1>4
    <2>2. IsFiniteSet(InFlight(k) \ {r})
        BY <2>1, AttemptsAssumption, FS_Subset
    <2>3. QED
        BY <1>3, <2>2, FS_CardinalityType
<1>9. QED
    BY <1>2, <1>3, <1>6, <1>7, <1>8 DEF AnsweredNow

LEMMA RecordFailureStep ==
    ASSUME Inv, NEW r \in Attempts, RecordFailure(r) PROVE Inv'
<1> DEFINE hit == KeysOf(attempt[r].account)
<1>1. /\ attempt[r].at = "verify" /\ now' = now
      /\ bucket' = [k \in Keys |-> IF k \in hit THEN Failed(k, bucket[k])
                                   ELSE Cleaned(bucket[k])]
      /\ attempt' = [attempt EXCEPT ![r].at = "idle"]
    BY DEF RecordFailure
<1>2. /\ attempt' \in [Attempts -> [at : {"idle", "verify"}, account : Keys]]
      /\ \A k \in hit : Cardinality(InFlight(k)') = Cardinality(InFlight(k)) - 1
      /\ \A k : Cardinality(InFlight(k)') \in Nat
      /\ \A k : Cardinality(InFlight(k)') <= Cardinality(InFlight(k))
    BY <1>1, Answered
<1> HIDE DEF hit
<1>3. ASSUME NEW k \in Keys
      PROVE  /\ bucket'[k] \in Buckets /\ Dated(bucket'[k], now)
             /\ Limited(k, bucket'[k], Cardinality(InFlight(k)'), now)
    <2> DEFINE b == bucket[k]
               m == Cardinality(InFlight(k))
    <2>1. Typed /\ b \in Buckets /\ Dated(b, now) /\ Limited(k, b, m, now) /\ m \in Nat
        BY Sizes DEF Inv, Typed
    <2>2. CASE k \in hit
        <3>1. bucket'[k] = Failed(k, b)
            BY <1>1, <2>2
        <3>2. m >= 1 /\ m <= Cardinality(Attempts) /\ Cardinality(InFlight(k)') = m - 1
            <4>1. InFlight(k) \in SUBSET Attempts
                BY DEF InFlight
            <4>2. m <= Cardinality(Attempts)
                BY <4>1, SizesCompare
            <4>3. Cardinality(InFlight(k)') \in Nat /\ Cardinality(InFlight(k)') = m - 1
                BY <1>2, <2>2
            <4> HIDE DEF m
            <4>4. QED
                BY <2>1, <4>2, <4>3
        <3> HIDE DEF b, m
        <3>3. QED
            BY <2>1, <3>1, <3>2, FailedIs, FailedLimited
    <2>3. CASE k \notin hit
        <3>1. bucket'[k] = Cleaned(b)
            BY <1>1, <2>3
        <3>2. Cardinality(InFlight(k)') \in Nat /\ Cardinality(InFlight(k)') <= m
            BY <1>2
        <3> HIDE DEF b, m
        <3>3. QED
            BY <2>1, <3>1, <3>2, CleanedIs, CleanedLimited
    <2>4. QED
        BY <2>2, <2>3
<1>4. Typed'
    <2>1. bucket' \in [Keys -> Buckets]
        BY <1>1, <1>3
    <2>2. QED
        BY <1>1, <1>2, <2>1 DEF Inv, Typed
<1>5. QED
    BY <1>1, <1>3, <1>4 DEF Inv

LEMMA RecordSuccessStep ==
    ASSUME Inv, NEW r \in Attempts, RecordSuccess(r) PROVE Inv'
<1>1. /\ attempt[r].at = "verify" /\ now' = now
      /\ bucket' = [k \in Keys |-> IF k = attempt[r].account THEN Forgiven(bucket[k])
                                   ELSE Cleaned(bucket[k])]
      /\ attempt' = [attempt EXCEPT ![r].at = "idle"]
    BY DEF RecordSuccess
<1>2. /\ attempt' \in [Attempts -> [at : {"idle", "verify"}, account : Keys]]
      /\ \A k : Cardinality(InFlight(k)') \in Nat
      /\ \A k : Cardinality(InFlight(k)') <= Cardinality(InFlight(k))
    BY <1>1, Answered
<1>3. ASSUME NEW k \in Keys
      PROVE  /\ bucket'[k] \in Buckets /\ Dated(bucket'[k], now)
             /\ Limited(k, bucket'[k], Cardinality(InFlight(k)'), now)
    <2> DEFINE b == bucket[k]
               m == Cardinality(InFlight(k))
    <2>1. Typed /\ b \in Buckets /\ Dated(b, now) /\ Limited(k, b, m, now) /\ m \in Nat
        BY Sizes DEF Inv, Typed
    <2>2. Cardinality(InFlight(k)') \in Nat /\ Cardinality(InFlight(k)') <= m
        BY <1>2
    <2>3. bucket'[k] = Forgiven(b) \/ bucket'[k] = Cleaned(b)
        BY <1>1
    <2> HIDE DEF b, m
    <2>4. QED
        BY <2>1, <2>2, <2>3, CleanedIs, CleanedLimited, ForgivenIs, ForgivenLimited
<1>4. Typed'
    <2>1. bucket' \in [Keys -> Buckets]
        BY <1>1, <1>3
    <2>2. QED
        BY <1>1, <1>2, <2>1 DEF Inv, Typed
<1>5. QED
    BY <1>1, <1>3, <1>4 DEF Inv

(* A recording that fails only ends its attempt.                           *)
LEMMA RecordingFailsStep ==
    ASSUME Inv, NEW r \in Attempts, RecordingFails(r) PROVE Inv'
<1>1. /\ attempt[r].at = "verify" /\ now' = now /\ bucket' = bucket
      /\ attempt' = [attempt EXCEPT ![r].at = "idle"]
    BY DEF RecordingFails
<1>2. /\ attempt' \in [Attempts -> [at : {"idle", "verify"}, account : Keys]]
      /\ \A k : Cardinality(InFlight(k)') <= Cardinality(InFlight(k))
      /\ \A k : Cardinality(InFlight(k)') \in Nat
    BY <1>1, Answered
<1>3. ASSUME NEW k \in Keys
      PROVE  Limited(k, bucket[k], Cardinality(InFlight(k)'), now)
    <2> DEFINE b == bucket[k]
               m == Cardinality(InFlight(k))
               n == Cardinality(InFlight(k)')
    <2>1. /\ Typed /\ b \in Buckets /\ Limited(k, b, m, now)
          /\ m \in Nat /\ n \in Nat /\ n <= m
        BY <1>2, Sizes DEF Inv, Typed
    <2>2. b.failures \in Nat /\ Limit(k) \in Nat /\ Cardinality(Attempts) \in Nat
        BY <2>1, Limits, Sizes DEF Buckets
    <2> HIDE DEF b, m, n
    <2>3. Limited(k, b, n, now)
        BY <2>1, <2>2 DEF Limited
    <2>4. QED
        BY <2>3 DEF b, n
<1>4. QED
    BY <1>1, <1>2, <1>3 DEF Inv, Typed

LEMMA CheckStep ==
    ASSUME Inv, NEW r \in Attempts, NEW a \in Accounts, Check(r, a) PROVE Inv'
<1>1. attempt[r].at = "idle" /\ now' = now
    BY DEF Check
<1>2. CASE \E k \in KeysOf(a) : Blocked(bucket[k])
    <2>1. /\ bucket' = [k \in Keys |-> Cleaned(bucket[k])] /\ attempt' = attempt
        BY <1>2 DEF Check
    <2>2. \A k : InFlight(k)' = InFlight(k)
        BY <2>1 DEF InFlight, Verifying
    <2>3. ASSUME NEW k \in Keys
          PROVE  /\ bucket'[k] \in Buckets /\ Dated(bucket'[k], now)
                 /\ Limited(k, bucket'[k], Cardinality(InFlight(k)), now)
        <3> DEFINE b == bucket[k]
                   m == Cardinality(InFlight(k))
        <3>1. Typed /\ b \in Buckets /\ Dated(b, now) /\ Limited(k, b, m, now) /\ m \in Nat
            BY Sizes DEF Inv, Typed
        <3>2. bucket'[k] = Cleaned(b) /\ m <= m
            BY <2>1, <3>1
        <3> HIDE DEF b
        <3>3. QED
            BY <3>1, <3>2, CleanedIs, CleanedLimited
    <2>4. bucket' \in [Keys -> Buckets]
        BY <2>1, <2>3
    <2>5. QED
        BY <1>1, <2>1, <2>2, <2>3, <2>4 DEF Inv, Typed
<1>3. CASE ~ \E k \in KeysOf(a) : Blocked(bucket[k])
    <2>1. /\ attempt' = [attempt EXCEPT ![r] = [at |-> "verify", account |-> a]]
          /\ bucket' = bucket
        BY <1>3 DEF Check
    <2>2. /\ attempt' \in [Attempts -> [at : {"idle", "verify"}, account : Keys]]
          /\ attempt'[r].account = a
          /\ \A q \in Attempts \ {r} : attempt'[q] = attempt[q]
        BY <2>1 DEF Inv, Typed, Keys
    <2>3. \A k : k \notin KeysOf(a) => InFlight(k)' = InFlight(k)
        BY <1>1, <2>2 DEF InFlight, Verifying
    <2>4. ASSUME NEW k \in Keys
          PROVE  Limited(k, bucket[k], Cardinality(InFlight(k)'), now)
        <3>1. /\ Typed /\ bucket[k] \in Buckets /\ Dated(bucket[k], now)
              /\ Limited(k, bucket[k], Cardinality(InFlight(k)), now)
            BY DEF Inv, Typed
        <3>2. CASE k \in KeysOf(a)
            BY <1>3, <3>1, <3>2, UnblockedLimited
        <3>3. CASE k \notin KeysOf(a)
            BY <2>3, <3>1, <3>3
        <3>4. QED
            BY <3>2, <3>3
    <2>5. Typed'
        BY <1>1, <2>1, <2>2 DEF Inv, Typed
    <2>6. QED
        BY <1>1, <2>1, <2>4, <2>5 DEF Inv
<1>4. QED
    BY <1>2, <1>3

(* The invariant: a bucket at its limit is blocked, and its failures and   *)
(* the attempts it has let through stay within the bound together.         *)
THEOREM Invariant == Spec => []Inv
<1>1. Init => Inv
    BY Initially
<1>2. Inv /\ [Next]_vars => Inv'
    <2> SUFFICES ASSUME Inv, [Next]_vars PROVE Inv'
        OBVIOUS
    <2>1. CASE Tick
        BY <2>1, TickStep
    <2>2. CASE \E r \in Attempts : \E a \in Accounts : Check(r, a)
        BY <2>2, CheckStep
    <2>3. CASE \E r \in Attempts : RecordFailure(r)
        BY <2>3, RecordFailureStep
    <2>4. CASE \E r \in Attempts : RecordSuccess(r)
        BY <2>4, RecordSuccessStep
    <2>5. CASE \E r \in Attempts : RecordingFails(r)
        BY <2>5, RecordingFailsStep
    <2>6. CASE UNCHANGED vars
        <3>1. now' = now /\ bucket' = bucket /\ attempt' = attempt
            BY <2>6 DEF vars
        <3>2. \A k : InFlight(k)' = InFlight(k)
            BY <3>1 DEF InFlight, Verifying
        <3>3. QED
            BY <3>1, <3>2 DEF Inv, Typed
    <2>7. QED
        BY <2>1, <2>2, <2>3, <2>4, <2>5, <2>6 DEF Next
<1>3. QED
    BY <1>1, <1>2, PTL DEF Spec

(* The limit is checked before the password and counted after it: what it  *)
(* can be overshot by is the attempts that were being verified together.   *)
THEOREM OvershootIsBounded == Spec => []OvershootIsInFlight
<1>1. Inv => OvershootIsInFlight
    <2> SUFFICES ASSUME Inv, NEW k \in Keys
                 PROVE  bucket[k].failures <= Limit(k) + Cardinality(Attempts) - 1
        BY DEF OvershootIsInFlight
    <2>1. /\ bucket[k].failures \in Nat /\ Limit(k) \in Nat
          /\ Cardinality(Attempts) \in Nat
        BY Limits, Sizes DEF Inv, Typed, Buckets
    <2>2. CASE bucket[k].failures >= Limit(k)
        BY <2>2 DEF Inv, Limited
    <2>3. CASE bucket[k].failures < Limit(k)
        BY <2>1, <2>3
    <2>4. QED
        BY <2>1, <2>2, <2>3
<1>2. QED
    BY <1>1, Invariant, PTL

(* A block is not ended by what it turns away: _cleanup deletes buckets    *)
(* that were not touched for the time to live, and a block has run out by  *)
(* then.                                                                   *)
LEMMA BlockedIsKept ==
    ASSUME Cooldown <= Ttl, Typed, NEW b \in Buckets, Dated(b, now), Blocked(b)
    PROVE  Cleaned(b) = b
<1>1. now \in Nat /\ {Cooldown, Ttl} \subseteq Nat
    BY LimitAssumption DEF Typed
<1>2. b.exists /\ b.until > now /\ b.until \in Nat /\ b.updated \in Nat
    BY <1>1 DEF Blocked, Buckets, NotBlocked
<1>3. b.until <= b.updated + Cooldown
    BY <1>2 DEF Dated, NotBlocked
<1>4. ~(b.updated < now - Ttl)
    BY <1>1, <1>2, <1>3
<1>5. QED
    BY <1>4 DEF Cleaned

(* While the clock stands, only the recording of an attempt that had been  *)
(* let through lifts a block.                                              *)
THEOREM BlocksOutlastArrivals ==
    ASSUME Cooldown <= Ttl PROVE Spec => BlockOutlastsArrivals
<1> DEFINE Kept ==
      \A k \in Keys :
          Blocked(bucket[k]) /\ now' = now /\ ~Blocked(bucket[k])' =>
              \E r \in Attempts : AnsweredNow(r) /\ k \in KeysOf(attempt[r].account)
<1>1. ASSUME Inv, [Next]_vars PROVE Kept
    <2> SUFFICES ASSUME NEW k \in Keys,
                        Blocked(bucket[k]), now' = now, ~Blocked(bucket[k])'
                 PROVE  \E r \in Attempts :
                            AnsweredNow(r) /\ k \in KeysOf(attempt[r].account)
        OBVIOUS
    <2>1. /\ Cleaned(bucket[k]) = bucket[k]
          /\ bucket'[k] # bucket[k]
        BY <1>1, BlockedIsKept DEF Inv, Typed, Blocked
    <2>2. CASE Tick
        BY <1>1, <2>2 DEF Tick, Inv, Typed
    <2>3. CASE \E r \in Attempts : \E a \in Accounts : Check(r, a)
        BY <2>1, <2>3 DEF Check
    <2>4. ASSUME NEW r \in Attempts, RecordFailure(r)
          PROVE  AnsweredNow(r) /\ k \in KeysOf(attempt[r].account)
        BY <1>1, <2>1, <2>4, Answered DEF RecordFailure
    <2>5. ASSUME NEW r \in Attempts, RecordSuccess(r)
          PROVE  AnsweredNow(r) /\ k \in KeysOf(attempt[r].account)
        BY <1>1, <2>1, <2>5, Answered DEF RecordSuccess, KeysOf
    <2>6. CASE UNCHANGED vars \/ \E r \in Attempts : RecordingFails(r)
        BY <2>1, <2>6 DEF vars, RecordingFails
    <2>7. QED
        BY <1>1, <2>2, <2>3, <2>4, <2>5, <2>6 DEF Next
<1>2. ASSUME Inv, [Next]_vars PROVE [Kept]_vars
    BY <1>1, <1>2
<1>3. QED
    BY <1>2, Invariant, PTL DEF Spec, BlockOutlastsArrivals

(* The cleanup forgets no failure whose window is still open.              *)
LEMMA CleanedHasElapsed ==
    ASSUME Window <= Ttl, Typed, NEW b \in Buckets, Dated(b, now),
           b.updated < now - Ttl
    PROVE  Elapsed(b)
<1>1. now \in Nat /\ {Window, Ttl} \subseteq Nat
    BY LimitAssumption DEF Typed
<1>2. b.start \in Nat /\ b.updated \in Nat /\ b.start <= b.updated
    BY DEF Dated, Buckets
<1>3. b.start + Window <= now
    BY <1>1, <1>2
<1>4. QED
    BY <1>3 DEF Elapsed

(* A login forgives the failures of the account that logged in and no      *)
(* others.                                                                 *)
THEOREM LoginsForgiveTheirAccount ==
    ASSUME Window <= Ttl PROVE Spec => UnrelatedHistoryIsKept
<1> DEFINE Kept ==
      \A k \in Keys :
          bucket'[k].failures < bucket[k].failures =>
              \/ Elapsed(bucket[k])
              \/ \E r \in Attempts : AnsweredNow(r) /\ attempt[r].account = k
<1>1. ASSUME Inv, [Next]_vars PROVE Kept
    <2> SUFFICES ASSUME NEW k \in Keys, bucket'[k].failures < bucket[k].failures,
                        ~Elapsed(bucket[k])
                 PROVE  \E r \in Attempts : AnsweredNow(r) /\ attempt[r].account = k
        OBVIOUS
    <2>1. Typed /\ bucket[k] \in Buckets /\ Dated(bucket[k], now)
        BY <1>1 DEF Inv, Typed
    <2>2. ~(bucket[k].updated < now - Ttl)
        BY <2>1, CleanedHasElapsed
    <2>3. Cleaned(bucket[k]) = bucket[k]
        BY <2>2 DEF Cleaned
    <2>4. ~(bucket[k].failures < bucket[k].failures)
        BY <2>1 DEF Buckets
    <2>5. bucket'[k] # bucket[k]
        BY <2>4
    <2>6. ~(Failed(k, bucket[k]).failures < bucket[k].failures)
        BY <2>1, <2>2, FailedIs
    <2>7. CASE Tick
        BY <2>5, <2>7 DEF Tick
    <2>8. CASE \E r \in Attempts : \E a \in Accounts : Check(r, a)
        BY <2>3, <2>5, <2>8 DEF Check
    <2>9. ASSUME NEW r \in Attempts, RecordFailure(r)
          PROVE  FALSE
        BY <2>3, <2>5, <2>6, <2>9 DEF RecordFailure
    <2>10. ASSUME NEW r \in Attempts, RecordSuccess(r)
           PROVE  AnsweredNow(r) /\ attempt[r].account = k
        BY <1>1, <2>3, <2>5, <2>10, Answered DEF RecordSuccess
    <2>11. CASE UNCHANGED vars \/ \E r \in Attempts : RecordingFails(r)
        BY <2>5, <2>11 DEF vars, RecordingFails
    <2>12. QED
        BY <1>1, <2>7, <2>8, <2>9, <2>10, <2>11 DEF Next
<1>2. ASSUME Inv, [Next]_vars PROVE [Kept]_vars
    BY <1>1, <1>2
<1>3. QED
    BY <1>2, Invariant, PTL DEF Spec, UnrelatedHistoryIsKept

-----------------------------------------------------------------------------
(* What one source can learn.                                              *)
(*                                                                         *)
(* The bucket does not remember the windows before its own, so what is     *)
(* needed is a bound on the failures it no longer counts.  Seen from any   *)
(* minute t that is less than a window ago, they were counted together     *)
(* with the failure that opened their window, which was before t, and with *)
(* the attempt that opened the next one, which was in flight then.         *)

Since(g, t) == {i \in DOMAIN g : g[i] >= t}
Within(g, t) == {i \in DOMAIN g : t <= g[i] /\ g[i] < t + Window}

(* The most failures younger than a window that a bucket has forgotten.    *)
Forgotten == IF Overshot > 2 THEN Overshot - 2 ELSE 0

(* The bucket b of the source tells of the failures g up to minute n.      *)
Written(b, g) ==
    b.exists =>
       /\ b.failures >= 1
       /\ \A i \in DOMAIN g : g[i] <= b.updated
       /\ b.until # NotBlocked => b.until >= b.updated + Cooldown
       /\ b.failures < SourceLimit => b.until = NotBlocked

Counted(b, g, t) ==
    /\ ~b.exists => Since(g, t) = {}
    /\ b.exists /\ t > b.start => Cardinality(Since(g, t)) <= b.failures - 1
    /\ b.exists /\ t <= b.start => Cardinality(Since(g, t)) <= b.failures + Forgotten

Told(b, g, n) ==
    /\ g \in Seq(Nat)
    /\ \A i \in DOMAIN g : g[i] <= n
    /\ Written(b, g)
    /\ \A t \in Nat : t > n - Window => Counted(b, g, t)

Tried(g) == \A t \in Nat : Cardinality(Within(g, t)) <= Overshot + Forgotten

AccountsOnly == \A r \in Attempts : attempt[r].at = "verify" => attempt[r].account # Source

GuessInv ==
    /\ AccountsOnly
    /\ Told(bucket[Source], guesses, now)
    /\ Tried(guesses)

LEMMA SinceIs ==
    ASSUME NEW g \in Seq(Nat), NEW t \in Nat
    PROVE  /\ IsFiniteSet(Since(g, t)) /\ Cardinality(Since(g, t)) \in Nat
           /\ IsFiniteSet(Within(g, t)) /\ Cardinality(Within(g, t)) \in Nat
           /\ Cardinality(Within(g, t)) <= Cardinality(Since(g, t))
<1>1. DOMAIN g = 1 .. Len(g) /\ Len(g) \in Nat
    BY LenProperties
<1>2. IsFiniteSet(DOMAIN g)
    BY <1>1, FS_Interval
<1>3. Since(g, t) \in SUBSET DOMAIN g /\ Within(g, t) \in SUBSET DOMAIN g
    BY DEF Since, Within
<1>4. IsFiniteSet(Since(g, t)) /\ IsFiniteSet(Within(g, t))
    BY <1>2, <1>3, FS_Subset
<1>5. \A i \in DOMAIN g : g[i] \in Nat
    BY <1>1
<1>6. Within(g, t) \in SUBSET Since(g, t)
    BY <1>5 DEF Since, Within
<1>7. Cardinality(Within(g, t)) <= Cardinality(Since(g, t))
    BY <1>4, <1>6, FS_Subset
<1>8. QED
    BY <1>4, <1>7, FS_CardinalityType

(* One more failure, now. *)
LEMMA SinceAppend ==
    ASSUME NEW g \in Seq(Nat), NEW n \in Nat, NEW t \in Nat, \A i \in DOMAIN g : g[i] <= n
    PROVE  /\ Append(g, n) \in Seq(Nat)
           /\ \A i \in DOMAIN Append(g, n) : Append(g, n)[i] <= n
           /\ t <= n => Cardinality(Since(Append(g, n), t)) = Cardinality(Since(g, t)) + 1
           /\ t > n => Since(Append(g, n), t) = {}
           /\ t + Window <= n => Within(Append(g, n), t) = Within(g, t)
<1> DEFINE h == Append(g, n)
           e == Len(g) + 1
<1>1. /\ h \in Seq(Nat) /\ Len(h) = e
      /\ \A i \in 1 .. Len(g) : h[i] = g[i]
      /\ h[e] = n
    BY AppendProperties
<1>2. DOMAIN h = 1 .. e /\ DOMAIN g = 1 .. Len(g) /\ Len(g) \in Nat
    BY <1>1, LenProperties
<1> HIDE DEF h
<1>3. /\ DOMAIN h = DOMAIN g \cup {e} /\ e \notin DOMAIN g
      /\ \A i \in DOMAIN g : h[i] = g[i] /\ g[i] \in Nat /\ g[i] <= n
    BY <1>1, <1>2
<1> HIDE DEF e
<1>4. \A i \in DOMAIN h : h[i] \in Nat /\ h[i] <= n
    BY <1>1, <1>3
<1>5. ASSUME t <= n PROVE Cardinality(Since(h, t)) = Cardinality(Since(g, t)) + 1
    <2>1. Since(h, t) = Since(g, t) \cup {e}
        BY <1>1, <1>3, <1>5 DEF Since
    <2>2. e \notin Since(g, t)
        BY <1>3 DEF Since
    <2>3. QED
        BY <2>1, <2>2, SinceIs, FS_AddElement
<1>6. ASSUME t > n PROVE Since(h, t) = {}
    BY <1>4, <1>6 DEF Since
<1>7. ASSUME t + Window <= n PROVE Within(h, t) = Within(g, t)
    <2>1. t + Window \in Nat
        BY LimitAssumption
    <2>2. ~(h[e] < t + Window)
        BY <1>1, <1>7, <2>1
    <2>3. QED
        BY <1>3, <2>2 DEF Within
<1>8. QED
    BY <1>1, <1>4, <1>5, <1>6, <1>7 DEF h

(* A failure opens a window or is counted in the one there is.             *)
LEMMA FailedCounts ==
    ASSUME Typed, NEW k \in Keys, NEW b \in Buckets
    PROVE  /\ Failed(k, b).exists /\ Failed(k, b).updated = now
           /\ \/ /\ ~b.exists \/ b.updated < now - Ttl \/ Elapsed(b)
                 /\ Failed(k, b).start = now /\ Failed(k, b).failures = 1
                 /\ Failed(k, b).until = IF 1 >= Limit(k) THEN now + Cooldown ELSE NotBlocked
              \/ /\ b.exists /\ ~(b.updated < now - Ttl) /\ ~Elapsed(b)
                 /\ Failed(k, b).start = b.start /\ Failed(k, b).failures = b.failures + 1
                 /\ Failed(k, b).until = IF b.failures + 1 >= Limit(k) THEN now + Cooldown
                                         ELSE b.until
<1> DEFINE c == Current(Fetched(Cleaned(b)))
           d == Failed(k, b)
<1>1. d = [c EXCEPT !.failures = c.failures + 1, !.updated = now,
                    !.until = IF c.failures + 1 >= Limit(k) THEN now + Cooldown ELSE @]
    BY DEF Failed
<1>2. now \in Nat /\ Window \in Nat /\ Window >= 1
    BY LimitAssumption DEF Typed
<1>3. /\ c \in Buckets /\ c.exists
      /\ \/ /\ ~b.exists \/ b.updated < now - Ttl \/ Elapsed(b)
            /\ c.start = now /\ c.failures = 0 /\ c.until = NotBlocked
         \/ b.exists /\ ~(b.updated < now - Ttl) /\ ~Elapsed(b) /\ c = b
    <2>1. CASE b.exists /\ ~(b.updated < now - Ttl)
        <3>1. c = IF Elapsed(b)
                    THEN [b EXCEPT !.start = now, !.failures = 0, !.until = NotBlocked]
                    ELSE b
            BY <2>1 DEF Cleaned, Fetched, Current
        <3>2. CASE Elapsed(b)
            <4>1. c = [exists |-> b.exists, start |-> now, failures |-> 0,
                       until |-> NotBlocked, updated |-> b.updated]
                BY <3>1, <3>2 DEF Buckets
            <4>2. QED
                BY <1>2, <2>1, <3>2, <4>1 DEF Buckets
        <3>3. CASE ~Elapsed(b)
            BY <2>1, <3>1, <3>3
        <3>4. QED
            BY <3>2, <3>3
    <2>2. CASE ~b.exists \/ b.updated < now - Ttl
        <3> DEFINE f == [exists |-> TRUE, start |-> now, failures |-> 0,
                         until |-> NotBlocked, updated |-> now]
        <3>1. ~Cleaned(b).exists
            BY <2>2 DEF Cleaned, NoBucket
        <3>2. Fetched(Cleaned(b)) = f
            BY <3>1 DEF Fetched
        <3>3. f \in Buckets
            BY <1>2 DEF Buckets
        <3>4. ~Elapsed(f)
            BY <1>2 DEF Elapsed
        <3>5. c = f
            BY <3>2, <3>4 DEF Current
        <3>6. QED
            BY <2>2, <3>3, <3>5
    <2>3. QED
        BY <2>1, <2>2
<1> HIDE DEF c, d
<1>4. /\ d.exists = c.exists /\ d.updated = now /\ d.start = c.start
      /\ d.failures = c.failures + 1
      /\ d.until = IF c.failures + 1 >= Limit(k) THEN now + Cooldown ELSE c.until
    BY <1>1, <1>3 DEF Buckets
<1>5. 0 + 1 = 1
    OBVIOUS
<1>6. QED
    BY <1>3, <1>4, <1>5 DEF d

LEMMA Amounts ==
    /\ {SourceLimit, Window, Cooldown, Ttl} \subseteq Nat /\ SourceLimit >= 1
    /\ Limit(Source) = SourceLimit /\ Source \in Keys
    /\ Cardinality(Attempts) \in Nat
    /\ Overshot = SourceLimit + Cardinality(Attempts) - 1 /\ Overshot \in Nat
    /\ Forgotten \in Nat /\ Overshot - 2 <= Forgotten
<1>1. Cardinality(Attempts) \in Nat
    BY Sizes
<1>2. SourceLimit \in Nat /\ SourceLimit >= 1 /\ {Window, Cooldown, Ttl} \subseteq Nat
    BY LimitAssumption
<1>3. Overshot = SourceLimit + Cardinality(Attempts) - 1
    BY DEF Overshot
<1>4. Overshot \in Nat
    BY <1>1, <1>2, <1>3
<1>5. Forgotten \in Nat /\ Overshot - 2 <= Forgotten
    BY <1>4 DEF Forgotten
<1>6. QED
    BY <1>1, <1>2, <1>3, <1>4, <1>5 DEF Limit, Keys

(* A bucket that was not written for a window saw no failure in it.        *)
LEMMA Untouched ==
    ASSUME NEW n \in Nat, NEW b \in Buckets, b.exists, b.updated <= n - Window,
           NEW g, Told(b, g, n), NEW t \in Nat, t > n - Window
    PROVE  Since(g, t) = {} /\ Cardinality(Since(g, t)) = 0
<1>1. g \in Seq(Nat) /\ \A i \in DOMAIN g : g[i] <= b.updated
    BY DEF Told, Written
<1>2. Window \in Nat /\ b.updated \in Nat
    BY Amounts DEF Buckets
<1>3. \A i \in DOMAIN g : g[i] \in Nat
    BY <1>1, ElementOfSeq, LenProperties
<1>4. \A i \in DOMAIN g : ~(g[i] >= t)
    BY <1>1, <1>2, <1>3
<1>5. Since(g, t) = {}
    BY <1>4 DEF Since
<1>6. QED
    BY <1>5, FS_EmptySet

(* What a new window does not count.  The window that ran out was counted  *)
(* with the failure that opened it; and if it reached the limit and its    *)
(* block has not run out with it, with an attempt that is still in flight. *)
LEMMA ForgottenIs ==
    ASSUME Window <= Cooldown, Window <= Ttl,
           Typed, NEW b \in Buckets, NEW m \in Nat, m >= 1, m <= Cardinality(Attempts),
           Limited(Source, b, m, now), NEW g, Told(b, g, now),
           ~b.exists \/ b.updated < now - Ttl \/ Elapsed(b),
           NEW t \in Nat, t > now - Window
    PROVE  Cardinality(Since(g, t)) <= Forgotten
<1>1. /\ now \in Nat /\ b.start \in Nat /\ b.failures \in Nat /\ b.updated \in Nat
      /\ b.until \in Nat \cup {NotBlocked}
    BY DEF Typed, Buckets
<1>2. Counted(b, g, t) /\ Written(b, g) /\ g \in Seq(Nat)
    BY DEF Told
<1>3. CASE ~b.exists
    <2>1. Since(g, t) = {}
        BY <1>2, <1>3 DEF Counted
    <2>2. Cardinality(Since(g, t)) = 0
        BY <2>1, FS_EmptySet
    <2>3. QED
        BY <2>2, Amounts
<1>4. CASE b.exists /\ b.updated <= now - Window
    <2>1. Cardinality(Since(g, t)) = 0
        BY <1>1, <1>4, Untouched
    <2>2. QED
        BY <2>1, Amounts
<1>5. CASE b.exists /\ ~(b.updated <= now - Window)
    <2>1. Elapsed(b)
        BY <1>1, <1>5, Amounts
    <2>2. ASSUME b.until # NotBlocked PROVE b.until > now
        <3>1. b.until \in Nat
            BY <1>1, <2>2
        <3>2. b.until >= b.updated + Cooldown
            BY <1>2, <1>5, <2>2 DEF Written
        <3>3. QED
            BY <1>1, <1>5, <3>1, <3>2, Amounts
    <2>3. b.start + Window <= now
        BY <1>1, <2>1, <2>2 DEF Elapsed, NotBlocked
    <2>4. t > b.start
        BY <1>1, <2>3, Amounts
    <2>5. Cardinality(Since(g, t)) <= b.failures - 1
        BY <1>2, <1>5, <2>4 DEF Counted
    <2>6. Limit(Source) = SourceLimit /\ Cardinality(Since(g, t)) \in Nat
        BY <1>2, Amounts, SinceIs
    <2>7. CASE b.failures >= SourceLimit
        <3>1. b.failures + m <= Overshot
            BY <2>2, <2>6, <2>7, Amounts DEF Limited
        <3>2. QED
            BY <1>1, <2>5, <2>6, <3>1, Amounts
    <2>8. CASE b.failures < SourceLimit
        BY <1>1, <2>5, <2>6, <2>8, Amounts
    <2>9. QED
        BY <1>1, <2>7, <2>8, Amounts
<1>6. QED
    BY <1>1, <1>3, <1>4, <1>5

(* Recording a failure *)
LEMMA FailureTold ==
    ASSUME Window <= Cooldown, Window <= Ttl,
           Typed, NEW b \in Buckets, Dated(b, now),
           NEW m \in Nat, m >= 1, m <= Cardinality(Attempts),
           Limited(Source, b, m, now), NEW g, Told(b, g, now)
    PROVE  Told(Failed(Source, b), Append(g, now), now)
<1> DEFINE d == Failed(Source, b)
           h == Append(g, now)
<1>1. /\ now \in Nat /\ b.start \in Nat /\ b.failures \in Nat /\ b.start <= now
      /\ Dated(b, now) => b.updated <= now
    BY DEF Typed, Buckets, Dated
<1>2. /\ g \in Seq(Nat) /\ \A i \in DOMAIN g : g[i] <= now
      /\ Written(b, g)
      /\ \A t \in Nat : t > now - Window => Counted(b, g, t)
    BY DEF Told
<1>3. /\ h \in Seq(Nat) /\ \A i \in DOMAIN h : h[i] <= now
      /\ \A t \in Nat : t <= now =>
            Cardinality(Since(h, t)) = Cardinality(Since(g, t)) + 1
      /\ \A t \in Nat : t > now => Since(h, t) = {}
    BY <1>1, <1>2, SinceAppend
<1>4. /\ d.exists /\ d.updated = now
      /\ \/ /\ ~b.exists \/ b.updated < now - Ttl \/ Elapsed(b)
            /\ d.start = now /\ d.failures = 1
            /\ d.until = IF 1 >= SourceLimit THEN now + Cooldown ELSE NotBlocked
         \/ /\ b.exists /\ ~(b.updated < now - Ttl) /\ ~Elapsed(b)
            /\ d.start = b.start /\ d.failures = b.failures + 1
            /\ d.until = IF b.failures + 1 >= SourceLimit THEN now + Cooldown ELSE b.until
    BY Amounts, FailedCounts
<1> HIDE DEF d, h
<1>5. Written(d, h)
    <2>1. d.failures >= 1
        BY <1>1, <1>4
    <2>2. /\ d.until # NotBlocked => d.until = now + Cooldown
          /\ d.failures < SourceLimit => d.until = NotBlocked
        <3>1. CASE d.failures = 1 /\ d.until = IF 1 >= SourceLimit THEN now + Cooldown
                                               ELSE NotBlocked
            BY <3>1, Amounts
        <3>2. CASE /\ b.exists /\ d.failures = b.failures + 1
                   /\ d.until = IF b.failures + 1 >= SourceLimit THEN now + Cooldown
                                ELSE b.until
            <4>1. b.failures < SourceLimit => b.until = NotBlocked
                BY <1>2, <3>2 DEF Written
            <4>2. QED
                BY <1>1, <3>2, <4>1, Amounts
        <3>3. QED
            BY <1>4, <3>1, <3>2
    <2>3. d.until # NotBlocked => d.until >= d.updated + Cooldown
        BY <1>1, <1>4, <2>2, Amounts
    <2>4. QED
        BY <1>3, <1>4, <2>1, <2>2, <2>3 DEF Written
<1>6. ASSUME NEW t \in Nat, t > now - Window PROVE Counted(d, h, t)
    <2>1. Cardinality(Since(h, t)) \in Nat /\ Cardinality(Since(g, t)) \in Nat
        BY <1>2, <1>3, SinceIs
    <2>2. CASE t > now
        <3>1. Cardinality(Since(h, t)) = 0
            BY <1>3, <2>2, FS_EmptySet
        <3>2. d.failures \in Nat /\ d.failures >= 1
            BY <1>1, <1>4
        <3>3. QED
            BY <1>4, <3>1, <3>2, Amounts DEF Counted
    <2>3. CASE t <= now
        <3>1. Cardinality(Since(h, t)) = Cardinality(Since(g, t)) + 1
            BY <1>3, <2>3
        <3>2. CASE ~b.exists \/ b.updated < now - Ttl \/ Elapsed(b)
            <4>1. d.start = now /\ d.failures = 1
                BY <1>4, <3>2
            <4>2. Cardinality(Since(g, t)) <= Forgotten
                BY <1>6, <3>2, ForgottenIs
            <4>3. QED
                BY <1>1, <1>4, <2>1, <2>3, <3>1, <4>1, <4>2, Amounts DEF Counted
        <3>3. CASE b.exists /\ ~(b.updated < now - Ttl) /\ ~Elapsed(b)
            <4>1. d.start = b.start /\ d.failures = b.failures + 1
                BY <1>4, <3>3
            <4>2. Counted(b, g, t)
                BY <1>2, <1>6
            <4>3. QED
                BY <1>1, <1>4, <2>1, <3>1, <3>3, <4>1, <4>2, Amounts DEF Counted
        <3>4. QED
            BY <3>2, <3>3
    <2>4. QED
        BY <1>1, <2>2, <2>3
<1>7. QED
    BY <1>3, <1>5, <1>6 DEF Told, d, h

(* Cleaning up, and time *)
LEMMA CleanedTold ==
    ASSUME Window <= Ttl, Typed, NEW b \in Buckets, Dated(b, now), NEW g, Told(b, g, now)
    PROVE  Told(Cleaned(b), g, now)
<1>1. CASE Cleaned(b) = b
    BY <1>1
<1>2. CASE Cleaned(b) # b
    <2>1. /\ Cleaned(b) = NoBucket /\ b.exists /\ b.updated < now - Ttl
          /\ ~NoBucket.exists
        BY <1>2, CleanedIs
    <2>2. now \in Nat /\ b.updated \in Nat /\ b.updated <= now - Window
        BY <2>1, Amounts DEF Typed, Buckets
    <2>3. \A t \in Nat : t > now - Window => Since(g, t) = {}
        BY <2>1, <2>2, Untouched
    <2>4. QED
        BY <2>1, <2>3 DEF Told, Written, Counted
<1>3. QED
    BY <1>1, <1>2

LEMMA LaterTold ==
    ASSUME NEW n \in Nat, NEW b, NEW g, Told(b, g, n)
    PROVE  Told(b, g, n + 1)
<1>1. g \in Seq(Nat) /\ \A i \in DOMAIN g : g[i] <= n
    BY DEF Told
<1>2. \A i \in DOMAIN g : g[i] \in Nat
    BY <1>1, ElementOfSeq, LenProperties
<1>3. \A i \in DOMAIN g : g[i] <= n + 1
    BY <1>1, <1>2
<1>4. \A t \in Nat : t > (n + 1) - Window => t > n - Window
    BY Amounts
<1>5. QED
    BY <1>1, <1>3, <1>4 DEF Told

(* Every Window minutes end with a failure: what they saw was counted when *)
(* it was recorded.                                                        *)
LEMMA FailureTried ==
    ASSUME NEW n \in Nat, NEW g \in Seq(Nat), \A i \in DOMAIN g : g[i] <= n,
           NEW d \in Buckets, d.exists, d.failures <= Overshot,
           Told(d, Append(g, n), n), Tried(g)
    PROVE  Tried(Append(g, n))
<1> DEFINE h == Append(g, n)
<1> SUFFICES ASSUME NEW t \in Nat
             PROVE  Cardinality(Within(h, t)) <= Overshot + Forgotten
    BY DEF Tried
<1>1. h \in Seq(Nat)
    BY SinceAppend
<1>2. CASE t + Window <= n
    BY <1>2, SinceAppend DEF Tried
<1>3. CASE t + Window > n
    <2>1. Counted(d, h, t)
        <3>1. t > n - Window
            BY <1>3, Amounts
        <3>2. QED
            BY <3>1 DEF Told
    <2>2. d.failures \in Nat /\ d.start \in Nat
        BY DEF Buckets
    <2>3. Cardinality(Since(h, t)) <= d.failures - 1
             \/ Cardinality(Since(h, t)) <= d.failures + Forgotten
        BY <2>1, <2>2 DEF Counted
    <2>4. /\ Cardinality(Within(h, t)) <= Cardinality(Since(h, t))
          /\ Cardinality(Within(h, t)) \in Nat /\ Cardinality(Since(h, t)) \in Nat
        BY <1>1, SinceIs
    <2>5. Overshot \in Nat /\ Forgotten \in Nat
        BY Amounts
    <2>6. d.failures + Forgotten <= Overshot + Forgotten /\ d.failures - 1 <= Overshot + Forgotten
        BY <2>2, <2>5
    <2> DEFINE x == Cardinality(Since(h, t))
               w == Cardinality(Within(h, t))
    <2> HIDE DEF h, x, w
    <2>7. w <= x /\ w \in Nat /\ x \in Nat /\ x <= Overshot + Forgotten
        BY <2>2, <2>3, <2>4, <2>5, <2>6 DEF x, w
    <2>8. w <= Overshot + Forgotten
        BY <2>5, <2>7
    <2>9. QED
        BY <2>8 DEF w
<1>4. QED
    BY <1>2, <1>3, Amounts

LEMMA GuessInitially == Init => GuessInv
<1> SUFFICES ASSUME Init PROVE GuessInv
    OBVIOUS
<1>1. AccountsOnly
    BY DEF Init, AccountsOnly
<1>2. /\ guesses = << >> /\ guesses \in Seq(Nat) /\ DOMAIN guesses = {}
      /\ bucket[Source] = NoBucket /\ ~NoBucket.exists
    <2>1. << >> \in Seq(Nat) /\ Len(<< >>) = 0
        BY EmptySeq
    <2>2. DOMAIN << >> = {}
        BY <2>1, LenProperties
    <2>3. QED
        BY <2>1, <2>2, Amounts DEF Init, NoBucket
<1>3. \A t : Since(guesses, t) = {} /\ Within(guesses, t) = {}
    BY <1>2 DEF Since, Within
<1>4. Told(bucket[Source], guesses, now)
    BY <1>2, <1>3 DEF Told, Written, Counted
<1>5. Tried(guesses)
    <2>1. Overshot + Forgotten >= 0
        BY Amounts
    <2>2. QED
        BY <1>3, <2>1, FS_EmptySet DEF Tried
<1>6. QED
    BY <1>1, <1>4, <1>5 DEF GuessInv

LEMMA GuessFailure ==
    ASSUME Window <= Cooldown, Window <= Ttl, Inv, Inv', GuessInv,
           NEW r \in Attempts, RecordFailure(r)
    PROVE  GuessInv'
<1> DEFINE b == bucket[Source]
           d == Failed(Source, b)
           m == Cardinality(InFlight(Source))
<1>1. /\ attempt[r].at = "verify" /\ now' = now
      /\ bucket' = [k \in Keys |-> IF k \in KeysOf(attempt[r].account)
                                   THEN Failed(k, bucket[k]) ELSE Cleaned(bucket[k])]
      /\ attempt' = [attempt EXCEPT ![r].at = "idle"]
      /\ guesses' = Append(guesses, now)
    BY DEF RecordFailure
<1>2. Source \in KeysOf(attempt[r].account)
    BY DEF KeysOf
<1>3. bucket'[Source] = d
    BY <1>1, <1>2, Amounts
<1>4. Typed /\ b \in Buckets /\ Dated(b, now) /\ Limited(Source, b, m, now) /\ m \in Nat
    BY Amounts, Sizes DEF Inv, Typed
<1>5. m >= 1 /\ m <= Cardinality(Attempts)
    <2>1. InFlight(Source) \in SUBSET Attempts /\ r \in InFlight(Source)
        BY <1>1, <1>2 DEF InFlight, Verifying
    <2>2. m <= Cardinality(Attempts)
        BY <2>1, SizesCompare
    <2>3. {r} \in SUBSET InFlight(Source) /\ Cardinality({r}) = 1
        BY <2>1, FS_Singleton
    <2>4. 1 <= m
        BY <2>1, <2>3, SizesCompare
    <2>5. QED
        BY <1>4, <2>2, <2>4
<1>6. Told(b, guesses, now) /\ Tried(guesses) /\ AccountsOnly
    BY DEF GuessInv
<1>7. Told(d, Append(guesses, now), now)
    <2> HIDE DEF b, m
    <2>1. QED
        BY <1>4, <1>5, <1>6, FailureTold
<1>8. d \in Buckets /\ d.exists
    <2> HIDE DEF b
    <2>1. QED
        BY <1>4, Amounts, FailedIs
<1>9. d.failures <= Overshot
    <2>1. Limited(Source, d, Cardinality(InFlight(Source)'), now)
        BY <1>1, <1>3, Amounts DEF Inv
    <2>2. Limit(Source) = SourceLimit
        BY Amounts
    <2>3. Cardinality(Attempts) >= 1
        BY Sizes
    <2>4. CASE d.failures >= SourceLimit
        BY <2>1, <2>2, <2>4, Amounts DEF Limited
    <2>5. CASE d.failures < SourceLimit
        <3>1. d.failures \in Nat
            BY <1>8 DEF Buckets
        <3> HIDE DEF d
        <3>2. QED
            BY <2>3, <2>5, <3>1, Amounts
    <2>6. QED
        <3>1. d.failures \in Nat
            BY <1>8 DEF Buckets
        <3> HIDE DEF d
        <3>2. QED
            BY <2>4, <2>5, <3>1, Amounts
<1>10. Tried(Append(guesses, now))
    <2>1. guesses \in Seq(Nat) /\ \A i \in DOMAIN guesses : guesses[i] <= now
        BY <1>6 DEF Told
    <2>2. now \in Nat
        BY <1>4 DEF Typed
    <2> HIDE DEF d
    <2>3. QED
        BY <1>6, <1>7, <1>8, <1>9, <2>1, <2>2, FailureTried
<1>11. AccountsOnly'
    BY <1>1, <1>6 DEF AccountsOnly, Inv, Typed
<1>12. QED
    BY <1>1, <1>3, <1>7, <1>10, <1>11 DEF GuessInv

(* Nothing else records a failure, or touches the bucket of the source but *)
(* to clean up: what logs in is an account.                                *)
LEMMA GuessOthers ==
    ASSUME Window <= Ttl, Inv, GuessInv, guesses' = guesses, now' = now, AccountsOnly',
           \/ bucket'[Source] = bucket[Source]
           \/ bucket'[Source] = Cleaned(bucket[Source])
    PROVE  GuessInv'
<1>1. Typed /\ bucket[Source] \in Buckets /\ Dated(bucket[Source], now)
    BY Amounts DEF Inv, Typed
<1>2. Told(bucket[Source], guesses, now) /\ Tried(guesses)
    BY DEF GuessInv
<1>3. Told(Cleaned(bucket[Source]), guesses, now)
    BY <1>1, <1>2, CleanedTold
<1>4. QED
    BY <1>2, <1>3 DEF GuessInv

(* What the buckets tell of the failures is kept.                          *)
LEMMA GuessInvariant ==
    ASSUME Window <= Cooldown, Window <= Ttl PROVE Spec => []GuessInv
<1>1. ASSUME Inv, Inv', GuessInv, [Next]_vars PROVE GuessInv'
    <2>1. CASE Tick
        <3>1. /\ now \in Nat /\ now' = now + 1 /\ guesses' = guesses
              /\ bucket' = bucket /\ attempt' = attempt
            BY <1>1, <2>1 DEF Inv, Typed, Tick
        <3>2. Told(bucket[Source], guesses, now + 1)
            BY <1>1, <3>1, LaterTold DEF GuessInv
        <3>3. QED
            BY <1>1, <3>1, <3>2 DEF GuessInv, AccountsOnly
    <2>2. ASSUME NEW r \in Attempts, NEW a \in Accounts, Check(r, a) PROVE GuessInv'
        <3>1. AccountsOnly'
            <4>1. a # Source
                BY SourceAssumption
            <4>2. \/ attempt' = attempt
                  \/ attempt' = [attempt EXCEPT ![r] = [at |-> "verify", account |-> a]]
                BY <2>2 DEF Check
            <4>3. QED
                BY <1>1, <4>1, <4>2 DEF GuessInv, AccountsOnly, Inv, Typed
        <3>2. /\ guesses' = guesses /\ now' = now
              /\ \/ bucket'[Source] = bucket[Source]
                 \/ bucket'[Source] = Cleaned(bucket[Source])
            BY <2>2, Amounts DEF Check
        <3>3. QED
            BY <1>1, <3>1, <3>2, GuessOthers
    <2>3. ASSUME NEW r \in Attempts, RecordFailure(r) PROVE GuessInv'
        BY <1>1, <2>3, GuessFailure
    <2>4. ASSUME NEW r \in Attempts, RecordSuccess(r) PROVE GuessInv'
        <3>1. attempt[r].account # Source
            BY <1>1, <2>4 DEF RecordSuccess, GuessInv, AccountsOnly
        <3>2. AccountsOnly'
            BY <1>1, <2>4 DEF RecordSuccess, GuessInv, AccountsOnly, Inv, Typed
        <3>3. /\ guesses' = guesses /\ now' = now
              /\ bucket'[Source] = Cleaned(bucket[Source])
            BY <2>4, <3>1, Amounts DEF RecordSuccess
        <3>4. QED
            BY <1>1, <3>2, <3>3, GuessOthers
    <2>5. ASSUME NEW r \in Attempts, RecordingFails(r) PROVE GuessInv'
        <3>1. AccountsOnly'
            BY <1>1, <2>5 DEF RecordingFails, GuessInv, AccountsOnly, Inv, Typed
        <3>2. /\ guesses' = guesses /\ now' = now
              /\ bucket'[Source] = bucket[Source]
            BY <2>5 DEF RecordingFails
        <3>3. QED
            BY <1>1, <3>1, <3>2, GuessOthers
    <2>6. CASE UNCHANGED vars
        <3>1. /\ guesses' = guesses /\ now' = now
              /\ bucket' = bucket /\ attempt' = attempt
            BY <2>6 DEF vars
        <3>2. QED
            BY <1>1, <3>1 DEF GuessInv, AccountsOnly
    <2>7. QED
        BY <1>1, <2>1, <2>2, <2>3, <2>4, <2>5, <2>6 DEF Next
<1>2. QED
    BY <1>1, GuessInitially, Invariant, PTL DEF Spec

(* However the failures of one source fall across its windows, no Window   *)
(* minutes see more passwords answered as wrong than two windows can       *)
(* count, less two, whatever recordings fail.                              *)
THEOREM AnsweredGuessesBounded ==
    ASSUME Window <= Cooldown, Window <= Ttl PROVE Spec => []AnsweredGuessesAreBounded
<1>1. GuessInv => AnsweredGuessesAreBounded
    <2> SUFFICES ASSUME GuessInv, NEW t \in 0 .. MaxTime
                 PROVE  Cardinality(Within(guesses, t))
                           <= IF Overshot > 1 THEN 2 * (Overshot - 1) ELSE Overshot
        BY DEF AnsweredGuessesAreBounded, Within
    <2>1. t \in Nat
        BY TimeAssumption
    <2>2. /\ Cardinality(Within(guesses, t)) <= Overshot + Forgotten
          /\ Cardinality(Within(guesses, t)) \in Nat
        BY <2>1, SinceIs DEF GuessInv, Told, Tried
    <2>3. Overshot + Forgotten = IF Overshot > 1 THEN 2 * (Overshot - 1) ELSE Overshot
        BY Amounts DEF Forgotten
    <2>4. QED
        BY <2>2, <2>3
<1>2. QED
    BY <1>1, GuessInvariant, PTL

===============================================================================
