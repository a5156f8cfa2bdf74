------------------------- MODULE RateLimiter_proofs -------------------------
(***************************************************************************)
(* The burst bound of a token bucket, for every limit, every resolution of *)
(* time and any interleaving of checks on any number of buckets.           *)
(***************************************************************************)
EXTENDS RateLimiter, TLAPS

\* Multiplying by a natural number is monotone and distributes over the steps
\* the buckets make.
LEMMA Products ==
    ASSUME NEW a \in Nat, NEW b \in Nat, NEW c \in Nat
    PROVE  /\ a * b \in Nat
           /\ (a + 1) * b = a * b + b
           /\ a <= c => a * b <= c * b
OBVIOUS

LEMMA ConstantsAreNat == Minute \in Nat /\ Minute > 0 /\ Limit \subseteq Nat /\ Watched \in Bucket
BY LimiterAssumption

\* The values of one existing bucket are numbers.
LEMMA BucketTypes ==
    ASSUME TypeOK, NEW b \in created
    PROVE  /\ b \in Bucket
           /\ capacity[b] \in Nat
           /\ tokens[b] \in Nat
           /\ sinceRefill[b] \in 0..Minute
           /\ sinceRefill[b] \in Nat
<1>1. b \in Bucket
  BY DEF TypeOK
<1>2. capacity[b] \in Limit
  BY DEF TypeOK
<1>3. tokens[b] \in Nat /\ sinceRefill[b] \in 0..Minute
  BY <1>1 DEF TypeOK
<1>4. capacity[b] \in Nat
  BY <1>2, ConstantsAreNat
<1>5. sinceRefill[b] \in Nat
  BY <1>3, ConstantsAreNat
<1> QED BY <1>1, <1>3, <1>4, <1>5

\* A bucket holds between nothing and its capacity.
LEMMA LevelBounds ==
    ASSUME TypeOK, NeverOverfull, NEW b \in created
    PROVE  /\ Level(b) \in Nat
           /\ Level(b) <= capacity[b] * Minute
           /\ Level(b) <= tokens[b] + sinceRefill[b] * capacity[b]
           /\ capacity[b] \in Nat /\ capacity[b] * Minute \in Nat
<1>1. /\ b \in Bucket /\ capacity[b] \in Nat /\ tokens[b] \in Nat
      /\ sinceRefill[b] \in Nat /\ Minute \in Nat
  BY BucketTypes, ConstantsAreNat
<1>2. capacity[b] * Minute \in Nat /\ sinceRefill[b] * capacity[b] \in Nat
  BY <1>1, Products
<1> QED BY <1>1, <1>2 DEF Level, AtMost

\* What check_rate_limit leaves in the bucket.
LEMMA CheckedBucket ==
    ASSUME LimiterInv, NEW b \in Bucket, NEW n \in Limit, Check(b, n)
    PROVE  /\ TypeOK' /\ NeverOverfull'
           /\ b \in created' /\ sinceRefill'[b] = 0
           /\ capacity'[b] = GetBucket(b, n).capacity
           /\ tokens'[b] = IF Allows(b, n) THEN GetBucket(b, n).level - Minute
                                           ELSE GetBucket(b, n).level
           /\ GetBucket(b, n).level \in Nat
           /\ tokens'[b] \in Nat
           /\ \A a \in Bucket : a # b => /\ capacity'[a] = capacity[a]
                                         /\ tokens'[a] = tokens[a]
                                         /\ sinceRefill'[a] = sinceRefill[a]
                                         /\ a \in created' <=> a \in created
<1> DEFINE found == GetBucket(b, n)
<1> USE DEF LimiterInv
<1>1. found.capacity \in Limit /\ found.capacity \in Nat
  BY LimiterAssumption DEF GetBucket, TypeOK
<1>2. found.level \in Nat /\ found.level <= found.capacity * Minute
  <2>1. CASE b \in created
    BY <2>1, LevelBounds DEF GetBucket
  <2>2. CASE b \notin created
    BY <2>2, LimiterAssumption, Products DEF GetBucket
  <2> QED BY <2>1, <2>2
<1>3. tokens'[b] = IF Allows(b, n) THEN found.level - Minute ELSE found.level
  BY DEF Check, TypeOK
<1>4. tokens'[b] \in Nat /\ tokens'[b] <= found.level
  BY <1>2, <1>3, LimiterAssumption DEF Allows
<1>5. capacity'[b] = found.capacity /\ sinceRefill'[b] = 0 /\ b \in created'
  BY DEF Check, TypeOK
<1>6. \A a \in Bucket : a # b => /\ capacity'[a] = capacity[a]
                                 /\ tokens'[a] = tokens[a]
                                 /\ sinceRefill'[a] = sinceRefill[a]
                                 /\ a \in created' <=> a \in created
  BY DEF Check, TypeOK
<1>7. tokens'[b] <= capacity'[b] * Minute
  BY <1>1, <1>2, <1>4, <1>5, LimiterAssumption, Products
<1>8. TypeOK' /\ NeverOverfull'
  <2>1. created' \subseteq Bucket /\ winAge' \in 0..Minute /\ winGrants' \in Nat
    BY DEF Check, TypeOK
  <2>2. capacity' \in [Bucket -> Limit \cup {0}]
    BY <1>1 DEF Check, TypeOK
  <2>3. tokens' \in [Bucket -> Nat]
    BY <1>4, <1>6 DEF Check, TypeOK
  <2>4. sinceRefill' \in [Bucket -> 0..Minute]
    BY LimiterAssumption DEF Check, TypeOK
  <2>5. \A a \in created' : capacity'[a] \in Limit
    BY <1>1, <1>5, <1>6, <2>1 DEF TypeOK
  <2>6. \A a \in created' : tokens'[a] <= capacity'[a] * Minute
    BY <1>6, <1>7, <2>1 DEF NeverOverfull
  <2> QED BY <2>1, <2>2, <2>3, <2>4, <2>5, <2>6 DEF TypeOK, NeverOverfull
<1> HIDE DEF found
<1> QED BY <1>2, <1>3, <1>4, <1>5, <1>6, <1>8 DEF found

LEMMA InitLimiterInv == Init => LimiterInv
BY LimiterAssumption DEF Init, LimiterInv, TypeOK, NeverOverfull, Conservation

LEMMA CheckKeepsInv ==
    ASSUME LimiterInv, NEW b \in Bucket, NEW n \in Limit, Check(b, n)
    PROVE  LimiterInv'
<1> DEFINE found == GetBucket(b, n)
<1>1. TypeOK' /\ NeverOverfull'
  BY CheckedBucket
<1>2. CASE b # Watched
  <2>1. winGrants' = winGrants /\ winAge' = winAge
    BY <1>2 DEF Check
  <2>2. Level(Watched)' = Level(Watched) /\ capacity'[Watched] = capacity[Watched]
    BY <1>2, CheckedBucket, LimiterAssumption DEF Level
  <2>3. Watched \in created' <=> Watched \in created
    BY <1>2, CheckedBucket, LimiterAssumption
  <2> QED BY <1>1, <2>1, <2>2, <2>3 DEF LimiterInv, Conservation
<1>3. CASE b = Watched
  <2>1. /\ b \in created' /\ winAge' = winAge /\ winAge \in Nat /\ winGrants \in Nat
        /\ Minute \in Nat /\ capacity'[b] \in Nat
    <3>1. b \in created' /\ winAge' = winAge
      BY CheckedBucket DEF Check
    <3>2. capacity'[b] \in Limit
      BY <1>1, <3>1 DEF TypeOK
    <3>3. winAge \in Nat /\ winGrants \in Nat
      BY ConstantsAreNat DEF LimiterInv, TypeOK
    <3> QED BY <3>1, <3>2, <3>3, ConstantsAreNat
  <2>2. Level(b)' <= tokens'[b] /\ Level(b)' \in Nat /\ tokens'[b] \in Nat
    <3>1. b \in created'
      BY <2>1
    <3>2. sinceRefill'[b] * capacity'[b] = 0
      BY <2>1, CheckedBucket
    <3>3. capacity'[b] * Minute \in Nat /\ tokens'[b] \in Nat
      BY <2>1, CheckedBucket, Products
    <3> QED BY <3>2, <3>3 DEF Level, AtMost
  <2>3. winGrants * Minute + found.level
            <= found.capacity * Minute + winAge * found.capacity
    <3>1. CASE b \in created
      BY <1>3, <3>1 DEF GetBucket, LimiterInv, Conservation
    <3>2. CASE b \notin created
      <4>1. winGrants = 0 /\ found.level = n * Minute /\ found.capacity = n
        BY <1>3, <3>2 DEF GetBucket, LimiterInv, Conservation
      <4>2. n \in Nat /\ n * Minute \in Nat /\ winAge * n \in Nat
        BY <2>1, LimiterAssumption, Products
      <4> QED BY <2>1, <4>1, <4>2
    <3> QED BY <3>1, <3>2
  <2>4. capacity'[b] = found.capacity /\ found.level \in Nat
    BY CheckedBucket
  <2>5. winGrants' * Minute + tokens'[b] = winGrants * Minute + found.level
    <3>1. CASE Allows(b, n)
      <4>1. winGrants' = winGrants + 1 /\ tokens'[b] = found.level - Minute
        BY <1>3, <3>1, CheckedBucket DEF Check
      <4>2. winGrants' * Minute = winGrants * Minute + Minute
        BY <2>1, <4>1, Products
      <4>3. winGrants * Minute \in Nat
        BY <2>1, Products
      <4> QED BY <2>1, <2>4, <4>1, <4>2, <4>3
    <3>2. CASE ~Allows(b, n)
      <4>1. winGrants' = winGrants
        BY <3>2 DEF Check
      <4>2. tokens'[b] = found.level
        BY <3>2, CheckedBucket
      <4> QED BY <4>1, <4>2
    <3> QED BY <3>1, <3>2
  <2>6. winGrants' \in Nat /\ winGrants' * Minute \in Nat /\ winAge * capacity'[b] \in Nat
        /\ capacity'[b] * Minute \in Nat /\ winGrants * Minute \in Nat
    BY <1>1, <2>1, Products DEF TypeOK
  <2>7. winGrants' * Minute + Level(b)' <= capacity'[b] * Minute + winAge' * capacity'[b]
    BY <2>1, <2>2, <2>3, <2>4, <2>5, <2>6
  <2> QED BY <1>1, <1>3, <2>1, <2>7 DEF LimiterInv, Conservation
<1> QED BY <1>2, <1>3

LEMMA TickKeepsInv ==
    ASSUME LimiterInv, Tick
    PROVE  LimiterInv'
<1>1. TypeOK' /\ NeverOverfull'
  BY LimiterAssumption DEF LimiterInv, TypeOK, NeverOverfull, Tick, AtMost
<1>2. CASE Watched \notin created
  BY <1>1, <1>2 DEF LimiterInv, Conservation, Tick
<1>3. CASE Watched \in created
  <2> DEFINE c == capacity[Watched]
  <2>1. /\ c \in Nat /\ Minute \in Nat /\ winAge \in Nat /\ winGrants \in Nat
        /\ tokens[Watched] \in Nat /\ sinceRefill[Watched] \in 0..Minute
        /\ Watched \in Bucket
    <3>1. winAge \in Nat /\ winGrants \in Nat
      BY ConstantsAreNat DEF LimiterInv, TypeOK
    <3> QED BY <1>3, <3>1, BucketTypes, ConstantsAreNat DEF LimiterInv
  <2>2. /\ capacity'[Watched] = c /\ tokens'[Watched] = tokens[Watched]
        /\ sinceRefill'[Watched] = AtMost(sinceRefill[Watched] + 1, Minute)
        /\ Watched \in created'
    BY <1>3, <2>1 DEF Tick
  <2>3. Level(Watched)' \in Nat /\ Level(Watched)' <= c * Minute
    <3>1. c * Minute \in Nat /\ sinceRefill'[Watched] * c \in Nat
      BY <1>1, <2>1, <2>2, Products DEF TypeOK
    <3> QED BY <2>1, <2>2, <3>1 DEF Level, AtMost
  <2>4. CASE winAge = Minute
    <3>1. winAge' = 0 /\ winGrants' = 0
      BY <2>4, <2>1 DEF Tick
    <3> QED BY <1>1, <2>1, <2>2, <2>3, <3>1 DEF LimiterInv, Conservation
  <2>5. CASE winAge < Minute
    <3>1. winAge' = winAge + 1 /\ winGrants' = winGrants
      BY <2>5 DEF Tick
    <3>2. winAge' * c = winAge * c + c /\ winAge * c \in Nat /\ winGrants * Minute \in Nat
          /\ c * Minute \in Nat
      BY <2>1, <3>1, Products
    <3>3. Level(Watched)' <= Level(Watched) + c
      <4>1. CASE sinceRefill[Watched] < Minute
        <5>1. sinceRefill'[Watched] * c = sinceRefill[Watched] * c + c
              /\ sinceRefill[Watched] * c \in Nat
          BY <2>1, <2>2, <4>1, Products DEF AtMost
        <5> QED BY <2>1, <2>2, <3>2, <5>1 DEF Level, AtMost
      <4>2. CASE sinceRefill[Watched] = Minute
        <5>1. sinceRefill'[Watched] = sinceRefill[Watched]
          BY <2>1, <2>2, <4>2 DEF AtMost
        <5>2. Level(Watched)' = Level(Watched) /\ Level(Watched) \in Nat
          BY <1>3, <2>2, <5>1, LevelBounds DEF Level, LimiterInv
        <5> QED BY <2>1, <5>2
      <4> QED BY <2>1, <4>1, <4>2
    <3>4. winGrants * Minute + Level(Watched) <= c * Minute + winAge * c
      BY <1>3 DEF LimiterInv, Conservation
    <3>5. Level(Watched) \in Nat
      BY <1>3, LevelBounds DEF LimiterInv
    <3>6. winGrants' * Minute + Level(Watched)' <= c * Minute + winAge' * c
      BY <2>1, <2>3, <3>1, <3>2, <3>3, <3>4, <3>5
    <3> QED BY <1>1, <2>2, <3>6 DEF LimiterInv, Conservation
  <2> QED BY <2>1, <2>4, <2>5 DEF LimiterInv, TypeOK
<1> QED BY <1>2, <1>3

LEMMA ObserveKeepsInv ==
    ASSUME LimiterInv, Observe
    PROVE  LimiterInv'
<1>1. TypeOK' /\ NeverOverfull'
  BY LimiterAssumption DEF LimiterInv, TypeOK, NeverOverfull, Observe, buckets
<1>2. Level(Watched)' = Level(Watched) /\ UNCHANGED <<created, capacity>>
  BY DEF Observe, buckets, Level
<1>3. ASSUME Watched \in created
      PROVE  0 * Minute + Level(Watched) <= capacity[Watched] * Minute + 0 * capacity[Watched]
  BY <1>3, LevelBounds, LimiterAssumption DEF LimiterInv
<1> QED BY <1>1, <1>2, <1>3 DEF LimiterInv, Conservation, Observe

LEMMA NextKeepsInv == LimiterInv /\ [Next]_limiterVars => LimiterInv'
<1>1. ASSUME LimiterInv, UNCHANGED limiterVars PROVE LimiterInv'
  BY <1>1 DEF limiterVars, LimiterInv, TypeOK, NeverOverfull, Conservation, Level
<1> QED BY <1>1, CheckKeepsInv, TickKeepsInv, ObserveKeepsInv DEF Next

\* The accounting invariant, type correctness included.
THEOREM LimiterInvariant == Spec => []LimiterInv
BY InitLimiterInv, NextKeepsInv, PTL DEF Spec

\* A check takes from no bucket but its own, and from that only what it allows.
LEMMA OnlyGrantsLower ==
    ASSUME LimiterInv, NEW b \in Bucket, NEW n \in Limit, Check(b, n),
           NEW a \in created, Level(a)' < Level(a)
    PROVE  a = b /\ Allows(b, n)
<1>1. /\ a \in Bucket /\ TypeOK /\ Level(a) \in Nat /\ Level(a) <= capacity[a] * Minute
      /\ Minute \in Nat
  BY LevelBounds, BucketTypes, ConstantsAreNat DEF LimiterInv
<1>2. a = b
  <2>1. a # b => Level(a)' = Level(a)
    BY <1>1, CheckedBucket DEF Level
  <2> QED BY <1>1, <2>1
<1>3. ASSUME ~Allows(b, n) PROVE FALSE
  <2>1. tokens'[b] = Level(b) /\ capacity'[b] = capacity[b] /\ sinceRefill'[b] = 0
    BY <1>2, <1>3, CheckedBucket DEF GetBucket
  <2>2. capacity[b] \in Nat /\ sinceRefill'[b] * capacity'[b] = 0
    BY <1>1, <1>2, <2>1, BucketTypes
  <2>3. Level(b)' = Level(b)
    BY <1>1, <1>2, <2>1, <2>2 DEF Level, AtMost
  <2> QED BY <1>1, <1>2, <2>3
<1> QED BY <1>2, <1>3

\* Time only fills a bucket.
LEMMA TimeOnlyFills ==
    ASSUME LimiterInv, Tick, NEW a \in created
    PROVE  Level(a)' >= Level(a) /\ Level(a)' \in Nat
<1>1. /\ a \in Bucket /\ capacity[a] \in Nat /\ tokens[a] \in Nat /\ Minute \in Nat
      /\ sinceRefill[a] \in 0..Minute /\ sinceRefill[a] \in Nat
  BY BucketTypes, ConstantsAreNat DEF LimiterInv
<1>2. /\ capacity'[a] = capacity[a] /\ tokens'[a] = tokens[a]
      /\ sinceRefill'[a] = AtMost(sinceRefill[a] + 1, Minute)
  BY <1>1 DEF Tick
<1>3. sinceRefill'[a] \in Nat /\ sinceRefill[a] <= sinceRefill'[a]
  BY <1>1, <1>2 DEF AtMost
<1>4. /\ sinceRefill[a] * capacity[a] <= sinceRefill'[a] * capacity[a]
      /\ sinceRefill[a] * capacity[a] \in Nat /\ sinceRefill'[a] * capacity[a] \in Nat
      /\ capacity[a] * Minute \in Nat
  BY <1>1, <1>3, Products
<1> QED BY <1>1, <1>2, <1>4 DEF Level, AtMost

\* A window of t ticks sees at most N + t * N/Minute requests of a bucket of N.
THEOREM BurstsAreBounded == Spec => []BurstBound
<1>1. LimiterInv => BurstBound
  <2> SUFFICES ASSUME LimiterInv, Watched \in created PROVE BurstBound
    BY DEF BurstBound
  <2>1. winGrants * Minute + Level(Watched)
            <= capacity[Watched] * Minute + winAge * capacity[Watched]
    BY DEF LimiterInv, Conservation
  <2>2. Level(Watched) \in Nat /\ capacity[Watched] \in Nat /\ capacity[Watched] * Minute \in Nat
    BY LevelBounds DEF LimiterInv
  <2>3. winGrants * Minute \in Nat /\ winAge * capacity[Watched] \in Nat
    BY <2>2, LimiterAssumption, Products DEF LimiterInv, TypeOK
  <2> QED BY <2>1, <2>2, <2>3 DEF BurstBound
<1> QED BY <1>1, LimiterInvariant, PTL
=============================================================================
