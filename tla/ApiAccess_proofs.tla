-------------------------- MODULE ApiAccess_proofs --------------------------
(***************************************************************************)
(* require_api_key uses the token buckets as RateLimiter specifies them    *)
(* (a refinement), so the burst bound proved there holds for admissions.   *)
(***************************************************************************)
EXTENDS ApiAccess, TLAPS

LimiterTheorems == INSTANCE RateLimiter_proofs
    WITH Bucket <- BucketKey, Limit <- Rate, Watched <- <<WatchedKey, WatchedIp>>

\* The types of everything but the buckets.
RequestTypes ==
    /\ pc \in [Request -> {"idle", "arrived", "looked"} \cup Response]
    /\ bornDead \in [Request -> BOOLEAN]
    /\ revoked \subseteq ApiKey
    /\ caller \in [Request -> Caller]
    /\ row \in [Request -> Row]
    /\ rate \in [ApiKey -> Rate]

LEMMA SomeRate == SomeRow \in Row /\ SomeCaller \in Caller
<1>1. (CHOOSE n \in Rate : TRUE) \in Rate
  BY AccessAssumption
<1>2. SomeRow \in Row
  BY <1>1 DEF SomeRow, Row
<1>3. SomeCaller \in Caller
  BY AccessAssumption DEF SomeCaller, Caller
<1> QED BY <1>2, <1>3

LEMMA RequestTypesInvariant == Spec => []RequestTypes
<1>1. Init => RequestTypes
  BY SomeRate DEF Init, RequestTypes
<1>2. RequestTypes /\ [Next]_vars => RequestTypes'
  <2> SUFFICES ASSUME RequestTypes, [Next]_vars PROVE RequestTypes'
    OBVIOUS
  <2> USE DEF RequestTypes
  <2>1. ASSUME NEW q \in Request, NEW c \in Caller, Arrive(q, c) PROVE RequestTypes'
    BY <2>1 DEF Arrive
  <2>2. ASSUME NEW q \in Request, Lookup(q) PROVE RequestTypes'
    <3>1. caller[q].key # NoKey => rate[caller[q].key] \in Rate
      BY DEF Caller
    <3>2. caller[q].key # NoKey
            => [revoked |-> caller[q].key \in revoked, rate |-> rate[caller[q].key]] \in Row
      BY <3>1 DEF Row
    <3> QED BY <2>2, <3>2 DEF Lookup
  <2>3. ASSUME NEW q \in Request, Reject(q) \/ RateLimit(q) PROVE RequestTypes'
    BY <2>3 DEF Reject, RateLimit, Answer, Response
  <2>4. ASSUME NEW q \in Request, Leave(q) PROVE RequestTypes'
    BY <2>4, SomeRate DEF Leave
  <2>5. ASSUME NEW k \in ApiKey, Revoke(k) \/ \E n \in Rate : SetRate(k, n)
        PROVE  RequestTypes'
    BY <2>5 DEF Revoke, SetRate, request
  <2>6. CASE Tick \/ Observe \/ UNCHANGED vars
    BY <2>6 DEF Tick, Observe, request, vars
  <2> QED BY <2>1, <2>2, <2>3, <2>4, <2>5, <2>6 DEF Next
<1> QED BY <1>1, <1>2, PTL DEF Spec

\* Every step of require_api_key is a check of one bucket, the passing of time,
\* or leaves the buckets alone.
LEMMA StepsRefineLimiter ==
    ASSUME RequestTypes, [Next]_vars
    PROVE  [Limiter!Next]_(Limiter!limiterVars)
<1>1. ASSUME NEW q \in Request, RateLimit(q)
      PROVE  Limiter!Next
  <2>1. BucketOf(caller[q]) \in BucketKey
    BY <1>1 DEF RateLimit, Rejected, BucketOf, BucketKey, RequestTypes, Caller
  <2>2. row[q].rate \in Rate
    BY DEF RequestTypes, Row
  <2> QED BY <1>1, <2>1, <2>2 DEF RateLimit, Limiter!Next
<1>2. ASSUME Tick \/ Observe
      PROVE  Limiter!Next
  BY <1>2 DEF Tick, Observe, Limiter!Next
<1>3. ASSUME UNCHANGED limiterVars
      PROVE  UNCHANGED Limiter!limiterVars
  BY <1>3 DEF limiterVars, Limiter!limiterVars
<1>4. ASSUME NEW q \in Request,
             (\E c \in Caller : Arrive(q, c)) \/ Lookup(q) \/ Reject(q) \/ Leave(q)
      PROVE  UNCHANGED limiterVars
  BY <1>4 DEF Arrive, Lookup, Reject, Leave
<1>5. ASSUME NEW k \in ApiKey, Revoke(k) \/ \E n \in Rate : SetRate(k, n)
      PROVE  UNCHANGED limiterVars
  BY <1>5 DEF Revoke, SetRate
<1>6. UNCHANGED vars => UNCHANGED limiterVars
  BY DEF vars
<1> QED BY <1>1, <1>2, <1>3, <1>4, <1>5, <1>6 DEF Next

\* The key check implements the specification of the token buckets.
THEOREM ImplementsLimiter == Spec => Limiter!Spec
<1>1. Init => Limiter!Init
  BY DEF Init
<1> QED BY <1>1, StepsRefineLimiter, RequestTypesInvariant, PTL DEF Spec, Limiter!Spec

\* Both instances of the token buckets are the same specification.
LEMMA SpecsAgree == Limiter!Spec => LimiterTheorems!Spec
<1>1. LimiterTheorems!Init <=> Limiter!Init
  BY DEF LimiterTheorems!Init, Limiter!Init
<1>2. LimiterTheorems!Next <=> Limiter!Next
  BY DEF LimiterTheorems!Next, Limiter!Next, LimiterTheorems!Check, Limiter!Check,
         LimiterTheorems!Tick, Limiter!Tick, LimiterTheorems!Observe, Limiter!Observe,
         LimiterTheorems!GetBucket, Limiter!GetBucket, LimiterTheorems!Allows, Limiter!Allows,
         LimiterTheorems!Level, Limiter!Level, LimiterTheorems!AtMost, Limiter!AtMost,
         LimiterTheorems!buckets, Limiter!buckets
<1>3. [Limiter!Next]_(Limiter!limiterVars)
      => [LimiterTheorems!Next]_(LimiterTheorems!limiterVars)
  BY <1>2 DEF LimiterTheorems!limiterVars, Limiter!limiterVars
<1> QED BY <1>1, <1>3, PTL DEF LimiterTheorems!Spec, Limiter!Spec

\* The admissions of any window obey the burst bound of their bucket, whatever
\* the operator does to keys and limits meanwhile.
THEOREM AdmissionsAreBounded == Spec => []AdmissionsBounded
<1>1. LimiterTheorems!Spec => []LimiterTheorems!BurstBound
  BY LimiterTheorems!BurstsAreBounded, AccessAssumption DEF BucketKey
<1>2. LimiterTheorems!BurstBound => AdmissionsBounded
  BY DEF LimiterTheorems!BurstBound, Limiter!BurstBound, AdmissionsBounded
<1> QED BY <1>1, <1>2, SpecsAgree, ImplementsLimiter, PTL

\* One step of the key check keeps what was read about a revoked key.
LEMMA StepsKeepRevocation ==
    ASSUME RequestTypes, ReadsRevocation, RevocationHolds, [Next]_vars
    PROVE  ReadsRevocation' /\ RevocationHolds'
<1> USE DEF RequestTypes, ReadsRevocation, RevocationHolds
<1>1. ASSUME NEW q \in Request, NEW c \in Caller, Arrive(q, c)
      PROVE  ReadsRevocation' /\ RevocationHolds'
  BY <1>1 DEF Arrive
<1>2. ASSUME NEW q \in Request, Lookup(q)
      PROVE  ReadsRevocation' /\ RevocationHolds'
  <2>1. caller[q].key # NoKey
          => row'[q] = [revoked |-> caller[q].key \in revoked, rate |-> rate[caller[q].key]]
    BY <1>2 DEF Lookup
  <2>2. caller[q].key = NoKey => row'[q] = row[q]
    BY <1>2 DEF Lookup
  <2>3. pc' = [pc EXCEPT ![q] = "looked"] /\ UNCHANGED <<revoked, caller, bornDead>>
    BY <1>2 DEF Lookup
  <2>4. \A r \in Request : r # q => row'[r] = row[r]
    BY <1>2 DEF Lookup
  <2>5. caller[q].key = NoKey => ~bornDead[q]
    BY <1>2, AccessAssumption DEF RequestTypes
  <2> QED BY <2>1, <2>2, <2>3, <2>4, <2>5
<1>3. ASSUME NEW q \in Request, Reject(q) \/ RateLimit(q)
      PROVE  ReadsRevocation' /\ RevocationHolds'
  BY <1>3 DEF Reject, RateLimit, Rejected, Answer
<1>4. ASSUME NEW q \in Request, Leave(q)
      PROVE  ReadsRevocation' /\ RevocationHolds'
  BY <1>4 DEF Leave
<1>5. ASSUME NEW k \in ApiKey, Revoke(k) \/ \E n \in Rate : SetRate(k, n)
      PROVE  ReadsRevocation' /\ RevocationHolds'
  BY <1>5 DEF Revoke, SetRate, request
<1>6. CASE Tick \/ Observe \/ UNCHANGED vars
  BY <1>6 DEF Tick, Observe, request, vars
<1> QED BY <1>1, <1>2, <1>3, <1>4, <1>5, <1>6 DEF Next

\* A request that arrives after its key was revoked never reaches a handler.
THEOREM RevocationIsFinal == Spec => []RevocationHolds
<1>1. Init => ReadsRevocation /\ RevocationHolds
  BY DEF Init, ReadsRevocation, RevocationHolds
<1> QED BY <1>1, StepsKeepRevocation, RequestTypesInvariant, PTL DEF Spec

\* The types, buckets included, and what has been read of the keys, for any keys,
\* addresses and limits.
THEOREM AccessInvariant == Spec => []AccessInv
<1>1. Limiter!Spec => []Limiter!TypeOK
  <2>1. Limiter!Spec => LimiterTheorems!Spec
    BY SpecsAgree
  <2>2. LimiterTheorems!Spec => []LimiterTheorems!LimiterInv
    BY LimiterTheorems!LimiterInvariant, AccessAssumption DEF BucketKey
  <2>3. LimiterTheorems!LimiterInv => Limiter!TypeOK
    BY DEF LimiterTheorems!LimiterInv, LimiterTheorems!TypeOK, Limiter!TypeOK
  <2> QED BY <2>1, <2>2, <2>3, PTL
<1>2. Limiter!TypeOK /\ RequestTypes /\ ReadsRevocation /\ RevocationHolds => AccessInv
  BY DEF AccessInv, TypeOK, RequestTypes
<1>3. Init => ReadsRevocation /\ RevocationHolds
  BY DEF Init, ReadsRevocation, RevocationHolds
<1> QED BY <1>1, <1>2, <1>3, ImplementsLimiter, StepsKeepRevocation, RequestTypesInvariant, PTL DEF Spec

\* A step that takes from a bucket admits the request that it takes from it.
LEMMA StepsChargeAdmitted ==
    ASSUME RequestTypes, LimiterTheorems!LimiterInv, [Next]_vars,
           NEW b \in created, Limiter!Level(b)' < Limiter!Level(b)
    PROVE  \E q \in Request : /\ pc[q] = "looked" /\ pc'[q] = "admitted"
                              /\ row[q].revoked = FALSE
                              /\ caller[q].key = b[1]
                              /\ b[1] \in Publishable => b[2] = caller[q].ip
<1>1. /\ LimiterTheorems!Level(b) = Limiter!Level(b)
      /\ LimiterTheorems!Level(b)' = Limiter!Level(b)'
  BY DEF LimiterTheorems!Level, Limiter!Level, LimiterTheorems!AtMost, Limiter!AtMost
<1>2. Limiter!Level(b) \in Nat
  BY <1>1, LimiterTheorems!LevelBounds, AccessAssumption
     DEF LimiterTheorems!LimiterInv, BucketKey
<1>3. ~UNCHANGED limiterVars
  BY <1>2 DEF limiterVars, Limiter!Level
<1>4. ASSUME Limiter!Tick \/ Limiter!Observe PROVE FALSE
  <2>1. CASE Limiter!Observe
    BY <1>2, <2>1 DEF Limiter!Observe, Limiter!buckets, Limiter!Level
  <2>2. CASE Limiter!Tick
    <3>1. LimiterTheorems!Tick
      BY <2>2 DEF Limiter!Tick, LimiterTheorems!Tick, Limiter!AtMost, LimiterTheorems!AtMost
    <3>2. /\ LimiterTheorems!Level(b)' >= LimiterTheorems!Level(b)
          /\ LimiterTheorems!Level(b)' \in Nat
      BY <3>1, LimiterTheorems!TimeOnlyFills, AccessAssumption DEF BucketKey
    <3> QED BY <1>1, <1>2, <3>2
  <2> QED BY <1>4, <2>1, <2>2
<1>5. PICK q \in Request : RateLimit(q)
  <2>1. ASSUME NEW q \in Request,
               (\E c \in Caller : Arrive(q, c)) \/ Lookup(q) \/ Reject(q) \/ Leave(q)
        PROVE  FALSE
    BY <1>3, <2>1 DEF Arrive, Lookup, Reject, Leave
  <2>2. ASSUME NEW k \in ApiKey, Revoke(k) \/ \E n \in Rate : SetRate(k, n)
        PROVE  FALSE
    BY <1>3, <2>2 DEF Revoke, SetRate
  <2>3. ~UNCHANGED vars
    BY <1>3 DEF vars
  <2>4. ~Tick /\ ~Observe
    BY <1>4 DEF Tick, Observe
  <2> QED BY <2>1, <2>2, <2>3, <2>4 DEF Next
<1> DEFINE c == caller[q]
           bucket == BucketOf(c)
           n == row[q].rate
<1>6. bucket \in BucketKey /\ n \in Rate /\ c \in Caller
  BY <1>5 DEF RateLimit, Rejected, BucketOf, BucketKey, RequestTypes, Caller, Row
<1>7. Limiter!Check(bucket, n)
  BY <1>5 DEF RateLimit
<1>8. b = bucket /\ Limiter!Allows(bucket, n)
  <2>1. LimiterTheorems!Check(bucket, n)
    BY <1>7 DEF LimiterTheorems!Check, Limiter!Check, LimiterTheorems!GetBucket,
                Limiter!GetBucket, LimiterTheorems!Allows, Limiter!Allows,
                LimiterTheorems!Level, Limiter!Level, LimiterTheorems!AtMost, Limiter!AtMost
  <2> HIDE DEF bucket, n
  <2>2. b = bucket /\ LimiterTheorems!Allows(bucket, n)
    BY <1>1, <1>6, <2>1, LimiterTheorems!OnlyGrantsLower, AccessAssumption DEF BucketKey
  <2> QED
    BY <2>2 DEF LimiterTheorems!Allows, Limiter!Allows, LimiterTheorems!GetBucket,
                Limiter!GetBucket, LimiterTheorems!Level, Limiter!Level,
                LimiterTheorems!AtMost, Limiter!AtMost
<1>9. pc[q] = "looked" /\ pc'[q] = "admitted"
  BY <1>5, <1>8 DEF RateLimit, Answer, RequestTypes
<1>10. row[q].revoked = FALSE
  BY <1>5 DEF RateLimit, Rejected, RequestTypes, Row
<1>11. c.key = b[1] /\ (b[1] \in Publishable => b[2] = c.ip)
  BY <1>8 DEF BucketOf
<1> QED BY <1>9, <1>10, <1>11

\* Nobody but the requests that are admitted uses up anyone's tokens, for any number
\* of requests, keys and addresses, and whatever limits the operator sets.
THEOREM ChargesAreAdmissions == Spec => OnlyAdmittedPay
<1>1. Limiter!Spec => []LimiterTheorems!LimiterInv
  <2>1. LimiterTheorems!Spec => []LimiterTheorems!LimiterInv
    BY LimiterTheorems!LimiterInvariant, AccessAssumption DEF BucketKey
  <2> QED BY <2>1, SpecsAgree, PTL
<1>2. RequestTypes /\ LimiterTheorems!LimiterInv /\ [Next]_vars
        => [\A b \in created :
              Limiter!Level(b)' < Limiter!Level(b) =>
                  \E q \in Request : /\ pc[q] = "looked" /\ pc'[q] = "admitted"
                                     /\ row[q].revoked = FALSE
                                     /\ caller[q].key = b[1]
                                     /\ b[1] \in Publishable => b[2] = caller[q].ip]_vars
  BY StepsChargeAdmitted
<1> QED BY <1>1, <1>2, ImplementsLimiter, RequestTypesInvariant, PTL DEF Spec, OnlyAdmittedPay
=============================================================================
