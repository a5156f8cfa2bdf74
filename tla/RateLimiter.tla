---------------------------- MODULE RateLimiter ----------------------------
(***************************************************************************)
(* The token buckets of backend/app/services/rate_limiter.py.              *)
(*                                                                         *)
(* N requests per minute is a bucket of N tokens that refills at N/60 per  *)
(* second.  A tick is 1/Minute of a minute and a token is counted as       *)
(* Minute units, so that a bucket of capacity N gains N units per tick and *)
(* no fraction is lost.  check_rate_limit() has no await but uncontended   *)
(* locks and is one step.  Refilling is lazy, as in the code: it happens   *)
(* when the bucket is next asked.                                          *)
(***************************************************************************)
EXTENDS Integers

CONSTANTS
    Bucket,   \* the keys of _buckets
    Limit,    \* the values requests_per_minute may have
    Minute,   \* ticks per minute
    Watched   \* the bucket the sliding window below observes

ASSUME LimiterAssumption ==
    /\ Limit \subseteq Nat \ {0}
    /\ Minute \in Nat \ {0}
    /\ Watched \in Bucket

VARIABLES
    created,      \* the keys that have a RateLimiter
    capacity,     \* _capacity
    tokens,       \* _tokens, in units
    sinceRefill,  \* ticks since _last_refill, saturating at Minute
    winAge,       \* history: the age of the window being observed
    winGrants     \* history: requests the watched bucket allowed in it

buckets == <<created, capacity, tokens, sinceRefill>>
window == <<winAge, winGrants>>
limiterVars == <<created, capacity, tokens, sinceRefill, winAge, winGrants>>

TypeOK ==
    /\ created \subseteq Bucket
    /\ capacity \in [Bucket -> Limit \cup {0}]
    /\ \A b \in created : capacity[b] \in Limit
    /\ tokens \in [Bucket -> Nat]
    /\ sinceRefill \in [Bucket -> 0..Minute]
    /\ winAge \in 0..Minute
    /\ winGrants \in Nat

Init ==
    /\ created = {}
    /\ capacity = [b \in Bucket |-> 0]
    /\ tokens = [b \in Bucket |-> 0]
    /\ sinceRefill = [b \in Bucket |-> 0]
    /\ winAge = 0
    /\ winGrants = 0

-----------------------------------------------------------------------------
AtMost(n, max) == IF n <= max THEN n ELSE max

\* Variant: a refill is not clamped to the capacity.
LevelUnclamped(b) == tokens[b] + sinceRefill[b] * capacity[b]

\* What the bucket holds once it has been refilled up to now.
Level(b) == AtMost(tokens[b] + sinceRefill[b] * capacity[b], capacity[b] * Minute)

\* Variant: an existing bucket is replaced when it is asked again.
GetBucketAnew(b, n) == [capacity |-> n, level |-> n * Minute]

\* _get_bucket(): a new bucket is full; an old one keeps the capacity it was
\* created with, whatever n is now.
GetBucket(b, n) ==
    IF b \in created THEN [capacity |-> capacity[b], level |-> Level(b)]
                     ELSE [capacity |-> n, level |-> n * Minute]

Allows(b, n) == GetBucket(b, n).level >= Minute

\* check_rate_limit(b, n)
Check(b, n) ==
    LET found == GetBucket(b, n) IN
    /\ created' = created \cup {b}
    /\ capacity' = [capacity EXCEPT ![b] = found.capacity]
    /\ tokens' = [tokens EXCEPT ![b] = IF Allows(b, n) THEN found.level - Minute
                                                       ELSE found.level]
    /\ sinceRefill' = [sinceRefill EXCEPT ![b] = 0]
    /\ winGrants' = IF b = Watched /\ Allows(b, n) THEN winGrants + 1 ELSE winGrants
    /\ UNCHANGED winAge

\* Time passes; a window that is a minute old gives way to the next one.
Tick ==
    /\ sinceRefill' = [b \in Bucket |-> IF b \in created THEN AtMost(sinceRefill[b] + 1, Minute)
                                                         ELSE 0]
    /\ IF winAge < Minute THEN winAge' = winAge + 1 /\ UNCHANGED winGrants
                          ELSE winAge' = 0 /\ winGrants' = 0
    /\ UNCHANGED <<created, capacity, tokens>>

\* The observer starts a window, at any time.
Observe ==
    /\ winAge' = 0
    /\ winGrants' = 0
    /\ UNCHANGED buckets

Next ==
    \/ \E b \in Bucket, n \in Limit : Check(b, n)
    \/ Tick
    \/ Observe

Spec == Init /\ [][Next]_limiterVars

-----------------------------------------------------------------------------
\* The burst bound: in whatever window of winAge ticks, a bucket of capacity N
\* allows at most N requests and the N/60 per second that flow in.  A burst of
\* twice the limit, which a fixed window lets through at its boundary, needs a
\* whole minute here.
BurstBound ==
    Watched \in created =>
        winGrants * Minute <= capacity[Watched] * Minute + winAge * capacity[Watched]

\* Why the bound holds: what was granted in the window and what is left to
\* grant now came from a full bucket and the refill since the window began.
Conservation ==
    /\ Watched \in created =>
          winGrants * Minute + Level(Watched)
              <= capacity[Watched] * Minute + winAge * capacity[Watched]
    /\ Watched \notin created => winGrants = 0

\* A bucket never holds more than its capacity.
NeverOverfull == \A b \in created : tokens[b] <= capacity[b] * Minute

LimiterInv == TypeOK /\ NeverOverfull /\ Conservation
=============================================================================
