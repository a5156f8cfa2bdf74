----------------------------- MODULE ApiAccess -----------------------------
(***************************************************************************)
(* require_api_key (backend/app/api/auth.py) over the token buckets of     *)
(* RateLimiter.  The SELECT of the api_keys row is awaited, so requests    *)
(* and the operator (who revokes keys and changes their limits in the      *)
(* table) interleave between it and the decision; the rest of the          *)
(* dependency does not yield.                                              *)
(***************************************************************************)
EXTENDS Naturals

CONSTANTS
    Request,      \* requests in flight
    ApiKey,       \* issued keys
    Publishable,  \* those with key_type = 'publishable'
    Ip,           \* client addresses
    Rate,         \* possible values of rate_limit_per_minute
    Minute,       \* ticks per minute
    AnyIp,        \* stands for "no address" in the bucket of a secret key
    NoKey,        \* a missing or unknown X-API-Key
    WatchedKey, WatchedIp   \* the bucket whose window is observed

ASSUME AccessAssumption ==
    /\ Publishable \subseteq ApiKey
    /\ AnyIp \notin Ip
    /\ NoKey \notin ApiKey
    /\ Rate \subseteq Nat \ {0} /\ Rate # {}
    /\ Minute \in Nat \ {0}
    /\ WatchedKey \in ApiKey /\ WatchedIp \in Ip

VARIABLES
    created, capacity, tokens, sinceRefill, winAge, winGrants,  \* RateLimiter
    revoked,   \* keys with revoked_at set
    rate,      \* rate_limit_per_minute
    pc,        \* "idle", "looked" or the response: "admitted", 401, 429
    caller,    \* the key, address and origin a request came with
    row,       \* the api_keys row it read
    bornDead   \* history: was its key revoked when the request arrived?

BucketKey == ApiKey \X (Ip \cup {AnyIp})

Limiter == INSTANCE RateLimiter
    WITH Bucket <- BucketKey, Limit <- Rate, Watched <- <<WatchedKey, WatchedIp>>

limiterVars == <<created, capacity, tokens, sinceRefill, winAge, winGrants>>
request == <<pc, caller, row, bornDead>>
vars == <<limiterVars, revoked, rate, request>>

\* The Origin header is only read for publishable keys.
Caller ==
    {c \in [key : ApiKey \cup {NoKey}, ip : Ip, originAllowed : BOOLEAN] :
        c.key \in Publishable \/ ~c.originAllowed}
Row == [revoked : BOOLEAN, rate : Rate]
Response == {"admitted", "401", "429"}

TypeOK ==
    /\ Limiter!TypeOK
    /\ revoked \subseteq ApiKey
    /\ rate \in [ApiKey -> Rate]
    /\ pc \in [Request -> {"idle", "arrived", "looked"} \cup Response]
    /\ caller \in [Request -> Caller]
    /\ row \in [Request -> Row]
    /\ bornDead \in [Request -> BOOLEAN]

SomeCaller == [key |-> NoKey, ip |-> WatchedIp, originAllowed |-> FALSE]
SomeRow == [revoked |-> TRUE, rate |-> CHOOSE n \in Rate : TRUE]

Init ==
    /\ Limiter!Init
    /\ revoked = {}
    /\ rate \in [ApiKey -> Rate]
    /\ pc = [q \in Request |-> "idle"]
    /\ caller = [q \in Request |-> SomeCaller]
    /\ row = [q \in Request |-> SomeRow]
    /\ bornDead = [q \in Request |-> FALSE]

-----------------------------------------------------------------------------
\* A publishable key is shared by every visitor of the frontend and has a
\* bucket per client address; a secret key has one bucket.
BucketOf(c) == IF c.key \in Publishable THEN <<c.key, c.ip>> ELSE <<c.key, AnyIp>>

\* Variant: revoked_at is not looked at.
RejectedIgnoringRevocation(q) ==
    \/ caller[q].key = NoKey
    \/ caller[q].key \in Publishable /\ ~caller[q].originAllowed

\* Missing, unknown or revoked key, or a publishable key from a foreign Origin
\* (or without one, or without an allowlist).
Rejected(q) ==
    \/ caller[q].key = NoKey
    \/ row[q].revoked
    \/ caller[q].key \in Publishable /\ ~caller[q].originAllowed

Arrive(q, c) ==
    /\ pc[q] = "idle"
    /\ pc' = [pc EXCEPT ![q] = "arrived"]
    /\ caller' = [caller EXCEPT ![q] = c]
    /\ bornDead' = [bornDead EXCEPT ![q] = c.key \in revoked]
    /\ UNCHANGED <<limiterVars, revoked, rate, row>>

\* SELECT ... FROM api_keys WHERE key_hash = $1; a missing header is rejected
\* without it, with the same response.
Lookup(q) ==
    /\ pc[q] = "arrived"
    /\ pc' = [pc EXCEPT ![q] = "looked"]
    /\ row' = IF caller[q].key = NoKey THEN row
              ELSE [row EXCEPT ![q] = [revoked |-> caller[q].key \in revoked,
                                       rate |-> rate[caller[q].key]]]
    /\ UNCHANGED <<limiterVars, revoked, rate, caller, bornDead>>

Answer(q, response) == pc' = [pc EXCEPT ![q] = response]

Reject(q) ==
    /\ pc[q] = "looked"
    /\ Rejected(q)
    /\ Answer(q, "401")
    /\ UNCHANGED <<limiterVars, revoked, rate, caller, row, bornDead>>

\* Variant: the bucket is charged before the key is checked.
RateLimitFirst(q) ==
    /\ pc[q] = "looked"
    /\ caller[q].key # NoKey
    /\ Limiter!Check(BucketOf(caller[q]), row[q].rate)
    /\ Answer(q, CASE Rejected(q) -> "401"
                   [] Limiter!Allows(BucketOf(caller[q]), row[q].rate) -> "admitted"
                   [] OTHER -> "429")
    /\ UNCHANGED <<revoked, rate, caller, row, bornDead>>

\* check_rate_limit(bucket_key, rate_limit), with the limit of the row it read.
RateLimit(q) ==
    /\ pc[q] = "looked"
    /\ ~Rejected(q)
    /\ Limiter!Check(BucketOf(caller[q]), row[q].rate)
    /\ Answer(q, IF Limiter!Allows(BucketOf(caller[q]), row[q].rate) THEN "admitted" ELSE "429")
    /\ UNCHANGED <<revoked, rate, caller, row, bornDead>>

\* The response has been sent; the slot is free for another request.
Leave(q) ==
    /\ pc[q] \in Response
    /\ pc' = [pc EXCEPT ![q] = "idle"]
    /\ caller' = [caller EXCEPT ![q] = SomeCaller]
    /\ row' = [row EXCEPT ![q] = SomeRow]
    /\ bornDead' = [bornDead EXCEPT ![q] = FALSE]
    /\ UNCHANGED <<limiterVars, revoked, rate>>

\* The operator works on the table directly; a key is never un-revoked.
Revoke(k) ==
    /\ revoked' = revoked \cup {k}
    /\ UNCHANGED <<limiterVars, rate, request>>

SetRate(k, n) ==
    /\ rate' = [rate EXCEPT ![k] = n]
    /\ UNCHANGED <<limiterVars, revoked, request>>

Tick ==
    /\ Limiter!Tick
    /\ UNCHANGED <<revoked, rate, request>>

Observe ==
    /\ Limiter!Observe
    /\ UNCHANGED <<revoked, rate, request>>

Next ==
    \/ \E q \in Request :
          \/ \E c \in Caller : Arrive(q, c)
          \/ Lookup(q) \/ Reject(q) \/ RateLimit(q) \/ Leave(q)
    \/ \E k \in ApiKey : Revoke(k) \/ \E n \in Rate : SetRate(k, n)
    \/ Tick \/ Observe

Spec == Init /\ [][Next]_vars

-----------------------------------------------------------------------------
\* A request that arrives after its key was revoked never reaches a handler,
\* however its steps interleave with the other requests and the operator.
RevocationHolds == \A q \in Request : bornDead[q] => pc[q] # "admitted"

\* A bucket is only drawn on by a request that is admitted with it: rejected
\* requests, and visitors at other addresses, cannot throttle anyone.
OnlyAdmittedPay ==
    [][\A b \in created :
          Limiter!Level(b)' < Limiter!Level(b) =>
              \E q \in Request : /\ pc[q] = "looked" /\ pc'[q] = "admitted"
                                 /\ row[q].revoked = FALSE
                                 /\ caller[q].key = b[1]
                                 /\ b[1] \in Publishable => b[2] = caller[q].ip]_vars

\* What RateLimiter promises about a bucket holds for the requests that
\* require_api_key admits with it.
AdmissionsBounded == Limiter!BurstBound

\* The inductive invariant of RevocationHolds: a row read by a request that
\* arrived too late says so.
ReadsRevocation ==
    \A q \in Request :
        /\ bornDead[q] => caller[q].key \in revoked
        /\ bornDead[q] /\ pc[q] = "looked" => row[q].revoked

AccessInv == TypeOK /\ ReadsRevocation /\ RevocationHolds
=============================================================================
