--------------------------- MODULE CircuitBreaker ---------------------------
(***************************************************************************)
(* The asyncio circuit breaker of                                          *)
(* backend/app/services/circuit_breaker.py, with the requests that call a  *)
(* remote service (Groq) through it.                                       *)
(*                                                                         *)
(* The three critical sections of the code hold one asyncio lock and await *)
(* nothing, so each is one step; the await of the wrapped function is the  *)
(* only point where calls interleave.  Time is a tick; opened_at is kept   *)
(* as the time passed since then.  Every timer and counter saturates at    *)
(* the only value it is compared with, so no bound is needed.              *)
(*                                                                         *)
(* A call ends by returning or by raising an Exception.  One that is       *)
(* cancelled records neither (CancelledError is no Exception), and a trial *)
(* that is would leave HALF_OPEN for good; but nothing in this repository  *)
(* cancels or times out a task that is calling, so calls are not cancelled *)
(* here.                                                                   *)
(***************************************************************************)
EXTENDS Integers

CONSTANTS
    Caller,            \* the requests that can be in call() at the same time
    FailureThreshold,  \* _failure_threshold
    RecoveryTimeout,   \* _recovery_timeout, in ticks
    CallBound,         \* the longest time func() may stay in flight
    RaisesOnError      \* does func() raise when the remote service fails?

ASSUME BreakerAssumption ==
    /\ FailureThreshold \in Nat \ {0}
    /\ RecoveryTimeout \in Nat \ {0}
    /\ CallBound \in Nat
    /\ RaisesOnError \in BOOLEAN

\* httpx's timeout (3 s) against the recovery window (30 s).
CallsAreShort == CallBound < RecoveryTimeout

VARIABLES
    state,       \* "closed", "open" or "half_open"
    failures,    \* _failures, saturating at FailureThreshold
    openedFor,   \* time since _opened_at, saturating at RecoveryTimeout
    inFlight,    \* the callers that are awaiting func()
    age,         \* how long each of them has been waiting
    up,          \* does the remote service answer?
    streak,      \* history: remote errors since the last remote answer
    sinceStart   \* history: time since a call was last let through

breakerVars == <<state, failures, openedFor>>
vars == <<state, failures, openedFor, inFlight, age, up, streak, sinceStart>>

Advance(n, limit) == IF n < limit THEN n + 1 ELSE limit

BreakerTypeOK ==
    /\ state \in {"closed", "open", "half_open"}
    /\ failures \in 0..FailureThreshold
    /\ openedFor \in 0..RecoveryTimeout
    /\ inFlight \subseteq Caller
    /\ age \in [Caller -> 0..CallBound]
    /\ up \in BOOLEAN
    /\ streak \in 0..FailureThreshold
    /\ sinceStart \in 0..RecoveryTimeout

BreakerInit ==
    /\ state = "closed"
    /\ failures = 0
    /\ openedFor = 0
    /\ inFlight = {}
    /\ age = [c \in Caller |-> 0]
    /\ up = TRUE
    /\ streak = 0
    /\ sinceStart = RecoveryTimeout

-----------------------------------------------------------------------------
\* Variant: a recovery window that never lets a trial through.
MayProceedNoTrial == state = "closed" /\ UNCHANGED state

\* Variant: concurrent callers may probe while a trial is in flight.
MayProceedManyTrials ==
    \/ state # "open" /\ UNCHANGED state
    \/ state = "open" /\ openedFor >= RecoveryTimeout /\ state' = "half_open"

\* _acquire() lets the call through and func() is started.  When it returns
\* False the caller raises CircuitBreakerOpenError and nothing changes.
MayProceed ==
    \/ state = "closed" /\ UNCHANGED state
    \/ state = "open" /\ openedFor >= RecoveryTimeout /\ state' = "half_open"

Acquire(c) ==
    /\ c \notin inFlight
    /\ MayProceed
    /\ inFlight' = inFlight \cup {c}
    /\ age' = [age EXCEPT ![c] = 0]
    /\ sinceStart' = 0
    /\ UNCHANGED <<failures, openedFor, up, streak>>

\* Variant: a success closes the breaker and keeps the old failure count.
RecordSuccessKeepsCount ==
    /\ state' = "closed"
    /\ openedFor' = 0
    /\ UNCHANGED failures

\* Variant: a success resets the count and forgets to leave HALF_OPEN.
RecordSuccessStaysHalfOpen ==
    /\ failures' = 0
    /\ openedFor' = 0
    /\ UNCHANGED state

RecordSuccess ==
    /\ state' = "closed"
    /\ failures' = 0
    /\ openedFor' = 0

\* Variant: a failed trial does not restart the recovery window.
TrialFailureKeepsTimer ==
    /\ state = "half_open"
    /\ state' = "open"
    /\ UNCHANGED <<failures, openedFor>>

TrialFailure ==
    /\ state = "half_open"
    /\ state' = "open"
    /\ openedFor' = 0
    /\ UNCHANGED failures

\* Variant: one failure too many is needed (> for >=).
CountedFailureOffByOne ==
    /\ state # "half_open"
    /\ failures' = Advance(failures, FailureThreshold)
    /\ IF failures >= FailureThreshold
       THEN state' = "open" /\ openedFor' = 0
       ELSE UNCHANGED <<state, openedFor>>

\* Also taken while the breaker is already open: a failure that arrives late
\* then restarts the recovery window.
CountedFailure ==
    /\ state # "half_open"
    /\ failures' = Advance(failures, FailureThreshold)
    /\ IF failures' >= FailureThreshold
       THEN state' = "open" /\ openedFor' = 0
       ELSE UNCHANGED <<state, openedFor>>

RecordFailure == TrialFailure \/ CountedFailure

\* func() returned what the remote service answered.
Answer(c) ==
    /\ c \in inFlight
    /\ up
    /\ RecordSuccess
    /\ inFlight' = inFlight \ {c}
    /\ streak' = 0
    /\ age' = [age EXCEPT ![c] = 0]
    /\ UNCHANGED <<up, sinceStart>>

\* The remote service failed (timeout, connection, status or malformed body).
\* A func() that catches its own exceptions returns normally.
RemoteError(c) ==
    /\ c \in inFlight
    /\ ~up
    /\ IF RaisesOnError THEN RecordFailure ELSE RecordSuccess
    /\ inFlight' = inFlight \ {c}
    /\ streak' = Advance(streak, FailureThreshold)
    /\ age' = [age EXCEPT ![c] = 0]
    /\ UNCHANGED <<up, sinceStart>>

-----------------------------------------------------------------------------
\* Time passes; no call outlives CallBound.
BreakerTick ==
    /\ \A c \in inFlight : age[c] < CallBound
    /\ age' = [c \in Caller |-> IF c \in inFlight THEN age[c] + 1 ELSE age[c]]
    /\ openedFor' = IF state = "open" THEN Advance(openedFor, RecoveryTimeout)
                                      ELSE openedFor
    /\ sinceStart' = Advance(sinceStart, RecoveryTimeout)
    /\ UNCHANGED <<state, failures, inFlight, up, streak>>

Outage  == up  /\ up' = FALSE /\ UNCHANGED <<breakerVars, inFlight, age, streak, sinceStart>>
Restore == ~up /\ up' = TRUE  /\ UNCHANGED <<breakerVars, inFlight, age, streak, sinceStart>>

BreakerNext ==
    \/ \E c \in Caller : Acquire(c) \/ Answer(c) \/ RemoteError(c)
    \/ BreakerTick \/ Outage \/ Restore

BreakerSpec == BreakerInit /\ [][BreakerNext]_vars

\* A call ends (httpx times out), time passes, and searches keep arriving.
\* The remote service is under no obligation.
Fairness ==
    /\ WF_vars(BreakerTick)
    /\ \A c \in Caller : WF_vars(Acquire(c)) /\ WF_vars(Answer(c) \/ RemoteError(c))

FairSpec == BreakerSpec /\ Fairness

-----------------------------------------------------------------------------
Untimed == INSTANCE Breaker
    WITH Threshold <- FailureThreshold, breaker <- [state |-> state, failures |-> failures]

\* What the callers of call() may count on without a clock: a trial only after the
\* breaker was open, an outcome that counts as it should whenever it comes in, and
\* no other way for the breaker to change.
ImplementsBreaker == Untimed!Spec

\* HALF_OPEN: exactly one call is in flight, the trial (_acquire rejects the
\* others), and no call from before the outage is left to decide for it.
HalfOpenIsOneTrial == state = "half_open" => \E c \in Caller : inFlight = {c}

\* N consecutive failures of the remote service trip the breaker: after them
\* call() never goes on letting every caller through.
OutageOpensBreaker == streak >= FailureThreshold => state # "closed"

\* While the service is down, call() pays for at most one attempt per recovery
\* window: a trial starts only a full window after the last call that started,
\* the previous trial included.
ProbesAreSpaced ==
    [][state = "open" /\ state' = "half_open" => sinceStart >= RecoveryTimeout]_vars

\* "probing for recovery periodically instead of staying open forever": late
\* failures that restart the window cannot keep the breaker open for ever.
KeepsProbing == state = "open" ~> state # "open"

\* Once the remote service stays up, the breaker closes and stays closed.
RecoversWithService == <>[]up => <>[](state = "closed")

-----------------------------------------------------------------------------
\* The inductive invariant behind the safety properties: no call has started
\* since the breaker opened, and the failure count is the streak of errors.
InFlightSinceStart == \A c \in inFlight : age[c] >= sinceStart
OpenAdmitsNone == state = "open" => sinceStart >= openedFor
ClosedBelowThreshold == state = "closed" => failures < FailureThreshold
CountsTheStreak == RaisesOnError /\ state = "closed" => failures = streak

BreakerInv ==
    /\ BreakerTypeOK
    /\ CallsAreShort => InFlightSinceStart /\ OpenAdmitsNone /\ HalfOpenIsOneTrial
    /\ ClosedBelowThreshold
    /\ CountsTheStreak
=============================================================================
