------------------------------ MODULE Breaker ------------------------------
(***************************************************************************)
(* What a circuit breaker is to the code that calls through it, whatever   *)
(* the clock says: CircuitBreaker implements this, and Preferences relies  *)
(* on no more.                                                             *)
(***************************************************************************)
EXTENDS Naturals

CONSTANT Threshold   \* failures that trip it

VARIABLE breaker     \* its state and the failures it has counted

Fresh == [state |-> "closed", failures |-> 0]

\* call() raises CircuitBreakerOpenError.
Rejects(b) == b.state # "closed"

\* What it may be when it lets a call through: an open breaker, once its recovery
\* window is over, makes the call its trial; during the trial there is no other.
Admitted(b) ==
    CASE b.state = "closed"    -> {b}
      [] b.state = "open"      -> {[b EXCEPT !.state = "half_open"]}
      [] b.state = "half_open" -> {}

\* The wrapped function has raised.
Failed(b) ==
    LET n == IF b.failures < Threshold THEN b.failures + 1 ELSE Threshold IN
    IF b.state = "half_open" THEN [b EXCEPT !.state = "open"]
    ELSE [state |-> IF n >= Threshold THEN "open" ELSE b.state, failures |-> n]

\* The wrapped function has returned: the breaker is as good as new.
Next == breaker' \in Admitted(breaker) \cup {Fresh, Failed(breaker)}

Spec == breaker = Fresh /\ [][Next]_breaker
=============================================================================
