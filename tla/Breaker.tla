------------------------------- MODULE Breaker -------------------------------
(***************************************************************************)
(* The state of one CircuitBreaker object (app/utils/circuit_breaker.py)   *)
(* and the operations on it, as functions from a breaker to a breaker.     *)
(* Every one of them runs without suspending, so each is atomic on the     *)
(* event loop; what interleaves is the function the breaker guards.        *)
(* A record holds the object's fields and those of its CircuitStats.       *)
(***************************************************************************)
EXTENDS Integers

CONSTANTS FailureThreshold,   \* config.failure_threshold
          SuccessThreshold,   \* config.success_threshold
          Timeout,            \* config.timeout, in ticks of the clock
          None                \* Python's None

ASSUME BreakerAssumption ==
    /\ FailureThreshold \in Nat \ {0}
    /\ SuccessThreshold \in Nat \ {0}
    /\ Timeout \in Nat
    /\ None \notin Int

CircuitState == {"closed", "open", "half_open"}

Time == Nat

BreakerType ==
    [state                 : CircuitState,
     total_calls           : Nat,
     successful_calls      : Nat,
     failed_calls          : Nat,
     rejected_calls        : Nat,
     state_changes         : Nat,
     consecutive_failures  : Nat,
     consecutive_successes : Nat,
     half_open_calls       : Nat,
     last_failure_time     : Time \union {None},
     failure_time          : Time \union {None}]

NewBreaker ==
    [state                 |-> "closed",
     total_calls           |-> 0,
     successful_calls      |-> 0,
     failed_calls          |-> 0,
     rejected_calls        |-> 0,
     state_changes         |-> 0,
     consecutive_failures  |-> 0,
     consecutive_successes |-> 0,
     half_open_calls       |-> 0,
     last_failure_time     |-> None,
     failure_time          |-> None]

TransitionTo(b, new_state) ==
    IF b.state = new_state
    THEN b
    ELSE [b EXCEPT !.state = new_state, !.state_changes = @ + 1]

\* The code reads failure_time, which no statement of it ever assigns.
TimeUntilRetry(b, now) ==
    IF b.failure_time = None \/ now - b.failure_time >= Timeout
    THEN 0
    ELSE Timeout - (now - b.failure_time)

MustReject(b, now) == b.state = "open" /\ TimeUntilRetry(b, now) > 0

\* call(), up to the exception it raises.
RejectCall(b) ==
    [b EXCEPT !.total_calls = @ + 1, !.rejected_calls = @ + 1]

\* Mutant: calls let through are counted only while closed.
CountClosedCalls(b) ==
    [b EXCEPT !.total_calls = IF b.state = "closed" THEN @ + 1 ELSE @]

CountCall(b) == [b EXCEPT !.total_calls = @ + 1]

\* call(), up to the await of the guarded function.
AdmitCall(b) ==
    IF b.state = "open"
    THEN [TransitionTo(CountCall(b), "half_open") EXCEPT !.half_open_calls = 0]
    ELSE CountCall(b)

\* Mutant: a success leaves the run of failures standing.
CountSuccessOnly(b) ==
    [b EXCEPT !.successful_calls = @ + 1, !.consecutive_successes = @ + 1]

CountSuccess(b) ==
    [b EXCEPT !.successful_calls = @ + 1,
              !.consecutive_failures = 0,
              !.consecutive_successes = @ + 1,
              !.half_open_calls = IF b.state = "half_open" THEN @ + 1 ELSE @]

\* Mutant: closing counts the half-open successes instead of the run.
EnoughHalfOpenCalls(b) == b.half_open_calls >= SuccessThreshold

EnoughSuccesses(b) == b.consecutive_successes >= SuccessThreshold

\* _on_success(): the await returned.
OnSuccess(b) ==
    IF b.state = "half_open" /\ EnoughSuccesses(CountSuccess(b))
    THEN TransitionTo(CountSuccess(b), "closed")
    ELSE CountSuccess(b)

CountFailure(b, now) ==
    [b EXCEPT !.failed_calls = @ + 1,
              !.last_failure_time = now,
              !.consecutive_successes = 0,
              !.consecutive_failures = @ + 1]

\* Mutant: one failure too many is tolerated.
MoreThanEnoughFailures(b) == b.consecutive_failures > FailureThreshold

EnoughFailures(b) == b.consecutive_failures >= FailureThreshold

\* _on_failure(): the await raised one of config.expected_exceptions.
OnFailure(b, now) ==
    IF \/ b.state = "half_open"
       \/ b.state = "closed" /\ EnoughFailures(CountFailure(b, now))
    THEN TransitionTo(CountFailure(b, now), "open")
    ELSE CountFailure(b, now)

\* Mutant: the counters are unset instead of zeroed.
UnsetBreaker(b) ==
    [b EXCEPT !.state = "closed", !.consecutive_failures = None,
              !.consecutive_successes = None]

\* What reset_all() does to each breaker of the registry.
ResetBreaker(b) ==
    [b EXCEPT !.state = "closed",
              !.consecutive_failures = 0,
              !.consecutive_successes = 0,
              !.state_changes = @ + 1]
==============================================================================
