---------------------------- MODULE CircuitBreaker ----------------------------
(***************************************************************************)
(* One circuit breaker shared by concurrent callers, as the parsers'       *)
(* breakers are shared by every search in the process.  A call is admitted *)
(* in one step and ends in another, so its result can be applied to a      *)
(* breaker that has changed state meanwhile.  A call ends in success, in   *)
(* an exception, or is cancelled by the caller's asyncio.wait_for: the     *)
(* CancelledError is not an Exception, and the breaker never hears of it.  *)
(***************************************************************************)
EXTENDS Breaker, Sequences, FiniteSets

CONSTANTS Callers,          \* tasks that call the guarded service
          MaxCalls,         \* bound: calls made to the breaker
          ResetBound,       \* bound: state changes after which nobody resets
          MaxTime           \* bound: the clock

ASSUME CallersAssumption == IsFiniteSet(Callers)

VARIABLES breaker,   \* the CircuitBreaker object
          calls,     \* what each caller is doing
          now,       \* time.time()
          outcomes   \* history: how calls ended since the last reset

vars == <<breaker, calls, now, outcomes>>

\* A "probing" call was let through by a breaker that was not closed.
CallState == {"idle", "running", "probing"}

InFlight == {c \in Callers : calls[c] # "idle"}

TypeOK ==
    /\ breaker \in BreakerType
    /\ calls \in [Callers -> CallState]
    /\ now \in Time
    /\ outcomes \in Seq({"ok", "fail"})

Init ==
    /\ breaker = NewBreaker
    /\ calls = [c \in Callers |-> "idle"]
    /\ now = 0
    /\ outcomes = << >>

Tick ==
    /\ now < MaxTime
    /\ now' = now + 1
    /\ UNCHANGED <<breaker, calls, outcomes>>

\* call(c) up to the await; a rejected caller is given CircuitBreakerOpen.
Call(c) ==
    /\ calls[c] = "idle"
    /\ breaker.total_calls < MaxCalls
    /\ IF MustReject(breaker, now)
       THEN breaker' = RejectCall(breaker) /\ UNCHANGED calls
       ELSE /\ breaker' = AdmitCall(breaker)
            /\ calls' = [calls EXCEPT ![c] =
                            IF breaker.state = "closed" THEN "running" ELSE "probing"]
    /\ UNCHANGED <<now, outcomes>>

Succeed(c) ==
    /\ calls[c] # "idle"
    /\ breaker' = OnSuccess(breaker)
    /\ calls' = [calls EXCEPT ![c] = "idle"]
    /\ outcomes' = Append(outcomes, "ok")
    /\ UNCHANGED now

Fail(c) ==
    /\ calls[c] # "idle"
    /\ breaker' = OnFailure(breaker, now)
    /\ calls' = [calls EXCEPT ![c] = "idle"]
    /\ outcomes' = Append(outcomes, "fail")
    /\ UNCHANGED now

Cancel(c) ==
    /\ calls[c] # "idle"
    /\ calls' = [calls EXCEPT ![c] = "idle"]
    /\ UNCHANGED <<breaker, now, outcomes>>

ResetAll ==
    /\ breaker.state_changes < ResetBound
    /\ breaker' = ResetBreaker(breaker)
    /\ outcomes' = << >>
    /\ UNCHANGED <<calls, now>>

Next ==
    \/ Tick
    \/ ResetAll
    \/ \E c \in Callers : Call(c) \/ Succeed(c) \/ Fail(c) \/ Cancel(c)

Spec == Init /\ [][Next]_vars
------------------------------------------------------------------------------
\* o is what the last n outcomes of s were, and the one before them was not.
IsTrailingRun(s, o, n) ==
    /\ n <= Len(s)
    /\ \A i \in 1..Len(s) : i > Len(s) - n => s[i] = o
    /\ n < Len(s) => s[Len(s) - n] # o

\* The two counters the decisions are taken on are the lengths of the current
\* runs of failures and of successes, whatever the order in which overlapping
\* calls end (consecutive_failures and consecutive_successes are reset in
\* _on_success, _on_failure and reset_all, never on a change of state).
StreaksMatchOutcomes ==
    /\ IsTrailingRun(outcomes, "fail", breaker.consecutive_failures)
    /\ IsTrailingRun(outcomes, "ok", breaker.consecutive_successes)

\* A closed breaker has seen fewer than FailureThreshold failures in a row: no
\* interleaving of late failures with a closing or a reset leaves it closed
\* over a service that has already failed often enough to open it.
ClosedBelowThreshold ==
    breaker.state = "closed" => breaker.consecutive_failures < FailureThreshold

\* The statistics account for every call: one that is in flight or was
\* cancelled is the only kind that total_calls has and the other counters lack.
CallsAccounted ==
    breaker.successful_calls + breaker.failed_calls + breaker.rejected_calls
        + Cardinality(InFlight) <= breaker.total_calls

Protocol == INSTANCE BreakerProtocol WITH state <- breaker.state

\* The counters implement the promise of BreakerProtocol: the breaker opens and
\* closes exactly on the outcomes that justify it, however the calls overlap.
ImplementsProtocol == Protocol!Spec

\* Docstring, "OPEN: fail fast, requests are not executed", and the test
\* test_circuit_breaker_rejects_when_open: before Timeout has passed since the
\* last failure an open breaker lets no call through.
OpenRejectsUntilTimeout ==
    [][ /\ breaker.state = "open"
        /\ breaker.last_failure_time # None
        /\ now - breaker.last_failure_time < Timeout
        => \A c \in Callers : calls[c] = "idle" => calls'[c] = "idle" ]_vars
==============================================================================
