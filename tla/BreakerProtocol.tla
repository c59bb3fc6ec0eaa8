--------------------------- MODULE BreakerProtocol ---------------------------
(***************************************************************************)
(* What a circuit breaker promises, without its counters: it remembers how *)
(* the calls it let through ended since the last reset, opens exactly when *)
(* the last FailureThreshold of them all failed or a call ends in failure  *)
(* while it is half open, and closes exactly when, half open, the last     *)
(* SuccessThreshold of them all succeeded.  When it may leave "open" is    *)
(* left to the implementation.                                             *)
(***************************************************************************)
EXTENDS Integers, Sequences

CONSTANTS FailureThreshold, SuccessThreshold

VARIABLES state, outcomes

pvars == <<state, outcomes>>

Outcome == {"ok", "fail"}

\* The last n outcomes of s exist and are all o.
EndsWith(s, o, n) ==
    /\ n <= Len(s)
    /\ \A i \in 1..Len(s) : i > Len(s) - n => s[i] = o

Init == state = "closed" /\ outcomes = << >>

Report(o) == outcomes' = Append(outcomes, o)

Opens ==
    /\ Report("fail")
    /\ \/ state = "half_open"
       \/ state = "closed" /\ EndsWith(outcomes', "fail", FailureThreshold)
    /\ state' = "open"

Closes ==
    /\ Report("ok")
    /\ state = "half_open"
    /\ EndsWith(outcomes', "ok", SuccessThreshold)
    /\ state' = "closed"

StaysOnFailure ==
    /\ Report("fail")
    /\ \/ state = "open"
       \/ state = "closed" /\ ~EndsWith(outcomes', "fail", FailureThreshold)
    /\ state' = state

StaysOnSuccess ==
    /\ Report("ok")
    /\ state = "half_open" => ~EndsWith(outcomes', "ok", SuccessThreshold)
    /\ state' = state

Probe ==
    /\ state = "open"
    /\ state' = "half_open"
    /\ UNCHANGED outcomes

Reset ==
    /\ state' = "closed"
    /\ outcomes' = << >>

Next == Opens \/ Closes \/ StaysOnFailure \/ StaysOnSuccess \/ Probe \/ Reset

Spec == Init /\ [][Next]_pvars
==============================================================================
