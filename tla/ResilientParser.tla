---------------------------- MODULE ResilientParser ----------------------------
(***************************************************************************)
(* ResilientParser.parse of app/utils/resilient.py, called by several      *)
(* tasks on one wrapper with its statistics and a cache that may fail, and *)
(* AlertManager.check_and_alert, which reads those statistics, awaits the  *)
(* callback that sends the alert and remembers when it looked.             *)
(***************************************************************************)
EXTENDS Integers, Sequences, FiniteSets

CONSTANTS Callers, Checkers, None,
          MaxRetries,
          ErrorThreshold, ConsecutiveFailureThreshold,
          AlertCooldown,
          MaxCalls, MaxTime     \* bounds: calls of parse, the clock

ResilientParserAssumption ==
    /\ IsFiniteSet(Callers) /\ None \notin Int
    /\ {MaxRetries, AlertCooldown, MaxCalls, MaxTime} \subseteq Nat

VARIABLES call,         \* what each caller awaits, and the attempts that have failed
          total, successful, failed, consecutive,   \* of ErrorStats
          sending,      \* for each checker, the time at which the alert it sends began
          lastAlert,    \* self._last_alert_time of the parser
          now,
          twice,        \* history: calls counted as successful and as failed
          alerts,       \* history: when the alerts that were sent began, in the order they ended
          overlapped    \* history: two alerts were being sent at the same time

statistics == <<total, successful, failed, consecutive, twice>>
alerting == <<sending, lastAlert, alerts, overlapped>>
vars == <<call, statistics, alerting, now>>

TypeOK ==
    /\ call \in [Callers -> [at : {"none", "parser", "store", "fallback"}, tries : 0..MaxRetries]]
    /\ total \in 0..MaxCalls
    /\ successful \in 0..total /\ failed \in Nat
    /\ consecutive \in 0..failed
    /\ sending \in [Checkers -> {None} \union 0..MaxTime]
    /\ lastAlert \in {-AlertCooldown} \union 0..MaxTime
    /\ now \in 0..MaxTime
    /\ twice \in 0..failed
    /\ alerts \in Seq(0..MaxTime)
    /\ overlapped \in BOOLEAN

NotCalling == [at |-> "none", tries |-> 0]

\* No alert yet: the time of the last one is long ago.
Init ==
    /\ call = [c \in Callers |-> NotCalling]
    /\ total = 0 /\ successful = 0 /\ failed = 0 /\ consecutive = 0 /\ twice = 0
    /\ sending = [k \in Checkers |-> None]
    /\ lastAlert = -AlertCooldown
    /\ alerts = << >> /\ overlapped = FALSE
    /\ now = 0

Await(c, what) == call' = [call EXCEPT ![c] = [NotCalling EXCEPT !.at = what]]
------------------------------------------------------------------------------
Parse(c) ==
    /\ call[c].at = "none" /\ total < MaxCalls
    /\ total' = total + 1
    /\ Await(c, "parser")
    /\ UNCHANGED <<successful, failed, consecutive, twice, alerting, now>>

\* An attempt fails and is made again after its delay.
Retry(c) ==
    /\ call[c].at = "parser" /\ call[c].tries < MaxRetries
    /\ call' = [call EXCEPT ![c].tries = @ + 1]
    /\ UNCHANGED <<statistics, alerting, now>>

\* A result is counted at once, and stored unless it is empty.
Succeed(c) ==
    /\ call[c].at = "parser"
    /\ successful' = successful + 1
    /\ consecutive' = 0
    /\ Await(c, "store") \/ Await(c, "none")
    /\ UNCHANGED <<total, failed, twice, alerting, now>>

\* Mutant: a failure is counted with each attempt.
CountFailureAttempts(c) ==
    failed' = failed + call[c].tries + 1 /\ consecutive' = consecutive + 1

CountFailure(c) == failed' = failed + 1 /\ consecutive' = consecutive + 1

\* The last attempt fails, and the cache is asked.
Exceed(c) ==
    /\ call[c].at = "parser" /\ call[c].tries = MaxRetries
    /\ CountFailure(c)
    /\ Await(c, "fallback")
    /\ UNCHANGED <<total, successful, twice, alerting, now>>

Stored(c) ==
    /\ call[c].at = "store"
    /\ Await(c, "none")
    /\ UNCHANGED <<statistics, alerting, now>>

\* The cache raises: the call that had succeeded is counted as failed too.
StoreFails(c) ==
    /\ call[c].at = "store"
    /\ CountFailure(c)
    /\ twice' = twice + 1
    /\ Await(c, "fallback")
    /\ UNCHANGED <<total, successful, alerting, now>>

\* The call returns what the cache has, or nothing, or what reading it raises.
FallBack(c) ==
    /\ call[c].at = "fallback"
    /\ Await(c, "none")
    /\ UNCHANGED <<statistics, alerting, now>>
------------------------------------------------------------------------------
\* Mutant: only the run of failures is under the cooldown.
MayAlertAgain == consecutive < ConsecutiveFailureThreshold \/ now - lastAlert >= AlertCooldown

MayAlert == now - lastAlert >= AlertCooldown

Check(k) ==
    /\ sending[k] = None
    /\ consecutive >= ConsecutiveFailureThreshold \/ failed >= ErrorThreshold
    /\ MayAlert
    /\ overlapped' = (overlapped \/ \E j \in Checkers : sending[j] # None)
    /\ sending' = [sending EXCEPT ![k] = now]
    /\ UNCHANGED <<call, statistics, lastAlert, alerts, now>>

Sent(k) ==
    /\ sending[k] # None
    /\ lastAlert' = sending[k]
    /\ alerts' = Append(alerts, sending[k])
    /\ sending' = [sending EXCEPT ![k] = None]
    /\ UNCHANGED <<call, statistics, overlapped, now>>

\* The callback raises: the alert is not remembered.
SendFails(k) ==
    /\ sending[k] # None
    /\ sending' = [sending EXCEPT ![k] = None]
    /\ UNCHANGED <<call, statistics, lastAlert, alerts, overlapped, now>>

Tick ==
    /\ now < MaxTime
    /\ now' = now + 1
    /\ UNCHANGED <<call, statistics, alerting>>

Next ==
    \/ \E c \in Callers :
        \/ Parse(c) \/ Retry(c) \/ Succeed(c) \/ Exceed(c)
        \/ Stored(c) \/ StoreFails(c) \/ FallBack(c)
    \/ \E k \in Checkers : Check(k) \/ Sent(k) \/ SendFails(k)
    \/ Tick

Spec == Init /\ [][Next]_vars
------------------------------------------------------------------------------
\* Every call is in progress, successful or failed, and only one whose result could not
\* be stored is counted as both, however the calls interleave.
StatsAddUp ==
    total + twice =
        Cardinality({c \in Callers : call[c].at = "parser"}) + successful + failed

\* As long as no alert was sent while another was on its way, the alerts for a parser
\* begin AlertCooldown apart or more; after that a remembered time may go back.
AlertsSpaced ==
    overlapped \/ \A i, j \in 1..Len(alerts) : i < j => alerts[j] - alerts[i] >= AlertCooldown

\* Both of them: what failed is counted once, and told of once in a while.
FailuresAccounted == StatsAddUp /\ AlertsSpaced
==============================================================================
