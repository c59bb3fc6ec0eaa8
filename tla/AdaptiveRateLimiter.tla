-------------------------- MODULE AdaptiveRateLimiter --------------------------
(***************************************************************************)
(* The AdaptiveRateLimiter of app/utils/adaptive_ratelimit.py: the tasks   *)
(* that call one external service through one limiter.  A task acquires    *)
(* the limiter, which makes it sleep the current delay, sends its request  *)
(* and hands over the status of the answer, which moves the delay.  All    *)
(* of it happens under one asyncio.Lock, which is first in first out, and  *)
(* the sleep does too: an answer waits until those before it have slept.   *)
(***************************************************************************)
EXTENDS Integers, Sequences, Filtering

CONSTANTS Tasks,
          MinDelay, BaseDelay, MaxDelay,   \* of the RateLimitConfig
          SuccessThreshold,
          None,
          MaxTime                          \* bound: the clock

VARIABLES delay, state, successes,   \* self.stats: current_delay, state, consecutive_successes
          queue,      \* who holds self._lock (the head) and who waits for it
          sleep,      \* the sleep of the holder: how long and until when; or None
          sending,    \* tasks whose request is on its way
          now,
          returns,    \* history: when acquire returned, and the delay it slept, since a reset
          raised      \* history: a server error raised the delay since the state was last set

vars == <<delay, state, successes, queue, sleep, sending, now, returns, raised>>

Time == 0..(MaxTime + MaxDelay)
Delays == MinDelay..MaxDelay
Statuses == {"limited", "error", "ok", "other"}
Entry == [task : Tasks, for : {"acquire"} \union Statuses]

AdaptiveAssumption ==
    /\ {MinDelay, BaseDelay, MaxDelay, SuccessThreshold} \subseteq Nat \ {0}
    /\ MinDelay <= BaseDelay /\ 2 * BaseDelay < MaxDelay /\ MaxTime \in Nat
    /\ None \notin [slept : Delays, until : Time]

TypeOK ==
    /\ delay \in Delays
    /\ state \in {"normal", "cautious", "throttled"}
    /\ successes \in 0..(SuccessThreshold - 1)
    /\ queue \in Seq(Entry)
    /\ sleep \in {None} \union [slept : Delays, until : Time]
    /\ sending \in SUBSET Tasks
    /\ now \in 0..MaxTime
    /\ returns \in Seq([at : Time, slept : Delays])
    /\ raised \in BOOLEAN

Init ==
    /\ delay = BaseDelay /\ state = "normal" /\ successes = 0
    /\ queue = << >> /\ sleep = None
    /\ sending = {}
    /\ now = 0
    /\ returns = << >> /\ raised = FALSE

Tick ==
    /\ now < MaxTime
    /\ now' = now + 1
    /\ UNCHANGED <<delay, state, successes, queue, sleep, sending, returns, raised>>

stats == <<delay, state, successes, raised>>

Queued(t) == \E i \in DOMAIN queue : queue[i].task = t
Holds(t, kinds) == queue # << >> /\ queue[1].task = t /\ queue[1].for \in kinds

\* acquire() asks for the lock.
Acquire(t) ==
    /\ ~Queued(t) /\ t \notin sending
    /\ queue' = Append(queue, [task |-> t, for |-> "acquire"])
    /\ UNCHANGED <<stats, sleep, sending, now, returns>>

\* Mutant: the sleep is shortened at random.
SleepUntilEarly == now + (delay + 1) \div 2

SleepUntil == now + delay

\* Once it holds the lock it reads the delay and sleeps.
FallAsleep(t) ==
    /\ Holds(t, {"acquire"})
    /\ sleep = None
    /\ sleep' = [slept |-> delay, until |-> SleepUntil]
    /\ UNCHANGED <<stats, queue, sending, now, returns>>

\* Its sleep is over: it releases the lock and sends its request.
WakeUp(t) ==
    /\ Holds(t, {"acquire"})
    /\ sleep # None /\ sleep.until <= now
    /\ returns' = Append(returns, [at |-> now, slept |-> sleep.slept])
    /\ sleep' = None
    /\ queue' = Tail(queue)
    /\ sending' = sending \union {t}
    /\ UNCHANGED <<stats, now>>

\* The task is cancelled, by a timeout around it: it gives up its place or the lock.
Cancel(t) ==
    /\ Queued(t)
    /\ sleep' = IF queue[1].task = t THEN None ELSE sleep
    /\ queue' = Keep(queue, {e \in Entry : e.task # t})
    /\ UNCHANGED <<stats, sending, now, returns>>

\* record_response(status_code) asks for the lock; or the request fails without an answer.
Answer(t, status) ==
    /\ t \in sending
    /\ sending' = sending \ {t}
    /\ queue' = Append(queue, [task |-> t, for |-> status])
    /\ UNCHANGED <<stats, sleep, now, returns>>

NoAnswer(t) ==
    /\ t \in sending
    /\ sending' = sending \ {t}
    /\ UNCHANGED <<stats, queue, sleep, now, returns>>

AtMost(bound, d) == IF d < bound THEN d ELSE bound
AtLeast(bound, d) == IF d > bound THEN d ELSE bound

\* What every record_response does besides moving the delay.
RecordAs(t, status) ==
    /\ Holds(t, {status})
    /\ queue' = Tail(queue)
    /\ UNCHANGED <<sleep, sending, now, returns>>

\* _on_rate_limit, for 429, 403 and 503.
OnRateLimit(t) ==
    /\ RecordAs(t, "limited")
    /\ delay' = AtMost(MaxDelay, 2 * delay)
    /\ state' = IF 2 * delay' >= MaxDelay THEN "throttled"
                ELSE IF delay' > BaseDelay THEN "cautious" ELSE state
    /\ successes' = 0
    /\ raised' = FALSE

\* Mutant: the delay of a server error is not capped.
ServerErrorDelayUncapped == (3 * delay) \div 2

ServerErrorDelay == AtMost(MaxDelay, (3 * delay) \div 2)

\* _on_server_error, for the other 5xx: the delay grows, the state stays.
OnServerError(t) ==
    /\ RecordAs(t, "error")
    /\ delay' = ServerErrorDelay
    /\ successes' = 0
    /\ raised' = TRUE
    /\ UNCHANGED state

\* Mutant: back to normal only below the base delay.
StateAfterSuccessBelow(d) ==
    IF d < BaseDelay THEN "normal" ELSE IF d < 2 * BaseDelay THEN "cautious" ELSE state

StateAfterSuccess(d) ==
    IF d <= BaseDelay THEN "normal" ELSE IF d < 2 * BaseDelay THEN "cautious" ELSE state

\* _on_success: every SuccessThreshold successes in a row the delay shrinks.
OnSuccess(t) ==
    /\ RecordAs(t, "ok")
    /\ IF successes + 1 < SuccessThreshold
       THEN successes' = successes + 1 /\ UNCHANGED <<delay, state, raised>>
       ELSE /\ delay' = AtLeast(MinDelay, (9 * delay) \div 10)
            /\ state' = StateAfterSuccess(delay')
            /\ raised' = (raised /\ delay' >= 2 * BaseDelay)
            /\ successes' = 0

\* Any other status is only logged.
OnOther(t) == RecordAs(t, "other") /\ UNCHANGED <<delay, state, successes, raised>>

\* Mutant: reset does not wait for the lock.
ResetUnlocked ==
    /\ delay' = BaseDelay /\ state' = "normal" /\ successes' = 0
    /\ returns' = << >> /\ raised' = FALSE
    /\ UNCHANGED <<queue, sleep, sending, now>>

\* reset(), between two holders of the lock.
Reset ==
    /\ sleep = None
    /\ delay' = BaseDelay /\ state' = "normal" /\ successes' = 0
    /\ returns' = << >> /\ raised' = FALSE
    /\ UNCHANGED <<queue, sleep, sending, now>>

Next ==
    \/ Tick
    \/ Reset
    \/ \E t \in Tasks :
        \/ Acquire(t) \/ FallAsleep(t) \/ WakeUp(t) \/ Cancel(t)
        \/ \E status \in Statuses : Answer(t, status)
        \/ NoAnswer(t)
        \/ OnRateLimit(t) \/ OnServerError(t) \/ OnSuccess(t) \/ OnOther(t)

Spec == Init /\ [][Next]_vars
------------------------------------------------------------------------------
\* Nobody moves the delay under a task that sleeps it, and so requests leave at least
\* the delay of the later one apart, however many tasks share the limiter and
\* whichever of them are cancelled.
RequestsSpaced ==
    /\ sleep # None => sleep.slept = delay
    /\ \A i \in 1..(Len(returns) - 1) : returns[i + 1].at - returns[i].at >= returns[i + 1].slept

\* The reported state follows the delay: it alarms only above the base delay, and
\* it stays calm above it only where a server error raised the delay.
StateTellsDelay ==
    /\ state # "normal" => delay > BaseDelay
    /\ state = "normal" /\ delay > BaseDelay => raised
==============================================================================
