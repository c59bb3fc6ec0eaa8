------------------------------ MODULE RateLimiter ------------------------------
(***************************************************************************)
(* The RateLimiter of app/utils/ratelimiter.py that parsers await before   *)
(* every request to a site: one key, and the tasks that acquire it.  A     *)
(* task that finds the window full sleeps and then goes on without looking *)
(* again, with the time it read before it slept.                           *)
(***************************************************************************)
EXTENDS Integers, FiniteSets, SequencesExt, Filtering

CONSTANTS Tasks,
          MaxRequests, TimeWindow,   \* self.max_requests, self.time_window
          MaxTime,                   \* bound: the clock
          MaxAcquires                \* bound: calls of acquire

RateLimiterAssumption == {MaxRequests, TimeWindow} \subseteq Nat \ {0} /\ MaxTime \in Nat

VARIABLES requests,   \* self.requests[key]
          sleeper,    \* for each task, None or when it arrived and when its sleep ends
          now,        \* time.time()
          released,   \* history: when each acquire arrived and returned since the last reset
          excused     \* history: tasks that were asleep at the last reset and still are

vars == <<requests, sleeper, now, released, excused>>

Time == 0..MaxTime
Awake == [arrived |-> 0, until |-> 0]
Asleep(t) == sleeper[t] # Awake

TypeOK ==
    /\ requests \in Seq(Time)
    /\ sleeper \in [Tasks -> [arrived : Time, until : 0..(MaxTime + TimeWindow)]]
    /\ now \in Time
    /\ released \in Seq([arrived : Time, at : Time])
    /\ excused \in SUBSET Tasks

Init ==
    /\ requests = << >>
    /\ sleeper = [t \in Tasks |-> Awake]
    /\ now = 0
    /\ released = << >>
    /\ excused = {}

Tick ==
    /\ now < MaxTime
    /\ now' = now + 1
    /\ UNCHANGED <<requests, sleeper, released, excused>>

\* The requests that are still in the window at a time.
Recent(reqs, at) == Keep(reqs, {r \in Time : at - r < TimeWindow})

\* Mutant: the youngest request is waited for.
SleepEndYoungest(reqs) == Max(ToSet(reqs)) + TimeWindow

\* Mutant: the time of the oldest request is taken for its age.
SleepEndFromNow(reqs) == now + Min(ToSet(reqs)) + TimeWindow

\* now + sleep_time: when the oldest request leaves the window.
SleepEnd(reqs) == Min(ToSet(reqs)) + TimeWindow

\* Mutant: the limit is noticed one request late.
FullLate(reqs) == Len(reqs) > MaxRequests

Full(reqs) == Len(reqs) >= MaxRequests

CanAcquire(t) == ~Asleep(t) /\ Len(released) + Cardinality({u \in Tasks : Asleep(u)}) < MaxAcquires

\* acquire(key) with room in the window returns at once.
AcquireAtOnce(t) ==
    /\ CanAcquire(t)
    /\ ~Full(Recent(requests, now))
    /\ requests' = Append(Recent(requests, now), now)
    /\ released' = Append(released, [arrived |-> now, at |-> now])
    /\ UNCHANGED <<sleeper, now, excused>>

\* Otherwise it sleeps until the oldest request leaves the window.
FallAsleep(t) ==
    /\ CanAcquire(t)
    /\ Full(Recent(requests, now))
    /\ requests' = Recent(requests, now)
    /\ sleeper' = [sleeper EXCEPT ![t] = [arrived |-> now, until |-> SleepEnd(requests')]]
    /\ UNCHANGED <<now, released, excused>>

\* It cleans up by the time it arrived, and records that time.
WakeUp(t) ==
    /\ Asleep(t)
    /\ now >= sleeper[t].until
    /\ requests' = Append(Recent(requests, sleeper[t].arrived), sleeper[t].arrived)
    /\ released' = Append(released, [arrived |-> sleeper[t].arrived, at |-> now])
    /\ sleeper' = [sleeper EXCEPT ![t] = Awake]
    /\ excused' = excused \ {t}
    /\ UNCHANGED now

Reset ==
    /\ requests # << >>
    /\ requests' = << >>
    /\ released' = << >>
    /\ excused' = {t \in Tasks : Asleep(t)}
    /\ UNCHANGED <<sleeper, now>>

Next == Tick \/ Reset \/ \E t \in Tasks : AcquireAtOnce(t) \/ FallAsleep(t) \/ WakeUp(t)

Spec == Init /\ [][Next]_vars
------------------------------------------------------------------------------
\* A request that did not wait respects the limit, counting those that arrived
\* in its window and were released before it, whatever sleepers recorded when.
DirectRespectsWindow ==
    \A i \in DOMAIN released :
        released[i].arrived = released[i].at =>
            Cardinality({j \in 1..(i - 1) : released[i].at - released[j].arrived < TimeWindow})
                < MaxRequests

\* Somebody who came before all the requests that t waits for was let through only
\* after t had come: its sleep ended late, or a reset came between.
Belated(t) ==
    \E i \in DOMAIN released :
        /\ released[i].arrived + TimeWindow < sleeper[t].until
        /\ released[i].at >= sleeper[t].arrived

\* No task overtakes one that waits: while a sleep lasts, nobody who arrived later is
\* let through at once, or after a sleep of its own unless that was shorter for
\* somebody who was let through belatedly.
NoOvertaking ==
    \A t \in Tasks \ excused, i \in DOMAIN released :
        /\ Asleep(t) /\ sleeper[t].arrived < released[i].arrived
        /\ released[i].at < sleeper[t].until
        => released[i].arrived < released[i].at /\ Belated(t)

\* Docstring of __init__, "Maximum number of requests allowed in the time window".
WindowRespected ==
    \A i \in DOMAIN released :
        Cardinality({j \in 1..i : released[i].at - released[j].at < TimeWindow}) <= MaxRequests
==============================================================================
