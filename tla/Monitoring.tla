------------------------------ MODULE Monitoring ------------------------------
(***************************************************************************)
(* MonitoringSystem of app/core/monitoring.py: the loops that start() and  *)
(* stop() make and end, and AlertManager.check_alerts, which walks over    *)
(* the dictionary of rules and waits for the notification of each alert in *)
(* the middle of the walk, while rules are added and removed.              *)
(***************************************************************************)
EXTENDS Integers, Sequences, FiniteSets

CONSTANTS Names,      \* of the rules
          Loops,      \* the tasks that start() creates, in the order it creates them
          Cooldown,   \* cooldown_seconds, of every rule
          None,
          MaxAdded,   \* bound: calls of add_rule, too few for the dictionary to be rebuilt
          MaxTime     \* bound: the clock

VARIABLES rules,      \* place in the dictionary, age and last_triggered of each rule
          added,      \* calls of add_rule
          running,    \* self._running
          task,       \* self._check_task
          alive,      \* the loops that have not ended
          check,      \* for each loop, the walk that waits for a notification
          now,
          alerts,     \* history: for each rule, when the checks began that raised its alerts
          missed,     \* history: rules that a completed check should have raised
          restarted   \* history: start was called while running

checking == <<rules, check, alerts, missed>>
looping == <<running, task, alive, restarted>>
vars == <<checking, added, looping, now>>

Rule == [at : 1..MaxAdded, made : 1..MaxAdded, last : {-Cooldown} \union 0..MaxTime]
Walk == [began : 0..MaxTime, size : 0..Cardinality(Names), past : 0..MaxAdded,
         above : SUBSET Names, made : 0..MaxAdded]

MonitoringAssumption ==
    /\ Loops \subseteq Nat /\ IsFiniteSet(Names)
    /\ Cooldown \in Nat \ {0}
    /\ MaxAdded \in Nat /\ MaxTime \in Nat
    /\ None \notin Rule /\ None \notin Walk

TypeOK ==
    /\ rules \in [Names -> {None} \union Rule]
    /\ added \in 0..MaxAdded
    /\ running \in BOOLEAN
    /\ task \in {None} \union Loops /\ alive \subseteq Loops
    /\ check \in [Loops -> {None} \union Walk]
    /\ now \in 0..MaxTime
    /\ alerts \in [Names -> Seq(0..MaxTime)]
    /\ missed \subseteq Names
    /\ restarted \in BOOLEAN

Init ==
    /\ rules = [n \in Names |-> None] /\ added = 0
    /\ running = FALSE /\ task = None /\ alive = {}
    /\ check = [l \in Loops |-> None]
    /\ now = 0
    /\ alerts = [n \in Names |-> << >>]
    /\ missed = {} /\ restarted = FALSE

Present == {n \in Names : rules[n] # None}

Tick ==
    /\ now < MaxTime
    /\ now' = now + 1
    /\ UNCHANGED <<checking, added, looping>>
------------------------------------------------------------------------------
\* A rule of a known name takes the place of the old one; a new name goes to the end.
AddRule(n) ==
    /\ added < MaxAdded
    /\ added' = added + 1
    /\ rules' = [rules EXCEPT ![n] =
           [at |-> IF rules[n] = None THEN added + 1 ELSE rules[n].at,
            made |-> added + 1, last |-> -Cooldown]]
    /\ alerts' = [alerts EXCEPT ![n] = << >>]
    /\ UNCHANGED <<check, missed, looping, now>>

RemoveRule(n) ==
    /\ rules[n] # None
    /\ rules' = [rules EXCEPT ![n] = None]
    /\ alerts' = [alerts EXCEPT ![n] = << >>]
    /\ UNCHANGED <<added, check, missed, looping, now>>
------------------------------------------------------------------------------
\* The rules a walk would raise, compared with the time at which the check began.
Raised(walk) ==
    {n \in Present \intersect walk.above : walk.began >= rules[n].last + Cooldown}

\* Those of them that the walk has not come to.
Due(walk) == {n \in Raised(walk) : rules[n].at > walk.past}

\* Mutant: the time of the alert is not kept.
TriggerUntimed(n, walk) == UNCHANGED rules

Trigger(n, walk) == rules' = [rules EXCEPT ![n].last = walk.began]

RaiseNext(l, walk) ==
    \E n \in Due(walk) :
        /\ \A m \in Due(walk) : rules[n].at <= rules[m].at
        /\ Trigger(n, walk)
        /\ alerts' = [alerts EXCEPT ![n] = Append(@, walk.began)]
        /\ check' = [check EXCEPT ![l] = [walk EXCEPT !.past = rules[n].at]]
        /\ UNCHANGED missed

Complete(l, walk) ==
    /\ Due(walk) = {}
    /\ check' = [check EXCEPT ![l] = None]
    /\ missed' = missed \union {n \in Raised(walk) : rules[n].made <= walk.made}
    /\ UNCHANGED <<rules, alerts>>

\* Mutant: the walk ends with the first alert.
WalkOnFirst(l, walk) ==
    IF walk.past = 0 THEN RaiseNext(l, walk) \/ Complete(l, walk)
    ELSE Complete(l, [walk EXCEPT !.past = MaxAdded])

\* On to the next alert, in the order of the dictionary, or to the end of the walk.
WalkOn(l, walk) == RaiseNext(l, walk) \/ Complete(l, walk)

\* A loop wakes: the metrics that it reads are above the thresholds of some rules.  The
\* application registers no system checks, which would be awaited before.
Check(l) ==
    /\ l \in alive /\ running /\ check[l] = None
    /\ \E above \in SUBSET Present :
           WalkOn(l, [began |-> now, size |-> Cardinality(Present), past |-> 0,
                      above |-> above, made |-> added])
    /\ UNCHANGED <<added, looping, now>>

\* The notification has been sent, or has failed, which is caught.
Notified(l) ==
    /\ check[l] # None /\ check[l].size = Cardinality(Present)
    /\ WalkOn(l, check[l])
    /\ UNCHANGED <<added, looping, now>>

\* RuntimeError: the dictionary changed size during the walk; _run_checks catches it.
BreakOff(l) ==
    /\ check[l] # None /\ check[l].size # Cardinality(Present)
    /\ check' = [check EXCEPT ![l] = None]
    /\ UNCHANGED <<rules, alerts, missed, added, looping, now>>
------------------------------------------------------------------------------
Start(l) ==
    /\ l \notin alive /\ \A k \in Loops : k < l <=> task # None /\ k <= task
    /\ running' = TRUE
    /\ task' = l /\ alive' = alive \union {l}
    /\ restarted' = (restarted \/ running)
    /\ UNCHANGED <<checking, added, now>>

\* Mutant: the loop is left to find out for itself.
StopByFlag ==
    /\ task # None
    /\ running' = FALSE
    /\ UNCHANGED <<checking, added, task, alive, restarted, now>>

\* The loop that was started last is cancelled wherever it waits, and awaited.
Stop ==
    /\ task # None
    /\ running' = FALSE
    /\ alive' = alive \ {task}
    /\ check' = [check EXCEPT ![task] = None]
    /\ UNCHANGED <<rules, alerts, missed, added, task, restarted, now>>

\* A loop that stop did not know of wakes and finds the flag down.
End(l) ==
    /\ l \in alive /\ ~running /\ check[l] = None
    /\ alive' = alive \ {l}
    /\ UNCHANGED <<checking, added, running, task, restarted, now>>

Next ==
    \/ Tick \/ Stop
    \/ \E n \in Names : AddRule(n) \/ RemoveRule(n)
    \/ \E l \in Loops : Start(l) \/ Check(l) \/ Notified(l) \/ BreakOff(l) \/ End(l)

Spec == Init /\ [][Next]_vars
------------------------------------------------------------------------------
\* Two alerts of one rule come from checks that began at least a cooldown apart, even
\* when the checks of two loops overlap while a notification is being sent.
AlertsSpaced ==
    \A n \in Names : \A i \in 2..Len(alerts[n]) :
        alerts[n][i] - alerts[n][i - 1] >= Cooldown

\* A check that walks to its end leaves no alert out, of the rules that were there
\* when it began, whatever was replaced or swapped during its notifications.
ChecksComplete == missed = {}

\* At most one loop runs unless start was called twice in a row.
OneLoopRuns == restarted \/ Cardinality(alive) <= 1

AlertingSound == AlertsSpaced /\ ChecksComplete /\ OneLoopRuns
==============================================================================
