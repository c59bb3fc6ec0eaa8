--------------------------- MODULE CacheMaintenance ---------------------------
(***************************************************************************)
(* The CacheMaintenanceTask of app/tasks/cache_maintenance.py with a Redis *)
(* to connect to: start() and stop() both await between the flag they look *)
(* at and what they do next, and other calls of either come in between.    *)
(***************************************************************************)
EXTENDS Integers, FiniteSets

CONSTANTS Starters, Stoppers,   \* callers of start and of stop
          None,
          MaxTasks              \* bound: background tasks made

MaintenanceAssumption == IsFiniteSet(Starters) /\ MaxTasks \in Nat

VARIABLES running,     \* self._running
          task,        \* self._task, or None
          alive,       \* the background tasks that have not ended, in their loop
          cancelled,   \* those that have been cancelled
          starting,    \* callers of start() that await the connection
          stopping,    \* for each caller of stop(), the task it awaits, or None
          made,        \* the number of tasks made
          overlapped   \* history: two calls of start() have awaited at the same time

vars == <<running, task, alive, cancelled, starting, stopping, made, overlapped>>

Tasks == 1..MaxTasks

TypeOK ==
    /\ running \in BOOLEAN
    /\ task \in {None} \union Tasks
    /\ alive \in SUBSET Tasks /\ cancelled \in SUBSET alive
    /\ starting \in SUBSET Starters
    /\ stopping \in [Stoppers -> {None} \union Tasks]
    /\ made \in 0..MaxTasks
    /\ overlapped \in BOOLEAN

Init ==
    /\ running = FALSE /\ task = None
    /\ alive = {} /\ cancelled = {}
    /\ starting = {} /\ stopping = [s \in Stoppers |-> None]
    /\ made = 0 /\ overlapped = FALSE

\* start() finds nothing running and connects.
Start(s) ==
    /\ s \notin starting
    /\ ~running
    /\ made + Cardinality(starting) < MaxTasks
    /\ starting' = starting \union {s}
    /\ overlapped' = (overlapped \/ starting # {})
    /\ UNCHANGED <<running, task, alive, cancelled, stopping, made>>

\* The connection is there or has failed: start() makes the task.
Connected(s) ==
    /\ s \in starting
    /\ starting' = starting \ {s}
    /\ running' = TRUE
    /\ made' = made + 1
    /\ task' = made'
    /\ alive' = alive \union {made'}
    /\ UNCHANGED <<cancelled, stopping, overlapped>>

\* Mutant: the flag is lowered and the task left to notice it.
StopByFlag(s) ==
    /\ stopping[s] = None
    /\ running
    /\ running' = FALSE
    /\ UNCHANGED <<task, alive, cancelled, starting, stopping, made, overlapped>>

\* stop() lowers the flag, cancels the task and awaits it.
Stop(s) ==
    /\ stopping[s] = None
    /\ running
    /\ running' = FALSE
    /\ cancelled' = cancelled \union ({task} \intersect alive)
    /\ stopping' = [stopping EXCEPT ![s] = task]
    /\ UNCHANGED <<task, alive, starting, made, overlapped>>

\* The task has ended: stop() closes the connection and returns.
Stopped(s) ==
    /\ stopping[s] # None
    /\ stopping[s] \notin alive
    /\ stopping' = [stopping EXCEPT ![s] = None]
    /\ UNCHANGED <<running, task, alive, cancelled, starting, made, overlapped>>

\* The loop ends at an await by a cancellation, or at its head by the flag.
End(t) ==
    /\ t \in alive
    /\ t \in cancelled \/ ~running
    /\ alive' = alive \ {t}
    /\ cancelled' = cancelled \ {t}
    /\ UNCHANGED <<running, task, starting, stopping, made, overlapped>>

Next ==
    \/ \E s \in Starters : Start(s) \/ Connected(s)
    \/ \E s \in Stoppers : Stop(s) \/ Stopped(s)
    \/ \E t \in Tasks : End(t)

Spec == Init /\ [][Next]_vars
------------------------------------------------------------------------------
\* The flag tells the truth: while it is up its task is alive, and a task that is
\* alive besides is one that some stop() still awaits, so none is left behind when
\* the last stop() returns.  Only two calls of start() that overlap can spoil it.
OneTaskRuns ==
    \/ overlapped
    \/ /\ running => task \in alive \ cancelled
       /\ alive \subseteq {stopping[s] : s \in Stoppers} \union (IF running THEN {task} ELSE {})
==============================================================================
