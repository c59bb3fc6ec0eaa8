------------------------------ MODULE AsyncTasks ------------------------------
(***************************************************************************)
(* The tasks of app/api/endpoints/async_tasks.py: an execution that sleeps *)
(* between its steps and reports to an entry of task_store, which requests *)
(* cancel, delete and clean up meanwhile.                                  *)
(***************************************************************************)
EXTENDS Integers

CONSTANTS None,
          MaxTasks,   \* bound: tasks submitted
          MaxSteps    \* bound: steps of a task

Ids == 1..MaxTasks            \* in the order of created_at
Invalid == -1                 \* the steps of a task whose type or parameters are refused
Status == {"pending", "running", "completed", "failed", "cancelled"}
Entry == [status : Status, result : BOOLEAN, error : BOOLEAN]
Absent == None

AsyncTasksAssumption == {MaxTasks, MaxSteps} \subseteq Nat /\ Absent \notin Entry

VARIABLES task_store,
          execution,   \* of each task: where it is, and the steps it has left
          submitted,   \* number of tasks
          cancelled,   \* history: tasks whose cancellation was confirmed
          atCancel,    \* history: the steps a task had left when it was cancelled while
                       \* running, MaxSteps + 1 if it was not
          deleted      \* history: tasks taken out of the store

vars == <<task_store, execution, submitted, cancelled, atCancel, deleted>>

TypeOK ==
    /\ task_store \in [Ids -> Entry \union {Absent}]
    /\ execution \in [Ids -> [at : {"none", "queued", "asleep", "over", "raised"},
                              left : Invalid..MaxSteps]]
    /\ submitted \in 0..MaxTasks
    /\ cancelled \in SUBSET Ids /\ deleted \in SUBSET Ids
    /\ atCancel \in [Ids -> 1..(MaxSteps + 1)]

Init ==
    /\ task_store = [id \in Ids |-> Absent]
    /\ execution = [id \in Ids |-> [at |-> "none", left |-> 0]]
    /\ submitted = 0 /\ cancelled = {} /\ deleted = {}
    /\ atCancel = [id \in Ids |-> MaxSteps + 1]

\* submit_task: the entry is made at once, the execution waits for the response.
Submit(steps) ==
    /\ submitted < MaxTasks
    /\ submitted' = submitted + 1
    /\ task_store' = [task_store EXCEPT ![submitted'] =
                        [status |-> "pending", result |-> FALSE, error |-> FALSE]]
    /\ execution' = [execution EXCEPT ![submitted'] = [at |-> "queued", left |-> steps]]
    /\ UNCHANGED <<cancelled, atCancel, deleted>>

\* The execution of a task goes on to "at"; what it reports is refused if the entry
\* is gone, and so is the failure it then reports: the error leaves execute_task.
Report(id, at, left, entry) ==
    /\ task_store' = IF task_store[id] = Absent THEN task_store
                     ELSE [task_store EXCEPT ![id] = entry]
    /\ execution' = [execution EXCEPT ![id] =
                       [at |-> IF task_store[id] = Absent THEN "raised" ELSE at, left |-> left]]
    /\ UNCHANGED <<submitted, cancelled, atCancel, deleted>>

Completed == [status |-> "completed", result |-> TRUE, error |-> FALSE]

\* Up to the first sleep, with nothing between status running and the first look at it.
Begin(id) ==
    LET left == execution[id].left
    IN /\ execution[id].at = "queued"
       /\ \/ /\ left = Invalid
             /\ Report(id, "over", left, [status |-> "failed", result |-> FALSE, error |-> TRUE])
          \/ left = 0 /\ Report(id, "over", left, Completed)
          \/ left > 0 /\ Report(id, "asleep", left,
                                [status |-> "running", result |-> FALSE, error |-> FALSE])

\* Mutant: the loop does not look whether the task was cancelled.
StepRegardless(id) ==
    LET left == execution[id].left - 1
    IN /\ execution[id].at = "asleep"
       /\ \/ left = 0 /\ Report(id, "over", left, Completed)
          \/ left > 0 /\ Report(id, "asleep", left, task_store[id])

\* A step ends.  The last one sets the result without a look at the status; after any
\* other the loop of a cancelled task returns, and execute_task goes on to completed.
Step(id) ==
    LET left == execution[id].left - 1
        entry == task_store[id]
        isCancelled == entry # Absent /\ entry.status = "cancelled"
    IN /\ execution[id].at = "asleep"
       /\ \/ left = 0 /\ Report(id, "over", left, Completed)
          \/ /\ left > 0 /\ isCancelled
             /\ Report(id, "over", left, [entry EXCEPT !.status = "completed"])
          \/ left > 0 /\ ~isCancelled /\ Report(id, "asleep", left, entry)

\* The server cancels the request that executes the task, in a sleep.
Interrupt(id) ==
    /\ execution[id].at = "asleep"
    /\ Report(id, "over", execution[id].left,
              [status |-> "cancelled", result |-> FALSE, error |-> FALSE])

Finished == {"completed", "failed", "cancelled"}

\* Mutant: a task that has finished is cancelled too.
CancelFinished(id) ==
    /\ task_store[id] # Absent
    /\ task_store' = [task_store EXCEPT ![id].status = "cancelled"]
    /\ cancelled' = cancelled \union {id}
    /\ UNCHANGED <<execution, submitted, atCancel, deleted>>

\* cancel_task, where it does not answer 404 or 400.
Cancel(id) ==
    /\ task_store[id] # Absent /\ task_store[id].status \notin Finished
    /\ task_store' = [task_store EXCEPT ![id].status = "cancelled"]
    /\ cancelled' = cancelled \union {id}
    /\ atCancel' = IF task_store[id].status = "running"
                   THEN [atCancel EXCEPT ![id] = execution[id].left] ELSE atCancel
    /\ UNCHANGED <<execution, submitted, deleted>>

Remove(ids) ==
    /\ ids # {}
    /\ task_store' = [id \in Ids |-> IF id \in ids THEN Absent ELSE task_store[id]]
    /\ deleted' = deleted \union ids
    /\ UNCHANGED <<execution, submitted, cancelled, atCancel>>

Delete(id) == task_store[id] # Absent /\ Remove({id})

\* cleanup_tasks: the oldest tasks, of one status or of any, running ones too.
Cleanup(newest, statuses) ==
    Remove({id \in 1..newest : task_store[id] # Absent /\ task_store[id].status \in statuses})

Next ==
    \/ \E steps \in Invalid..MaxSteps : Submit(steps)
    \/ \E id \in Ids : Begin(id) \/ Step(id) \/ Interrupt(id) \/ Cancel(id) \/ Delete(id)
    \/ \E newest \in Ids, statuses \in {Status} \union {{s} : s \in Status} :
        Cleanup(newest, statuses)

Spec == Init /\ [][Next]_vars
------------------------------------------------------------------------------
\* What get_task_status answers is true: the status tells where the execution is but
\* for a cancellation it has not noticed, only a completed task has a result, and only
\* one that was cancelled is completed without.  A task that was deleted stays so,
\* whatever its execution still reports.
StatusIsTrue ==
    \A id \in Ids :
        /\ id \in deleted => task_store[id] = Absent
        /\ task_store[id] # Absent =>
            LET status == task_store[id].status
                at == execution[id].at
            IN /\ status = "pending" => at = "queued"
               /\ status = "running" => at = "asleep"
               /\ at = "queued" => status \in {"pending", "cancelled"}
               /\ at = "asleep" => status \in {"running", "cancelled"}
               /\ at # "raised"
               /\ task_store[id].result => status = "completed"
               /\ status = "completed" => task_store[id].result \/ id \in cancelled
               /\ status = "failed" <=> task_store[id].error

\* A task that is cancelled while it runs begins no further step.
CancelStopsWork ==
    \A id \in Ids : execution[id].at \in {"asleep", "over"} /\ atCancel[id] <= MaxSteps
                    => execution[id].left >= atCancel[id] - 1

\* "Cancel a running task", with cancelled among the statuses of a task that has
\* "already finished": a cancellation that was confirmed is final.
CancelledStaysCancelled ==
    \A id \in cancelled : task_store[id] # Absent => task_store[id].status = "cancelled"
==============================================================================
