----------------------------- MODULE BatchPipeline -----------------------------
(***************************************************************************)
(* One call of BatchProcessor.process_batch of                             *)
(* app/parsers/batch_processing.py: the items are cut into batches, some   *)
(* of which run at a time, each over its items in order.  The retry is     *)
(* given a coroutine, not the function that makes it.                      *)
(***************************************************************************)
EXTENDS Integers, FiniteSets

CONSTANTS Items,        \* how many items
          BatchSize, MaxConcurrent,
          Attempts      \* stop_after_attempt of _process_with_retry

BatchPipelineAssumption ==
    {Items, MaxConcurrent} \subseteq Nat /\ {BatchSize, Attempts} \subseteq Nat \ {0}

Ceil(a, b) == (a + b - 1) \div b

Batches == 1..Ceil(Items, BatchSize)

VARIABLES batch,        \* what the task of each batch does
          next,         \* the item it is at or, when it waits, at which it starts
          tries,        \* the attempts at that item that have failed
          calls,        \* how often processor_func was called with each item
          processed, successful, failed,    \* the counters of the result
          results,      \* the items in its results
          status        \* its status; "in_progress" until the call returns

vars == <<batch, next, tries, calls, processed, successful, failed, results, status>>

First(b) == (b - 1) * BatchSize + 1

Last(b) == IF b * BatchSize < Items THEN b * BatchSize ELSE Items

TypeOK ==
    /\ batch \in [Batches -> {"waiting", "calling", "backoff", "ended", "raised"}]
    /\ next \in [Batches -> 1..(Items + 1)]
    /\ tries \in [Batches -> 0..Attempts]
    /\ calls \in [1..Items -> 0..Attempts]
    /\ processed \in 0..Items /\ successful \in 0..Items /\ failed \in 0..Items
    /\ results \in SUBSET (1..Items)
    /\ status \in {"in_progress", "completed", "failed"}

Init ==
    /\ batch = [b \in Batches |-> "waiting"]
    /\ next = [b \in Batches |-> First(b)]
    /\ tries = [b \in Batches |-> 0]
    /\ calls = [i \in 1..Items |-> 0] /\ processed = 0 /\ successful = 0 /\ failed = 0
    /\ results = {}
    /\ status = "in_progress"

\* Mutant: the permit is given back while a batch waits to try again.
RunningCalls == {b \in Batches : batch[b] = "calling"}

Running == {b \in Batches : batch[b] \in {"calling", "backoff"}}
------------------------------------------------------------------------------
\* Batch b goes on with item i or, after its last one, calls back, which may raise.
Advance(b, i) ==
    /\ next' = [next EXCEPT ![b] = i]
    /\ tries' = [tries EXCEPT ![b] = 0]
    /\ IF i <= Last(b)
       THEN /\ batch' = [batch EXCEPT ![b] = "calling"]
            /\ processed' = processed + 1
            /\ calls' = [calls EXCEPT ![i] = @ + 1]
       ELSE /\ \E end \in {"ended", "raised"} : batch' = [batch EXCEPT ![b] = end]
            /\ UNCHANGED <<processed, calls>>

Start(b) ==
    /\ batch[b] = "waiting"
    /\ Cardinality(Running) < MaxConcurrent
    /\ Advance(b, First(b))
    /\ UNCHANGED <<successful, failed, results, status>>

Succeed(b) ==
    /\ batch[b] = "calling"
    /\ results' = results \union {next[b]}
    /\ successful' = successful + 1
    /\ Advance(b, next[b] + 1)
    /\ UNCHANGED <<failed, status>>

\* The function raises or times out: its coroutine is used up.
Fail(b) ==
    /\ batch[b] = "calling"
    /\ tries' = [tries EXCEPT ![b] = 1]
    /\ batch' = [batch EXCEPT ![b] = "backoff"]
    /\ UNCHANGED <<next, calls, processed, successful, failed, results, status>>

\* The retry awaits the same coroutine, which can only raise.
AwaitAgain(b) ==
    /\ batch[b] = "backoff" /\ tries[b] + 1 < Attempts
    /\ tries' = [tries EXCEPT ![b] = @ + 1]
    /\ UNCHANGED <<batch, next, calls, processed, successful, failed, results, status>>

\* Mutant: an item that has failed for good is passed over.
AfterFailureSame == failed

AfterFailure == failed + 1

GiveUp(b) ==
    /\ batch[b] = "backoff" /\ tries[b] + 1 = Attempts
    /\ failed' = AfterFailure
    /\ Advance(b, next[b] + 1)
    /\ UNCHANGED <<successful, results, status>>

\* Mutant: the call returns when no batch is running.
GatheredNoneRunning == Running = {}

Gathered == \A b \in Batches : batch[b] = "ended"

\* The gather has every batch, or raises what one of them raised: the others go on,
\* and go on changing the result that was returned.
Return ==
    /\ status = "in_progress"
    /\ \/ Gathered /\ status' = "completed"
       \/ (\E b \in Batches : batch[b] = "raised") /\ status' = "failed"
    /\ UNCHANGED <<batch, next, tries, calls, processed, successful, failed, results>>

Next ==
    \/ Return
    \/ \E b \in Batches : Start(b) \/ Succeed(b) \/ Fail(b) \/ AwaitAgain(b) \/ GiveUp(b)

Spec == Init /\ [][Next]_vars
------------------------------------------------------------------------------
\* Every item begun is in progress, in the results or counted as failed, however
\* the batches interleave; a call that completes has begun every item; and no more
\* batches than allowed are at an item.
ItemsAccounted ==
    LET inProgress == Cardinality({b \in Batches : batch[b] \in {"calling", "backoff"}})
    IN  /\ successful = Cardinality(results)
        /\ processed = successful + failed + inProgress
        /\ status = "completed" => processed = Items /\ inProgress = 0
        /\ inProgress <= MaxConcurrent

\* "Process item with automatic retry": when item i is counted as failed, the
\* function has been called with it as often as there are attempts.
RetryCallsAgain ==
    \A b \in Batches, i \in 1..Items :
        First(b) <= i /\ i < next[b] /\ i \notin results => calls[i] = Attempts
==============================================================================
