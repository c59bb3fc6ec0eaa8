------------------------------- MODULE AuditLog -------------------------------
(***************************************************************************)
(* AuditLogger of app/core/audit_log.py: entries go through a queue to a   *)
(* writer that stores them in batches and can be stopped and started.      *)
(***************************************************************************)
EXTENDS Integers, FiniteSets, SequencesExt

CONSTANTS Writers,      \* the tasks start() creates, in the order it creates them
          BatchSize,    \* batch_size of _process_write_queue
          None,
          MaxEntries    \* bound: entries logged

AuditLogAssumption ==
    /\ IsFiniteSet(Writers) /\ Writers = 1..Cardinality(Writers)
    /\ BatchSize \in Nat \ {0} /\ MaxEntries \in Nat /\ None \notin Seq(1..MaxEntries) \union Nat

VARIABLES logged,       \* entries are numbered as they come
          queue,        \* self._write_queue
          task,         \* self._write_task
          batch,        \* for each writer that runs, the entries it has taken
          stored,       \* storage._entries
          stopping,     \* stop() awaits a task that its cancellation did not reach
          restarted     \* history: two writers ran at a time

vars == <<logged, queue, task, batch, stored, stopping, restarted>>

Entries == 1..MaxEntries

TypeOK ==
    /\ logged \in 0..MaxEntries
    /\ queue \in Seq(Entries) /\ stored \in Seq(Entries)
    /\ task \in Writers \union {None}
    /\ batch \in [Writers -> Seq(Entries) \union {None}]
    /\ stopping \in BOOLEAN /\ restarted \in BOOLEAN

Init ==
    /\ logged = 0 /\ queue = << >> /\ stored = << >>
    /\ task = None /\ batch = [w \in Writers |-> None]
    /\ stopping = FALSE /\ restarted = FALSE

Running == {w \in Writers : batch[w] # None}

Start(w) ==
    /\ batch[w] = None /\ \A v \in Writers : v < w <=> task # None /\ v <= task
    /\ task' = w
    /\ batch' = [batch EXCEPT ![w] = << >>]
    /\ restarted' = (restarted \/ Running # {})
    /\ UNCHANGED <<logged, queue, stored, stopping>>

LogAction ==
    /\ logged < MaxEntries
    /\ logged' = logged + 1
    /\ queue' = Append(queue, logged')
    /\ UNCHANGED <<task, batch, stored, stopping, restarted>>
------------------------------------------------------------------------------
\* Mutant: the batch is stored and kept.
FlushKept(w, entries) ==
    /\ stored' = stored \o entries
    /\ batch' = [batch EXCEPT ![w] = entries]

Flush(w, entries) ==
    /\ stored' = stored \o entries
    /\ batch' = [batch EXCEPT ![w] = << >>]

Hold(w, entries) ==
    /\ Len(entries) < BatchSize
    /\ batch' = [batch EXCEPT ![w] = entries]
    /\ UNCHANGED stored

\* An entry comes; the batch is stored when it is full or the interval has passed.
Take(w) ==
    /\ batch[w] # None /\ queue # << >>
    /\ queue' = Tail(queue)
    /\ Flush(w, Append(batch[w], Head(queue))) \/ Hold(w, Append(batch[w], Head(queue)))
    /\ UNCHANGED <<logged, task, stopping, restarted>>

\* No entry comes within a second, and the interval has passed.
TimeOut(w) ==
    /\ batch[w] \notin {None, << >>} /\ queue = << >>
    /\ Flush(w, batch[w])
    /\ UNCHANGED <<logged, queue, task, stopping, restarted>>
------------------------------------------------------------------------------
\* Mutant: the batch that the writer holds is dropped with it.
LeaveBehind(w) == UNCHANGED stored

Leave(w) == stored' = stored \o batch[w]

Stop ==
    /\ task # None /\ ~stopping /\ batch[task] # None
    /\ Leave(task)
    /\ batch' = [batch EXCEPT ![task] = None]
    /\ UNCHANGED <<logged, queue, task, stopping, restarted>>

\* An entry came in the same turn of the event loop: wait_for returns it and forgets the
\* cancellation, so that the writer goes on and stop() waits for it.
StopUnheard ==
    /\ task # None /\ ~stopping /\ batch[task] # None /\ queue # << >>
    /\ stopping' = TRUE
    /\ UNCHANGED <<logged, queue, task, batch, stored, restarted>>

Next ==
    \/ LogAction \/ Stop \/ StopUnheard
    \/ \E w \in Writers : Start(w) \/ Take(w) \/ TimeOut(w)

Spec == Init /\ [][Next]_vars
------------------------------------------------------------------------------
Held == FlattenSeq([w \in Writers |-> IF batch[w] = None THEN << >> ELSE batch[w]])

\* Every entry logged is stored, in a batch or in the queue, once, whenever writers are
\* stopped and started; and in the order of the calls unless two writers ran at a time.
EntriesKept ==
    LET all == stored \o Held \o queue
    IN  /\ Len(all) = logged /\ ToSet(all) = 1..logged
        /\ restarted \/ all = [i \in 1..logged |-> i]
==============================================================================
