---------------------------- MODULE SearchService ----------------------------
(***************************************************************************)
(* SearchService.search (app/services/search.py): concurrent searches on   *)
(* one service object.  A search runs every parser through that parser's   *)
(* circuit breaker under an individual timeout, all of them under an       *)
(* overall one, then passes what came back through the service's single    *)
(* DuplicateFilter.  The breakers are shared by all searches of the        *)
(* process and the filter by all searches of the service.                  *)
(*                                                                         *)
(* The pass over the filter has no await: it is one step.  The save that   *)
(* follows it is called with db=None, raises, and the exception is caught: *)
(* it changes nothing.                                                     *)
(***************************************************************************)
EXTENDS Breaker, BloomFilter, SequencesExt

CONSTANTS Parsers, ParserOrder,  \* self.parsers
          Searches,              \* calls of search(), one run each
          Pages                  \* lists of listing keys a parser may return

ASSUME SearchAssumption ==
    /\ ParserOrder \in Seq(Parsers)
    /\ \A p \in Parsers : \E i \in 1..Len(ParserOrder) : ParserOrder[i] = p
    /\ Pages \in SUBSET Seq(Keys)
    /\ IsFiniteSet(Searches)

VARIABLES breakers,  \* ParserCircuitBreaker._breakers
          filter,    \* self.duplicate_filter
          phase,     \* where each search is
          task,      \* its parser tasks
          page,      \* what each of them returned
          returned   \* the lists the searches returned

vars == <<breakers, filter, phase, task, page, returned>>

Phase == {"new", "parsing", "gathered", "finished"}
TaskState == {"waiting", "running", "done"}

TypeOK ==
    /\ breakers \in [Parsers -> BreakerType]
    /\ filter \in FilterType
    /\ phase \in [Searches -> Phase]
    /\ task \in [Searches -> [Parsers -> TaskState]]
    /\ page \in [Searches -> [Parsers -> Pages \union {<< >>}]]
    /\ returned \in [Searches -> Seq(Keys)]

Init ==
    /\ breakers = [p \in Parsers |-> NewBreaker]
    /\ filter = NewFilter
    /\ phase = [s \in Searches |-> "new"]
    /\ task = [s \in Searches |-> [p \in Parsers |-> "waiting"]]
    /\ page = [s \in Searches |-> [p \in Parsers |-> << >>]]
    /\ returned = [s \in Searches |-> << >>]

Start(s) ==
    /\ phase[s] = "new"
    /\ phase' = [phase EXCEPT ![s] = "parsing"]
    /\ UNCHANGED <<breakers, filter, task, page, returned>>

\* call_parser up to the await of the parser; a rejected call yields [].
\* The clock is never read here: a breaker's failure_time is never set.
StartTask(s, p) ==
    /\ phase[s] = "parsing"
    /\ task[s][p] = "waiting"
    /\ LET rejected == MustReject(breakers[p], 0) IN
       /\ breakers' = [breakers EXCEPT ![p] = IF rejected THEN RejectCall(@) ELSE AdmitCall(@)]
       /\ task' = [task EXCEPT ![s][p] = IF rejected THEN "done" ELSE "running"]
    /\ UNCHANGED <<filter, phase, page, returned>>

EndTask(s, p, found) ==
    /\ phase[s] = "parsing"
    /\ task[s][p] = "running"
    /\ task' = [task EXCEPT ![s][p] = "done"]
    /\ page' = [page EXCEPT ![s][p] = found]
    /\ UNCHANGED <<filter, phase, returned>>

\* _parse_with_parser returned, possibly [] for parameters it finds invalid.
TaskReturns(s, p) ==
    /\ \E found \in Pages : EndTask(s, p, found)
    /\ breakers' = [breakers EXCEPT ![p] = OnSuccess(@)]

\* _parse_with_parser raised; the exception is replaced by [].
TaskRaises(s, p) ==
    /\ EndTask(s, p, << >>)
    /\ breakers' = [breakers EXCEPT ![p] = OnFailure(@, 0)]

\* The individual wait_for cancels the parser, whose breaker never hears of it.
TaskTimesOut(s, p) ==
    /\ EndTask(s, p, << >>)
    /\ UNCHANGED breakers

\* Mutant: the search waits until every parser has found something.
GatherWhenAllFound(s) ==
    /\ phase[s] = "parsing"
    /\ \A p \in Parsers : page[s][p] # << >>
    /\ phase' = [phase EXCEPT ![s] = "gathered"]
    /\ UNCHANGED <<breakers, filter, task, page, returned>>

\* Every parser task is over.
Gather(s) ==
    /\ phase[s] = "parsing"
    /\ \A p \in Parsers : task[s][p] = "done"
    /\ phase' = [phase EXCEPT ![s] = "gathered"]
    /\ UNCHANGED <<breakers, filter, task, page, returned>>

\* The overall wait_for cancels what still runs and drops what was returned.  The
\* tasks' first steps were queued before its timer could fire.
OverallTimeout(s) ==
    /\ phase[s] = "parsing"
    /\ \A p \in Parsers : task[s][p] # "waiting"
    /\ \E p \in Parsers : task[s][p] = "running"
    /\ phase' = [phase EXCEPT ![s] = "gathered"]
    /\ task' = [task EXCEPT ![s] = [p \in Parsers |-> "done"]]
    /\ page' = [page EXCEPT ![s] = [p \in Parsers |-> << >>]]
    /\ UNCHANGED <<breakers, filter, returned>>

\* The pages of the first i parsers, one behind the other.
Gathered(s) ==
    LET upTo[i \in 0..Len(ParserOrder)] ==
            IF i = 0 THEN << >> ELSE upTo[i - 1] \o page[s][ParserOrder[i]]
    IN  upTo

\* all_properties: the pages in the order of self.parsers.
AllFound(s) == Gathered(s)[Len(ParserOrder)]

\* The pass over the found keys after i of them: the filter and unique_properties.
Passed(f, found) ==
    LET after[i \in 0..Len(found)] ==
            IF i = 0 THEN [filter |-> f, unique |-> << >>]
            ELSE IF IsDuplicate(after[i - 1].filter, found[i]) THEN after[i - 1]
            ELSE [filter |-> Remember(after[i - 1].filter, found[i]),
                  unique |-> Append(after[i - 1].unique, found[i])]
    IN  after

\* Mutant: the keys are looked up but not remembered.
FilterWithoutMemory(f, found) ==
    [filter |-> f, unique |-> SelectSeq(found, LAMBDA k : ~IsDuplicate(f, k))]

\* The pass over all_properties: a key that is no duplicate is kept.
FilterPass(f, found) == Passed(f, found)[Len(found)]

Finish(s) ==
    /\ phase[s] = "gathered"
    /\ \E pass \in {FilterPass(filter, AllFound(s))} :
          /\ filter' = pass.filter
          /\ returned' = [returned EXCEPT ![s] = pass.unique]
    /\ phase' = [phase EXCEPT ![s] = "finished"]
    /\ UNCHANGED <<breakers, task, page>>

EndsTask(s, p) == TaskReturns(s, p) \/ TaskRaises(s, p) \/ TaskTimesOut(s, p)

Done == (\A s \in Searches : phase[s] = "finished") /\ UNCHANGED vars

Next ==
    \/ \E s \in Searches : Start(s) \/ Gather(s) \/ OverallTimeout(s) \/ Finish(s)
    \/ \E s \in Searches, p \in Parsers : StartTask(s, p) \/ EndsTask(s, p)
    \/ Done

Spec == Init /\ [][Next]_vars

\* The event loop runs every ready task, and each wait_for of the parsers fires.
Fairness ==
    /\ \A s \in Searches : WF_vars(Gather(s)) /\ WF_vars(Finish(s))
    /\ \A s \in Searches, p \in Parsers : WF_vars(StartTask(s, p)) /\ WF_vars(EndsTask(s, p))

FairSpec == Spec /\ Fairness
------------------------------------------------------------------------------
ReturnedBy(searches) == UNION {ToSet(returned[s]) : s \in searches}

FoundBy(s) == UNION {ToSet(page[s][p]) : p \in Parsers}

\* A listing is delivered once: no list a search returned holds a key twice, and
\* no two searches return the same key, however their parsers interleave.
DeliveredOnce ==
    /\ \A s \in Searches : IsInjective(returned[s])
    /\ \A s, t \in Searches : s # t => ReturnedBy({s}) \intersect ReturnedBy({t}) = {}

\* No listing is lost: what the parsers of a finished search returned was
\* returned by it or by an earlier search, or the Bloom filter took it for a
\* duplicate because the bits of delivered keys cover its own.
FoundIsDelivered ==
    \A s \in Searches : phase[s] = "finished" =>
        \A k \in FoundBy(s) :
            \/ k \in ReturnedBy(Searches)
            \/ ~filter.has_exact /\ Hash[k] \subseteq BitsOf(ReturnedBy(Searches))

\* The parsers' breakers account for the tasks of all searches together: every
\* task that began is counted once, and those cancelled by either timeout are
\* the only ones that never report.
TasksAccounted ==
    \A p \in Parsers :
        LET b == breakers[p]
            Tasks(states) == Cardinality({s \in Searches : task[s][p] \in states})
        IN  /\ b.total_calls = Tasks({"running", "done"})
            /\ b.successful_calls + b.failed_calls + b.rejected_calls <= Tasks({"done"})

\* Every search that starts returns, even if a parser hangs.
SearchesReturn == \A s \in Searches : phase[s] = "parsing" ~> phase[s] = "finished"

\* The docstring of search, "Returns: the list of the properties found": a
\* finished search has returned every key its parsers found.
ReturnsWhatItFound ==
    \A s \in Searches :
        phase[s] = "finished" => FoundBy(s) \subseteq ReturnedBy({s})
==============================================================================
