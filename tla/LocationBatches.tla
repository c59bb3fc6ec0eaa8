---------------------------- MODULE LocationBatches ----------------------------
(***************************************************************************)
(* One call of BatchProcessor.process_multiple_parsers of                  *)
(* app/utils/batch_processor.py over parsers of the optimized base class:  *)
(* every parser visits every location, within two semaphores.  A callback  *)
(* or a save that raises ends the gather of its parser, and the locations  *)
(* still to visit go on behind its back.                                   *)
(***************************************************************************)
EXTENDS Integers, FiniteSets

CONSTANTS Parsers, Locations,
          MaxParsers, MaxLocations,   \* max_concurrent_parsers, max_concurrent_locations
          MaxRetries

LocationBatchesAssumption ==
    /\ IsFiniteSet(Parsers) /\ IsFiniteSet(Locations)
    /\ {MaxParsers, MaxLocations, MaxRetries} \subseteq Nat

VARIABLES parser,     \* what the task of each parser does
          visit,      \* what the task of each location does, for each parser
          retries,    \* the retries it has begun
          client,     \* the parsers that have an HTTP client
          found,      \* the locations in the results of each parser
          errors,     \* the locations among its errors
          reported    \* the parsers in the results of the call

vars == <<parser, visit, retries, client, found, errors, reported>>

TypeOK ==
    /\ parser \in [Parsers -> {"waiting", "running", "leaving", "left"}]
    /\ visit \in [Parsers -> [Locations ->
                    {"none", "waiting", "parsing", "backoff", "ended", "raised"}]]
    /\ retries \in [Parsers -> [Locations -> 0..MaxRetries]]
    /\ client \in SUBSET Parsers
    /\ found \in [Parsers -> SUBSET Locations]
    /\ errors \in [Parsers -> SUBSET Locations]
    /\ reported \in SUBSET Parsers

Init ==
    /\ parser = [p \in Parsers |-> "waiting"]
    /\ visit = [p \in Parsers |-> [l \in Locations |-> "none"]]
    /\ retries = [p \in Parsers |-> [l \in Locations |-> 0]]
    /\ client = {}
    /\ found = [p \in Parsers |-> {}]
    /\ errors = [p \in Parsers |-> {}]
    /\ reported = {}

\* Mutant: a parser gives its permit back before its client is closed.
EnteredRunning == {p \in Parsers : parser[p] = "running"}

Entered == {p \in Parsers : parser[p] \in {"running", "leaving"}}

Visiting(p) == {l \in Locations : visit[p][l] \in {"parsing", "backoff"}}

To(p, l, state) == visit' = [visit EXCEPT ![p][l] = state]
------------------------------------------------------------------------------
\* The parser gets a permit and its client, and makes a task for every location.
Enter(p) ==
    /\ parser[p] = "waiting"
    /\ Cardinality(Entered) < MaxParsers
    /\ parser' = [parser EXCEPT ![p] = "running"]
    /\ client' = client \union {p}
    /\ visit' = [visit EXCEPT ![p] = [l \in Locations |-> "waiting"]]
    /\ UNCHANGED <<retries, found, errors, reported>>

\* Mutant: the permits for locations are not waited for.
MayVisitAny(p) == TRUE

MayVisit(p) == Cardinality(Visiting(p)) < MaxLocations

Visit(p, l) ==
    /\ visit[p][l] = "waiting"
    /\ MayVisit(p)
    /\ To(p, l, "parsing")
    /\ UNCHANGED <<parser, retries, client, found, errors, reported>>

\* A request of a parser whose client is gone makes a new one.
Reconnect(p, l) ==
    /\ visit[p][l] = "parsing" /\ p \notin client
    /\ client' = client \union {p}
    /\ UNCHANGED <<parser, visit, retries, found, errors, reported>>

\* The outcome is recorded; then the callback or the save may raise.
Succeed(p, l) ==
    /\ visit[p][l] = "parsing"
    /\ found' = [found EXCEPT ![p] = @ \union {l}]
    /\ To(p, l, "ended") \/ To(p, l, "raised")
    /\ UNCHANGED <<parser, retries, client, errors, reported>>

Fail(p, l) ==
    /\ visit[p][l] = "parsing" /\ retries[p][l] < MaxRetries
    /\ To(p, l, "backoff")
    /\ UNCHANGED <<parser, retries, client, found, errors, reported>>

Retry(p, l) ==
    /\ visit[p][l] = "backoff"
    /\ To(p, l, "parsing")
    /\ retries' = [retries EXCEPT ![p][l] = @ + 1]
    /\ UNCHANGED <<parser, client, found, errors, reported>>

\* Mutant: only the first location that fails is recorded.
ErrorsOnce(p, l) == IF errors[p] = {} THEN {l} ELSE errors[p]

ErrorsWith(p, l) == errors[p] \union {l}

GiveUp(p, l) ==
    /\ visit[p][l] = "parsing" /\ retries[p][l] = MaxRetries
    /\ errors' = [errors EXCEPT ![p] = ErrorsWith(p, l)]
    /\ To(p, l, "ended") \/ To(p, l, "raised")
    /\ UNCHANGED <<parser, retries, client, found, reported>>

\* Mutant: the gather returns with the first location that has ended.
GatheredAny(p) == \E l \in Locations : visit[p][l] = "ended"

Gathered(p) == \A l \in Locations : visit[p][l] = "ended"

\* The gather returns when every location has ended, and the results are reported.
Collect(p) ==
    /\ parser[p] = "running"
    /\ Gathered(p)
    /\ reported' = reported \union {p}
    /\ parser' = [parser EXCEPT ![p] = "leaving"]
    /\ UNCHANGED <<visit, retries, client, found, errors>>

\* The gather raises what one location raised; the other tasks are not cancelled.
Abort(p) ==
    /\ parser[p] = "running"
    /\ \E l \in Locations : visit[p][l] = "raised"
    /\ parser' = [parser EXCEPT ![p] = "leaving"]
    /\ UNCHANGED <<visit, retries, client, found, errors, reported>>

\* The client is closed and the permit given back; the outer gather keeps no exception.
Leave(p) ==
    /\ parser[p] = "leaving"
    /\ parser' = [parser EXCEPT ![p] = "left"]
    /\ client' = client \ {p}
    /\ UNCHANGED <<visit, retries, found, errors, reported>>

Next ==
    \E p \in Parsers :
        \/ Enter(p) \/ Collect(p) \/ Abort(p) \/ Leave(p)
        \/ \E l \in Locations :
            \/ Visit(p, l) \/ Reconnect(p, l)
            \/ Succeed(p, l) \/ Fail(p, l) \/ Retry(p, l) \/ GiveUp(p, l)

Spec == Init /\ [][Next]_vars
------------------------------------------------------------------------------
Disrupted(p) == \E l \in Locations : visit[p][l] = "raised"

\* A parser that is reported has every location among its results or its errors, and
\* never in both; one that is missing at the end has met a callback or a save that raised.
LocationsAccounted ==
    \A p \in Parsers :
        /\ found[p] \intersect errors[p] = {}
        /\ p \in reported => found[p] \union errors[p] = Locations
        /\ parser[p] = "left" => p \in reported \/ Disrupted(p)

\* Visits keep within the limits and nothing outlives its parser, no task and no
\* client; only behind the back of a parser that was cut short are there more visits
\* or clients than the limits allow, and a client made after the last was closed.
NothingLeftBehind ==
    /\ \A p \in Parsers : Cardinality(Visiting(p)) <= MaxLocations
    /\ (\A p \in Parsers : ~Disrupted(p)) =>
           /\ Cardinality(client) <= MaxParsers
           /\ Cardinality(UNION {{p} \X Visiting(p) : p \in Parsers}) <= MaxParsers * MaxLocations
    /\ \A p \in Parsers :
           parser[p] = "left" /\ ~Disrupted(p) => Visiting(p) = {} /\ p \notin client

\* Both of them.
BatchesEndClean == LocationsAccounted /\ NothingLeftBehind
==============================================================================
