------------------------------ MODULE MCServices ------------------------------
(***************************************************************************)
(* DuplicateFilter, Notifications, LocationBatches, BatchPipeline,         *)
(* ResilientParser, Monitoring, PropertyExport, AuditLog, AsyncTasks,      *)
(* PropertyAlerts, HttpPool, Bookmarks and ListingSearch for TLC.  They    *)
(* share no state, so a behaviour moves one of them.  DuplicateFilter is   *)
(* extended and the others are instantiated; each property of theirs is    *)
(* repeated here.  The constants of all of them are constants of this      *)
(* module: what is proved of it holds for each value.                      *)
(***************************************************************************)
EXTENDS DuplicateFilter, Sequences, TLC

CONSTANTS None,
          k1, k2, k3, k4,   \* keys of the filter
          a1, a2,           \* interchangeable actors
          x1, x2            \* interchangeable things they act on

MCKeys == {k1, k2, k3, k4}
MCBits == 0..5
MCHash == (k1 :> {0, 1}) @@ (k2 :> {2, 3}) @@ (k3 :> {1, 2}) @@ (k4 :> {4, 5})
MCSymmetry == Permutations({a1, a2}) \union Permutations({x1, x2})

CONSTANTS Sockets, Messages, Asked

VARIABLES active, topic, handler, link, kind, cast, audience, got
notificationVars == <<active, topic, handler, link, kind, cast, audience, got>>

Notify == INSTANCE Notifications

CONSTANTS Parsers, Places, MaxParsers, MaxLocations, LocationRetries

VARIABLES parser, visit, retries, client, found, errors, reported
locationVars == <<parser, visit, retries, client, found, errors, reported>>

Locations == INSTANCE LocationBatches WITH
    Locations <- Places, MaxRetries <- LocationRetries

CONSTANTS Items, BatchSize, MaxConcurrent, Attempts

VARIABLES batch, next, tries, calls, processed, successful, failed, results, status
pipelineVars == <<batch, next, tries, calls, processed, successful, failed, results, status>>

Pipeline == INSTANCE BatchPipeline

CONSTANTS Callers, Checkers, MaxRetries, ErrorThreshold, ConsecutiveFailureThreshold,
          AlertCooldown, MaxCalls, MaxTime

VARIABLES call, total, succeeded, failures, consecutive, sending, lastAlert, rsNow,
          twice, alerts, overlapped
resilientVars == <<call, total, succeeded, failures, consecutive, sending, lastAlert, rsNow,
                   twice, alerts, overlapped>>

Resilient == INSTANCE ResilientParser WITH
    successful <- succeeded, failed <- failures, now <- rsNow

CONSTANTS RuleNames, Loops, Cooldown, MaxAdded, CheckTime

VARIABLES rules, added, running, checkTask, alive, check, checkNow, raised, missed, restarted
monitoringVars == <<rules, added, running, checkTask, alive, check, checkNow, raised, missed,
                    restarted>>

Monitor == INSTANCE Monitoring WITH
    Names <- RuleNames, MaxTime <- CheckTime, task <- checkTask, now <- checkNow, alerts <- raised

CONSTANTS Limits, Offsets, BATCH_SIZE, MaxRows, MaxChanges

VARIABLES table, phase, limit, offset, batch_offset, out, changes, steady, gone, come
exportVars == <<table, phase, limit, offset, batch_offset, out, changes, steady, gone, come>>

Export == INSTANCE PropertyExport

CONSTANTS Writers, AuditBatch, MaxEntries

VARIABLES logged, queue, writeTask, held, stored, stopping, rewritten
auditVars == <<logged, queue, writeTask, held, stored, stopping, rewritten>>

Audit == INSTANCE AuditLog WITH
    BatchSize <- AuditBatch, task <- writeTask, batch <- held, restarted <- rewritten

CONSTANTS MaxTasks, MaxSteps

VARIABLES task_store, execution, submitted, cancelled, atCancel, deleted
asyncVars == <<task_store, execution, submitted, cancelled, atCancel, deleted>>

Async == INSTANCE AsyncTasks

CONSTANTS Emails, MaxAlerts

VARIABLES memory_alerts, created, told, wanted, withdrawn, freed
propertyAlertVars == <<memory_alerts, created, told, wanted, withdrawn, freed>>

PropertyAlert == INSTANCE PropertyAlerts

CONSTANTS ClientNames, Users, RequestAttempts, MaxClients, MaxRequests

VARIABLES clients, made, closed, closing, user, requests, requestsFailed, sent, broken,
          misled, late
poolVars == <<clients, made, closed, closing, user, requests, requestsFailed, sent, broken,
              misled, late>>

Pool == INSTANCE HttpPool WITH
    Names <- ClientNames, Attempts <- RequestAttempts, failures <- requestsFailed

CONSTANTS Sessions, Properties, Collections, MaxBookings

VARIABLES rows, op, pending, counts, rowsChanged, asked, begun
bookmarkVars == <<rows, op, pending, counts, rowsChanged, asked, begun>>

Bookmark == INSTANCE Bookmarks WITH MaxRequests <- MaxBookings, changes <- rowsChanged

CONSTANTS Offers, Requests, PageLimits, MaxFound, ListingChanges

VARIABLES listings, stage, request, pageLimit, skip, read, pages, listingChanges, stayed,
          left, appeared
listingVars == <<listings, stage, request, pageLimit, skip, read, pages, listingChanges,
                 stayed, left, appeared>>

Offer(id, price, rooms, home, suits) ==
    [external_id |-> id, price |-> price, rooms |-> rooms, home |-> home, suits |-> suits]
Order(max_price, min_rooms, sort_by, order) ==
    [max_price |-> max_price, min_rooms |-> min_rooms, sort_by |-> sort_by, order |-> order]

\* A price near two others that are not near each other, one home twice, a listing that
\* tells no rooms, one that changes its price to none and one that does not suit.
MCOffers ==
    {Offer(1, 100, 1, "h", TRUE), Offer(2, 104, 2, "h", TRUE), Offer(3, 108, None, "h", TRUE),
     Offer(3, 0, None, "h", TRUE), Offer(4, 100, 2, "g", TRUE), Offer(1, 108, 1, "h", FALSE)}
MCRequests ==
    {Order(None, None, "price", "asc"), Order(None, 1, "price", "desc"),
     Order(104, None, "rooms", "asc"), Order(104, 1, "rooms", "desc")}

Listing == INSTANCE ListingSearch WITH
    Limits <- PageLimits, MaxChanges <- ListingChanges,
    found <- listings, phase <- stage, limit <- pageLimit, seen <- read,
    changes <- listingChanges, steady <- stayed, gone <- left, come <- appeared

ASSUME ServicesAssumption ==
    /\ Notify!NotificationsAssumption
    /\ Locations!LocationBatchesAssumption
    /\ Pipeline!BatchPipelineAssumption
    /\ Resilient!ResilientParserAssumption
    /\ Monitor!MonitoringAssumption
    /\ Export!PropertyExportAssumption
    /\ Audit!AuditLogAssumption
    /\ Async!AsyncTasksAssumption
    /\ PropertyAlert!PropertyAlertsAssumption
    /\ Pool!HttpPoolAssumption
    /\ Bookmark!BookmarksAssumption
    /\ Listing!ListingSearchAssumption
------------------------------------------------------------------------------
VARIABLE component   \* the part that moves

MCvars == <<vars, notificationVars, locationVars, pipelineVars, resilientVars,
            monitoringVars, exportVars, auditVars, asyncVars, propertyAlertVars,
            poolVars, bookmarkVars, listingVars, component>>

MCInit ==
    /\ Init /\ Notify!Init /\ Locations!Init /\ Pipeline!Init /\ Resilient!Init
    /\ Monitor!Init /\ Audit!Init /\ Async!Init /\ PropertyAlert!Init
    /\ Pool!Init /\ Bookmark!Init /\ Listing!Init
    /\ \/ component \in {"filter", "notifications", "locations", "pipeline", "resilient",
                          "monitoring", "audit", "tasks", "alerts", "pool", "bookmarks", "listings"}
          /\ Export!Init /\ limit = 0 /\ offset = 0 /\ table = << >>
       \/ component = "export" /\ Export!Init

MCNext ==
    /\ UNCHANGED component
    /\ \/ component = "filter" /\ Next
       \/ component # "filter" /\ UNCHANGED vars
    /\ \/ component = "notifications" /\ Notify!Next
       \/ component # "notifications" /\ UNCHANGED notificationVars
    /\ \/ component = "locations" /\ Locations!Next
       \/ component # "locations" /\ UNCHANGED locationVars
    /\ \/ component = "pipeline" /\ Pipeline!Next
       \/ component # "pipeline" /\ UNCHANGED pipelineVars
    /\ \/ component = "resilient" /\ Resilient!Next
       \/ component # "resilient" /\ UNCHANGED resilientVars
    /\ \/ component = "monitoring" /\ Monitor!Next
       \/ component # "monitoring" /\ UNCHANGED monitoringVars
    /\ \/ component = "export" /\ Export!Next
       \/ component # "export" /\ UNCHANGED exportVars
    /\ \/ component = "audit" /\ Audit!Next
       \/ component # "audit" /\ UNCHANGED auditVars
    /\ \/ component = "tasks" /\ Async!Next
       \/ component # "tasks" /\ UNCHANGED asyncVars
    /\ \/ component = "alerts" /\ PropertyAlert!Next
       \/ component # "alerts" /\ UNCHANGED propertyAlertVars
    /\ \/ component = "pool" /\ Pool!Next
       \/ component # "pool" /\ UNCHANGED poolVars
    /\ \/ component = "bookmarks" /\ Bookmark!Next
       \/ component # "bookmarks" /\ UNCHANGED bookmarkVars
    /\ \/ component = "listings" /\ Listing!Next
       \/ component # "listings" /\ UNCHANGED listingVars

MCSpec == MCInit /\ [][MCNext]_MCvars
------------------------------------------------------------------------------
\* The types of all these parts.
ServicesTypeOK ==
    /\ TypeOK /\ Notify!TypeOK
    /\ Locations!TypeOK /\ Pipeline!TypeOK /\ Resilient!TypeOK
    /\ Monitor!TypeOK /\ Export!TypeOK /\ Audit!TypeOK
    /\ Async!TypeOK /\ PropertyAlert!TypeOK
    /\ Pool!TypeOK /\ Bookmark!TypeOK /\ Listing!TypeOK

\* Notifications: a message reaches everyone who is connected throughout, once.
ConnectedAreServed == Notify!ConnectedAreServed

\* LocationBatches, BatchPipeline and ResilientParser: every location, every item and
\* every call is in progress, done or failed, once, nothing outlives its parser, and
\* alerts that never overlapped are a cooldown apart.
WorkAccounted ==
    Locations!BatchesEndClean /\ Pipeline!ItemsAccounted /\ Resilient!FailuresAccounted

\* Monitoring: alerts are a cooldown apart, checks are complete, and one loop runs.
AlertingSound == Monitor!AlertingSound

\* PropertyExport, Bookmarks and ListingSearch: what is read in several steps is wrong by
\* no more than the rows and listings that changed meanwhile.
ReadsOffByChanges ==
    Export!ExportOffByChanges /\ Bookmark!StatsOffByChanges /\ Listing!PagesOffByChanges

\* ListingSearch: the answer of the advanced search is in order, holds no two duplicates
\* and stands for every listing that matches.
AnswerDistinctAndComplete == Listing!AnswerDistinctAndComplete

\* AuditLog, PropertyAlerts and Bookmarks: every entry logged is kept once, in order, and
\* alerts and bookmarks as they were last asked for, until they are deleted.
RecordsKept ==
    Audit!EntriesKept /\ PropertyAlert!KeptUntilDeleted /\ Bookmark!FieldsAsLastSet

\* AsyncTasks: the status of a task is the truth about it, and a cancellation stops it.
TasksAnswerTruly == Async!StatusIsTrue /\ Async!CancelStopsWork

\* HttpPool: who asks gets an open client, none is left out of the pool, and the
\* failures never exceed the requests.
PoolSound == Pool!PoolSound
==============================================================================
