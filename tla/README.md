# RentScout: a formal model

RentScout aggregates rental listings: a search runs a dozen site parsers
concurrently, removes duplicates, and the API serves, caches, stores, exports and
watches what was found.  It is a FastAPI application on one asyncio event loop
per process, with PostgreSQL (SQLAlchemy, `AsyncSession`), Redis and Celery
beside it.  This directory models the parts whose correctness depends on the
order of events: what runs between two awaits, what a timeout cancels, what two
transactions do to one row, what an old value does to a new one.

Contents

1. Inventory of the system
2. Modules, and how they correspond to the code
3. Runs: what is checked, with which bounds
4. Fairness
5. Proofs
6. Where the code and what it says of itself disagree
7. What is not modelled, and why
8. Plan

## 1. Inventory of the system

All paths are relative to `src/app/`.

### Components modelled

| Component | State it keeps | Operations modelled | Talks to |
|---|---|---|---|
| Circuit breaker `utils/circuit_breaker.py` | state, streak counters, statistics, per parser, in a process-wide registry | `call`, `_on_success`, `_on_failure`, `reset_all` | awaits the guarded parser |
| Duplicate filter `utils/bloom_filter.py` | an exact set up to a threshold, then a Bloom filter | `is_duplicate`, `add`, `clear` | owned by a `SearchService` |
| Search `services/search.py` | parsers, one duplicate filter | `search` | breakers, parsers, filter, two nested `wait_for` timeouts, database save |
| Two-level cache `core/cache.py` | LRU dictionary in the process (L1), Redis (L2) | `get`, `set`, `delete`, `clear`, the decorator `cached` | Redis |
| Tagged cache `services/advanced_cache.py` | values and sets of tagged keys in Redis | the decorators, `delete`, `clear_by_tag`, `clear_pattern` | Redis |
| Feature flags `core/feature_flags.py` | flags in Redis, an answer cache per process | `is_enabled`, `enable`, `disable`, `create_flag`, `delete` | Redis, other processes |
| Cache maintenance `tasks/cache_maintenance.py` | running flag, background task | `start`, `stop`, the loop | Redis connection |
| Property store `db/repositories/property.py`, `db/models/session.py` | rows of `properties`, price history | create, upsert, update, bulk create, bulk upsert, deactivate stale | PostgreSQL at READ COMMITTED |
| Batch insert `db/batch_insert.py` | the caller's transaction | upsert with `ON CONFLICT`, in chunks | the same rows |
| Batch endpoints `api/endpoints/batch_operations.py` | | update, upsert, activate, deactivate, verify, soft delete by id | the same rows |
| Parser rate limiter `utils/ratelimiter.py` | request times per key | `acquire`, `reset` | awaited by parsers |
| Adaptive limiter `utils/adaptive_ratelimit.py` | delay, state, streaks under one lock | `acquire`, `record_response`, `reset` | awaited by parsers |
| IP rate limiter `utils/ip_ratelimiter.py` | request times per address, whitelist | `check_rate_limit`, `reset`, whitelist edits | middleware |
| Login, tier and role limiters `utils/auth_ratelimiter.py`, `middleware/user_rate_limiter.py`, `utils/user_rate_limiter.py` | attempts, bans, bursts, days | checks, resets, whitelist, statistics | endpoints, middleware |
| Notifications `services/notifications.py`, `api/endpoints/notifications.py` | connections per topic | `connect`, `disconnect`, `broadcast`, the three `notify_*`, the endpoint task of a socket | WebSocket clients |
| Batch processing `utils/batch_processor.py`, `parsers/optimized_base_parser.py`, `parsers/batch_processing.py` | semaphores, results, counters | `process_multiple_parsers`, `process_locations`, `process_batch` | parsers, callbacks |
| Resilient parser `utils/resilient.py` | statistics, time of the last alert | `parse`, `check_and_alert` | parser, fallback cache, alert callback |
| Monitoring `core/monitoring.py` | rules, loops | `add_rule`, `remove_rule`, `check_alerts`, `start`, `stop` | notification callbacks |
| Property export `services/async_export.py` | an offset | the export in batches | the table that others change |
| Audit log `core/audit_log.py` | queue, writer task, storage | `log_action`, `start`, `stop`, the writer | |
| Asynchronous tasks `api/endpoints/async_tasks.py` | `task_store` | submit, execute, cancel, delete, clean up | background tasks |
| Property alerts `api/endpoints/properties_db.py` | `memory_alerts` | create, list, update, deactivate, delete | |
| HTTP client pool `utils/http_pool.py` | clients by name, counters, under one lock | `get_client`, `close_client`, `close_all`, `get` and `post` of `OptimizedHTTPClient` | parsers, shutdown |
| Bookmarks `db/models/bookmarks.py`, `api/endpoints/bookmarks.py` | rows of `user_bookmarks` | add, update, remove, statistics | PostgreSQL at READ COMMITTED |
| Filtering `services/filter.py`, `utils/advanced_search.py`, `api/endpoints/properties.py` | none; a client's `skip` | `filter` page by page, advanced search | the lists searches return |

What makes each of them correct, and what makes that hard:

* **Circuit breaker.** It must open and close on the outcomes of the calls it
  let through and on nothing else.  A call is admitted in one state and ends in
  another: its late result is applied to whatever the breaker has become.  A
  cancelled call never reports.
* **Duplicate filter.** A key once seen must stay a duplicate while the
  representation changes underneath; a false positive must come from a hash
  collision and from nothing else.
* **Search.** No listing is delivered twice and none is lost, however the
  parsers of overlapping searches interleave, fail, hang or are rejected; every
  search returns; the breakers' statistics account for every task.
* **Caches.** None may serve what was deleted, overwritten or cleared, and flags
  must not be answered from before the process's own change.  Every operation is
  several Redis commands, other calls come between them, and any may fail.
* **Cache maintenance, audit log, monitoring.** Each has a background task that
  `start` creates and `stop` cancels and awaits.  A second `start` comes between
  the two; a cancellation arrives in the middle of a walk or with entries in hand.
* **Property store.** The price history must be a chain that ends in the
  current price; a deactivation must not win over a concurrent sighting; locks
  taken in any order must not block a session for ever.  Three pieces of code
  write the same rows with statements of different kinds.
* **Rate limiters.** Never more requests in a window than allowed, nobody
  overtakes a task that waits, and `Retry-After` tells the truth.  One limiter
  sleeps between its look at the clock and its use of it, one sleeps with the lock
  in hand that answers need, several count more than one window on one list, and
  a ban or a refusal must neither cost nor give anything.
* **Notifications.** Every client that is connected throughout gets a message
  once, although others join, leave and break between two sends.
* **Batch processing.** Every location or item is accounted for, within the
  semaphores, although one raising callback ends the gather while its siblings go on.
* **Resilient parser.** A call is counted once; alerts keep their distance.
* **Property export.** Batches by `OFFSET` of a table that changes: what is missed
  or repeated must be bounded by what changed.
* **Asynchronous tasks.** A status must say what happened, and a cancellation must
  stop the work, wherever the execution sleeps at that moment.
* **Property alerts.** An alert is kept as it was asked for until it is deleted.
* **HTTP client pool.** Nobody may be given a client that is closed or open one that
  the pool does not know, although closing suspends once per client.
* **Bookmarks.** Requests that overlap must not undo each other's fields, and the
  statistics, eight statements, must be wrong by no more than what changed meanwhile.
* **Filtering.** Every page is cut from a list searched and sorted anew; duplicates are
  told by a relation that is not transitive, between filter and ranking.

### How the components interact

```
 request --> limiters (address, tier, role, login) --> endpoint --> two-level / tagged cache
                                                          |     \--> flags, audit log, async tasks, alerts
                                                       search  ---- per parser: breaker --> parser --> limiter --> site
                                                          |
                                                   duplicate filter --> save --> property store --> PostgreSQL
                                       batch endpoints, batch insert ------------------^   |
                                       notifications <-- new listings, price changes       +--> export
```

The breakers live in a process-wide registry and outlive the `SearchService`;
the filter lives as long as its `SearchService`; caches, limiters, stores of tasks
and alerts are module globals.  Everything inside one process runs on one event
loop, so code between two awaits is atomic: the models' steps are cut at the
awaits, and at the row locks of PostgreSQL.  Components that share state are
composed (breakers, filter and search; all writers of the rows of `properties`);
the others share none.

## 2. Modules, and how they correspond to the code

| Module | Models | Used by |
|---|---|---|
| `Breaker` | a `CircuitBreaker` object as a record, its methods as operators on it | `CircuitBreaker`, `SearchService` |
| `BreakerProtocol` | what a breaker promises, without counters | refined by `CircuitBreaker` |
| `CircuitBreaker` | one breaker and the tasks that call it | `MCGuards`, `GuardsProofs` |
| `BloomFilter` | a `DuplicateFilter` object and its methods | `DuplicateFilter`, `SearchService` |
| `DuplicateFilter` | one filter and its caller | `MCServices`, `ServicesProofs` |
| `SearchService` | searches, their parser tasks, breakers and filter composed | `MCSearchService`, `SearchServiceProofs` |
| `LRU` | the entries of an `LRUCache` and its methods | `LRUCache`, `TwoLevelCache` |
| `LRUCache` | one `LRUCache` and its callers | `MCCaches`, `CachesProofs` |
| `TwoLevelCache` | `CacheManager` over an `LRUCache` and Redis | `MCTwoLevelCache`, `TwoLevelCacheProofs` |
| `TaggedCache`, `FeatureFlags`, `CacheMaintenance` | the components of those names | `MCCaches`, `CachesProofs` |
| `PropertyStore` | sessions and their transactions over the rows | `MCPropertyStore`, `PropertyStoreProofs` |
| `RateLimiter`, `IPRateLimiter`, `AdaptiveRateLimiter`, `AuthRateLimiter`, `TierRateLimiter`, `RoleRateLimiter` | the six limiters | `MCGuards`, `GuardsProofs` |
| `Filtering` | the list comprehension that all of them clean up with | the limiters |
| `Notifications`, `LocationBatches`, `BatchPipeline`, `ResilientParser`, `Monitoring`, `PropertyExport`, `AuditLog`, `AsyncTasks`, `PropertyAlerts`, `HttpPool`, `Bookmarks`, `ListingSearch` | the services | `MCServices`, `ServicesProofs`, `RecordsProofs` |
| `CommonLemmas` | lemmas about the operators of `Breaker`; induction and recursion, and what they give about lists | `GuardsProofs`, `SearchServiceProofs` |
| `GuardsProofs`, `SearchServiceProofs`, `CachesProofs`, `TwoLevelCacheProofs`, `PropertyStoreProofs`, `ServicesProofs`, `RecordsProofs` (on top of `ServicesProofs`) | theorems (section 5) | |

`MCSearchService`, `MCTwoLevelCache` and `MCPropertyStore` give the constants of their
module values for TLC.  `MCGuards`, `MCCaches` and `MCServices` leave the parameters of
their parts constants, to which the `.cfg` gives values, so that the theorems about
them hold for all.  An
operator-only module (`Breaker`, `BloomFilter`, `LRU`) holds one object as a
record or a sequence, and one operator per method; a state machine calls it.
`\* Mutant:` definitions are plausible mistakes in the definition below them:
substituting one makes a property fail, which shows that the property depends on
that line of code.

`MCGuards`, `MCCaches` and `MCServices` hold several components that share no
state.  A variable `component` is chosen in the initial state and only that part
moves: the behaviours are those of each part alone, never their product.

### Guards

**Circuit breaker.**  `breaker` is the object's `state`, streak counters and
`CircuitStats`.  `Call` is `call()` up to the `await` of the guarded function:
`RejectCall` or `AdmitCall` with the move from open to half open.  `Succeed` and
`Fail` are what follows the `await` (`_on_success`, `_on_failure`, including
`_transition_to`).  `Cancel` is the `CancelledError` of a `wait_for`, which is
not an `Exception`: neither handler runs.  `ResetAll` replaces state and
counters.  `outcomes` is a history variable: how calls ended since the last
reset.  `BreakerProtocol` is written on `state` and `outcomes` only; the
refinement mapping is `state <- breaker.state`.

**Limiters.**  `RateLimiter` has the recorded times of one key and, for each
task, when it arrived and when its sleep ends.  `AcquireAtOnce` and `FallAsleep`
are the two branches of `acquire`; `WakeUp` is what follows the sleep: it cleans
up and records with the time read *before* it.  In `AdaptiveRateLimiter` the lock
is a queue: its head holds `self._lock`, sleeps in it (`FallAsleep`, `WakeUp`), or
records the status of an answer (`OnRateLimit`, `OnServerError`, `OnSuccess`,
`OnOther`); `Cancel` takes a task out of the queue or out of its sleep.  In the
other four one request is one step, as their checks suspend nowhere.
`IPRateLimiter` counts time in fractions of a second because `retry_after` is an
`int`; `AuthRateLimiter` has one list for each kind of attempt and one ban for
all of them; `TierRateLimiter` has a burst, a window and a day for each tier;
`RoleRateLimiter` takes the smaller limit of role and endpoint over one list.

### Search

**Duplicate filter.**  `filter` has the exact set (and whether there is one) and
the set bits of the Bloom filter; `Hash` maps a key to its bits and is any
function, so sizing and hashing do not matter.  `Check` is `is_duplicate`, with
the switch from exact set to Bloom filter (`Migrate`); `Add` and `Clear` are the
methods of those names.

**Search.**  `Start` creates the parser tasks.  `StartTask` is `call_parser` up
to its `await`; `TaskReturns`, `TaskRaises` and `TaskTimesOut` are its three
ends, the last one the inner `wait_for`.  `Gather` is the end of the `gather`,
`OverallTimeout` the outer `wait_for`, which drops every result.  `Finish` is the
pass over the filter in the order of `self.parsers`; it has no `await` and is
one step.  The database save that follows it always fails and is caught (section
6), so it changes nothing.  Breakers are shared by the searches of the process,
the filter by those of the service.

### Caches

`LRU` keeps an `OrderedDict` as a sequence of entries, oldest use first.  In
`TwoLevelCache` an operation is cut where it waits for Redis: `GetL1`, then
`Lookup` (Redis answers, or fails and reads as a miss), then `Fill` (the answer
populates L1, with the default ttl); `Set`/`DeleteL1`/`ClearL1`, then `WriteL2` or
`WriteL2Fails`; `clear` asks for the keys in between (`ClearKeys`).  `Compute` and
`ComputeNothing` are the decorator `cached` after a miss.  The history variables
`last`, `expiry` and `tainted` say what the last write of a key left, until when,
and whether it overlapped another operation on the key or lost its L2 step.

In `TaggedCache` a value is the version of the data it was computed from.
`Miss`, `Store`, `Tag` and `Expire` are a decorated call and its Redis commands;
`StartClear`/`Members`, `DeleteKeys` and `Untag` those of a clear; `FillFails` and
`ClearFails` a failing command.  `disturbed` marks the keys whose latest fill did
not run to its end alone, `due` the least version a key may have after a clear.

In `FeatureFlags` a change is two steps: `StartChange` reads the flag, `Change`
writes it back and clears the process's own answer cache; `IsEnabled` answers from
the cache or from the store.  In `CacheMaintenance`, `start` and `stop` are cut at
their awaits, and a task ends in its loop or by its cancellation.

### Property store

A row is a price, a last sighting and the flag.  `op[c]` is
the transaction of session `c`: its kind, when it began (the `now()` of the
database), the price it read, the requests it has left and the rows it wrote and
therefore holds.  The statements of a repository function begin with
`UpdateOrCreate`, `CreateProperty`, `UpdateProperty`, `BulkUpsert`, `BulkCreate`
or `DeactivateOld`, those of the batch insert with `BatchInsert`, those of the
batch endpoints with `ByIds`, `BulkUpdate` and `BulkSwitch`.  `WriteRow` takes one
row once nobody else holds it, `PassOver` finds nothing to do, `Refuse` is a
constraint violation, `Commit` the end of `get_db`, `Rollback` every other end.
`WaitsFor`, `IsCycle` and `BreakDeadlock` are PostgreSQL: row locks, READ
COMMITTED (the condition of a statement is evaluated again on the row it waited
for) and its deadlock detector, which ends one of the sessions of a cycle.

### Services

* `Notifications`: `active` is `active_connections`.  The endpoint task of a socket
  (`handler`) registers it, waits for its text and unregisters it when the client
  has gone; `kind` and `cast` are the notifications and their broadcasts, which run
  at the same time, take a copy of their topic's set and send to one socket a step.
* `LocationBatches`: `parser` and `visit` are the tasks of `process_multiple_parsers`
  and `process_locations`; a location retries (`backoff`), is found, is an error, or
  its callback raises, which ends the gather of its parser while the other locations
  go on, with an HTTP client that a request makes anew, and nobody closes, if the
  parser's `async with` is over.
* `BatchPipeline`: the tasks of `process_batch`, each over its items in order, with
  the counters of the shared result.
* `ResilientParser`: `call[c]` is what a call of `parse` awaits (the parser, the
  store of the fallback cache, or the cache itself); `sending[k]` the alert that
  `check_and_alert` awaits.
* `Monitoring`: `check[l]` is the walk of a loop over `self.rules.values()`, suspended
  in the notification of an alert.  A rule has its place in the dictionary, so that
  a removal and an addition during the walk do what they do in Python: same
  size, the walk goes on; other size, `RuntimeError`.
* `PropertyExport`: `table` is the order in which a scan finds the rows (an UPDATE
  moves its row, as there is no ORDER BY); `Fetch` is one batch.
* `AuditLog`: `batch[w]` is what writer `w` has taken from `queue`; `TimeOut` is the
  `wait_for` of a second that makes it store, `Leave` what a cancelled writer does.
  `StopUnheard` is the outcome of Python before 3.12 in which a cancellation that
  meets a completed `wait_for` is lost.
* `AsyncTasks`: `execution[id]` is where `execute_task` stands and the steps it has
  left; `Begin`, `Step` and `Interrupt` are its pieces between two sleeps.
* `PropertyAlerts`: one request is one step; `serial` stands for `created_at`.
* `HttpPool`: `clients` is `self.clients`; `closing` is the call that holds the lock, with
  the names it has come to.  A client counts as closed from the moment `aclose` begins,
  as httpx sets its state first.  `user[u]` is a task inside its `OptimizedHTTPClient`,
  with the attempts of a request; `CloseBreaksOff` is an `aclose` that raises or is
  cancelled.
* `Bookmarks`: `op[s]` is the request of a session with the rows its statement has still
  to come to, `pending[s]` what it wrote and others wait for; `counts` are the statements
  of `get_bookmark_stats` that have been executed.  One property has at most two rows, a
  favourite and one in a collection, which an update changes both.
* `ListingSearch`: `found` is what a search finds now; `GetProperties` is a page of
  `get_properties`, after which the client asks with the next `skip` as long as
  `has_next` says so; `AdvancedSearch` is the other endpoint.  Both sorts are stable: the
  rank of a place is the number of places before it, by the key and then by the place.  `home` makes title, area and
  city of two listings alike together: with them a pair has three of five points and
  needs one more, without them it has at most two.

## 3. Runs

| Run | States | What it shows |
|---|---|---|
| `guards` | 571,750 | The breaker: streaks are the lengths of the current runs of outcomes (`StreaksMatchOutcomes`), a closed breaker is below its threshold (`ClosedBelowThreshold`), the statistics account for every call (`CallsAccounted`), it implements `BreakerProtocol` (`ImplementsProtocol`).  The limiters: no window, day or burst exceeds its limit (`LimitsRespected`), nothing else counts against a limit (`CountsWhatWasAdmitted`), nobody overtakes a sleeper (`NoOvertaking`), waiting as told is enough and requests are spaced (`WaitingSuffices`), a ban lasts (`BanStands`) |
| `search` | 21,620 | `DeliveredOnce`, `FoundIsDelivered`, `TasksAccounted`, and every search returns (`SearchesReturn`) |
| `caches` | 637,105 | `LRUCache` serves the last write (`ServesLastWrite`) and evicts what was used least recently (`EvictsLeastRecentlyUsed`); a cleared value of `TaggedCache` is gone (`ClearedIsGone`); flags are answered from recent answers, never from before an own change (`CachedAnswersRecent`); the running flag and the tasks of the maintenance agree (`OneTaskRuns`) |
| `two_level_cache` | 1,099,077 | Only an overlap or a failed L2 step makes a level stale (`CoherentUnlessOverlapped`) or a value unreadable before its ttl ends (`ReadableUntilExpiry`) |
| `property_store` | 309,244 | `HistoryCompleteUnlessOverlapped`, `DeactivatesOnlyUnseen`, and every transaction ends (`TransactionsEnd`) |
| `services` | 420,510 | The filter has no false negatives (`SeenIsRemembered`) and its false positives are collisions (`FalsePositivesAreCollisions`); `ConnectedAreServed` (notifications), `WorkAccounted` (both batch processors, the resilient parser and its alerts), `AlertingSound` (monitoring), `ReadsOffByChanges` (exports, bookmark statistics and pages of listings), `AnswerDistinctAndComplete` (advanced search), `RecordsKept` (audit log, property alerts and bookmarks), `TasksAnswerTruly` (asynchronous tasks), `PoolSound` (HTTP clients) |
| `breaker_open_rejects` | violated | `OpenRejectsUntilTimeout`, what docstring and test say of the open state |
| `search_returns` | violated | `ReturnsWhatItFound`, the docstring of `search` |
| `property_store_seen` | violated | `SeenIsActive`: a listing that is seen again is active again |
| `rate_limiter_window` | violated | `WindowRespected`, the docstring of the limiter |
| `batch_retry` | violated | `RetryCallsAgain`: a retry tries the item again |
| `async_cancel` | violated | `CancelledStaysCancelled`: a task said to be cancelled stays so |

Every passing run also checks the type invariants of its modules.

Bounds, and why they are enough.  Bounds named `Max...` limit counters and clocks
only; the rest are the parameters of the code, made small.

* Breaker: three callers, thresholds of 2, six calls, one tick, resets while
  fewer than four state changes were counted.  Six calls suffice for closed →
  open → half open → closed and half open → open with two late results of calls
  admitted earlier.
* `RateLimiter`: three tasks, two requests in three ticks, six acquires: two fill
  the window, the others sleep on it or arrive meanwhile, and one that slept can be let
  through so late that what it recorded makes the next sleep short.  `IPRateLimiter`: three
  requests in two seconds, two in one, half seconds, nine ticks: more than two
  windows of each kind.  `AdaptiveRateLimiter`: two tasks, delays of 1 to 5, seven
  ticks: the delay reaches both ends and comes back.  `AuthRateLimiter`: two kinds
  with different limits and bans, six ticks: a ban, its end and a ban of the other
  kind.  `TierRateLimiter`: a tier with and one without a daily limit, five ticks
  and a day of three: the date changes once.  `RoleRateLimiter`: two roles, an
  endpoint without a limit, a stricter and a laxer one, two windows.
* `search`: two searches, two parsers, thresholds of 1 so that one failure opens
  a breaker and one success closes it, pages that repeat a key within a page,
  across parsers and across searches, and one key whose bits the others cover.
* `LRUCache`: three keys for two places, two values, ttls of 0 and 1, two ticks,
  four calls: fill, use, evict and read.  `TaggedCache`: two callers, two keys that
  share a tag, one change of the data, a ttl of two in two ticks.  `FeatureFlags`:
  two processes, a flag that expires before the cached answer does.
  `CacheMaintenance`: two callers each of `start` and `stop`, four tasks.
* `two_level_cache`: two coroutines, two keys, one place in L1 (every second set
  evicts), two values, two ticks.  Two coroutines are enough for each operation
  to overlap each other one; each holds one operation at a time.  Coroutines and
  keys are symmetric: no property names one.
* `property_store`: two sessions, two listings, two prices, three transactions, one
  tick, `StaleAfter` 0.  The lists name the listings in opposite orders (a
  deadlock) and one names a listing twice (a refusal); three transactions allow
  an insert, then two that conflict on it, one of which can be a deactivation.
* `DuplicateFilter`: four keys, the switch after the second, hashes in which two
  keys cover a third.
* `Notifications`: three sockets of which two are interchangeable, one message to
  one or two of the topics or to neither; with clients of a third topic (283,376 states
  of this component), and with two sockets and two messages (466,017), the property
  holds as well.  `LocationBatches`: two parsers, two locations, semaphores
  of 1; also checked with three locations (3,097,892).  `BatchPipeline`: three
  batches, two at a time, the last one shorter, three attempts.  `ResilientParser`:
  two callers, two checkers, one retry; also with three calls (467,678).
  `Monitoring`: two rules, two loops, three calls of `add_rule`, so that one rule
  can be removed and another added during one notification; also with four ticks
  (586,973).  `PropertyExport`: up to four rows, two changes, batches of two; also
  with five rows and three changes (2,687,177).  `AuditLog`: five entries, three
  writers, batches of two.  `AsyncTasks`: two tasks of up to three steps.
  `PropertyAlerts`: two addresses, four alerts, so that a number freed by a deletion
  is taken again.  `HttpPool`: two names, two tasks, two clients, two requests, two
  attempts; also with three clients and three requests (1,088,796).  `Bookmarks`: two
  sessions, one property, two collections, three requests; also with four (225,940).
  `ListingSearch`: six offers of four listings, of which one search finds three, so that a
  price lies within five percent of two that are not so near each other; two changes,
  limits of 1 and 2, four requests; also with sixteen (254,270).

`CHECK_DEADLOCK FALSE` stands only where a bound stops the callers or the clock,
or where a batch or an export ends.

## 4. Fairness

* `SearchService`: weak fairness of `StartTask`, `EndsTask`, `Gather` and `Finish`.
  The event loop runs what is ready, and each parser is under a `wait_for` of
  `PARSER_TIMEOUT`, so a task that hangs is cancelled.  The outer timeout is not
  needed for the property and has no fairness.  Nothing is assumed of the parser:
  that it returns or raises is never forced.
* `PropertyStore`: weak fairness of `Progress` for each session: a statement whose row
  is free is executed, a request that got its answers goes on to its commit, and
  PostgreSQL looks for deadlocks.  `Begin...`, `Tick` and `Rollback` have none.

The other runs check safety only: nothing in the code bounds how long a socket, a
callback, a lock or a sleeping task may take, so no fairness is justified there.

## 5. Proofs

`tlapm` proves the following for all values of the constants.  Assumptions: the
named `ASSUME`s of the modules (positive thresholds, finite sets of callers, keys
and listings, `Hash` any function into sets of bits, lists made of listings and
prices, bounds and ttls that are naturals, a `None` that is no value), which the runs
evaluate for their instances; `GuardsAssumption`, `CachesAssumption` and
`ServicesAssumption` evaluate those of the instantiated modules.

| Module | Theorem | Argument |
|---|---|---|
| `GuardsProofs`, the breaker | `TypeCorrect` | each operator maps a breaker to a breaker (`CommonLemmas`) |
| | `CountersAreRuns`, `ClosedIsHealthy` | `IInv`: types, both streaks, and the threshold.  The streaks are needed because the threshold is compared with a counter that only they tie to the outcomes; with them each step extends or ends a run |
| | `StatisticsAddUp` | ended, rejected and in-flight calls against `total_calls`, by the cardinality of the set of calls in flight |
| | `BreakerRefinesProtocol` | under `IInv` a counter at its threshold *is* a run of that length, so each step is a step of `BreakerProtocol` or stutters |
| `ServicesProofs`, the filter | `NoFalseNegatives` | where exact checking is on: a key seen is in the exact set, or its bits are set.  `Migrate` carries one to the other |
| | `FalsePositivesCollide` | strengthened to `HoldsOnlySeen`: exact set and bits come from keys seen |
| `GuardsProofs`, the limiters | `LimitersAreWellTyped`, `NoWindowIsExceeded`, `CountsAreTrue` | one invariant for each limiter (`IPInv`, `AuthInv`, `TierInv`, `RoleInv`, `KeyInv`).  Its core is `Agree`: as far as the window reaches, the list that is counted and the history of admissions are the same sequence.  A clean-up cuts both alike, an admission appends to both, and the clock only takes away; so the length of the list is the number of admissions in the window, and one that finds room in it keeps to the limit (`LimitKept`).  Shorter windows over the same list are covered by the longer one (`KeepFewer`).  `TierInv` adds that today's counter is the number of today's admissions (`DayCounted`), `AuthInv` that nothing was admitted during the last ban and what led to it is too old when it ends (`LastBanClears`) |
| | `NobodyIsOvertaken` | `KeyInv`: while a task waits, the list stays full of requests that leave the window no earlier than its sleep ends (`KeyFull`), so nobody is let through at once; one that leaves earlier was recorded belatedly (`KeyAge`); who fell asleep later sleeps longer, with the same exception (`KeyOrder`) |
| | `WaitingIsEnough` | `IPRoom`: at the time that `retry_after` reaches to, what is then left of the list is less than the limit, and refusals only shorten the list.  `AdaptiveInv`: who sleeps holds the lock, so the delay it sleeps is the delay in force, and its sleep ends that much after the last return |
| | `BansStand` | the action property, from the guards of `AuthRateLimiter` alone |
| `SearchServiceProofs` | `TasksAreAccounted` | the calls of a breaker are the tasks begun at its parser, and those it knows the end of are at most the tasks that ended, by the cardinality of the two sets; a cancelled task ends unreported, which is why the second is a bound.  The operators of `Breaker` come from `CommonLemmas` |
| | `TypeCorrect`, `ListingsDeliveredOnce`, `NoListingLost` | `DInv`: the filter holds exactly what was returned, as far as a key can be held (`Holds`), and only finished searches have returned anything.  A pass over the filter is a recursion over the gathered list: by induction over its length (`CommonLemmas`) it returns no key twice, none that the filter knew, and leaves out only what the filter takes for a duplicate |
| `CachesProofs` | `LastWriteIsServed`, `OldestGoesFirst` | `LRUInv`: the entries stand in the order of the calls that last used them, one for a key, and each is what the last `set` of its key wrote |
| | `ClearsReachTheirKeys` | `TagInv`: for a key that nothing disturbed at most one call fills it; what it stores is no older than the last clear; once it is filled all its tags know it for as long as it lives (`Undisturbed`, `Added`); and a clear under way has found it or it has no value (`ClearFound`) |
| | `AnswersAreRecent` | `FlagInv`: what is right now is recorded as right now, and a kept answer was right when it was kept or later |
| | `OneMaintenanceTask` | `MaintenanceInv`: while no starts overlap at most one awaits, and the flag is down |
| | `CachesAreWellTyped` | from the same invariants |
| `PropertyStoreProofs` | `TypeCorrect`, `RowsHeldByOne`, `DeactivationsSafe` | `Inv`: types; only a deactivation has requests without a price (`Priceless`); no two transactions wrote one row (`RowsHeld`); what a transaction is about to commit is sound (`WritesSound`): a deactivation only rows still stale, and no row is switched off by anything but a deactivation or a request that names it.  `WritesSound` survives the commit of another session because `RowsHeld` keeps the two sets of rows apart |
| | `PriceHistoryComplete` | `IInv == Inv /\ ReadsCurrent /\ Chained`: unless two transactions overlapped on a listing, what an upsert has read is still its price, and the last recorded change leads to the current price; then each commit extends the chain by one link |
| `TwoLevelCacheProofs` | `TypeCorrect`, `CacheIsCoherent` | on a key that nothing tainted a write is alone (`WritersAlone`).  L1 is written as an operation begins and so always holds what the last write gave (`L1Last`); L2 is written as it ends and does so once no write is under way (`L2Last`, `WritesLast`); an answer of L2 on its way to L1 is still the last value (`FillsLast`), and a clear removes every key L2 has (`ClearsAll`) |
| | `ValuesStayReadable` | with `L2Holds` and `SetsLong`: between writes L2 has the last value, and since a `SETEX` gives the ttl anew when it arrives, with at least the time counted from the start of the `set`; so what L1 evicts is still found |
| `ServicesProofs`, monitoring | `MonitoringIsSound` | rules have places of their own (`Placed`), a rule that raised alerts is present and remembers the latest (`Remembered`), and what a walk has passed of the rules that should be raised is older than the walk and behind it (`WalksPassed`); so the check that completes has left none out, and the cooldown is measured from the latest alert.  Only the loop started last is alive (`LoopKnown`) |
| `ServicesProofs`, notifications | `TheConnectedAreServed` | a client is registered while its endpoint listens (`RegisteredWhileListening`, `HandlersSound`); what a broadcast has still to send goes to sockets of its topic that have not got it (`CastSound`); and a client of the audience that is still there is waiting for the broadcast to begin, is among its targets, or has got the message once (`SocketSound`) |
| `ServicesProofs`, tasks | `TasksTellTheTruth` | `TaskSound`: where an execution stands (queued, asleep, over) against what its entry says, and the steps it has left against those it had when it was cancelled |
| `ServicesProofs`, HTTP pool | `ThePoolIsSound` | `ClientsSound`: a client has one name, one whose closing has begun is named in the closing under way unless that broke off, and an open one is in the pool.  `CountsSound` bounds failures, late answers and requests in flight by what was sent |
| `ServicesProofs`, batches and retries | `WorkIsAccounted` | `LocationsInv`: a location stands among the results or the errors exactly when its search has ended or raised, no parser is visited for a location that has not begun (`PlacesSound`), and the visits under way are no more than the permits of both semaphores, since each visit has a pair of permits of its own (`PairsBound`).  `PipelineInv`: the batches are disjoint intervals that together are `1..Items` (`BatchesApart`), the items begun are the first ones of each batch as far as it has come (`Begun`, `Reach`), and the counters are the cardinalities of the items they count.  `ResilientInv`: unless two checks overlapped one checker is between the cooldown and its sending, so the time that is remembered is that of the latest alert |
| `RecordsProofs` | `RecordsAreKept` | `AuditInv`: what is stored, held and queued, put one after another, keeps its length and its entries when a writer moves a batch, because the flattened batches differ in one list only; the order is kept as long as one writer runs.  `AlertsInv`: the numbers given are `1..m`, so the next one is free unless a deletion freed a smaller one.  `BookmarksInv`: requests that run at the same time have written different rows, and what one has pending is still what it would write now |
| | `ReadsAreOffByChanges` | one argument for the export and the pages, whose reader skips what it has had: what is ahead of the place it has come to.  `ExportInv` and `PagesInv` bound what was read *and* is ahead again by what came, and what stayed and is neither read nor ahead by what went.  A change moves at most one element over any place of a list (`AfterWith`, and in an order `RestWith`: an insertion adds one to the rank of what comes after it, `RanksWith`), so each bound grows by one at most (`MovedBack`, `MovedOver`); a batch takes from what is ahead what it adds to what is read (`ReadOn`).  At the end nothing is ahead.  A page that is followed by another is full, hence what has been read is as long as what is skipped; `pages` and `has_next` agree by the arithmetic of `PageNumbers`.  `CountsInv`: what is active now differs from what a statement counted in no more rows than have changed |
| | `AnswerIsDistinctAndComplete` | `Kept`, by induction over the list: of the first `n` places those that are kept match, no two are duplicates, and each that matches is kept or a duplicate of one that is.  The places in the order of the request are a bijection onto the ranks (`Ranks`, `SortedPlaces`), so sorting and cutting loses nothing but the end |
| | `ServicesAreWellTyped` | the types are conjuncts of the invariants of all the services |

The theorems state their properties for any number of tasks, sessions, listings,
coroutines, keys, windows and ttls, where the runs fix two or three.  Those of
`GuardsProofs`, `CachesProofs`, `ServicesProofs` and `RecordsProofs` about `MCSpec` are about the same
specification and the same formulas that the runs check.  Two have a hypothesis: `NoFalseNegatives`, that exact
checking is on (section 6), and `OldestGoesFirst`, that `max_size` is positive, as a cache of
no places cannot keep the key it was given.

*Lists.*  What a recursive definition does to a list of any length is proved by
induction, in `CommonLemmas`.  The induction theorems of the library take an operator,
which the provers cannot instantiate; the lemmas here take a set instead (the numbers, or
the lists, that have the property) and follow from the well-foundedness of `<` on `Nat`
(`WFMin`).  `Recursion` gives a recursive function over `0..n` its equations.
`RecordsProofs` has the same induction for `FlattenSeq` and `ListingSearch!Unique`, since
`CommonLemmas` would bring the names of `Breaker` and `Filtering` with it.  From these
follow the facts about `Filtering!Keep`, the clean-up of the limiters: it is the clean-up
of the code written as a function of a list and a set, because `SelectSeq` takes an
operator.

*A property that was wrong.*  `NoOvertaking` once said that nobody who arrived later is let
through while a task sleeps.  In trying to prove it we found it false as soon as the
window is three ticks long (the run had two): a sleeper that wakes late records the
early time at which it came, that entry leaves the window early, and who comes then
sleeps less than one who came before and is let through first.  The property now names
the exception (`Belated`), the run has a window of three, and the exception is all there is.

Only model-checked: the liveness properties (fairness is beyond the prover), and with them
`ENABLED`.  Every invariant and every action property that a passing run checks is a
theorem.  No theorem is about a module with a `RECURSIVE` operator.

## 6. Where the code and what it says of itself disagree

Shown by a run:

* **An open breaker does not reject** (`breaker_open_rejects`).  `_failure_time` is set
  to `None` in `__init__` and assigned nowhere else, so `_time_until_retry()`
  (`utils/circuit_breaker.py:242`) always answers 0 and the next call of an open
  breaker is a probe.  The docstring and `tests/test_circuit_breaker.py:90`
  expect a rejection.  `Timeout` therefore has no effect.
* **A search does not return what an earlier one returned** (`search_returns`).  The
  filter belongs to the `SearchService` and is never cleared
  (`services/search.py:124`).
* **A listing that is seen again stays inactive** (`property_store_seen`).  No path
  that a sighting takes sets `is_active`, so a deactivated listing comes back only
  by a request that names it (`db/repositories/property.py:248`).
* **The parser limiter lets through more than its maximum**
  (`rate_limiter_window`).  After its sleep `acquire` does not look again, and it
  records the time at which it arrived (`utils/ratelimiter.py:42`).
* **A retried item is not tried again** (`batch_retry`).  The retry awaits the coroutine
  object of the first attempt, which is used up (`parsers/batch_processing.py:247`).
* **A cancelled task completes** (`async_cancel`).  A running one returns early and is
  then marked completed; a pending one is executed in full
  (`api/endpoints/async_tasks.py:94`, `:108`).

Seen while modelling, and part of the models or the reason something is left out:

Guards and search

* `half_open_max_calls` (`utils/circuit_breaker.py:36`) is never read.
* `tests/test_circuit_breaker.py:151` expects the success streak to be 0 after closing; the
  code leaves it at the threshold.
* `parsers/*/parser.py:39` call `get_circuit_breaker("avito")` without awaiting it; it is a
  coroutine function (`utils/circuit_breaker.py:380`).
* `DuplicateFilter.clear` keeps the kind of the filter: after the switch it goes
  on without an exact set.  With `use_exact_check=False`, `clear` and `add` leave
  a key that `is_duplicate` does not find; hence the hypothesis of
  `NoFalseNegatives`.
* `services/search.py:6` imports `bulk_insert_with_deduplication`, which does not
  exist, so the module cannot be imported as it stands; the save at l. 130-143
  calls a name it does not import with `db=None`, which raises and is caught.  The
  model is of `search` as written.
* `OptimizedSearchService.search_cached` calls `search` with three arguments where it
  takes two; `parse_city_task` of `tasks/celery.py` reads `prop.id`, which a
  `PropertyCreate` does not have.
* `RoleBasedRateLimiter.reset` looks for the number of the user among keys that are
  strings and finds nothing (`ResetUser` in `RoleRateLimiter`).

Caches

* A lookup that misses L1 during a `delete` can bring the deleted value back, and a
  promotion from L2 restarts its ttl; `cache_none=True` takes each miss for a
  cached `None` and never calls the function (`core/cache.py:329`, `:395`).
* The global `cache_manager` is created without a Redis URL: by default there is
  no L2, which is the case where every L2 operation fails.
* `utils/app_cache.py` invalidates by pattern over keys that are MD5 sums; a large
  value that `utils/async_cache.py` stores under `<key>:gz` stays hidden behind an older small
  one under `<key>`; `MemoryOptimizingCache.set`
  raises `ValueError` when it overwrites; the L2 methods `MultiLevelCacheManager` calls do
  not exist; `api/endpoints/cache_management.py` imports a module that does not exist.

Property store

* Any UPDATE refreshes `last_seen` through `onupdate=func.now()`
  (`db/models/property.py`), also a deactivation and `/batch/verify`; but the upsert
  of `db/batch_insert.py` writes only rows whose price changed and refreshes neither
  `last_seen` nor `is_active` of the others.
* The retry of `db/batch_insert.py` catches errors of asyncpg, which SQLAlchemy wraps:
  a failed chunk is never retried.
* `/batch/delete` with `hard_delete` fails on the foreign keys of the price history
  and the views, which have no `ondelete` (`db/models/property.py:165`, `:195`).
* `api/endpoints/bookmarks.py:107` stores viewed and compared listings as favourites; a
  bookmark that an update made inactive cannot be added again (unique constraint).  The
  update answers "updated" also when it failed or found no row, and changes the
  favourite and the bookmark of a property alike.

Services

* The endpoints of `ListingSearch` get their lists from `search_cached` and so answer with
  an error today; the model is of what they do with a list.  `PropertyFilter` drops a
  listing that does not tell its rooms where `SearchFilter` keeps it; of two duplicates the
  one found first is kept, not the cheaper one; the numbers of pages agree with `has_next`
  only while `skip` is a multiple of `limit`; `sort_by=first_seen` fails on a
  `PropertyCreate`, which has no such field.
* `api/endpoints/notifications.py:26` says that `general` gets every notification; price
  changes and alerts do not go there (`TopicsOf`).
* `utils/resilient.py:362` promises five minutes between two alerts; checks that overlap
  in a callback all alert, hence the hypothesis of `Resilient!AlertsSpaced`.
* An export may exceed its `limit`, "Maximum number of items", by up to a batch; the
  counts of CSV and JSON exports count header and chunks; `parquet` is accepted and
  exports nothing; `/export/properties` streams nothing.
* Entries in the queue when the audit log stops stay there until it starts again; with
  Python before 3.12 a cancellation can get lost in `wait_for`, and `stop()` waits on.
* `cleanup` of asynchronous tasks, "old completed/failed tasks", removes tasks of every
  status when it is given none; the execution of a removed task ends in the `ValueError` of
  `update_task`, raised by its own error handler.
* A new property alert takes the number `len(memory_alerts) + 1`
  (`api/endpoints/properties_db.py:87`), which after a deletion may be that of another,
  and the list of active alerts contains the inactive ones.
* `core/lifespan.py` closes the stores before it waits for the active requests, whose
  counter nothing increments.
* `utils/auto_scaling.py` starts with 50 of memory, below its own minimum of 512, and can
  recommend more CPU than its maximum of 80; the market position of `utils/property_scoring.py`
  can exceed 100.
* A client closed under a request raises `RuntimeError`, which `OptimizedHTTPClient` tries
  again on the same client and does not count as a failure; a `close_all` that breaks off
  leaves closed clients in the pool, which hands them out (`broken` in `HttpPool`).
* `utils/enhanced_http.py:116` reports a failure to a proxy picked at random, not to the one
  that failed.
* `app.db.session`, which `auth`, `mobile`, `two_factor`, `properties_compare`,
  `price_alerts` and `geolocation` of `api/endpoints/` import, does not exist.

## 7. What is not modelled, and why

* Within the modelled components: statistics that nothing reads back, logging,
  metrics, key and URL construction, JSON, and the fields of a listing that no
  property tells apart.  In `PropertyStore`: view counters, read-only queries, the
  COPY variant of the batch insert (it names columns and falls back to the same
  insert), the hard deletion, which always fails (section 6).  Of the cache
  maintenance, what a round does to Redis.  Of the batch processors, files and the
  streaming variant.  Of the audit log, storage indexes and retention.
* Other limiters and caches (`utils/advanced_ratelimit.py`, `utils/optimization.py`,
  `utils/app_cache.py`, `utils/async_cache.py`, `utils/query_cache.py`,
  `services/multi_level_cache.py`, ...): of the same kind as those modelled, and the
  application imports them for their statistics or not at all.
* Authentication, tokens, two-factor codes: cryptography and formats.
* Price prediction and analytics: floating-point statistics over lists.
* Endpoints, GraphQL, schemas, pages: parse, call a component, format.
  `api/endpoints/websocket.py` imports names that do not exist.
* Site parsers: extraction from HTML; what they find is a constant (`Pages`).
* Metrics, logging, profiling, scaling advice: counters nobody reads back.  Tracing:
  nothing in the application starts a span of `core/tracing.py`.
* Scoring, list deduplication: pure functions of one list.  Of the filters, the criteria
  that are like the price or the rooms, and the order by price per area.
* Elasticsearch, proxies, `utils/enhanced_http.py`, migrations, start-up: wrappers of
  libraries.  Of bookmarks, lists and recommendations: one SELECT each.
* Celery: tasks that run a search in an event loop of their own; nothing they write is
  spoilt by a second delivery.

Most of the 53,000 lines of the repository are of the last kinds, so the modules
translate a small share of its lines; it is the share in which the order of events
decides what is correct.

## 8. Plan

Done: the breaker, search, store and caches; batch insert and batch endpoints as
transactions of `PropertyStore`; all limiters the application uses; the services; the
theorems of section 5.  Left, in this order:

1. **An abstract cache** (a key has one value until it is overwritten or expires) that
   `LRUCache` without eviction implements.
2. **Liveness** of `Notifications` and `LocationBatches` under a bound on every send and
   request, once the code has such timeouts.
3. **Shutdown** (`core/lifespan.py`): the stores and the pool close while requests use them.
