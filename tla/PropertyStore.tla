----------------------------- MODULE PropertyStore -----------------------------
(***************************************************************************)
(* The listings of app/db/repositories/property.py in PostgreSQL, the      *)
(* batches of app/db/batch_insert.py and the bulk operations of            *)
(* app/api/endpoints/batch_operations.py: sessions that create, upsert,    *)
(* edit, switch and deactivate rows in transactions at READ COMMITTED, as  *)
(* get_db and their handlers open and end them.  No row is deleted, which  *)
(* the price history of a listing forbids.  A statement takes its rows     *)
(* one at a time, waits for a row that another open transaction wrote, and *)
(* sees what is committed when it has the row; PostgreSQL ends a deadlock  *)
(* by failing one of its transactions.                                     *)
(***************************************************************************)
EXTENDS Integers, FiniteSets, SequencesExt

CONSTANTS Sessions, Listings, Prices, None,
          Batches,          \* the lists bulk operations are given: sequences of [key, price]
          IdLists,          \* the rows they are given by id, as the statement visits them
          StaleAfter,       \* hours, the argument of deactivate_old_properties
          MaxTime,          \* bound: the clock
          MaxTransactions   \* bound: transactions begun

Time == 0..MaxTime
Row == [price : Prices, last_seen : Time, is_active : BOOLEAN]
Request == [key : Listings, price : Prices \union {None}]
Listed == [key : Listings, price : Prices]

ASSUME StoreAssumption ==
    /\ None \notin Prices /\ None \notin Row
    /\ Batches \subseteq Seq(Listed) /\ IdLists \subseteq Seq(Listings)
    /\ IsFiniteSet(Listings)
    /\ StaleAfter \in Nat /\ MaxTime \in Nat /\ MaxTransactions \in Nat

VARIABLES table,     \* committed rows of properties, Missing where there is none
          history,   \* for each listing, its committed price_history, oldest first
          op,        \* what each session's transaction is doing
          now,
          begun,     \* transactions begun
          tainted    \* history: listings an upsert of which overlapped another
                     \* writer, or whose price something else than an upsert changed

vars == <<table, history, op, now, begun, tainted>>

Missing == None

\* A transaction has read a price (upsert), has requests left to do and rows it
\* wrote, which it holds until it ends.
NoWrites == [k \in {} |-> Missing]
Idle == [kind |-> "idle", started |-> 0, read |-> None, todo |-> << >>, writes |-> NoWrites]
Switches == {"activate", "switch_off", "verify"}
Kind == {"idle", "upsert", "create", "edit", "bulk", "bulk_create", "merge", "deactivate"}
            \union Switches
Writes == UNION {[rows -> Row] : rows \in SUBSET Listings}
Transaction == [kind : Kind, started : Time, read : Prices \union {None},
                todo : Seq(Request), writes : Writes]

TypeOK ==
    /\ table \in [Listings -> Row \union {Missing}]
    /\ history \in [Listings -> Seq([old : Prices, new : Prices])]
    /\ op \in [Sessions -> Transaction]
    /\ now \in Time /\ begun \in 0..MaxTransactions
    /\ tainted \in SUBSET Listings

Init ==
    /\ table = [k \in Listings |-> Missing]
    /\ history = [k \in Listings |-> << >>]
    /\ op = [c \in Sessions |-> Idle]
    /\ now = 0 /\ begun = 0 /\ tainted = {}

Tick ==
    /\ now < MaxTime
    /\ now' = now + 1
    /\ UNCHANGED <<table, history, op, begun, tainted>>

Begin(c, kind, read, todo) ==
    /\ op[c] = Idle
    /\ begun < MaxTransactions
    /\ begun' = begun + 1
    /\ op' = [op EXCEPT ![c] = [kind |-> kind, started |-> now, read |-> read,
                                todo |-> todo, writes |-> NoWrites]]
    /\ UNCHANGED <<table, history, now, tainted>>

\* update_or_create_property up to the answer of its SELECT.
UpdateOrCreate(c, k, price) ==
    Begin(c, "upsert", IF table[k] = Missing THEN None ELSE table[k].price,
          <<[key |-> k, price |-> price]>>)

CreateProperty(c, k, price) == Begin(c, "create", None, <<[key |-> k, price |-> price]>>)

UpdateProperty(c, k, price) == Begin(c, "edit", None, <<[key |-> k, price |-> price]>>)

BulkUpsert(c, batch) == Begin(c, "bulk", None, batch)

BulkCreate(c, batch) == Begin(c, "bulk_create", None, batch)

\* bulk_upsert_with_deduplication: the chunks of a batch in the caller's transaction.
\* The errors its retry waits for come wrapped by SQLAlchemy, so a failure ends it.
BatchInsert(c, batch) == Begin(c, "merge", None, batch)

\* The requests of an UPDATE over the rows of a list of ids, with the price it sets if
\* it sets one.
ByIds(ids, price) == [i \in DOMAIN ids |-> [key |-> ids[i], price |-> price]]

BulkUpdate(c, ids, price) == Begin(c, "edit", None, ByIds(ids, price))

\* bulk_activate_properties; bulk_deactivate_properties and the soft deletion;
\* bulk_verify_properties and an update of what is not modelled.
BulkSwitch(c, kind, ids) == Begin(c, kind, None, ByIds(ids, None))

IsStale(row, at) == row # Missing /\ row.is_active /\ row.last_seen < at - StaleAfter

\* One UPDATE over the rows its snapshot finds stale, in any order.
DeactivateOld(c) ==
    \E order \in SetToSeqs({k \in Listings : IsStale(table[k], now)}) :
        Begin(c, "deactivate", None,
              [i \in DOMAIN order |-> [key |-> order[i], price |-> None]])
------------------------------------------------------------------------------
\* INSERT ... ON CONFLICT DO NOTHING passes over a row that is there.
Ignores(tx, k) == tx.kind = "bulk_create" /\ (table[k] # Missing \/ k \in DOMAIN tx.writes)

\* Whether c waits for a row that d wrote.
WaitsFor(c, d) ==
    /\ d # c
    /\ op[c].todo # << >>
    /\ Head(op[c].todo).key \in DOMAIN op[d].writes
    /\ ~Ignores(op[c], Head(op[c].todo).key)

HasRow(c) == op[c].todo # << >> /\ \A d \in Sessions : ~WaitsFor(c, d)

\* The unique constraint, or a list that names a listing twice, fails a statement.
Refused(tx, k) ==
    \/ tx.kind \in {"create", "upsert"} /\ tx.read = None /\ table[k] # Missing
    \/ tx.kind = "bulk" /\ k \in DOMAIN tx.writes

\* Mutant: the rows found stale at first are deactivated whatever happened since.
PassesOverMissing(tx, k) ==
    \/ Ignores(tx, k)
    \/ tx.kind = "merge" /\ k \in DOMAIN tx.writes
    \/ tx.kind \in {"edit"} \union Switches /\ table[k] = Missing

\* A statement finds nothing to do: its WHERE is evaluated again once it has the row.
\* A batch was rid of the listings it names again.
PassesOver(tx, k) ==
    \/ Ignores(tx, k)
    \/ tx.kind = "merge" /\ k \in DOMAIN tx.writes
    \/ tx.kind \in {"edit"} \union Switches /\ table[k] = Missing
    \/ tx.kind = "deactivate" /\ ~IsStale(table[k], tx.started)

SwitchedTo(kind, was) ==
    IF kind = "verify" THEN was ELSE kind = "activate"

\* Mutant: nothing says that a new row is active.
WrittenWithoutDefaults(tx, k, price, stamp) ==
    IF table[k] = Missing
    THEN [price |-> price, last_seen |-> IF tx.kind = "merge" THEN stamp ELSE tx.started,
          is_active |-> None]
    ELSE IF tx.kind \in {"deactivate"} \union Switches
    THEN [table[k] EXCEPT !.is_active = SwitchedTo(tx.kind, @), !.last_seen = tx.started]
    ELSE IF tx.kind = "merge" THEN [table[k] EXCEPT !.price = price]
    ELSE [table[k] EXCEPT !.price = price, !.last_seen = stamp]

\* The row a transaction leaves.  A column default, now() of the database and the
\* onupdate of last_seen, which any UPDATE sets off, a deactivation too, are the start
\* of the transaction; update_or_create and a batch take the time themselves.  The
\* update of a batch sets no last_seen, and one that finds its price only locks the
\* row.  Nothing but a new row and an activation makes a listing active.
Written(tx, k, price, stamp) ==
    IF table[k] = Missing
    THEN [price |-> price, last_seen |-> IF tx.kind = "merge" THEN stamp ELSE tx.started,
          is_active |-> TRUE]
    ELSE IF tx.kind \in {"deactivate"} \union Switches
    THEN [table[k] EXCEPT !.is_active = SwitchedTo(tx.kind, @), !.last_seen = tx.started]
    ELSE IF tx.kind = "merge" THEN [table[k] EXCEPT !.price = price]
    ELSE [table[k] EXCEPT !.price = price, !.last_seen = stamp]

WriteRow(c) ==
    LET tx == op[c]
        k == Head(tx.todo).key
    IN /\ HasRow(c) /\ ~Refused(tx, k) /\ ~PassesOver(tx, k)
       /\ \E stamp \in IF tx.kind \in {"upsert", "merge"} THEN tx.started..now ELSE {tx.started} :
            op' = [op EXCEPT ![c] = [tx EXCEPT
                !.todo = Tail(@),
                !.writes = [j \in DOMAIN @ \union {k} |->
                    IF j = k THEN Written(tx, k, Head(tx.todo).price, stamp) ELSE @[j]]]]
       /\ UNCHANGED <<table, history, now, begun, tainted>>

PassOver(c) ==
    /\ HasRow(c) /\ PassesOver(op[c], Head(op[c].todo).key)
    /\ op' = [op EXCEPT ![c] = [op[c] EXCEPT !.todo = Tail(@)]]
    /\ UNCHANGED <<table, history, now, begun, tainted>>

Abort(c) ==
    /\ op' = [op EXCEPT ![c] = Idle]
    /\ UNCHANGED <<table, history, now, begun, tainted>>

\* Mutant: the failed statement is tried again in the same transaction.
RefuseAndRetry(c) ==
    HasRow(c) /\ Refused(op[c], Head(op[c].todo).key) /\ UNCHANGED vars

\* The error reaches get_db or the handler of bulk_upsert_properties, which roll back.
Refuse(c) == HasRow(c) /\ Refused(op[c], Head(op[c].todo).key) /\ Abort(c)

\* Sessions that all wait for one another.
IsCycle(S) == \A c \in S : (\E d \in S : WaitsFor(c, d)) /\ (\E d \in S : WaitsFor(d, c))

BreakDeadlock(c) == (\E S \in SUBSET Sessions : c \in S /\ IsCycle(S)) /\ Abort(c)

\* The connection is lost, the request cancelled or a later statement fails.
Rollback(c) == op[c] # Idle /\ Abort(c)

\* Mutant: a price is tracked whether or not it changed.
ChangesOrNot(tx, k) ==
    IF tx.kind = "upsert" /\ tx.read # None
    THEN <<[old |-> tx.read, new |-> tx.writes[k].price]>>
    ELSE << >>

\* The price change update_or_create_property tracks.
Changes(tx, k) ==
    IF tx.kind = "upsert" /\ tx.read # None /\ tx.read # tx.writes[k].price
    THEN <<[old |-> tx.read, new |-> tx.writes[k].price]>>
    ELSE << >>

\* Whether another open upsert has read the row of k.
ReadByOther(c, k) ==
    \E d \in Sessions \ {c} : op[d].kind = "upsert"
        /\ k \in DOMAIN op[d].writes \union {op[d].todo[i].key : i \in DOMAIN op[d].todo}

Commit(c) ==
    LET tx == op[c]
    IN /\ tx # Idle /\ tx.todo = << >>
       /\ table' = [k \in Listings |-> IF k \in DOMAIN tx.writes THEN tx.writes[k] ELSE table[k]]
       /\ history' = [k \in Listings |-> IF k \in DOMAIN tx.writes THEN history[k] \o Changes(tx, k)
                                         ELSE history[k]]
       /\ tainted' = tainted \union {k \in DOMAIN tx.writes :
               \/ ReadByOther(c, k)
               \/ /\ tx.kind # "upsert" /\ table[k] # Missing
                  /\ tx.writes[k].price # table[k].price}
       /\ op' = [op EXCEPT ![c] = Idle]
       /\ UNCHANGED <<now, begun>>
------------------------------------------------------------------------------
Progress(c) == WriteRow(c) \/ PassOver(c) \/ Refuse(c) \/ Commit(c) \/ BreakDeadlock(c)

Next ==
    \/ Tick
    \/ \E c \in Sessions :
        \/ \E k \in Listings, price \in Prices :
            UpdateOrCreate(c, k, price) \/ CreateProperty(c, k, price) \/ UpdateProperty(c, k, price)
        \/ \E batch \in Batches : BulkUpsert(c, batch) \/ BulkCreate(c, batch) \/ BatchInsert(c, batch)
        \/ \E ids \in IdLists :
            \/ \E price \in Prices : BulkUpdate(c, ids, price)
            \/ \E kind \in Switches : BulkSwitch(c, kind, ids)
        \/ DeactivateOld(c)
        \/ Progress(c) \/ Rollback(c)

Spec == Init /\ [][Next]_vars

\* A statement is executed once its row is free, an answered request goes on to
\* its commit, and PostgreSQL looks for deadlocks.
Fairness == \A c \in Sessions : WF_vars(Progress(c))

FairSpec == Spec /\ Fairness
------------------------------------------------------------------------------
\* The price history is complete, "tracks all price changes", as long as the
\* listing was only upserted, by transactions that did not overlap: each change
\* starts from the price the one before it led to, and the last leads to the price.
HistoryCompleteUnlessOverlapped ==
    \A k \in Listings \ tainted : LET h == history[k] IN
        /\ \A i \in 1..Len(h) : h[i].old # h[i].new
        /\ \A i \in 2..Len(h) : h[i].old = h[i - 1].new
        /\ h # << >> => table[k] # Missing /\ table[k].price = Last(h).new

\* A transaction that was given the listing to switch off commits.
SwitchedOff(k) ==
    \E c \in Sessions : op[c].kind = "switch_off" /\ k \in DOMAIN op[c].writes /\ op'[c] = Idle

\* A deactivation never wins over a sighting: what is deactivated without being named
\* was, at that moment, not seen in the last StaleAfter hours, even if the UPDATE had to
\* wait for a transaction that refreshed the row.
DeactivatesOnlyUnseen ==
    [][ \A k \in Listings :
            table[k] # Missing /\ table[k].is_active /\ ~table'[k].is_active
            => table[k].last_seen < now - StaleAfter \/ SwitchedOff(k) ]_vars

\* Whatever order lists name their listings in, every transaction ends.
TransactionsEnd == \A c \in Sessions : op[c] # Idle ~> op[c] = Idle

\* The developer guide, "is_active - Whether the listing is still active": a
\* listing that was just seen is active.
SeenIsActive ==
    [][ \A c \in Sessions :
            op[c].kind \in {"upsert", "create", "bulk", "merge"} /\ Commit(c)
            => \A k \in DOMAIN op[c].writes : table'[k].is_active ]_vars
==============================================================================
