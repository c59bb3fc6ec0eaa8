------------------------------- MODULE Bookmarks -------------------------------
(***************************************************************************)
(* The bookmarks of one user: BookmarkService of app/db/models/bookmarks.py *)
(* behind app/api/endpoints/bookmarks.py.  Every request is a transaction  *)
(* at READ COMMITTED that locks the rows it writes; the statistics are one *)
(* statement after another.                                                *)
(***************************************************************************)
EXTENDS Integers, FiniteSets

CONSTANTS Sessions, Properties, Collections, None,
          MaxRequests   \* bound: requests

Types == {"favorite", "bookmark"}
RowKeys == Properties \X Types         \* uq_user_property_type
Row == [is_active : BOOLEAN, collection : Collections \union {None}]
NoRow == [k \in {} |-> None]
Request == [do : {"add", "update", "remove"}, given : SUBSET {"is_active", "collection"},
            todo : SUBSET RowKeys, row : Row \union {None},
            seen : {NoRow} \union [RowKeys -> Row \union {None}]]

BookmarksAssumption ==
    IsFiniteSet(Properties) /\ MaxRequests \in Nat /\ None \notin Request

VARIABLES rows,      \* user_bookmarks, as committed
          op,        \* the request of each session, and the rows it has still to write; or None
          pending,   \* what each session wrote, by key: a row, or None for a deletion
          counts,    \* the counts of the statistics, of which some are still to be made
          changes,   \* history: the rows changed since the first of them
          asked,     \* history: each row, as the requests that were committed asked for it
          begun      \* the number of requests

vars == <<rows, op, pending, counts, changes, asked, begun>>

NoCounts == [c \in {} |-> 0]

TypeOK ==
    /\ {rows, asked} \subseteq [RowKeys -> Row \union {None}]
    /\ op \in [Sessions -> Request \union {None}]
    /\ begun \in 0..MaxRequests /\ changes \in Nat
    /\ \A c \in DOMAIN counts : counts[c] \in Nat
    /\ \A s \in Sessions :
        /\ op[s] = None => pending[s] = NoRow
        /\ DOMAIN pending[s] \subseteq RowKeys
        /\ \A k \in DOMAIN pending[s] : pending[s][k] \in Row \union {None}

Init ==
    /\ rows = [k \in RowKeys |-> None] /\ asked = rows
    /\ op = [s \in Sessions |-> None]
    /\ pending = [s \in Sessions |-> NoRow]
    /\ counts = NoCounts /\ changes = 0 /\ begun = 0
------------------------------------------------------------------------------
Begin(s, request) ==
    /\ op[s] = None /\ begun < MaxRequests
    /\ op' = [op EXCEPT ![s] = request]
    /\ begun' = begun + 1
    /\ UNCHANGED <<rows, pending, counts, changes, asked>>

\* Every type but that of a bookmark, which must have a collection, is stored as a
\* favourite.
AddBookmark(s, p) ==
    \E collection \in Collections \union {None} :
        Begin(s, [do |-> "add", given |-> {"is_active", "collection"},
                  todo |-> {<<p, IF collection = None THEN "favorite" ELSE "bookmark">>},
                  row |-> [is_active |-> TRUE, collection |-> collection], seen |-> NoRow])

Existing(keys) == {k \in keys : rows[k] # None}

\* The UPDATE is for the rows of the property that there are when it begins, whatever
\* their type.  A collection cannot be set to None.
UpdateBookmark(s, p) ==
    \E given \in {{"is_active"}, {"collection"}},
       row \in [is_active : BOOLEAN, collection : Collections] :
        Begin(s, [do |-> "update", todo |-> Existing({p} \X Types), given |-> given,
                  row |-> row, seen |-> rows])   \* seen: history, what was there

RemoveBookmark(s, k) ==
    Begin(s, [do |-> "remove", todo |-> Existing({k}), given |-> {}, row |-> None, seen |-> NoRow])

\* The request sets the fields it gives, over the row that was there.
Over(s, old) == [f \in DOMAIN op[s].row |-> IF f \in op[s].given THEN op[s].row[f] ELSE old[f]]

\* Mutant: the row is read first and written whole.
WrittenWhole(s, k) ==
    IF op[s].do = "remove" THEN None
    ELSE IF op[s].do = "add" THEN op[s].row ELSE Over(s, op[s].seen[k])

Written(s, k) == IF op[s].do = "remove" THEN None ELSE Over(s, rows[k])

\* The statement comes to a row that no other session has written.
Comes(s, k) ==
    /\ op[s] # None /\ k \in op[s].todo
    /\ \A t \in Sessions \ {s} : k \notin DOMAIN pending[t]

Write(s, k) ==
    /\ Comes(s, k)
    /\ op[s].do = "add" => rows[k] = None
    /\ pending' = [pending EXCEPT ![s] = [l \in DOMAIN @ \union {k} |->
                                            IF l = k THEN Written(s, k) ELSE @[l]]]
    /\ op' = [op EXCEPT ![s].todo = @ \ {k}]
    /\ UNCHANGED <<rows, counts, changes, asked, begun>>

\* The request fails, or the unique constraint refuses a row that is there, active or not.
Rollback(s) ==
    /\ op[s] # None
    /\ op' = [op EXCEPT ![s] = None]
    /\ pending' = [pending EXCEPT ![s] = NoRow]
    /\ UNCHANGED <<rows, counts, changes, asked, begun>>

\* A statement that waits for a row finds it gone and goes on without it.
Without(request, gone) ==
    IF request = None \/ request.do = "add" THEN request
    ELSE [request EXCEPT !.todo = @ \ gone]

Commit(s) ==
    /\ op[s] # None /\ op[s].todo = {}
    /\ LET keys == DOMAIN pending[s]
           gone == {k \in keys : pending[s][k] = None}
       IN /\ rows' = [k \in RowKeys |-> IF k \in keys THEN pending[s][k] ELSE rows[k]]
          /\ asked' = [k \in RowKeys |-> IF k \in gone THEN None
                                      ELSE IF k \in keys THEN Over(s, asked[k]) ELSE asked[k]]
          /\ op' = [t \in Sessions |-> IF t = s THEN None ELSE Without(op[t], gone)]
          /\ changes' = IF counts = NoCounts THEN 0 ELSE changes + Cardinality(keys)
    /\ pending' = [pending EXCEPT ![s] = NoRow]
    /\ UNCHANGED <<counts, begun>>
------------------------------------------------------------------------------
Active(type) == {k \in Existing(Properties \X {type}) : rows[k].is_active}

\* Mutant: the collections of bookmarks that are no longer active count.
NamedEver == {rows[k].collection : k \in Existing(Properties \X {"bookmark"})} \ {None}

Named == {rows[k].collection : k \in Active("bookmark")} \ {None}

Count(c, n) ==
    /\ counts' = [d \in DOMAIN counts \union {c} |-> IF d = c THEN n ELSE counts[d]]
    /\ UNCHANGED <<rows, op, pending, changes, asked, begun>>

\* get_bookmark_stats: each statement sees what is committed when it begins.
CountFavorites == counts = NoCounts /\ Count("favorites", Cardinality(Active("favorite")))

CountBookmarks ==
    /\ DOMAIN counts = {"favorites"}
    /\ Count("bookmarks", Cardinality(Active("bookmark")))

CountCollections ==
    /\ DOMAIN counts = {"favorites", "bookmarks"}
    /\ Count("collections", Cardinality(Named))

\* The favourites of each city, of which a sum is taken here; so for the sources.
CountCities ==
    /\ DOMAIN counts = {"favorites", "bookmarks", "collections"}
    /\ Count("cities", Cardinality(Active("favorite")))

Answer ==
    /\ DOMAIN counts = {"favorites", "bookmarks", "collections", "cities"}
    /\ counts' = NoCounts /\ changes' = 0
    /\ UNCHANGED <<rows, op, pending, asked, begun>>

Next ==
    \/ CountFavorites \/ CountBookmarks \/ CountCollections \/ CountCities \/ Answer
    \/ \E s \in Sessions :
        \/ \E p \in Properties : AddBookmark(s, p) \/ UpdateBookmark(s, p)
        \/ \E k \in RowKeys : RemoveBookmark(s, k) \/ Write(s, k)
        \/ Rollback(s) \/ Commit(s)

Spec == Init /\ [][Next]_vars
------------------------------------------------------------------------------
\* Each field of each row is what the last request that gave it asked for, whatever else
\* was under way: no request undoes one that it overlaps.
FieldsAsLastSet == rows = asked

\* The counts of one answer disagree by no more than the rows that changed while it was
\* put together.
StatsOffByChanges ==
    DOMAIN counts = {"favorites", "bookmarks", "collections", "cities"} =>
        /\ counts.cities - counts.favorites \in (-changes)..changes
        /\ counts.collections <= counts.bookmarks + changes
==============================================================================
