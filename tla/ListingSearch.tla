----------------------------- MODULE ListingSearch -----------------------------
(***************************************************************************)
(* What is done with the listings a search has found: PropertyFilter of    *)
(* app/services/filter.py, whose answer a client reads page by page while  *)
(* the listings change, and the AdvancedSearchEngine of                    *)
(* app/utils/advanced_search.py, which answers at once.                    *)
(*                                                                         *)
(* Of the criteria, the price and the number of rooms are modelled; area   *)
(* and floor are like one of them, and "suits" is what all the others say  *)
(* of a listing.  "home" stands for the title, the area and the city.      *)
(***************************************************************************)
EXTENDS Integers, FiniteSets, SequencesExt

CONSTANTS None,
          Offers,        \* the listings there may be
          Requests,      \* criteria and order
          Limits,
          MaxFound,      \* bound: listings of the first page's search
          MaxChanges     \* bound: changes of what is found

VARIABLES found,         \* the listings a search finds now
          phase,
          request, limit,
          skip,
          seen,          \* the listings on the pages so far, or the engine's answer
          pages,         \* what the last page says of the pages
          changes,
          steady,        \* history: the listings that stayed since the first page
          gone, come     \* history: listings that left a place, and that took one, since then

arguments == <<request, limit>>
answer == <<skip, seen, pages>>
history == <<changes, steady, gone, come>>
vars == <<found, phase, arguments, answer, history>>

\* limit is declared ge=1, skip follows from it; prices are rounded to integers.
ListingSearchAssumption ==
    /\ Limits \subseteq Nat \ {0} /\ MaxFound \in Nat /\ MaxChanges \in Nat
    /\ \A l \in Offers : l.price \in Nat /\ l.rooms \in Nat \union {None}

\* A search finds a listing of a site once.
Lists == {list \in SeqOf(Offers, MaxFound) :
             IsInjective([i \in DOMAIN list |-> list[i].external_id])}

TypeOK ==
    /\ found \in Seq(Offers) /\ seen \in Seq(Offers) /\ steady \subseteq Offers
    /\ phase \in {"new", "found", "paging", "read", "answered"}
    /\ request \in Requests \union {None} /\ limit \in Limits \union {None}
    /\ skip \in Nat
    /\ pages \in [page : Nat, pages : Nat \ {0}, has_next : BOOLEAN]
    /\ changes \in 0..MaxChanges /\ gone \in 0..MaxChanges /\ come \in 0..MaxChanges

Init ==
    /\ found = << >> /\ phase = "new" /\ request = None /\ limit = None
    /\ skip = 0 /\ seen = << >> /\ pages = [page |-> 0, pages |-> 1, has_next |-> TRUE]
    /\ changes = 0 /\ steady = {} /\ gone = 0 /\ come = 0

Find(list, r, n) ==
    /\ phase = "new"
    /\ phase' = "found"
    /\ found' = list /\ steady' = ToSet(list)
    /\ request' = r /\ limit' = n
    /\ UNCHANGED <<answer, changes, gone, come>>

Change ==
    /\ phase = "paging" /\ changes < MaxChanges
    /\ changes' = changes + 1
    /\ UNCHANGED <<phase, arguments, answer>>

Appear(l, i) ==
    /\ Change
    /\ \A k \in ToSet(found) : k.external_id # l.external_id
    /\ found' = InsertAt(found, i, l)
    /\ come' = come + 1
    /\ UNCHANGED <<steady, gone>>

Disappear(i) ==
    /\ Change
    /\ found' = RemoveAt(found, i)
    /\ steady' = steady \ {found[i]}
    /\ gone' = gone + 1
    /\ UNCHANGED come

\* The listing has changed, or the sites answer in another order.
Move(i, l, j) ==
    /\ Change
    /\ l.external_id = found[i].external_id
    /\ found' = InsertAt(RemoveAt(found, i), j, l)
    /\ steady' = steady \ {found[i]}
    /\ gone' = gone + 1 /\ come' = come + 1
------------------------------------------------------------------------------
\* PropertyFilter: what a listing does not tell does not fit a criterion.
Fits(r, l) ==
    /\ l.price > 0 /\ l.suits
    /\ r.max_price # None => l.price <= r.max_price
    /\ r.min_rooms # None => l.rooms # None /\ l.rooms >= r.min_rooms

\* SearchFilter: what a listing does not tell fits any.
Matches(r, l) ==
    /\ l.suits
    /\ r.max_price # None => l.price <= r.max_price
    /\ r.min_rooms # None => l.rooms = None \/ l.rooms >= r.min_rooms

Value(r, l) ==
    IF r.sort_by = "price" THEN l.price ELSE IF l.rooms = None THEN 0 ELSE l.rooms

Ahead(r, k, l) ==
    IF r.order = "desc" THEN Value(r, k) > Value(r, l) ELSE Value(r, k) < Value(r, l)

\* Both sorts are stable, in descending order too.
Before(r, list, i, j) ==
    \/ Ahead(r, list[i], list[j])
    \/ Value(r, list[i]) = Value(r, list[j]) /\ i < j

Rank(r, list, places, i) == Cardinality({j \in places : Before(r, list, j, i)})

\* The listings at the places, in the order of the request.
Sorted(r, list, places) ==
    [p \in 1..Cardinality(places) |-> list[CHOOSE i \in places : Rank(r, list, places, i) = p - 1]]

\* Mutant: the end of a page belongs to it.
SliceThrough(list, from, to) == SubSeq(list, from + 1, Min({to + 1, Len(list)}))

Slice(list, from, to) == SubSeq(list, from + 1, Min({to, Len(list)}))

\* Mutant: a page that the last listing fills has another after it.
HasNextAtEnd(total) == skip + limit <= total

HasNext(total) == skip + limit < total

\* Mutant: the page is cut out first, and sorted then.
PageSortedAlone(places) ==
    Sorted(request, found, {i \in places : Cardinality({j \in places : j < i}) \in skip..(skip + limit - 1)})

Page(places) == Slice(Sorted(request, found, places), skip, skip + limit)

Fitting(list) == {i \in DOMAIN list : Fits(request, list[i])}

\* A page of get_properties, and the skip of the next one if the client goes on.
GetProperties ==
    /\ phase \in {"found", "paging"}
    /\ LET total == Cardinality(Fitting(found))
       IN  /\ seen' = seen \o Page(Fitting(found))
           /\ pages' = [page |-> (skip \div limit) + 1,
                        pages |-> IF total > 0 THEN (total + limit - 1) \div limit ELSE 1,
                        has_next |-> HasNext(total)]
           /\ IF HasNext(total) THEN phase' = "paging" /\ skip' = skip + limit
              ELSE phase' = "read" /\ UNCHANGED skip
    /\ UNCHANGED <<found, arguments, history>>

\* Prices within five percent of each other.
NearPrice(k, l) ==
    /\ k.price # 0 /\ l.price # 0
    /\ 20 * Max({k.price - l.price, l.price - k.price}) < Max({k.price, l.price})

\* One listing, or four of five points: title, area and city are three.
IsDuplicate(k, l) ==
    \/ k.external_id = l.external_id
    \/ k.home = l.home /\ (NearPrice(k, l) \/ (k.rooms # None /\ k.rooms # 0 /\ k.rooms = l.rooms))

\* Mutant: a listing is compared with the one kept last.
DuplicateOfLast(l, kept) == kept # {} /\ IsDuplicate(l, found[Max(kept)])

DuplicateOfKept(l, kept) == \E k \in kept : IsDuplicate(l, found[k])

\* The places of the listings that match and stay, among the first n.
Unique ==
    LET unique[n \in 0..Len(found)] ==
            IF n = 0 THEN {}
            ELSE IF Matches(request, found[n]) /\ ~DuplicateOfKept(found[n], unique[n - 1])
                 THEN unique[n - 1] \union {n}
            ELSE unique[n - 1]
    IN  unique[Len(found)]

\* Mutant: the limit is applied before the listings are ranked.
BestOfFirst(places) ==
    Sorted(request, found, {i \in places : Cardinality({j \in places : j < i}) < limit})

Best(places) == Slice(Sorted(request, found, places), 0, limit)

AdvancedSearch ==
    /\ phase = "found"
    /\ phase' = "answered"
    /\ seen' = Best(Unique)
    /\ UNCHANGED <<found, arguments, skip, pages, history>>

Next ==
    \/ phase = "new" /\ \E list \in Lists, r \in Requests, n \in Limits : Find(list, r, n)
    \/ GetProperties \/ AdvancedSearch
    \/ \E l \in Offers :
        \/ \E i \in 1..(Len(found) + 1) : Appear(l, i)
        \/ \E i, j \in 1..Len(found) : Move(i, l, j)
    \/ \E i \in 1..Len(found) : Disappear(i)

Spec == Init /\ [][Next]_vars
------------------------------------------------------------------------------
InOrder(list) == \A i, j \in DOMAIN list : i < j => ~Ahead(request, list[j], list[i])

\* A client who reads page after page misses at most as many of the listings that
\* stayed as others left a place meanwhile, and sees at most as many twice as took
\* one; if nothing changed it has seen each fitting listing once, in order.  The
\* number of pages and has_next never disagree on whether there is another page.
PagesOffByChanges ==
    /\ Len(seen) - Cardinality({l.external_id : l \in ToSet(seen)}) <= come
    /\ pages.page > 0 => (pages.has_next <=> pages.page < pages.pages)
    /\ phase = "read" =>
        /\ Cardinality({l \in steady : Fits(request, l)} \ ToSet(seen)) <= gone
        /\ changes = 0 =>
            InOrder(seen) /\ \A l \in ToSet(seen) : l \in ToSet(found) /\ Fits(request, l)

\* The engine's answer holds no two duplicates, in order, and a matching listing that is
\* not in it is the duplicate of one that is, or of one that the limit cut off the end.
AnswerDistinctAndComplete ==
    phase = "answered" =>
        /\ InOrder(seen) /\ Len(seen) <= limit
        /\ \A i, j \in DOMAIN seen : i # j => ~IsDuplicate(seen[i], seen[j])
        /\ \A l \in ToSet(found) : Matches(request, l) =>
            \E k \in ToSet(found) :
                /\ Matches(request, k) /\ (k = l \/ IsDuplicate(k, l))
                /\ \/ k \in ToSet(seen)
                   \/ Len(seen) = limit /\ ~Ahead(request, k, Last(seen))
==============================================================================
