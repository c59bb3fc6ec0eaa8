------------------------------- MODULE LRUCache -------------------------------
(***************************************************************************)
(* One LRUCache and the calls made to it, with the history that says what  *)
(* its contents ought to be.                                               *)
(***************************************************************************)
EXTENDS LRU

CONSTANTS Keys, Values, Ttls,
          MaxTime,   \* bound: the clock
          MaxOps     \* bound: calls

ASSUME LRUCacheAssumption == Ttls \subseteq Nat /\ {MaxTime, MaxOps} \subseteq Nat

VARIABLES cache,     \* self._cache
          hits, misses,
          now,       \* time.time()
          ops,       \* calls so far
          written,   \* history: for each key, its last set: value, expiry
          used       \* history: for each key, the call that last used it

vars == <<cache, hits, misses, now, ops, written, used>>

Entry == [key : Keys, value : Values, expires_at : Nat]

Unwritten == [value |-> None, expires_at |-> 0]

TypeOK ==
    /\ cache \in Seq(Entry)
    /\ hits \in Nat /\ misses \in Nat /\ hits + misses <= ops
    /\ now \in 0..MaxTime
    /\ ops \in 0..MaxOps
    /\ written \in [Keys -> [value : Values \union {None}, expires_at : Nat]]
    /\ used \in [Keys -> 0..MaxOps]

Init ==
    /\ cache = << >>
    /\ hits = 0 /\ misses = 0 /\ now = 0 /\ ops = 0
    /\ written = [k \in Keys |-> Unwritten]
    /\ used = [k \in Keys |-> 0]

Tick ==
    /\ now < MaxTime
    /\ now' = now + 1
    /\ UNCHANGED <<cache, hits, misses, ops, written, used>>

Count == ops < MaxOps /\ ops' = ops + 1

Get(k) ==
    /\ Count
    /\ cache' = AfterGet(cache, k, now)
    /\ IF Hit(cache, k, now)
       THEN hits' = hits + 1 /\ used' = [used EXCEPT ![k] = ops'] /\ UNCHANGED misses
       ELSE misses' = misses + 1 /\ UNCHANGED <<hits, used>>
    /\ UNCHANGED <<now, written>>

Set(k, v, ttl) ==
    /\ Count
    /\ cache' = AfterSet(cache, k, v, now + ttl)
    /\ written' = [written EXCEPT ![k] = [value |-> v, expires_at |-> now + ttl]]
    /\ used' = [used EXCEPT ![k] = ops']
    /\ UNCHANGED <<hits, misses, now>>

Delete(k) ==
    /\ Count
    /\ cache' = Without(cache, k)
    /\ written' = [written EXCEPT ![k] = Unwritten]
    /\ UNCHANGED <<hits, misses, now, used>>

Clear ==
    /\ Count
    /\ cache' = << >>
    /\ written' = [k \in Keys |-> Unwritten]
    /\ UNCHANGED <<hits, misses, now, used>>

Next ==
    \/ Tick
    \/ Clear
    \/ \E k \in Keys : Get(k) \/ Delete(k)
    \/ \E k \in Keys, v \in Values, ttl \in Ttls : Set(k, v, ttl)

Spec == Init /\ [][Next]_vars
------------------------------------------------------------------------------
\* A key has at most one entry and the cache at most MaxSize, whatever sequence
\* of calls filled it.
OneEntryPerKeyWithinSize ==
    /\ Len(cache) <= MaxSize
    /\ \A i, j \in DOMAIN cache : cache[i].key = cache[j].key => i = j

\* What a get would return is what the last set of the key wrote, and only while
\* that set's ttl lasts: no deleted, cleared, overwritten or expired value comes
\* back, by whatever path it left.
ServesLastWrite ==
    \A k \in Keys : LET v == GetValue(cache, k, now) IN
        v # None => v = written[k].value /\ now <= written[k].expires_at

\* A set keeps its own key, and what it drops was used before all it keeps.
EvictsLeastRecentlyUsed ==
    [][ \A set \in Keys, v \in Values, ttl \in Ttls : Set(set, v, ttl) =>
            /\ Has(cache', set)
            /\ \A k, j \in Keys : Has(cache, k) /\ ~Has(cache', k) /\ Has(cache', j)
                                 => used[k] < used'[j] ]_vars
==============================================================================
