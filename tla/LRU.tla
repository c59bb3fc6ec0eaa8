--------------------------------- MODULE LRU ---------------------------------
(***************************************************************************)
(* The LRUCache of app/core/cache.py as operators on its OrderedDict: a    *)
(* sequence of entries, least recently used first.  Every method runs      *)
(* under the cache's lock and suspends nowhere in it, so each is one step. *)
(***************************************************************************)
EXTENDS Integers, SequencesExt

CONSTANTS MaxSize, None

ASSUME LRUAssumption == MaxSize \in Nat

Has(cache, k) == \E i \in DOMAIN cache : cache[i].key = k

Place(cache, k) == CHOOSE i \in DOMAIN cache : cache[i].key = k

EntryOf(cache, k) == cache[Place(cache, k)]

Without(cache, k) == IF Has(cache, k) THEN RemoveAt(cache, Place(cache, k)) ELSE cache

\* Mutant: expiry is noticed one tick late.
IsExpiredLate(e, now) == now > e.expires_at + 1

IsExpired(e, now) == now > e.expires_at

Hit(cache, k, now) == Has(cache, k) /\ ~IsExpired(EntryOf(cache, k), now)

\* What get(k) returns.
GetValue(cache, k, now) == IF Hit(cache, k, now) THEN EntryOf(cache, k).value ELSE None

\* Mutant: a hit leaves the entry where it is.
AfterGetInPlace(cache, k, now) ==
    IF Hit(cache, k, now) THEN cache ELSE Without(cache, k)

\* What get(k) leaves behind: a hit becomes the newest entry, an expired one goes.
AfterGet(cache, k, now) ==
    IF Hit(cache, k, now)
    THEN Append(Without(cache, k), EntryOf(cache, k))
    ELSE Without(cache, k)

\* Mutant: the newest entry goes.
EvictNewest(cache) == SubSeq(cache, 1, IF Len(cache) < MaxSize THEN Len(cache) ELSE MaxSize)

\* while len > max_size: popitem(last=False)
Evict(cache) ==
    IF Len(cache) <= MaxSize THEN cache
    ELSE SubSeq(cache, Len(cache) - MaxSize + 1, Len(cache))

\* Mutant: an entry set again is appended beside the old one.
AfterSetTwice(cache, k, v, expires) ==
    Evict(Append(cache, [key |-> k, value |-> v, expires_at |-> expires]))

\* Mutant: the entry is given no expiry.
AfterSetForever(cache, k, v, expires) ==
    Evict(Append(Without(cache, k), [key |-> k, value |-> v, expires_at |-> None]))

AfterSet(cache, k, v, expires) ==
    Evict(Append(Without(cache, k), [key |-> k, value |-> v, expires_at |-> expires]))
==============================================================================
