----------------------------- MODULE FeatureFlags -----------------------------
(***************************************************************************)
(* The FeatureFlags of app/core/feature_flags.py: one flag in a store that *)
(* several processes share, each with a cache of the answers it gave.      *)
(* The code is synchronous; a change reads the flag from the store, writes *)
(* it back and clears the process's own cache, and other processes come    *)
(* in between the read and the write.                                      *)
(***************************************************************************)
EXTENDS Integers, FiniteSets

CONSTANTS Processes,
          Users,
          Reached,      \* for each type of flag, the users _check_flag says yes to
          CacheTtl, Lifetime,
          None,
          MaxTime       \* bound: the clock

FeatureFlagsAssumption ==
    /\ \A type \in DOMAIN Reached : Reached[type] \subseteq Users
    /\ {CacheTtl, Lifetime} \subseteq Nat \ {0}
    /\ MaxTime \in Nat
    /\ None \notin Nat

VARIABLES flag,       \* the flag in the store, or None
          cache,      \* for each process and user, an answer and its time, or None
          changing,   \* for each process, the flag that enable or disable is about to write, or None
          now,
          trueAt      \* history: for each process, user and answer, when the answer was last
                      \* the right one since the process changed the flag; or None

vars == <<flag, cache, changing, now, trueAt>>

Time == 0..MaxTime
Flags == [type : DOMAIN Reached, enabled : BOOLEAN, expires : {None} \union (0..(MaxTime + Lifetime))]

TypeOK ==
    /\ flag \in {None} \union Flags
    /\ cache \in [Processes -> [Users -> {None} \union [value : BOOLEAN, at : Time]]]
    /\ changing \in [Processes -> {None} \union Flags]
    /\ now \in Time
    /\ trueAt \in [Processes -> [Users -> [BOOLEAN -> {None} \union Time]]]

NotYet == [b \in BOOLEAN |-> None]

Init ==
    /\ flag = None
    /\ cache = [p \in Processes |-> [u \in Users |-> None]]
    /\ changing = [p \in Processes |-> None]
    /\ now = 0
    /\ trueAt = [p \in Processes |-> [u \in Users |-> [NotYet EXCEPT ![FALSE] = 0]]]

\* flag.is_expired(); Redis forgets the flag about then.
Expired(f, at) == f.expires # None /\ at > f.expires

\* The answer is_enabled(check_cache=False) gives.
Answer(f, u, at) == f # None /\ ~Expired(f, at) /\ f.enabled /\ u \in Reached[f.type]

\* The history after the flag or the clock changed; fresh processes have changed the flag.
Record(f, at, fresh) ==
    trueAt' = [p \in Processes |-> [u \in Users |->
                  [(IF p \in fresh THEN NotYet ELSE trueAt[p][u]) EXCEPT ![Answer(f, u, at)] = at]]]

Tick ==
    /\ now < MaxTime
    /\ now' = now + 1
    /\ Record(flag, now', {})
    /\ UNCHANGED <<flag, cache, changing>>

\* Mutant: cached answers are served forever.
CachedForever(p, u) == cache[p][u] # None

Cached(p, u) == cache[p][u] # None /\ now - cache[p][u].at < CacheTtl

\* is_enabled that finds no cached answer or is told not to look for one; the answer
\* for a missing or expired flag is not kept.
IsEnabled(p, u) ==
    /\ changing[p] = None
    /\ flag # None /\ ~Expired(flag, now)
    /\ cache' = [cache EXCEPT ![p][u] = [value |-> Answer(flag, u, now), at |-> now]]
    /\ UNCHANGED <<flag, changing, now, trueAt>>

\* enable and disable read the flag; without one they raise.
StartChange(p, enabled) ==
    /\ changing[p] = None
    /\ flag # None
    /\ changing' = [changing EXCEPT ![p] = [flag EXCEPT !.enabled = enabled]]
    /\ UNCHANGED <<flag, cache, now, trueAt>>

\* Mutant: the process's cache is kept.
CacheAfterChangeKept(p) == cache[p]

\* _clear_cache
CacheAfterChange(p) == [u \in Users |-> None]

\* _set_to_redis, which writes no flag that is over, and _clear_cache
Change(p) ==
    /\ changing[p] # None
    /\ flag' = IF Expired(changing[p], now) \/ changing[p].expires = now THEN flag ELSE changing[p]
    /\ cache' = [cache EXCEPT ![p] = CacheAfterChange(p)]
    /\ changing' = [changing EXCEPT ![p] = None]
    /\ Record(flag', now, {p})
    /\ UNCHANGED now

\* create_flag, over an older flag too; no cache is cleared.
CreateFlag(p, type, enabled, lasts) ==
    /\ changing[p] = None
    /\ flag' = [type |-> type, enabled |-> enabled,
                expires |-> IF lasts THEN now + Lifetime ELSE None]
    /\ Record(flag', now, {})
    /\ UNCHANGED <<cache, changing, now>>

\* store.delete(name); no cache is cleared.
Delete(p) ==
    /\ changing[p] = None
    /\ flag # None
    /\ flag' = None
    /\ Record(flag', now, {})
    /\ UNCHANGED <<cache, changing, now>>

Next ==
    \/ Tick
    \/ \E p \in Processes :
        \/ \E u \in Users : IsEnabled(p, u)
        \/ \E enabled \in BOOLEAN : StartChange(p, enabled)
        \/ Change(p)
        \/ \E type \in DOMAIN Reached, enabled, lasts \in BOOLEAN : CreateFlag(p, type, enabled, lasts)
        \/ Delete(p)

Spec == Init /\ [][Next]_vars
------------------------------------------------------------------------------
\* An answer from the cache was the right one less than CacheTtl ago, through changes
\* by other processes, deletions and the expiry of the flag; and it was right after
\* the last time this process enabled or disabled the flag, which it thus sees at once.
CachedAnswersRecent ==
    \A p \in Processes, u \in Users :
        Cached(p, u) =>
            /\ trueAt[p][u][cache[p][u].value] # None
            /\ now - trueAt[p][u][cache[p][u].value] < CacheTtl
==============================================================================
