------------------------------- MODULE MCCaches -------------------------------
(***************************************************************************)
(* LRUCache, TwoLevelCache, TaggedCache, FeatureFlags and CacheMaintenance *)
(* for TLC.  Apart from the operators of LRU, which the first two use,     *)
(* they share nothing, so a behaviour moves one of them.  LRUCache is      *)
(* extended and the others are instantiated; each property of theirs is    *)
(* repeated here under its own name.  The constants of all of them are     *)
(* constants of this module: what is proved of it holds for each value.    *)
(***************************************************************************)
EXTENDS LRUCache, TLC

CONSTANTS k1, k2, k3, v1, v2,       \* keys and values of LRUCache: three keys, two places
          c1, c2                    \* callers of TaggedCache

MCKeys == {k1, k2, k3}
MCValues == {v1, v2}
MCTtls == {0, 1}
MCSymmetry == Permutations({c1, c2})

CONSTANTS TagCallers, TagKeys, Tags, TagsOf, TagTtl, MaxVersion

\* Two keys that share a tag; a value set later outlives one set before.
MCTagsOf == [k \in TagKeys |-> <<"parser">>]

VARIABLES store, tagged, version, tgNow, call, disturbed, due
taggedVars == <<store, tagged, version, tgNow, call, disturbed, due>>

Tag == INSTANCE TaggedCache WITH
    Callers <- TagCallers, Keys <- TagKeys, Ttl <- TagTtl, now <- tgNow

CONSTANTS Processes, Users, Reached, CacheTtl, Lifetime

MCReached == [boolean |-> Users]

VARIABLES flag, answers, changing, flNow, trueAt
flagVars == <<flag, answers, changing, flNow, trueAt>>

Flag == INSTANCE FeatureFlags WITH cache <- answers, now <- flNow

CONSTANTS Starters, Stoppers, MaxTasks

VARIABLES running, task, alive, cancelled, starting, stopping, made, overlapped
maintenanceVars == <<running, task, alive, cancelled, starting, stopping, made, overlapped>>

Maintenance == INSTANCE CacheMaintenance

ASSUME CachesAssumption ==
    /\ Tag!TaggedCacheAssumption
    /\ Flag!FeatureFlagsAssumption
    /\ Maintenance!MaintenanceAssumption
------------------------------------------------------------------------------
VARIABLE component   \* the cache that moves

MCvars == <<vars, taggedVars, flagVars, maintenanceVars, component>>

MCInit ==
    /\ Init /\ Tag!Init /\ Flag!Init /\ Maintenance!Init
    /\ component \in {"lru", "tagged", "flags", "maintenance"}

MCNext ==
    /\ UNCHANGED component
    /\ \/ component = "lru" /\ Next
       \/ component # "lru" /\ UNCHANGED vars
    /\ \/ component = "tagged" /\ Tag!Next
       \/ component # "tagged" /\ UNCHANGED taggedVars
    /\ \/ component = "flags" /\ Flag!Next
       \/ component # "flags" /\ UNCHANGED flagVars
    /\ \/ component = "maintenance" /\ Maintenance!Next
       \/ component # "maintenance" /\ UNCHANGED maintenanceVars

MCSpec == MCInit /\ [][MCNext]_MCvars
------------------------------------------------------------------------------
\* The types of all these caches; LRUCache has one entry per key and no more than fit.
CachesTypeOK == TypeOK /\ OneEntryPerKeyWithinSize /\ Tag!TypeOK /\ Flag!TypeOK /\ Maintenance!TypeOK

\* TaggedCache: no value older than a clear that should reach it is served after it.
ClearedIsGone == Tag!ClearedIsGone

\* FeatureFlags: a cached answer was right less than its time to live ago, and after
\* the process's own last change of the flag.
CachedAnswersRecent == Flag!CachedAnswersRecent

\* CacheMaintenance: the running flag and the tasks that are alive agree.
OneTaskRuns == Maintenance!OneTaskRuns
==============================================================================
