------------------------------ MODULE TaggedCache ------------------------------
(***************************************************************************)
(* The AdvancedCacheManager of app/services/advanced_cache.py over Redis   *)
(* and the decorators that fill it: a call that misses runs its function,  *)
(* stores the result and then adds the key to each of its tags, and        *)
(* clear_by_tag and clear_pattern delete what a tag or a scan finds.       *)
(* Every Redis command is a step of its own, and any of them may fail.     *)
(* Values are the version of the data they were computed from.             *)
(***************************************************************************)
EXTENDS Integers, FiniteSets, Sequences

CONSTANTS Callers,
          Keys, Tags, TagsOf,   \* the tags of each key, in the order they are added
          Ttl,                  \* expire, the same for every value
          None,
          MaxTime, MaxVersion   \* bounds: the clock and the changes of the data

VARIABLES store,      \* for each key, version and expiry, or None
          tagged,     \* for each tag, its set of keys and the expiry of the set
          version,    \* of the data the values are computed from
          now,
          call,       \* for each caller, where its fill or clear stands, or None
          disturbed,  \* history: keys whose latest fill did not run to its end alone
          due         \* history: the least version a key may have after a clear

vars == <<store, tagged, version, now, call, disturbed, due>>

Versions == 0..MaxVersion
Time == 0..(MaxTime + Ttl)
Fill == [do : {"store", "tag", "expire"}, key : Keys, version : Versions, tag : Nat]
Clear == [do : {"members", "delete", "untag"}, tag : Tags \union {None}, found : SUBSET Keys,
          version : Versions]

TaggedCacheAssumption ==
    /\ TagsOf \in [Keys -> Seq(Tags)]
    /\ Ttl \in Nat \ {0}
    /\ {MaxTime, MaxVersion} \subseteq Nat
    /\ None \notin Tags \union Fill \union Clear

TypeOK ==
    /\ store \in [Keys -> {None} \union [version : Versions, expires : Time]]
    /\ tagged \in [Tags -> [keys : SUBSET Keys, expires : Time]]
    /\ version \in Versions
    /\ now \in 0..MaxTime
    /\ call \in [Callers -> {None} \union Fill \union Clear]
    /\ disturbed \in SUBSET Keys
    /\ due \in [Keys -> Versions]

NoTag == [keys |-> {}, expires |-> 0]

Init ==
    /\ store = [k \in Keys |-> None]
    /\ tagged = [t \in Tags |-> NoTag]
    /\ version = 0 /\ now = 0
    /\ call = [c \in Callers |-> None]
    /\ disturbed = {}
    /\ due = [k \in Keys |-> 0]

Filling(k) == {c \in Callers : call[c] # None /\ call[c].do \in {"store", "tag", "expire"}
                               /\ call[c].key = k}
Clears == {c \in Callers : call[c] # None /\ call[c].do \in {"members", "delete", "untag"}}
KeysBeingFilled == {k \in Keys : Filling(k) # {}}

\* Redis forgets a key and a set when their time is over.
Tick ==
    /\ now < MaxTime
    /\ now' = now + 1
    /\ store' = [k \in Keys |-> IF store[k] # None /\ store[k].expires <= now' THEN None ELSE store[k]]
    /\ tagged' = [t \in Tags |-> IF tagged[t].expires <= now' THEN NoTag ELSE tagged[t]]
    /\ disturbed' = IF tagged' = tagged THEN disturbed ELSE disturbed \union KeysBeingFilled
    /\ UNCHANGED <<version, call, due>>

\* The data changes, in the database or at a site.
Change ==
    /\ version < MaxVersion
    /\ version' = version + 1
    /\ UNCHANGED <<store, tagged, now, call, disturbed, due>>

\* The decorator looks the key up, misses and calls its function, which reads the data
\* as it starts; a hit changes nothing.
Miss(c, k) ==
    /\ call[c] = None
    /\ store[k] = None
    /\ call' = [call EXCEPT ![c] = [do |-> "store", key |-> k, version |-> version, tag |-> 1]]
    /\ disturbed' = IF Clears = {} /\ Filling(k) = {} THEN disturbed \ {k} ELSE disturbed \union {k}
    /\ UNCHANGED <<store, tagged, version, now, due>>

At(c, do) == call[c] # None /\ call[c].do = do

\* A step of a fill while a clear runs disturbs the key.
Disturb(keys) == disturbed' = disturbed \union (IF Clears = {} THEN {} ELSE keys)

\* The call after one of a fill's commands: the next tag or the end.
Continue(c, tag) ==
    call' = [call EXCEPT ![c] =
                IF tag > Len(TagsOf[@.key]) THEN None ELSE [@ EXCEPT !.do = "tag", !.tag = tag]]

\* The function has returned: setex
Store(c) ==
    /\ At(c, "store")
    /\ store' = [store EXCEPT ![call[c].key] = [version |-> call[c].version, expires |-> now + Ttl]]
    /\ Continue(c, 1)
    /\ Disturb({call[c].key})
    /\ UNCHANGED <<tagged, version, now, due>>

\* The set a command adds to: a set that did not exist has no expiry until it is given one.
WithKey(t, k) ==
    [keys |-> tagged[t].keys \union {k},
     expires |-> IF tagged[t].keys = {} THEN MaxTime + Ttl ELSE tagged[t].expires]

\* sadd
Tag(c) ==
    /\ At(c, "tag")
    /\ LET t == TagsOf[call[c].key][call[c].tag] IN
        tagged' = [tagged EXCEPT ![t] = WithKey(t, call[c].key)]
    /\ call' = [call EXCEPT ![c].do = "expire"]
    /\ Disturb({call[c].key})
    /\ UNCHANGED <<store, version, now, due>>

\* Mutant: a tag that has an expiry keeps it.
TagExpiresOnce(t) == IF tagged[t].expires = MaxTime + Ttl THEN now + Ttl ELSE tagged[t].expires

TagExpires(t) == now + Ttl

\* expire, which does nothing to a set that is gone
Expire(c) ==
    /\ At(c, "expire")
    /\ LET t == TagsOf[call[c].key][call[c].tag] IN
        tagged' = IF tagged[t].keys = {} THEN tagged
                  ELSE [tagged EXCEPT ![t].expires = TagExpires(t)]
    /\ Continue(c, call[c].tag + 1)
    /\ Disturb({call[c].key})
    /\ UNCHANGED <<store, version, now, due>>

\* A Redis command or the function raises: the fill ends, the key half tagged.
FillFails(c) ==
    /\ call[c] # None /\ c \notin Clears
    /\ call' = [call EXCEPT ![c] = None]
    /\ disturbed' = IF call[c].do \in {"tag", "expire"} THEN disturbed \union {call[c].key}
                    ELSE disturbed
    /\ UNCHANGED <<store, tagged, version, now, due>>

\* delete(key)
Delete(k) ==
    /\ store[k] # None
    /\ store' = [store EXCEPT ![k] = None]
    /\ UNCHANGED <<tagged, version, now, call, disturbed, due>>

StartClear(c, t) ==
    /\ call[c] = None
    /\ call' = [call EXCEPT ![c] = [do |-> "members", tag |-> t, found |-> {}, version |-> version]]
    /\ disturbed' = disturbed \union KeysBeingFilled
    /\ UNCHANGED <<store, tagged, version, now, due>>

ReachedBy(t) == IF t = None THEN Keys ELSE {k \in Keys : \E i \in DOMAIN TagsOf[k] : TagsOf[k][i] = t}

\* The clear has done its work: what it ought to have reached is of its version.
FinishClear(c) ==
    /\ call' = [call EXCEPT ![c] = None]
    /\ due' = [k \in Keys |-> IF k \in ReachedBy(call[c].tag) \ disturbed /\ due[k] < call[c].version
                              THEN call[c].version ELSE due[k]]

\* smembers, or the last batch of a scan; an empty answer ends the clear.
Members(c) ==
    /\ At(c, "members")
    /\ LET found == IF call[c].tag = None THEN {k \in Keys : store[k] # None}
                    ELSE tagged[call[c].tag].keys
       IN IF found = {} THEN FinishClear(c)
          ELSE /\ call' = [call EXCEPT ![c] = [@ EXCEPT !.do = "delete", !.found = found]]
               /\ UNCHANGED due
    /\ UNCHANGED <<store, tagged, version, now, disturbed>>

\* Mutant: only one of the keys is deleted.
RemainingOne(found) == [k \in Keys |-> IF k = CHOOSE f \in found : TRUE THEN None ELSE store[k]]

Remaining(found) == [k \in Keys |-> IF k \in found THEN None ELSE store[k]]

\* delete(*keys)
DeleteKeys(c) ==
    /\ At(c, "delete")
    /\ store' = Remaining(call[c].found)
    /\ IF call[c].tag = None THEN FinishClear(c)
       ELSE call' = [call EXCEPT ![c].do = "untag"] /\ UNCHANGED due
    /\ UNCHANGED <<tagged, version, now, disturbed>>

\* delete(tag_key)
Untag(c) ==
    /\ At(c, "untag")
    /\ tagged' = [tagged EXCEPT ![call[c].tag] = NoTag]
    /\ FinishClear(c)
    /\ UNCHANGED <<store, version, now, disturbed>>

\* A Redis command of a clear raises: it returns 0.
ClearFails(c) ==
    /\ c \in Clears
    /\ call' = [call EXCEPT ![c] = None]
    /\ UNCHANGED <<store, tagged, version, now, disturbed, due>>

Next ==
    \/ Tick \/ Change
    \/ \E k \in Keys : Delete(k)
    \/ \E c \in Callers :
        \/ \E k \in Keys : Miss(c, k)
        \/ Store(c) \/ Tag(c) \/ Expire(c) \/ FillFails(c)
        \/ \E t \in Tags \union {None} : StartClear(c, t)
        \/ Members(c) \/ DeleteKeys(c) \/ Untag(c) \/ ClearFails(c)

Spec == Init /\ [][Next]_vars
------------------------------------------------------------------------------
\* After a clear, by tag or by pattern, no key it should reach is served from data
\* older than the clear, unless the key was being filled meanwhile, or its fill
\* failed half way or outlived its tag: the tags, which are written after the values
\* and expire beside them, never lose a value that is still there.
ClearedIsGone ==
    \A k \in Keys \ disturbed : store[k] # None => store[k].version >= due[k]
==============================================================================
