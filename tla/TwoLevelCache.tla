---------------------------- MODULE TwoLevelCache ----------------------------
(***************************************************************************)
(* CacheManager of app/core/cache.py: an LRUCache in the process (L1) over *)
(* Redis (L2), used by concurrent coroutines of one process.  L1 methods   *)
(* suspend nowhere; every L2 operation is a network round trip, so a get,  *)
(* a set or a delete is an L1 step, a later step in Redis and, for a get,  *)
(* a third one when the answer is back.  An L2 operation that fails is     *)
(* logged and reads as a miss or does nothing, like one on a cache that    *)
(* never connected.                                                        *)
(***************************************************************************)
EXTENDS LRU, FiniteSets

CONSTANTS Clients, Keys, Ttls, DefaultTtl,
          CacheNone,    \* the cache_none argument of cached()
          MaxVersion,   \* bound: values written
          MaxTime,      \* bound: the clock
          MayFail       \* whether L2 operations may fail

ASSUME TwoLevelAssumption ==
    /\ Ttls \subseteq Nat /\ DefaultTtl \in Ttls
    /\ CacheNone \in BOOLEAN /\ MayFail \in BOOLEAN
    /\ MaxVersion \in Nat /\ MaxTime \in Nat /\ None \notin 1..MaxVersion

VARIABLES l1,       \* self.l1_cache
          l2,       \* Redis: for each key, its value and expiry, or Absent
          op,       \* what each coroutine is doing
          result,   \* what each coroutine's last get or cached call returned
          now,
          version,  \* the last value written; every write writes a new one
          last,     \* history: for each key, what its last write left: a value or None
          expiry,   \* history: for each value written, when its ttl ends
          tainted   \* history: keys whose last write overlapped another operation on
                    \* the key, or lost its L2 step

vars == <<l1, l2, op, result, now, version, last, expiry, tainted>>

Version == 1..MaxVersion
Absent == [value |-> None, expires_at |-> 0]
Idle == [kind |-> "idle"]

\* A lookup asks L2, a fill brings its answer back; "cached" ones belong to a
\* call of a function decorated with cached().
OpType ==
    {Idle}
    \union [kind : {"lookup", "compute"}, key : Keys, cached : BOOLEAN]
    \union [kind : {"fill"}, key : Keys, cached : BOOLEAN, value : Version]
    \union [kind : {"set"}, key : Keys, value : Version, ttl : Ttls]
    \union [kind : {"delete"}, key : Keys]
    \union [kind : {"clear", "clearing"}, keys : SUBSET Keys]

TypeOK ==
    /\ l1 \in Seq([key : Keys, value : Version, expires_at : Nat])
    /\ l2 \in [Keys -> [value : Version \union {None}, expires_at : Nat]]
    /\ op \in [Clients -> OpType]
    /\ result \in [Clients -> Version \union {None}]
    /\ now \in 0..MaxTime /\ version \in 0..MaxVersion
    /\ last \in [Keys -> Version \union {None}]
    /\ expiry \in [Version -> Nat]
    /\ tainted \in SUBSET Keys

Init ==
    /\ l1 = << >>
    /\ l2 = [k \in Keys |-> Absent]
    /\ op = [c \in Clients |-> Idle]
    /\ result = [c \in Clients |-> None]
    /\ now = 0 /\ version = 0
    /\ last = [k \in Keys |-> None]
    /\ expiry = [v \in Version |-> 0]
    /\ tainted = {}

\* Redis drops a key when its time is up.
InL2(k) == IF l2[k].expires_at > now THEN l2[k].value ELSE None

\* The keys whose entries an operation may still change.
KeysOfOp(o) == IF o.kind \in {"idle", "compute"} THEN {}
               ELSE IF o.kind \in {"clear", "clearing"} THEN Keys ELSE {o.key}

Busy(k, c) == \E d \in Clients \ {c} : k \in KeysOfOp(op[d])

Tick ==
    /\ now < MaxTime
    /\ now' = now + 1
    /\ UNCHANGED <<l1, l2, op, result, version, last, expiry, tainted>>

Return(c, value) ==
    /\ op' = [op EXCEPT ![c] = Idle]
    /\ result' = [result EXCEPT ![c] = value]

\* get(key) up to the answer of L1.
GetL1(c, k, cached) ==
    /\ op[c] = Idle
    /\ l1' = AfterGet(l1, k, now)
    /\ IF Hit(l1, k, now)
       THEN Return(c, GetValue(l1, k, now)) /\ UNCHANGED tainted
       ELSE /\ op' = [op EXCEPT ![c] = [kind |-> "lookup", key |-> k, cached |-> cached]]
            /\ tainted' = IF \E d \in Clients : k \in KeysOfOp(op[d]) /\ op[d].kind \notin {"lookup", "fill"}
                          THEN tainted \union {k} ELSE tainted
            /\ UNCHANGED result
    /\ UNCHANGED <<l2, now, version, last, expiry>>

\* A get that missed returns None; cached() takes that for a hit if cache_none.
Miss(c, k, cached) ==
    IF cached /\ ~CacheNone
    THEN op' = [op EXCEPT ![c] = [kind |-> "compute", key |-> k, cached |-> TRUE]]
         /\ UNCHANGED result
    ELSE Return(c, None)

\* Redis answers the lookup, or the lookup fails and reads as a miss.
Lookup(c) ==
    /\ op[c].kind = "lookup"
    /\ LET k == op[c].key
           found == InL2(k)
       IN \/ /\ found # None
             /\ op' = [op EXCEPT ![c] = [kind |-> "fill", key |-> k,
                                         cached |-> op[c].cached, value |-> found]]
             /\ UNCHANGED result
          \/ (found = None \/ MayFail) /\ Miss(c, k, op[c].cached)
    /\ UNCHANGED <<l1, l2, now, version, last, expiry, tainted>>

\* Mutant: what L2 answered is cached with no expiry.
FillForever(c) ==
    /\ op[c].kind = "fill"
    /\ l1' = AfterSet(l1, op[c].key, op[c].value, None)
    /\ Return(c, op[c].value)
    /\ UNCHANGED <<l2, now, version, last, expiry, tainted>>

\* The answer is back: L1 is populated, with the default ttl.
Fill(c) ==
    /\ op[c].kind = "fill"
    /\ l1' = AfterSet(l1, op[c].key, op[c].value, now + DefaultTtl)
    /\ Return(c, op[c].value)
    /\ UNCHANGED <<l2, now, version, last, expiry, tainted>>

\* A write begins: it is the last one of its key from here on.
BeginWrite(c, k, value) ==
    /\ last' = [last EXCEPT ![k] = value]
    /\ tainted' = IF Busy(k, c) THEN tainted \union {k} ELSE tainted \ {k}

SetL1(c, k, ttl) ==
    /\ version < MaxVersion
    /\ version' = version + 1
    /\ expiry' = [expiry EXCEPT ![version'] = now + ttl]
    /\ l1' = AfterSet(l1, k, version', now + ttl)
    /\ BeginWrite(c, k, version')
    /\ op' = [op EXCEPT ![c] = [kind |-> "set", key |-> k, value |-> version', ttl |-> ttl]]

\* set(key, value, ttl) up to its L2 step.
Set(c, k, ttl) ==
    /\ op[c] = Idle
    /\ SetL1(c, k, ttl)
    /\ UNCHANGED <<l2, result, now>>

\* The decorated function returned a value, which cached() returns and sets.
Compute(c, ttl) ==
    /\ op[c].kind = "compute"
    /\ SetL1(c, op[c].key, ttl)
    /\ result' = [result EXCEPT ![c] = version']
    /\ UNCHANGED <<l2, now>>

\* The decorated function raised, or returned a None that is not to be cached.
ComputeNothing(c) ==
    /\ op[c].kind = "compute"
    /\ Return(c, None)
    /\ UNCHANGED <<l1, l2, now, version, last, expiry, tainted>>

DeleteL1(c, k) ==
    /\ op[c] = Idle
    /\ l1' = Without(l1, k)
    /\ BeginWrite(c, k, None)
    /\ op' = [op EXCEPT ![c] = [kind |-> "delete", key |-> k]]
    /\ UNCHANGED <<l2, result, now, version, expiry>>

ClearL1(c) ==
    /\ op[c] = Idle
    /\ l1' = << >>
    /\ last' = [k \in Keys |-> None]
    /\ tainted' = {k \in Keys : Busy(k, c)}
    /\ op' = [op EXCEPT ![c] = [kind |-> "clear", keys |-> {}]]
    /\ UNCHANGED <<l2, result, now, version, expiry>>

\* clear() asks Redis for the keys that match and deletes those.
ClearKeys(c) ==
    /\ op[c].kind = "clear"
    /\ op' = [op EXCEPT ![c] = [kind |-> "clearing", keys |-> {k \in Keys : InL2(k) # None}]]
    /\ UNCHANGED <<l1, l2, result, now, version, last, expiry, tainted>>

\* Mutant: a set does not replace a value that Redis still has.
L2AfterKeeping(o) ==
    CASE o.kind = "set"      -> IF InL2(o.key) # None THEN l2
                                ELSE [l2 EXCEPT ![o.key] = [value |-> o.value, expires_at |-> now + o.ttl]]
      [] o.kind = "delete"   -> [l2 EXCEPT ![o.key] = Absent]
      [] o.kind = "clearing" -> [k \in Keys |-> IF k \in o.keys THEN Absent ELSE l2[k]]

\* Mutant: a set gives its value one unit of time less.
L2AfterEarly(o) ==
    CASE o.kind = "set"      -> [l2 EXCEPT ![o.key] = [value |-> o.value, expires_at |-> now + o.ttl - 1]]
      [] o.kind = "delete"   -> [l2 EXCEPT ![o.key] = Absent]
      [] o.kind = "clearing" -> [k \in Keys |-> IF k \in o.keys THEN Absent ELSE l2[k]]

\* What a write does in Redis.
L2After(o) ==
    CASE o.kind = "set"      -> [l2 EXCEPT ![o.key] = [value |-> o.value, expires_at |-> now + o.ttl]]
      [] o.kind = "delete"   -> [l2 EXCEPT ![o.key] = Absent]
      [] o.kind = "clearing" -> [k \in Keys |-> IF k \in o.keys THEN Absent ELSE l2[k]]

WriteL2(c) ==
    /\ op[c].kind \in {"set", "delete", "clearing"}
    /\ l2' = L2After(op[c])
    /\ op' = [op EXCEPT ![c] = Idle]
    /\ UNCHANGED <<l1, result, now, version, last, expiry, tainted>>

\* The L2 step of a write fails: the error is logged and swallowed.
WriteL2Fails(c) ==
    /\ MayFail
    /\ op[c].kind \in {"set", "delete", "clear", "clearing"}
    /\ op' = [op EXCEPT ![c] = Idle]
    /\ tainted' = tainted \union KeysOfOp(op[c])
    /\ UNCHANGED <<l1, l2, result, now, version, last, expiry>>

Next ==
    \/ Tick
    \/ \E c \in Clients :
        \/ \E k \in Keys : DeleteL1(c, k) \/ \E cached \in BOOLEAN : GetL1(c, k, cached)
        \/ \E k \in Keys, ttl \in Ttls : Set(c, k, ttl)
        \/ \E ttl \in Ttls : Compute(c, ttl)
        \/ Lookup(c) \/ Fill(c) \/ ComputeNothing(c) \/ ClearL1(c) \/ ClearKeys(c) \/ WriteL2(c) \/ WriteL2Fails(c)

Spec == Init /\ [][Next]_vars
------------------------------------------------------------------------------
Quiet(k) == \A c \in Clients : k \notin KeysOfOp(op[c])

\* The only sources of stale entries are a write that overlaps another operation
\* on its key and an L2 step that fails: after any other write, once its key is
\* quiet, neither level holds anything but what that write left.
CoherentUnlessOverlapped ==
    \A k \in Keys \ tainted : Quiet(k) =>
        /\ GetValue(l1, k, now) \in {None, last[k]}
        /\ InL2(k) \in {None, last[k]}

\* What L1 evicts is still to be had: the last value of a key no write of which
\* overlapped or failed can be read from one of the levels until its ttl ends.
ReadableUntilExpiry ==
    \A k \in Keys \ tainted :
        Quiet(k) /\ last[k] # None /\ now < expiry[last[k]]
        => last[k] \in {GetValue(l1, k, now), InL2(k)}
==============================================================================
