-------------------------- MODULE TwoLevelCacheProofs --------------------------
(***************************************************************************)
(* The theorems that unless operations on a key overlap or L2 fails,       *)
(* TwoLevelCache holds no stale value and none is lost before its time,    *)
(* for every set of coroutines, keys and ttls and every size of L1.        *)
(***************************************************************************)
EXTENDS TwoLevelCache, SequenceTheorems, TLAPS

\* An operation that asks, and one that will still change what is in L2.
Reads(o) == o.kind \in {"lookup", "fill"}
Writes(c, k) == k \in KeysOfOp(op[c]) /\ ~Reads(op[c])

OneEntryPerKey(cache) ==
    \A i, j \in DOMAIN cache : cache[i].key = cache[j].key => i = j

\* Nothing else is under way on the key of an operation that writes.
WritersAlone ==
    \A k \in Keys \ tainted, c, d \in Clients :
        Writes(c, k) /\ k \in KeysOfOp(op[d]) => c = d

\* L1 is written when an operation begins, so it holds what the last one left.
L1Last ==
    \A k \in Keys \ tainted : \A i \in DOMAIN l1 : l1[i].key = k => l1[i].value = last[k]

\* L2 is written when it ends, so it does so too unless one is under way.
L2Last ==
    \A k \in Keys \ tainted : (\A c \in Clients : ~Writes(c, k)) => InL2(k) \in {None, last[k]}

\* What an operation is going to leave in L2.
Leaves(o) == IF o.kind = "set" THEN o.value ELSE None

WritesLast == \A k \in Keys \ tainted, c \in Clients : Writes(c, k) => last[k] = Leaves(op[c])

\* A clear knows the keys that L2 has, and nobody adds one.
ClearsAll ==
    \A k \in Keys \ tainted, c \in Clients :
        op[c].kind = "clearing" /\ k \notin op[c].keys => InL2(k) = None

\* An answer of L2 on its way to L1.
FillsLast ==
    \A c \in Clients :
        op[c].kind = "fill" /\ op[c].key \notin tainted => op[c].value = last[op[c].key]

\* The values that keys were last given are among those written.
LastWritten == \A k \in Keys : last[k] \in 1..version \union {None}

\* A set gives its value in L2 no less time than it has from the beginning of the set.
SetsLong ==
    \A c \in Clients :
        op[c].kind = "set" /\ op[c].key \notin tainted => expiry[op[c].value] <= now + op[c].ttl

\* L2 has the last value until its ttl ends, unless a write is under way.
L2Holds ==
    \A k \in Keys \ tainted :
        last[k] # None /\ (\A c \in Clients : ~Writes(c, k)) =>
            l2[k].value = last[k] /\ expiry[last[k]] <= l2[k].expires_at

IInv ==
    /\ LastWritten /\ SetsLong /\ L2Holds
    /\ TypeOK /\ OneEntryPerKey(l1)
    /\ WritersAlone /\ L1Last /\ L2Last /\ WritesLast /\ ClearsAll /\ FillsLast
------------------------------------------------------------------------------
Entry == [key : Keys, value : Version, expires_at : Nat]

\* The entries of new are entries of old.
Within(new, old) == \A i \in DOMAIN new : \E j \in DOMAIN old : new[i] = old[j]

\* Without takes out the only entry of its key and no other.
LEMMA WithoutIs ==
    ASSUME NEW cache \in Seq(Entry), OneEntryPerKey(cache), NEW k
    PROVE  LET w == Without(cache, k)
           IN /\ w \in Seq(Entry) /\ OneEntryPerKey(w) /\ Within(w, cache)
              /\ \A i \in DOMAIN w : w[i].key # k
<1> DEFINE w == Without(cache, k)
<1>1. CASE ~Has(cache, k)
  BY <1>1 DEF Without, Has, Within
<1>2. CASE Has(cache, k)
  <2> DEFINE p == Place(cache, k)
  <2>1. p \in 1..Len(cache) /\ cache[p].key = k
    BY <1>2 DEF Has, Place
  <2> HIDE DEF p
  <2>2. w = SubSeq(cache, 1, p - 1) \o SubSeq(cache, p + 1, Len(cache))
    BY <1>2 DEF Without, RemoveAt, p
  <2>3. /\ w \in Seq(Entry) /\ Len(w) = Len(cache) - 1
        /\ \A i \in 1..Len(w) : w[i] = IF i < p THEN cache[i] ELSE cache[i + 1]
    <3> DEFINE before == SubSeq(cache, 1, p - 1)
               after == SubSeq(cache, p + 1, Len(cache))
    <3>1. /\ before \in Seq(Entry) /\ Len(before) = p - 1
          /\ \A i \in 1..(p - 1) : before[i] = cache[i]
      BY <2>1
    <3>2. /\ after \in Seq(Entry) /\ Len(after) = Len(cache) - p
          /\ \A i \in 1..(Len(cache) - p) : after[i] = cache[i + p]
      BY <2>1
    <3> HIDE DEF w, before, after
    <3>3. w = before \o after
      BY <2>2 DEF before, after
    <3>4. /\ w \in Seq(Entry) /\ Len(w) = Len(before) + Len(after)
          /\ \A i \in 1..Len(w) : w[i] = IF i <= Len(before) THEN before[i]
                                         ELSE after[i - Len(before)]
      <4>1. before \in Seq(Entry) /\ after \in Seq(Entry)
        BY <3>1, <3>2
      <4>2. /\ before \o after \in Seq(Entry)
            /\ Len(before \o after) = Len(before) + Len(after)
            /\ \A i \in 1..(Len(before) + Len(after)) :
                  (before \o after)[i] = IF i <= Len(before) THEN before[i]
                                         ELSE after[i - Len(before)]
        BY <4>1, ConcatProperties, Zenon
      <4> QED
        BY <3>3, <4>2, Zenon
    <3>5. ASSUME NEW i \in 1..Len(w)
          PROVE  w[i] = IF i < p THEN cache[i] ELSE cache[i + 1]
      <4>1. CASE i < p
        BY <4>1, <2>1, <3>1, <3>4
      <4>2. CASE ~(i < p)
        <5>1. i - Len(before) \in 1..(Len(cache) - p) /\ i - Len(before) + p = i + 1
          BY <4>2, <2>1, <3>1, <3>2, <3>4
        <5>2. w[i] = after[i - Len(before)]
          BY <4>2, <2>1, <3>1, <3>4
        <5>3. after[i - Len(before)] = cache[i - Len(before) + p]
          BY <5>1, <3>2
        <5> QED
          BY <4>2, <5>1, <5>2, <5>3
      <4> QED
        BY <4>1, <4>2
    <3> QED
      BY <2>1, <3>1, <3>2, <3>4, <3>5
  <2>4. \A i \in 1..Len(w) : IF i < p THEN i \in 1..Len(cache) ELSE i + 1 \in 1..Len(cache)
    BY <2>1, <2>3
  <2>5. OneEntryPerKey(w)
    <3> SUFFICES ASSUME NEW i \in 1..Len(w), NEW j \in 1..Len(w), w[i].key = w[j].key
                 PROVE  i = j
      BY <2>3 DEF OneEntryPerKey
    <3> DEFINE at(n) == IF n < p THEN n ELSE n + 1
    <3>1. at(i) \in DOMAIN cache /\ at(j) \in DOMAIN cache /\ cache[at(i)].key = cache[at(j)].key
      BY <2>3, <2>4, SMTT(30)
    <3>2. at(i) = at(j)
      BY <3>1 DEF OneEntryPerKey
    <3> QED
      BY <2>1, <3>2
  <2>6. ASSUME NEW i \in 1..Len(w) PROVE w[i].key # k
    <3> DEFINE at == IF i < p THEN i ELSE i + 1
    <3>1. at \in DOMAIN cache /\ at # p /\ w[i] = cache[at]
      BY <2>1, <2>3, <2>4
    <3> QED
      BY <2>1, <3>1 DEF OneEntryPerKey
  <2>7. Within(w, cache)
    <3> SUFFICES ASSUME NEW i \in 1..Len(w) PROVE \E j \in DOMAIN cache : w[i] = cache[j]
      BY <2>3 DEF Within
    <3> QED
      BY <2>3, <2>4, SMTT(30)
  <2> QED
    BY <2>3, <2>5, <2>6, <2>7
<1> QED
  BY <1>1, <1>2

\* An entry of another key at the end leaves one entry of each key.
LEMMA AppendIs ==
    ASSUME NEW cache \in Seq(Entry), OneEntryPerKey(cache), NEW e \in Entry,
           \A i \in DOMAIN cache : cache[i].key # e.key
    PROVE  LET a == Append(cache, e)
           IN /\ a \in Seq(Entry) /\ OneEntryPerKey(a)
              /\ \A i \in DOMAIN a : a[i] = e \/ \E j \in DOMAIN cache : a[i] = cache[j]
<1> DEFINE a == Append(cache, e)
<1>1. /\ a \in Seq(Entry) /\ Len(a) = Len(cache) + 1 /\ a[Len(a)] = e
      /\ \A i \in 1..Len(cache) : a[i] = cache[i]
  OBVIOUS
<1> HIDE DEF a
<1>2. \A i \in 1..Len(a) : i \in 1..Len(cache) \/ i = Len(a)
  BY <1>1
<1>3. OneEntryPerKey(a)
  BY <1>1, <1>2 DEF OneEntryPerKey
<1>4. \A i \in DOMAIN a : a[i] = e \/ \E j \in DOMAIN cache : a[i] = cache[j]
  BY <1>1, <1>2
<1> QED
  BY <1>1, <1>3, <1>4 DEF a

LEMMA EvictIs ==
    ASSUME NEW cache \in Seq(Entry), OneEntryPerKey(cache)
    PROVE  /\ Evict(cache) \in Seq(Entry) /\ OneEntryPerKey(Evict(cache))
           /\ Within(Evict(cache), cache)
<1>1. CASE Len(cache) <= MaxSize
  BY <1>1 DEF Evict, Within
<1>2. CASE ~(Len(cache) <= MaxSize)
  <2> DEFINE gone == Len(cache) - MaxSize
             e == SubSeq(cache, gone + 1, Len(cache))
  <2>1. gone \in Nat /\ gone <= Len(cache)
    BY <1>2, LRUAssumption
  <2>2. Evict(cache) = e
    BY <1>2 DEF Evict
  <2> HIDE DEF gone
  <2>3. /\ e \in Seq(Entry) /\ Len(e) = Len(cache) - gone
        /\ \A i \in 1..Len(e) : e[i] = cache[i + gone] /\ i + gone \in 1..Len(cache)
    BY <2>1
  <2> HIDE DEF e
  <2>4. OneEntryPerKey(e)
    <3> SUFFICES ASSUME NEW i \in 1..Len(e), NEW j \in 1..Len(e), e[i].key = e[j].key
                 PROVE  i = j
      BY <2>3 DEF OneEntryPerKey
    <3>1. i + gone = j + gone
      BY <2>3 DEF OneEntryPerKey
    <3> QED
      BY <2>1, <3>1
  <2>5. Within(e, cache)
    <3> SUFFICES ASSUME NEW i \in 1..Len(e) PROVE \E j \in DOMAIN cache : e[i] = cache[j]
      BY <2>3 DEF Within
    <3> QED
      BY <2>3
  <2> QED
    BY <2>2, <2>3, <2>4, <2>5
<1> QED
  BY <1>1, <1>2

LEMMA GetIs ==
    ASSUME NEW cache \in Seq(Entry), OneEntryPerKey(cache), NEW k, NEW t
    PROVE  /\ AfterGet(cache, k, t) \in Seq(Entry) /\ OneEntryPerKey(AfterGet(cache, k, t))
           /\ Within(AfterGet(cache, k, t), cache)
<1> DEFINE w == Without(cache, k)
<1>1. /\ w \in Seq(Entry) /\ OneEntryPerKey(w) /\ Within(w, cache)
      /\ \A i \in DOMAIN w : w[i].key # k
  BY WithoutIs
<1>2. CASE Hit(cache, k, t)
  <2> DEFINE e == EntryOf(cache, k)
  <2>1. PICK p \in DOMAIN cache : e = cache[p] /\ cache[p].key = k
    BY <1>2 DEF Hit, Has, EntryOf, Place
  <2>2. e \in Entry /\ e.key = k
    BY <2>1
  <2>3. AfterGet(cache, k, t) = Append(w, e)
    BY <1>2 DEF AfterGet
  <2> HIDE DEF w, e
  <2>4. /\ Append(w, e) \in Seq(Entry) /\ OneEntryPerKey(Append(w, e))
        /\ \A i \in DOMAIN Append(w, e) :
              Append(w, e)[i] = e \/ \E j \in DOMAIN w : Append(w, e)[i] = w[j]
    BY <1>1, <2>2, AppendIs
  <2>5. Within(Append(w, e), cache)
    BY <1>1, <2>1, <2>4 DEF Within
  <2> QED
    BY <2>3, <2>4, <2>5
<1>3. CASE ~Hit(cache, k, t)
  BY <1>1, <1>3 DEF AfterGet
<1> QED
  BY <1>2, <1>3

LEMMA SetIs ==
    ASSUME NEW cache \in Seq(Entry), OneEntryPerKey(cache),
           NEW k \in Keys, NEW v \in Version, NEW expires \in Nat
    PROVE  LET s == AfterSet(cache, k, v, expires)
           IN /\ s \in Seq(Entry) /\ OneEntryPerKey(s)
              /\ \A i \in DOMAIN s : \/ s[i].key = k /\ s[i].value = v
                                     \/ s[i].key # k /\ \E j \in DOMAIN cache : s[i] = cache[j]
<1> DEFINE w == Without(cache, k)
           e == [key |-> k, value |-> v, expires_at |-> expires]
           a == Append(w, e)
<1>1. /\ w \in Seq(Entry) /\ OneEntryPerKey(w) /\ Within(w, cache)
      /\ \A i \in DOMAIN w : w[i].key # k
  BY WithoutIs
<1>2. e \in Entry /\ e.key = k /\ e.value = v
  BY DEF Entry
<1>3. AfterSet(cache, k, v, expires) = Evict(a)
  BY DEF AfterSet
<1> HIDE DEF w, e
<1>4. /\ a \in Seq(Entry) /\ OneEntryPerKey(a)
      /\ \A i \in DOMAIN a : a[i] = e \/ \E j \in DOMAIN w : a[i] = w[j]
  BY <1>1, <1>2, AppendIs
<1> HIDE DEF a
<1>5. Evict(a) \in Seq(Entry) /\ OneEntryPerKey(Evict(a)) /\ Within(Evict(a), a)
  BY <1>4, EvictIs
<1>6. ASSUME NEW i \in DOMAIN Evict(a)
      PROVE  \/ Evict(a)[i].key = k /\ Evict(a)[i].value = v
             \/ Evict(a)[i].key # k /\ \E j \in DOMAIN cache : Evict(a)[i] = cache[j]
  <2>1. PICK n \in DOMAIN a : Evict(a)[i] = a[n]
    BY <1>5 DEF Within
  <2>2. CASE a[n] = e
    BY <1>2, <2>1, <2>2
  <2>3. CASE \E j \in DOMAIN w : a[n] = w[j]
    BY <1>1, <2>1, <2>3 DEF Within
  <2> QED
    BY <1>4, <2>2, <2>3
<1> QED
  BY <1>3, <1>5, <1>6
------------------------------------------------------------------------------
LEMMA InitIInv == Init => IInv
<1> SUFFICES ASSUME Init PROVE IInv
  OBVIOUS
<1>1. \A c \in Clients, k \in Keys : ~Writes(c, k)
  BY DEF Init, Writes, KeysOfOp, Idle
<1>2. TypeOK
  BY TwoLevelAssumption DEF Init, TypeOK, OpType, Absent, Idle
<1> QED
  BY <1>1, <1>2 DEF Init, IInv, OneEntryPerKey, WritersAlone, L1Last, L2Last, WritesLast,
     ClearsAll, FillsLast, LastWritten, SetsLong, L2Holds, InL2, Absent, Idle

LEMMA OpFields ==
    ASSUME TypeOK, NEW c \in Clients
    PROVE  /\ op[c].kind \in {"idle", "lookup", "compute", "fill", "set", "delete", "clear", "clearing"}
           /\ op[c].kind \in {"lookup", "compute", "fill"} => op[c].key \in Keys /\ op[c].cached \in BOOLEAN
           /\ op[c].kind = "fill" => op[c].value \in Version
           /\ op[c].kind = "set" => op[c].key \in Keys /\ op[c].value \in Version /\ op[c].ttl \in Ttls
           /\ op[c].kind = "delete" => op[c].key \in Keys
           /\ op[c].kind \in {"clear", "clearing"} => op[c].keys \in SUBSET Keys
<1>1. op[c] \in OpType
  BY DEF TypeOK
<1> QED
  BY <1>1 DEF OpType, Idle

\* A step of c that neither begins a write nor ends one, on the keys that stay untainted.
LEMMA ReaderStep ==
    ASSUME IInv, TypeOK', OneEntryPerKey(l1)', NEW c \in Clients,
           l2' = l2, now' = now, last' = last, tainted \subseteq tainted',
           version' = version, expiry' = expiry,
           \A d \in Clients \ {c} : op'[d] = op[d],
           \A k \in Keys \ tainted' : ~Writes(c, k) /\ ~Writes(c, k)',
           op'[c].kind \notin {"set", "clearing"},
           \A k \in Keys \ tainted' :
               k \in KeysOfOp(op'[c]) => k \in KeysOfOp(op[c]) \/ \A d \in Clients : ~Writes(d, k),
           op'[c].kind = "fill" /\ op'[c].key \notin tainted' => op'[c].value = last[op'[c].key],
           \A i \in DOMAIN l1' : \/ \E j \in DOMAIN l1 : l1'[i] = l1[j]
                                 \/ l1'[i].key \notin tainted' => l1'[i].value = last[l1'[i].key]
    PROVE  IInv'
<1>1. \A k \in Keys \ tainted', d \in Clients : Writes(d, k)' <=> Writes(d, k)
  BY DEF Writes
<1>2. WritersAlone'
  BY <1>1 DEF IInv, WritersAlone
<1>3. L1Last'
  BY DEF IInv, L1Last
<1>4. L2Last'
  BY <1>1 DEF IInv, L2Last, InL2
<1>5. WritesLast'
  BY <1>1 DEF IInv, WritesLast
<1>6. ClearsAll'
  BY DEF IInv, ClearsAll, InL2
<1>7. FillsLast'
  BY DEF IInv, FillsLast
<1>8. LastWritten' /\ L2Holds'
  BY <1>1 DEF IInv, LastWritten, L2Holds
<1>9. SetsLong'
  BY DEF IInv, SetsLong
<1> QED
  BY <1>2, <1>3, <1>4, <1>5, <1>6, <1>7, <1>8, <1>9 DEF IInv

\* c begins to write the keys of ks: those that stay untainted are its own.
LEMMA BeginStep ==
    ASSUME IInv, TypeOK', OneEntryPerKey(l1)', NEW c \in Clients, NEW ks \in SUBSET Keys,
           l2' = l2, now' = now,
           \A d \in Clients \ {c} : op'[d] = op[d],
           \A k \in Keys : ~Writes(c, k), KeysOfOp(op'[c]) = ks,
           op'[c].kind \in {"set", "delete", "clear"},
           op'[c].kind = "set" => expiry'[op'[c].value] <= now + op'[c].ttl,
           version <= version', \A v \in 1..version : expiry'[v] = expiry[v],
           \A k \in ks : last'[k] \in 1..version' \union {None},
           \A k \in Keys \ ks : last'[k] = last[k] /\ (k \in tainted <=> k \in tainted'),
           \A k \in ks : last'[k] = Leaves(op'[c]) /\ (k \notin tainted' => ~Busy(k, c)),
           \A i \in DOMAIN l1' : \/ l1'[i].key \in ks /\ l1'[i].value = last'[l1'[i].key]
                                 \/ l1'[i].key \notin ks /\ \E j \in DOMAIN l1 : l1'[i] = l1[j]
    PROVE  IInv'
<1>1. \A k \in Keys, d \in Clients \ {c} :
        /\ Writes(d, k)' <=> Writes(d, k)
        /\ k \in KeysOfOp(op[d]) /\ k \notin tainted' => k \notin ks
  BY DEF Writes, Busy
<1>2. \A k \in Keys : Writes(c, k)' <=> k \in ks
  BY DEF Writes, Reads
<1>3. WritersAlone'
  BY <1>1, <1>2 DEF IInv, WritersAlone, Writes
<1>4. L1Last'
  <2> SUFFICES ASSUME NEW k \in Keys \ tainted', NEW i \in DOMAIN l1', l1'[i].key = k
               PROVE  l1'[i].value = last'[k]
    BY DEF L1Last
  <2>1. CASE k \in ks
    BY <2>1
  <2>2. CASE k \notin ks
    <3>1. PICK j \in DOMAIN l1 : l1'[i] = l1[j]
      BY <2>2
    <3>2. k \notin tainted /\ last'[k] = last[k]
      BY <2>2
    <3> QED
      BY <3>1, <3>2 DEF IInv, L1Last
  <2> QED
    BY <2>1, <2>2
<1>5. L2Last'
  BY <1>1, <1>2 DEF IInv, L2Last, InL2
<1>6. WritesLast'
  BY <1>1, <1>2 DEF IInv, WritesLast, Writes
<1>7. ClearsAll'
  <2> SUFFICES ASSUME NEW k \in Keys \ tainted', NEW d \in Clients,
                      op'[d].kind = "clearing", k \notin op'[d].keys
               PROVE  InL2(k)' = None
    BY DEF ClearsAll
  <2>1. d # c /\ op'[d] = op[d]
    OBVIOUS
  <2>2. k \in KeysOfOp(op[d])
    BY <2>1 DEF KeysOfOp
  <2> QED
    BY <1>1, <2>1, <2>2 DEF IInv, ClearsAll, InL2
<1>8. FillsLast'
  <2> SUFFICES ASSUME NEW d \in Clients, op'[d].kind = "fill", op'[d].key \notin tainted'
               PROVE  op'[d].value = last'[op'[d].key]
    BY DEF FillsLast
  <2>1. d # c /\ op'[d] = op[d]
    OBVIOUS
  <2>2. op[d].key \in KeysOfOp(op[d]) /\ op[d].key \in Keys
    BY <2>1, OpFields DEF KeysOfOp, IInv
  <2> QED
    BY <1>1, <2>1, <2>2 DEF IInv, FillsLast
<1>9. LastWritten'
  <2> SUFFICES ASSUME NEW k \in Keys PROVE last'[k] \in 1..version' \union {None}
    BY DEF LastWritten
  <2>1. CASE k \in ks
    BY <2>1
  <2>2. CASE k \notin ks
    <3>1. last[k] \in 1..version \union {None} /\ version \in Int /\ version' \in Int
      BY DEF IInv, LastWritten, TypeOK
    <3> QED
      BY <2>2, <3>1
  <2> QED
    BY <2>1, <2>2
<1>10. SetsLong'
  <2> SUFFICES ASSUME NEW d \in Clients \ {c}, op[d].kind = "set", op[d].key \notin tainted'
               PROVE  expiry'[op[d].value] <= now + op[d].ttl
    BY DEF SetsLong
  <2>1. op[d].key \in Keys /\ op[d].key \in KeysOfOp(op[d]) /\ ~Reads(op[d])
    BY OpFields DEF IInv, KeysOfOp, Reads
  <2>2. op[d].key \notin ks /\ op[d].key \notin tainted /\ Writes(d, op[d].key)
    BY <1>1, <2>1 DEF Writes
  <2>3. op[d].value = last[op[d].key]
    BY <2>1, <2>2 DEF IInv, WritesLast, Leaves
  <2>4. op[d].value \in Version /\ op[d].value # None
    BY OpFields, TwoLevelAssumption DEF IInv, Version
  <2>5. op[d].value \in 1..version
    BY <2>1, <2>3, <2>4 DEF IInv, LastWritten
  <2>6. expiry'[op[d].value] = expiry[op[d].value]
    BY <2>5
  <2> QED
    BY <2>2, <2>6 DEF IInv, SetsLong
<1>11. L2Holds'
  <2> SUFFICES ASSUME NEW k \in Keys \ tainted', last'[k] # None,
                      \A d \in Clients : ~Writes(d, k)'
               PROVE  l2[k].value = last'[k] /\ expiry'[last'[k]] <= l2[k].expires_at
    BY DEF L2Holds
  <2>1. k \notin ks /\ k \notin tainted /\ last'[k] = last[k]
    BY <1>2
  <2>2. \A d \in Clients : ~Writes(d, k)
    BY <1>1
  <2> QED
    BY <2>1, <2>2 DEF IInv, LastWritten, L2Holds
<1> QED
  BY <1>3, <1>4, <1>5, <1>6, <1>7, <1>8, <1>9, <1>10, <1>11 DEF IInv
------------------------------------------------------------------------------
LEMMA GetL1Inv ==
    ASSUME IInv, NEW c \in Clients, NEW k \in Keys, NEW cached \in BOOLEAN, GetL1(c, k, cached)
    PROVE  IInv'
<1>1. /\ l1' \in Seq(Entry) /\ OneEntryPerKey(l1') /\ Within(l1', l1)
  BY GetIs DEF IInv, TypeOK, GetL1, Entry
<1>2. op[c] = Idle /\ KeysOfOp(op[c]) = {}
  BY DEF GetL1, KeysOfOp, Idle
<1>3. CASE Hit(l1, k, now)
  <2>1. GetValue(l1, k, now) \in Version
    <3>1. PICK p \in DOMAIN l1 : EntryOf(l1, k) = l1[p]
      BY <1>3 DEF Hit, Has, EntryOf, Place
    <3>2. l1[p] \in Entry
      <4>1. l1 \in Seq(Entry)
        BY DEF IInv, TypeOK, Entry
      <4> QED
        BY <4>1
    <3>3. l1[p].value \in Version
      BY <3>2 DEF Entry
    <3> QED
      BY <1>3, <3>1, <3>3 DEF GetValue
  <2>2. op' = op /\ result' = [result EXCEPT ![c] = GetValue(l1, k, now)] /\ tainted' = tainted
    BY <1>2, <1>3 DEF GetL1, Return, IInv, TypeOK
  <2>3. TypeOK'
    BY <1>1, <2>1, <2>2 DEF GetL1, IInv, TypeOK, Entry
  <2>4. \A j \in Keys : ~Writes(c, j) /\ ~Writes(c, j)'
    BY <1>2, <2>2 DEF Writes
  <2> QED
    BY <1>1, <1>2, <2>2, <2>3, <2>4, ReaderStep DEF GetL1, Within, Idle
<1>4. CASE ~Hit(l1, k, now)
  <2> DEFINE o == [kind |-> "lookup", key |-> k, cached |-> cached]
  <2>1. op' = [op EXCEPT ![c] = o] /\ result' = result
    BY <1>4 DEF GetL1
  <2>2. o \in OpType
    BY DEF OpType
  <2>3. tainted' \in SUBSET Keys /\ tainted \subseteq tainted'
    BY <1>4 DEF GetL1, IInv, TypeOK
  <2>4. TypeOK'
    BY <1>1, <2>1, <2>2, <2>3 DEF GetL1, IInv, TypeOK, Entry
  <2>5. op'[c] = o /\ KeysOfOp(o) = {k} /\ Reads(o)
    BY <2>1 DEF IInv, TypeOK, KeysOfOp, Reads
  <2>6. \A j \in Keys : ~Writes(c, j) /\ ~Writes(c, j)'
    BY <1>2, <2>5 DEF Writes
  <2>7. k \notin tainted' => \A d \in Clients : ~Writes(d, k)
    BY <1>4 DEF GetL1, Writes, Reads
  <2>8. \A d \in Clients \ {c} : op'[d] = op[d]
    BY <2>1 DEF IInv, TypeOK
  <2> QED
    BY <1>1, <1>2, <2>3, <2>4, <2>5, <2>6, <2>7, <2>8, ReaderStep DEF GetL1, Within
<1> QED
  BY <1>3, <1>4

LEMMA LookupInv == ASSUME IInv, NEW c \in Clients, Lookup(c) PROVE IInv'
<1> DEFINE k == op[c].key
           found == InL2(k)
<1>1. k \in Keys /\ op[c].kind = "lookup" /\ op[c].cached \in BOOLEAN /\ KeysOfOp(op[c]) = {k}
  BY OpFields DEF Lookup, KeysOfOp, IInv
<1>2. found \in Version \union {None}
  BY <1>1 DEF InL2, IInv, TypeOK
<1>3. PICK o \in OpType :
        /\ op' = [op EXCEPT ![c] = o]
        /\ KeysOfOp(o) \in {{}, {k}} /\ o.kind \in {"idle", "compute", "fill"}
        /\ o.kind = "fill" => o.key = k /\ o.value = found /\ found # None
  <2> DEFINE fill == [kind |-> "fill", key |-> k, cached |-> op[c].cached, value |-> found]
             compute == [kind |-> "compute", key |-> k, cached |-> TRUE]
  <2>1. CASE found # None /\ op' = [op EXCEPT ![c] = fill]
    <3>1. /\ fill \in OpType /\ KeysOfOp(fill) = {k}
          /\ fill.kind = "fill" /\ fill.key = k /\ fill.value = found
      BY <1>1, <1>2, <2>1 DEF OpType, KeysOfOp
    <3> HIDE DEF fill, found
    <3> QED
      BY <2>1, <3>1
  <2>2. CASE op' = [op EXCEPT ![c] = Idle]
    <3>1. Idle \in OpType /\ KeysOfOp(Idle) = {} /\ Idle.kind = "idle"
      BY DEF OpType, KeysOfOp, Idle
    <3> QED
      BY <2>2, <3>1
  <2>3. CASE op' = [op EXCEPT ![c] = compute]
    <3>1. compute \in OpType /\ KeysOfOp(compute) = {} /\ compute.kind = "compute"
      BY <1>1 DEF OpType, KeysOfOp
    <3> HIDE DEF compute
    <3> QED
      BY <2>3, <3>1
  <2> QED
    BY <2>1, <2>2, <2>3 DEF Lookup, Miss, Return
<1>4. result' \in [Clients -> Version \union {None}]
  BY DEF Lookup, Miss, Return, IInv, TypeOK
<1>5. TypeOK' /\ OneEntryPerKey(l1)'
  BY <1>3, <1>4 DEF Lookup, IInv, TypeOK, OneEntryPerKey
<1>6. op'[c] = o /\ \A d \in Clients \ {c} : op'[d] = op[d]
  BY <1>3 DEF IInv, TypeOK
<1>7. \A j \in Keys : ~Writes(c, j) /\ ~Writes(c, j)'
  BY <1>1, <1>3, <1>6 DEF Writes, Reads, KeysOfOp
<1>8. k \notin tainted => \A d \in Clients : ~Writes(d, k)
  BY <1>1, <1>7 DEF IInv, WritersAlone
<1>9. o.kind = "fill" /\ o.key \notin tainted => o.value = last[o.key]
  BY <1>1, <1>3, <1>8 DEF IInv, L2Last
<1> QED
  BY <1>1, <1>3, <1>5, <1>6, <1>7, <1>9, ReaderStep DEF Lookup

LEMMA FillInv == ASSUME IInv, NEW c \in Clients, Fill(c) PROVE IInv'
<1>1. /\ op[c].kind = "fill" /\ op[c].key \in Keys /\ op[c].value \in Version
      /\ now + DefaultTtl \in Nat
  BY OpFields, TwoLevelAssumption DEF Fill, IInv, TypeOK
<1>2. /\ l1' \in Seq(Entry) /\ OneEntryPerKey(l1')
      /\ \A i \in DOMAIN l1' : \/ l1'[i].key = op[c].key /\ l1'[i].value = op[c].value
                               \/ \E j \in DOMAIN l1 : l1'[i] = l1[j]
  <2>1. l1' = AfterSet(l1, op[c].key, op[c].value, now + DefaultTtl)
    BY DEF Fill
  <2>2. l1 \in Seq(Entry) /\ OneEntryPerKey(l1)
    BY DEF IInv, TypeOK, Entry
  <2> QED
    BY <1>1, <2>1, <2>2, SetIs
<1>3. op'[c] = Idle /\ \A d \in Clients \ {c} : op'[d] = op[d]
  BY DEF Fill, Return, IInv, TypeOK
<1>4. TypeOK'
  BY <1>1, <1>2 DEF Fill, Return, IInv, TypeOK, OpType, Entry
<1>5. \A k \in Keys : ~Writes(c, k) /\ ~Writes(c, k)'
  BY <1>1, <1>3 DEF Writes, Reads, KeysOfOp, Idle
<1>6. op[c].key \notin tainted => op[c].value = last[op[c].key]
  BY <1>1 DEF IInv, FillsLast
<1>7. \A i \in DOMAIN l1' : \/ \E j \in DOMAIN l1 : l1'[i] = l1[j]
                            \/ l1'[i].key \notin tainted' => l1'[i].value = last[l1'[i].key]
  BY <1>2, <1>6 DEF Fill
<1> QED
  BY <1>2, <1>3, <1>4, <1>5, <1>7, ReaderStep DEF Fill, KeysOfOp, Idle

LEMMA ComputeNothingInv == ASSUME IInv, NEW c \in Clients, ComputeNothing(c) PROVE IInv'
<1>1. op'[c] = Idle /\ \A d \in Clients \ {c} : op'[d] = op[d]
  BY DEF ComputeNothing, Return, IInv, TypeOK
<1>2. TypeOK' /\ OneEntryPerKey(l1)'
  BY DEF ComputeNothing, Return, IInv, TypeOK, OpType, OneEntryPerKey
<1>3. \A k \in Keys : ~Writes(c, k) /\ ~Writes(c, k)'
  BY <1>1 DEF ComputeNothing, Writes, KeysOfOp, Idle
<1> QED
  BY <1>1, <1>2, <1>3, ReaderStep DEF ComputeNothing, KeysOfOp, Idle

LEMMA WriteL2FailsInv == ASSUME IInv, NEW c \in Clients, WriteL2Fails(c) PROVE IInv'
<1>1. op'[c] = Idle /\ \A d \in Clients \ {c} : op'[d] = op[d]
  BY DEF WriteL2Fails, IInv, TypeOK
<1>2. KeysOfOp(op[c]) \subseteq Keys
  BY OpFields DEF WriteL2Fails, KeysOfOp, IInv
<1>3. TypeOK' /\ OneEntryPerKey(l1)'
  BY <1>2 DEF WriteL2Fails, IInv, TypeOK, OpType, OneEntryPerKey
<1>4. \A k \in Keys \ tainted' : ~Writes(c, k) /\ ~Writes(c, k)'
  BY <1>1 DEF WriteL2Fails, Writes, KeysOfOp, Idle
<1> QED
  BY <1>1, <1>3, <1>4, ReaderStep DEF WriteL2Fails, KeysOfOp, Idle
------------------------------------------------------------------------------
\* SetL1 by a coroutine whose operation has no keys yet.
LEMMA SetL1Inv ==
    ASSUME IInv, NEW c \in Clients, NEW k \in Keys, NEW ttl \in Ttls, SetL1(c, k, ttl),
           KeysOfOp(op[c]) = {}, l2' = l2, now' = now,
           result' \in [Clients -> Version \union {None}]
    PROVE  IInv'
<1> DEFINE v == version + 1
           o == [kind |-> "set", key |-> k, value |-> v, ttl |-> ttl]
<1>1. version' = v /\ v \in Version /\ now + ttl \in Nat
  BY TwoLevelAssumption DEF SetL1, IInv, TypeOK, Version
<1>2. /\ l1' \in Seq(Entry) /\ OneEntryPerKey(l1')
      /\ \A i \in DOMAIN l1' : \/ l1'[i].key = k /\ l1'[i].value = v
                               \/ l1'[i].key # k /\ \E j \in DOMAIN l1 : l1'[i] = l1[j]
  <2>1. l1' = AfterSet(l1, k, v, now + ttl)
    BY DEF SetL1
  <2>2. l1 \in Seq(Entry) /\ OneEntryPerKey(l1)
    BY DEF IInv, TypeOK, Entry
  <2> QED
    BY <1>1, <2>1, <2>2, SetIs
<1>3. /\ last' = [last EXCEPT ![k] = v] /\ tainted' \in SUBSET Keys
      /\ expiry' = [expiry EXCEPT ![v] = now + ttl]
      /\ \A j \in Keys \ {k} : j \in tainted <=> j \in tainted'
      /\ k \notin tainted' => ~Busy(k, c)
  BY <1>1 DEF SetL1, BeginWrite, IInv, TypeOK
<1>4. op' = [op EXCEPT ![c] = o] /\ o \in OpType
  BY <1>1 DEF SetL1, OpType
<1>5. /\ op'[c] = o /\ \A d \in Clients \ {c} : op'[d] = op[d]
      /\ KeysOfOp(o) = {k} /\ o.kind = "set" /\ Leaves(o) = v
  BY <1>4 DEF IInv, TypeOK, KeysOfOp, Leaves
<1>6. version' \in 0..MaxVersion
  BY <1>1 DEF Version
<1> HIDE DEF v, o
<1>7. TypeOK'
  BY <1>1, <1>2, <1>3, <1>4, <1>6 DEF IInv, TypeOK, Entry
<1>8. \A j \in Keys : ~Writes(c, j)
  BY DEF Writes
<1>9. last'[k] = v /\ \A j \in Keys \ {k} : last'[j] = last[j]
  BY <1>3 DEF IInv, TypeOK
<1>10. /\ version <= version' /\ v \in 1..version' /\ v \notin 1..version
       /\ expiry'[v] = now + ttl /\ \A w \in 1..version : expiry'[w] = expiry[w]
  BY <1>1, <1>3, <1>6 DEF IInv, TypeOK, Version, v
<1>11. o.value = v /\ o.ttl = ttl
  BY DEF o
<1>12. expiry'[o.value] <= now + o.ttl
  BY <1>1, <1>10, <1>11
<1> QED
  BY <1>2, <1>3, <1>5, <1>7, <1>8, <1>9, <1>10, <1>12, BeginStep

LEMMA SetInv == ASSUME IInv, NEW c \in Clients, NEW k \in Keys, NEW ttl \in Ttls, Set(c, k, ttl)
                PROVE  IInv'
<1>1. KeysOfOp(op[c]) = {}
  BY DEF Set, KeysOfOp, Idle
<1> QED
  BY <1>1, SetL1Inv DEF Set, IInv, TypeOK

LEMMA ComputeInv == ASSUME IInv, NEW c \in Clients, NEW ttl \in Ttls, Compute(c, ttl) PROVE IInv'
<1>1. KeysOfOp(op[c]) = {} /\ op[c].key \in Keys
  BY OpFields DEF Compute, KeysOfOp, IInv
<1>2. version' \in Version
  BY TwoLevelAssumption DEF Compute, SetL1, Version, IInv, TypeOK
<1>3. result' \in [Clients -> Version \union {None}]
  BY <1>2 DEF Compute, IInv, TypeOK
<1> QED
  BY <1>1, <1>3, SetL1Inv DEF Compute

LEMMA DeleteL1Inv == ASSUME IInv, NEW c \in Clients, NEW k \in Keys, DeleteL1(c, k) PROVE IInv'
<1> DEFINE o == [kind |-> "delete", key |-> k]
<1>1. /\ l1' \in Seq(Entry) /\ OneEntryPerKey(l1') /\ Within(l1', l1)
      /\ \A i \in DOMAIN l1' : l1'[i].key # k
  <2>1. l1' = Without(l1, k)
    BY DEF DeleteL1
  <2>2. l1 \in Seq(Entry) /\ OneEntryPerKey(l1)
    BY DEF IInv, TypeOK, Entry
  <2> QED
    BY <2>1, <2>2, WithoutIs
<1>2. /\ last' = [last EXCEPT ![k] = None] /\ tainted' \in SUBSET Keys
      /\ \A j \in Keys \ {k} : j \in tainted <=> j \in tainted'
      /\ k \notin tainted' => ~Busy(k, c)
  BY DEF DeleteL1, BeginWrite, IInv, TypeOK
<1>3. op' = [op EXCEPT ![c] = o] /\ o \in OpType
  BY DEF DeleteL1, OpType
<1>4. /\ op'[c] = o /\ \A d \in Clients \ {c} : op'[d] = op[d]
      /\ KeysOfOp(o) = {k} /\ o.kind = "delete" /\ Leaves(o) = None
  BY <1>3 DEF IInv, TypeOK, KeysOfOp, Leaves
<1> HIDE DEF o
<1>5. TypeOK'
  BY <1>1, <1>2, <1>3 DEF DeleteL1, IInv, TypeOK, Entry
<1>6. \A j \in Keys : ~Writes(c, j)
  BY DEF DeleteL1, Writes, KeysOfOp, Idle
<1>7. last'[k] = None /\ \A j \in Keys \ {k} : last'[j] = last[j]
  BY <1>2 DEF IInv, TypeOK
<1>8. \A i \in DOMAIN l1' : l1'[i].key # k /\ \E j \in DOMAIN l1 : l1'[i] = l1[j]
  BY <1>1 DEF Within
<1> QED
  <2>1. version <= version' /\ \A v \in 1..version : expiry'[v] = expiry[v]
    BY DEF DeleteL1, IInv, TypeOK
  <2> QED
    BY <1>1, <1>2, <1>4, <1>5, <1>6, <1>7, <1>8, <2>1, BeginStep DEF DeleteL1

LEMMA ClearL1Inv == ASSUME IInv, NEW c \in Clients, ClearL1(c) PROVE IInv'
<1> DEFINE o == [kind |-> "clear", keys |-> {}]
<1>1. l1' = << >> /\ OneEntryPerKey(l1)' /\ DOMAIN l1' = {}
  BY DEF ClearL1, OneEntryPerKey
<1>2. op' = [op EXCEPT ![c] = o] /\ o \in OpType
  BY DEF ClearL1, OpType
<1>3. /\ op'[c] = o /\ \A d \in Clients \ {c} : op'[d] = op[d]
      /\ KeysOfOp(o) = Keys /\ o.kind = "clear" /\ Leaves(o) = None
  BY <1>2 DEF IInv, TypeOK, KeysOfOp, Leaves
<1> HIDE DEF o
<1>4. TypeOK'
  <2>1. tainted' \in SUBSET Keys /\ last' \in [Keys -> Version \union {None}]
    BY DEF ClearL1
  <2>2. l1' \in Seq(Entry)
    BY <1>1
  <2> QED
    BY <1>2, <2>1, <2>2 DEF ClearL1, IInv, TypeOK, Entry
<1>5. \A k \in Keys : ~Writes(c, k)
  BY DEF ClearL1, Writes, KeysOfOp, Idle
<1>6. \A k \in Keys : last'[k] = None /\ (k \notin tainted' => ~Busy(k, c))
  BY DEF ClearL1
<1> QED
  <2>1. version <= version' /\ \A v \in 1..version : expiry'[v] = expiry[v]
    BY DEF ClearL1, IInv, TypeOK
  <2> QED
    BY <1>1, <1>3, <1>4, <1>5, <1>6, <2>1, BeginStep DEF ClearL1

LEMMA ClearKeysInv == ASSUME IInv, NEW c \in Clients, ClearKeys(c) PROVE IInv'
<1> DEFINE o == [kind |-> "clearing", keys |-> {k \in Keys : InL2(k) # None}]
<1>1. op' = [op EXCEPT ![c] = o] /\ o \in OpType
  BY DEF ClearKeys, OpType
<1>2. /\ op'[c] = o /\ \A d \in Clients \ {c} : op'[d] = op[d]
      /\ KeysOfOp(o) = KeysOfOp(op[c]) /\ ~Reads(o) /\ ~Reads(op[c])
      /\ Leaves(o) = Leaves(op[c]) /\ o.kind = "clearing"
      /\ \A k \in Keys \ o.keys : InL2(k) = None
  BY <1>1 DEF ClearKeys, IInv, TypeOK, KeysOfOp, Leaves, Reads
<1> HIDE DEF o
<1>3. \A k \in Keys, d \in Clients :
        /\ Writes(d, k)' <=> Writes(d, k)
        /\ KeysOfOp(op'[d]) = KeysOfOp(op[d]) /\ Leaves(op'[d]) = Leaves(op[d])
  BY <1>2 DEF Writes
<1>4. TypeOK' /\ OneEntryPerKey(l1)'
  BY <1>1 DEF ClearKeys, IInv, TypeOK, OneEntryPerKey
<1>5. WritersAlone' /\ WritesLast'
  BY <1>3 DEF ClearKeys, IInv, WritersAlone, WritesLast
<1>6. L1Last' /\ L2Last'
  BY <1>3 DEF ClearKeys, IInv, L1Last, L2Last, InL2
<1>7. ClearsAll' /\ FillsLast'
  BY <1>2 DEF ClearKeys, IInv, ClearsAll, FillsLast, InL2
<1>8. LastWritten' /\ SetsLong' /\ L2Holds'
  BY <1>2, <1>3 DEF ClearKeys, IInv, LastWritten, SetsLong, L2Holds
<1> QED
  BY <1>4, <1>5, <1>6, <1>7, <1>8 DEF IInv

\* What a write does to L2, key by key.
LEMMA L2AfterIs ==
    ASSUME TypeOK, NEW c \in Clients, op[c].kind \in {"set", "delete", "clearing"}
    PROVE  /\ L2After(op[c]) \in [Keys -> [value : Version \union {None}, expires_at : Nat]]
           /\ \A k \in Keys :
                 /\ k \notin KeysOfOp(op[c]) => L2After(op[c])[k] = l2[k]
                 /\ k \in KeysOfOp(op[c]) =>
                      \/ L2After(op[c])[k].value = Leaves(op[c])
                      \/ L2After(op[c])[k] = Absent
                      \/ /\ op[c].kind = "clearing" /\ k \notin op[c].keys
                         /\ L2After(op[c])[k] = l2[k]
<1>1. Absent \in [value : Version \union {None}, expires_at : Nat]
  BY DEF Absent
<1>2. CASE op[c].kind = "set"
  <2> DEFINE e == [value |-> op[c].value, expires_at |-> now + op[c].ttl]
  <2>1. e \in [value : Version \union {None}, expires_at : Nat] /\ e.value = op[c].value
    <3>1. now \in Nat /\ op[c].ttl \in Nat /\ op[c].value \in Version
      <4>1. op[c].ttl \in Ttls /\ op[c].value \in Version
        BY <1>2, OpFields
      <4>2. now \in Nat
        BY TwoLevelAssumption DEF TypeOK
      <4> QED
        BY <4>1, <4>2, TwoLevelAssumption
    <3> QED
      BY <3>1
  <2>2. L2After(op[c]) = [l2 EXCEPT ![op[c].key] = e]
    BY <1>2 DEF L2After
  <2>3. KeysOfOp(op[c]) = {op[c].key} /\ Leaves(op[c]) = op[c].value /\ op[c].key \in Keys
    BY <1>2, OpFields DEF KeysOfOp, Leaves
  <2> HIDE DEF e
  <2> QED
    BY <2>1, <2>2, <2>3 DEF TypeOK
<1>3. CASE op[c].kind = "delete"
  <2>1. L2After(op[c]) = [l2 EXCEPT ![op[c].key] = Absent]
    BY <1>3 DEF L2After
  <2>2. KeysOfOp(op[c]) = {op[c].key} /\ op[c].key \in Keys
    BY <1>3, OpFields DEF KeysOfOp
  <2> HIDE DEF Absent
  <2> QED
    BY <1>1, <2>1, <2>2 DEF TypeOK
<1>4. CASE op[c].kind = "clearing"
  <2>1. L2After(op[c]) = [k \in Keys |-> IF k \in op[c].keys THEN Absent ELSE l2[k]]
    BY <1>4 DEF L2After
  <2>2. KeysOfOp(op[c]) = Keys
    BY <1>4 DEF KeysOfOp
  <2> QED
    BY <1>1, <1>4, <2>1, <2>2 DEF TypeOK
<1> QED
  BY <1>2, <1>3, <1>4

LEMMA WriteL2Inv == ASSUME IInv, NEW c \in Clients, WriteL2(c) PROVE IInv'
<1>1. op'[c] = Idle /\ \A d \in Clients \ {c} : op'[d] = op[d]
  BY DEF WriteL2, IInv, TypeOK
<1>2. /\ l2' \in [Keys -> [value : Version \union {None}, expires_at : Nat]]
      /\ \A k \in Keys :
            /\ k \notin KeysOfOp(op[c]) => l2'[k] = l2[k]
            /\ k \in KeysOfOp(op[c]) =>
                 \/ l2'[k].value = Leaves(op[c])
                 \/ l2'[k] = Absent
                 \/ op[c].kind = "clearing" /\ k \notin op[c].keys /\ l2'[k] = l2[k]
  BY L2AfterIs DEF WriteL2, IInv
<1>3. TypeOK' /\ OneEntryPerKey(l1)'
  BY <1>2 DEF WriteL2, IInv, TypeOK, OpType, OneEntryPerKey
<1>4. \A k \in Keys, d \in Clients : Writes(d, k)' <=> d # c /\ Writes(d, k)
  BY <1>1 DEF Writes, KeysOfOp, Idle
<1>5. \A k \in Keys : k \in KeysOfOp(op[c]) => Writes(c, k)
  BY DEF WriteL2, Writes, Reads
<1>6. WritersAlone' /\ WritesLast'
  <2>1. \A k \in Keys, d \in Clients : k \in KeysOfOp(op'[d]) => k \in KeysOfOp(op[d])
    BY <1>1 DEF KeysOfOp, Idle
  <2>2. WritersAlone'
    BY <1>4, <2>1 DEF WriteL2, IInv, WritersAlone
  <2>3. WritesLast'
    BY <1>1, <1>4 DEF WriteL2, IInv, WritesLast
  <2> QED
    BY <2>2, <2>3
<1>7. L1Last' /\ FillsLast'
  BY <1>1 DEF WriteL2, IInv, L1Last, FillsLast, Idle
<1>8. L2Last'
  <2> SUFFICES ASSUME NEW k \in Keys \ tainted, \A d \in Clients : ~Writes(d, k)'
               PROVE  InL2(k)' \in {None, last[k]}
    BY DEF WriteL2, L2Last
  <2>1. CASE k \in KeysOfOp(op[c])
    <3>1. last[k] = Leaves(op[c])
      BY <1>5, <2>1 DEF IInv, WritesLast
    <3>2. CASE l2'[k].value = Leaves(op[c])
      BY <3>1, <3>2 DEF InL2
    <3>3. CASE l2'[k] = Absent
      BY <3>3 DEF InL2, Absent
    <3>4. CASE op[c].kind = "clearing" /\ k \notin op[c].keys /\ l2'[k] = l2[k]
      <4>1. InL2(k) = None
        BY <3>4 DEF IInv, ClearsAll
      <4> QED
        BY <3>4, <4>1 DEF WriteL2, InL2
    <3> QED
      BY <1>2, <2>1, <3>2, <3>3, <3>4
  <2>2. CASE k \notin KeysOfOp(op[c])
    <3>1. \A d \in Clients : ~Writes(d, k)
      BY <1>4, <2>2 DEF Writes
    <3> QED
      BY <1>2, <2>2, <3>1 DEF WriteL2, IInv, L2Last, InL2
  <2> QED
    BY <2>1, <2>2
<1>9. ClearsAll'
  <2> SUFFICES ASSUME NEW k \in Keys \ tainted, NEW d \in Clients,
                      op'[d].kind = "clearing", k \notin op'[d].keys
               PROVE  InL2(k)' = None
    BY DEF WriteL2, ClearsAll
  <2>1. d # c /\ op'[d] = op[d]
    BY <1>1 DEF Idle
  <2>2. k \in KeysOfOp(op[d])
    BY <2>1 DEF KeysOfOp
  <2>3. k \notin KeysOfOp(op[c])
    BY <1>5, <2>1, <2>2 DEF IInv, WritersAlone
  <2>4. InL2(k) = None
    BY <2>1 DEF IInv, ClearsAll
  <2> QED
    BY <1>2, <2>3, <2>4 DEF WriteL2, InL2
<1>10. LastWritten' /\ SetsLong'
  BY <1>1 DEF WriteL2, IInv, LastWritten, SetsLong, Idle
<1>11. L2Holds'
  <2> SUFFICES ASSUME NEW k \in Keys \ tainted, last[k] # None, \A d \in Clients : ~Writes(d, k)'
               PROVE  l2'[k].value = last[k] /\ expiry[last[k]] <= l2'[k].expires_at
    BY DEF WriteL2, L2Holds
  <2>1. CASE k \in KeysOfOp(op[c])
    <3>1. last[k] = Leaves(op[c])
      BY <1>5, <2>1 DEF IInv, WritesLast
    <3>2. op[c].kind = "set" /\ op[c].key = k /\ last[k] = op[c].value
      BY <2>1, <3>1 DEF WriteL2, Leaves, KeysOfOp
    <3>3. l2' = [l2 EXCEPT ![k] = [value |-> op[c].value, expires_at |-> now + op[c].ttl]]
      BY <3>2 DEF WriteL2, L2After
    <3>4. l2'[k] = [value |-> op[c].value, expires_at |-> now + op[c].ttl]
      BY <3>3 DEF IInv, TypeOK
    <3> QED
      BY <3>2, <3>4 DEF IInv, SetsLong
  <2>2. CASE k \notin KeysOfOp(op[c])
    <3>1. \A d \in Clients : ~Writes(d, k)
      BY <1>4, <2>2 DEF Writes
    <3> QED
      BY <1>2, <2>2, <3>1 DEF IInv, L2Holds
  <2> QED
    BY <2>1, <2>2
<1> QED
  BY <1>3, <1>6, <1>7, <1>8, <1>9, <1>10, <1>11 DEF IInv

\* Time drops values of L2 and brings none.
LEMMA TickInv == ASSUME IInv, Tick PROVE IInv'
<1>1. \A k \in Keys : InL2(k)' \in {None, InL2(k)}
  <2> SUFFICES ASSUME NEW k \in Keys PROVE InL2(k)' \in {None, InL2(k)}
    OBVIOUS
  <2>1. l2[k].expires_at \in Nat /\ now \in Nat /\ now' = now + 1
    BY TwoLevelAssumption DEF Tick, IInv, TypeOK
  <2> QED
    BY <2>1 DEF Tick, InL2
<1>2. TypeOK'
  BY TwoLevelAssumption DEF Tick, IInv, TypeOK
<1>3. \A k \in Keys, c \in Clients : Writes(c, k)' <=> Writes(c, k)
  BY DEF Tick, Writes
<1>4. LastWritten' /\ L2Holds'
  BY <1>3 DEF Tick, IInv, LastWritten, L2Holds
<1>5. SetsLong'
  <2> SUFFICES ASSUME NEW c \in Clients, op[c].kind = "set", op[c].key \notin tainted
               PROVE  expiry[op[c].value] <= now' + op[c].ttl
    BY DEF Tick, SetsLong
  <2>1. op[c].value \in Version /\ op[c].ttl \in Ttls
    BY OpFields DEF IInv
  <2>2. op[c].ttl \in Nat
    BY <2>1, TwoLevelAssumption
  <2>3. expiry[op[c].value] \in Nat
    BY <2>1, TwoLevelAssumption DEF IInv, TypeOK
  <2>4. now \in Nat /\ now' = now + 1
    BY TwoLevelAssumption DEF Tick, IInv, TypeOK
  <2>5. expiry[op[c].value] <= now + op[c].ttl
    BY DEF IInv, SetsLong
  <2> QED
    BY <2>2, <2>3, <2>4, <2>5
<1>6. WritersAlone' /\ L1Last' /\ WritesLast' /\ FillsLast' /\ OneEntryPerKey(l1)'
  BY <1>3 DEF Tick, IInv, OneEntryPerKey, WritersAlone, L1Last, WritesLast, FillsLast
<1>7. L2Last' /\ ClearsAll'
  BY <1>1, <1>3 DEF Tick, IInv, L2Last, ClearsAll
<1> QED
  BY <1>2, <1>4, <1>5, <1>6, <1>7 DEF IInv

LEMMA StepIInv == IInv /\ [Next]_vars => IInv'
<1> SUFFICES ASSUME IInv, [Next]_vars PROVE IInv'
  OBVIOUS
<1>1. CASE Tick
  BY <1>1, TickInv
<1>2. ASSUME NEW c \in Clients, NEW k \in Keys, NEW cached \in BOOLEAN, GetL1(c, k, cached)
      PROVE  IInv'
  BY <1>2, GetL1Inv
<1>3. ASSUME NEW c \in Clients, NEW k \in Keys, DeleteL1(c, k) PROVE IInv'
  BY <1>3, DeleteL1Inv
<1>4. ASSUME NEW c \in Clients, NEW k \in Keys, NEW ttl \in Ttls, Set(c, k, ttl) PROVE IInv'
  BY <1>4, SetInv
<1>5. ASSUME NEW c \in Clients, NEW ttl \in Ttls, Compute(c, ttl) PROVE IInv'
  BY <1>5, ComputeInv
<1>6. ASSUME NEW c \in Clients, Lookup(c) \/ Fill(c) \/ ComputeNothing(c) PROVE IInv'
  BY <1>6, LookupInv, FillInv, ComputeNothingInv
<1>7. ASSUME NEW c \in Clients, ClearL1(c) \/ ClearKeys(c) PROVE IInv'
  BY <1>7, ClearL1Inv, ClearKeysInv
<1>8. ASSUME NEW c \in Clients, WriteL2(c) \/ WriteL2Fails(c) PROVE IInv'
  BY <1>8, WriteL2Inv, WriteL2FailsInv
<1>9. CASE UNCHANGED vars
  BY <1>9 DEF vars, IInv, TypeOK, OneEntryPerKey, WritersAlone, L1Last, L2Last, WritesLast,
     ClearsAll, FillsLast, LastWritten, SetsLong, L2Holds, Writes, InL2
<1> QED
  BY <1>1, <1>2, <1>3, <1>4, <1>5, <1>6, <1>7, <1>8, <1>9 DEF Next

LEMMA Invariance == Spec => []IInv
  BY InitIInv, StepIInv, PTL DEF Spec

\* The levels, the operations of CacheManager under way and the histories keep their
\* types, for any coroutines, keys and ttls.
THEOREM TypeCorrect == Spec => []TypeOK
<1>1. IInv => TypeOK
  BY DEF IInv
<1> QED
  BY <1>1, Invariance, PTL

\* CacheManager holds no stale value unless a write overlapped another operation on its
\* key or an L2 step failed.
THEOREM CacheIsCoherent == Spec => []CoherentUnlessOverlapped
<1>1. IInv => CoherentUnlessOverlapped
  <2> SUFFICES ASSUME IInv, NEW k \in Keys \ tainted, Quiet(k)
               PROVE  /\ GetValue(l1, k, now) \in {None, last[k]}
                      /\ InL2(k) \in {None, last[k]}
    BY DEF CoherentUnlessOverlapped
  <2>1. InL2(k) \in {None, last[k]}
    BY DEF Quiet, Writes, IInv, L2Last
  <2>2. CASE Has(l1, k)
    <3>1. PICK p \in DOMAIN l1 : EntryOf(l1, k) = l1[p] /\ l1[p].key = k
      BY <2>2 DEF Has, EntryOf, Place
    <3> QED
      BY <2>1, <3>1 DEF IInv, L1Last, GetValue
  <2>3. CASE ~Has(l1, k)
    BY <2>1, <2>3 DEF GetValue, Hit
  <2> QED
    BY <2>1, <2>2, <2>3
<1> QED
  BY <1>1, Invariance, PTL

\* A value that was set can be read until its ttl ends, though L1 evicts it, unless a
\* write of its key overlapped another operation or failed: L2 has it.
THEOREM ValuesStayReadable == Spec => []ReadableUntilExpiry
<1>1. IInv => ReadableUntilExpiry
  <2> SUFFICES ASSUME IInv, NEW k \in Keys \ tainted, Quiet(k), last[k] # None,
                      now < expiry[last[k]]
               PROVE  last[k] = InL2(k)
    BY DEF ReadableUntilExpiry
  <2>1. l2[k].value = last[k] /\ expiry[last[k]] <= l2[k].expires_at
    BY DEF Quiet, Writes, IInv, L2Holds
  <2>2. last[k] \in Version /\ now \in Int
    BY DEF IInv, TypeOK
  <2>3. expiry[last[k]] \in Int /\ l2[k].expires_at \in Int
    BY <2>2 DEF IInv, TypeOK
  <2> QED
    BY <2>1, <2>2, <2>3 DEF InL2
<1> QED
  BY <1>1, Invariance, PTL
==============================================================================
