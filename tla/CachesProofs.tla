------------------------------ MODULE CachesProofs ------------------------------
(***************************************************************************)
(* Theorems about the caches that MCCaches holds, for every value of their *)
(* constants.  Each part has an inductive invariant of its own; a step of  *)
(* MCNext is a step of one part and leaves the others alone.               *)
(***************************************************************************)
EXTENDS MCCaches, FiniteSetTheorems, SequenceTheorems, TLAPS

------------------------------------------------------------------------------
(* LRUCache *)

\* The entries are in the order of the calls that last used their keys.
Ordered(c, u) == \A i, j \in DOMAIN c : i < j => u[c[i].key] < u[c[j].key]

\* Each entry is what the last set of its key wrote.
AsWritten ==
    \A i \in DOMAIN cache : LET e == cache[i] IN
        e.value = written[e.key].value /\ e.expires_at = written[e.key].expires_at

LRUInv ==
    /\ TypeOK
    /\ Len(cache) <= MaxSize
    /\ Ordered(cache, used)
    /\ \A k \in Keys : used[k] <= ops
    /\ AsWritten

LEMMA LRUConstants == MaxSize \in Nat /\ Ttls \subseteq Nat /\ MaxTime \in Nat /\ MaxOps \in Nat
  BY LRUAssumption, LRUCacheAssumption

LEMMA EntryFields == \A e \in Entry : e.key \in Keys /\ e.value \in Values /\ e.expires_at \in Nat
  BY DEF Entry

LEMMA OneEntryPerKey ==
    ASSUME NEW c \in Seq(Entry), NEW u \in [Keys -> Nat], Ordered(c, u)
    PROVE  \A i, j \in DOMAIN c : c[i].key = c[j].key => i = j
<1> SUFFICES ASSUME NEW i \in DOMAIN c, NEW j \in DOMAIN c, c[i].key = c[j].key, i # j
             PROVE  FALSE
  OBVIOUS
<1>1. i \in Nat /\ j \in Nat /\ u[c[i].key] \in Nat
  <2>1. c[i] \in Entry /\ i \in Nat /\ j \in Nat
    OBVIOUS
  <2> QED
    BY <2>1, EntryFields
<1>2. i < j \/ j < i
  BY <1>1
<1> QED
  BY <1>1, <1>2 DEF Ordered

\* Without takes out the entry at one place, or, at a place beyond the end, none.
LEMMA WithoutIs ==
    ASSUME NEW c \in Seq(Entry), NEW k, \A i, j \in DOMAIN c : c[i].key = c[j].key => i = j
    PROVE  LET w == Without(c, k)
           IN /\ w \in Seq(Entry)
              /\ \A i \in DOMAIN w : w[i].key # k
              /\ \E p \in 1..(Len(c) + 1) :
                    /\ p <= Len(c) <=> Has(c, k)
                    /\ Len(w) = IF p <= Len(c) THEN Len(c) - 1 ELSE Len(c)
                    /\ \A i \in 1..Len(w) : w[i] = IF i < p THEN c[i] ELSE c[i + 1]
<1> DEFINE w == Without(c, k)
<1>1. CASE ~Has(c, k)
  <2>1. w = c /\ Len(c) \in Nat
    BY <1>1 DEF Without
  <2>2. Len(c) + 1 \in 1..(Len(c) + 1) /\ ~(Len(c) + 1 <= Len(c))
        /\ \A i \in 1..Len(c) : i < Len(c) + 1
    BY <2>1
  <2> QED
    BY <1>1, <2>1, <2>2 DEF Has
<1>2. CASE Has(c, k)
  <2> DEFINE p == Place(c, k)
  <2>1. p \in 1..Len(c) /\ c[p].key = k
    BY <1>2 DEF Has, Place
  <2> HIDE DEF p
  <2> DEFINE before == SubSeq(c, 1, p - 1)
             after == SubSeq(c, p + 1, Len(c))
  <2>2. w = before \o after
    BY <1>2 DEF Without, RemoveAt, p
  <2>3. /\ before \in Seq(Entry) /\ Len(before) = p - 1
        /\ \A i \in 1..(p - 1) : before[i] = c[i]
    BY <2>1
  <2>4. /\ after \in Seq(Entry) /\ Len(after) = Len(c) - p
        /\ \A i \in 1..(Len(c) - p) : after[i] = c[i + p]
    BY <2>1
  <2> HIDE DEF w, before, after
  <2>5. /\ w \in Seq(Entry) /\ Len(w) = Len(before) + Len(after)
        /\ \A i \in 1..(Len(before) + Len(after)) :
              w[i] = IF i <= Len(before) THEN before[i] ELSE after[i - Len(before)]
    BY <2>2, <2>3, <2>4, ConcatProperties, Zenon
  <2>6. Len(w) = Len(c) - 1 /\ Len(c) \in Nat
    BY <2>1, <2>3, <2>4, <2>5
  <2>7. ASSUME NEW i \in 1..Len(w) PROVE w[i] = IF i < p THEN c[i] ELSE c[i + 1]
    <3>1. CASE i < p
      BY <2>1, <2>3, <2>5, <2>6, <3>1
    <3>2. CASE ~(i < p)
      <4>1. i - Len(before) \in 1..(Len(c) - p) /\ i - Len(before) + p = i + 1
            /\ ~(i <= Len(before)) /\ i \in 1..(Len(before) + Len(after))
        BY <2>1, <2>3, <2>5, <2>6, <3>2
      <4>2. w[i] = after[i - Len(before)]
        BY <2>5, <4>1
      <4> QED
        BY <2>4, <3>2, <4>1, <4>2
    <3> QED
      BY <3>1, <3>2
  <2>8. ASSUME NEW i \in 1..Len(w) PROVE w[i].key # k
    <3> DEFINE at == IF i < p THEN i ELSE i + 1
    <3>1. at \in DOMAIN c /\ at # p /\ w[i] = c[at]
      BY <2>1, <2>6, <2>7
    <3> QED
      BY <2>1, <3>1
  <2>9. p \in 1..(Len(c) + 1) /\ p <= Len(c)
    BY <2>1
  <2> QED
    <3>1. \E n \in 1..(Len(c) + 1) :
              /\ n <= Len(c) <=> Has(c, k)
              /\ Len(w) = IF n <= Len(c) THEN Len(c) - 1 ELSE Len(c)
              /\ \A i \in 1..Len(w) : w[i] = IF i < n THEN c[i] ELSE c[i + 1]
      <4>1. Len(w) = IF p <= Len(c) THEN Len(c) - 1 ELSE Len(c)
        BY <2>6, <2>9
      <4> QED
        BY <1>2, <2>7, <2>9, <4>1, Zenon
    <3>2. DOMAIN w = 1..Len(w)
      BY <2>5
    <3> QED
      BY <2>5, <2>8, <3>1, <3>2 DEF w
<1> QED
  BY <1>1, <1>2

\* What is left is in the same order and was there.
LEMMA WithoutKeeps ==
    ASSUME NEW c \in Seq(Entry), NEW u \in [Keys -> Nat], Ordered(c, u), NEW k
    PROVE  LET w == Without(c, k)
           IN /\ w \in Seq(Entry) /\ Ordered(w, u) /\ Len(w) <= Len(c)
              /\ Has(c, k) => Len(w) + 1 = Len(c)
              /\ \A i \in DOMAIN w : w[i].key # k /\ \E j \in DOMAIN c : w[i] = c[j]
              /\ \A j \in DOMAIN c : c[j].key # k => \E i \in DOMAIN w : w[i] = c[j]
<1> DEFINE w == Without(c, k)
<1>0. \A i, j \in DOMAIN c : c[i].key = c[j].key => i = j
  BY OneEntryPerKey
<1>1. /\ w \in Seq(Entry)
      /\ \A i \in DOMAIN w : w[i].key # k
      /\ \E p \in 1..(Len(c) + 1) :
            /\ p <= Len(c) <=> Has(c, k)
            /\ Len(w) = IF p <= Len(c) THEN Len(c) - 1 ELSE Len(c)
            /\ \A i \in 1..Len(w) : w[i] = IF i < p THEN c[i] ELSE c[i + 1]
  BY <1>0, WithoutIs
<1> HIDE DEF w
<1>2. PICK p \in 1..(Len(c) + 1) :
            /\ p <= Len(c) <=> Has(c, k)
            /\ Len(w) = IF p <= Len(c) THEN Len(c) - 1 ELSE Len(c)
            /\ \A i \in 1..Len(w) : w[i] = IF i < p THEN c[i] ELSE c[i + 1]
  BY <1>1
<1> DEFINE at(i) == IF i < p THEN i ELSE i + 1
<1>3. Len(w) \in Nat /\ Len(c) \in Nat /\ p \in Nat
  BY <1>1
<1>4. \A i \in 1..Len(w) : at(i) \in 1..Len(c) /\ w[i] = c[at(i)]
  BY <1>2, <1>3
<1>5. \A i, j \in 1..Len(w) : i < j => at(i) < at(j)
  BY <1>2, <1>3
<1>6. ASSUME NEW j \in 1..Len(c), c[j].key # k PROVE \E i \in 1..Len(w) : w[i] = c[j]
  <2>1. CASE j < p
    BY <1>2, <1>3, <2>1
  <2>2. CASE j > p
    <3>1. j - 1 \in 1..Len(w) /\ ~(j - 1 < p) /\ (j - 1) + 1 = j
      BY <1>2, <1>3, <2>2
    <3> QED
      BY <1>2, <3>1
  <2>3. CASE j = p
    <3>1. PICK n \in 1..Len(c) : c[n].key = k
      BY <1>2, <1>3, <2>3 DEF Has
    <3>2. CASE n < p
      <4>1. n \in 1..Len(w) /\ w[n] = c[n]
        BY <1>2, <1>3, <2>3, <3>2
      <4> QED
        BY <1>1, <3>1, <4>1
    <3>3. CASE n > p
      <4>1. n - 1 \in 1..Len(w) /\ ~(n - 1 < p) /\ (n - 1) + 1 = n
        BY <1>2, <1>3, <2>3, <3>3
      <4>2. w[n - 1] = c[n]
        BY <1>2, <4>1
      <4> QED
        BY <1>1, <3>1, <4>1, <4>2
    <3> QED
      BY <1>3, <1>6, <2>3, <3>1, <3>2, <3>3
  <2> QED
    BY <1>3, <2>1, <2>2, <2>3
<1>7. Ordered(w, u)
  <2>0. DOMAIN w = 1..Len(w)
    BY <1>1
  <2> SUFFICES ASSUME NEW i \in 1..Len(w), NEW j \in 1..Len(w), i < j
               PROVE  u[w[i].key] < u[w[j].key]
    BY <2>0, Zenon DEF Ordered
  <2>1. at(i) < at(j) /\ at(i) \in 1..Len(c) /\ at(j) \in 1..Len(c)
        /\ w[i] = c[at(i)] /\ w[j] = c[at(j)]
    BY <1>4, <1>5
  <2> HIDE DEF at
  <2> QED
    BY <2>1 DEF Ordered
<1>8. Len(w) <= Len(c) /\ (Has(c, k) => Len(w) + 1 = Len(c))
  BY <1>2, <1>3
<1>9. DOMAIN w = 1..Len(w) /\ DOMAIN c = 1..Len(c)
  BY <1>1
<1> HIDE DEF at
<1> QED
  BY <1>1, <1>4, <1>6, <1>7, <1>8, <1>9 DEF w

\* An entry of another key, used last of all, comes at the end.
LEMMA AppendKeeps ==
    ASSUME NEW w \in Seq(Entry), NEW u \in [Keys -> Nat], Ordered(w, u), NEW e \in Entry,
           \A i \in DOMAIN w : w[i].key # e.key,
           NEW n \in Nat, \A k \in Keys : u[k] < n
    PROVE  LET a == Append(w, e)
           IN /\ a \in Seq(Entry) /\ Len(a) = Len(w) + 1 /\ Ordered(a, [u EXCEPT ![e.key] = n])
              /\ a[Len(a)] = e /\ Len(w) \in Nat
              /\ \A i \in 1..Len(w) : a[i] = w[i]
<1> DEFINE a == Append(w, e)
           v == [u EXCEPT ![e.key] = n]
<1>1. /\ a \in Seq(Entry) /\ Len(a) = Len(w) + 1 /\ a[Len(a)] = e
      /\ \A i \in 1..Len(w) : a[i] = w[i]
  OBVIOUS
<1>2. e.key \in Keys /\ \A i \in 1..Len(w) : w[i].key \in Keys
  <2>1. \A i \in 1..Len(w) : w[i] \in Entry
    OBVIOUS
  <2> QED
    BY <2>1, EntryFields
<1>3. v[e.key] = n /\ \A k \in Keys : k # e.key => v[k] = u[k]
  BY <1>2
<1> HIDE DEF a, v
<1>4. Ordered(a, v)
  <2> SUFFICES ASSUME NEW i \in 1..Len(a), NEW j \in 1..Len(a), i < j
               PROVE  v[a[i].key] < v[a[j].key]
    BY <1>1 DEF Ordered
  <2>1. i \in 1..Len(w) /\ a[i] = w[i] /\ v[a[i].key] = u[w[i].key]
    BY <1>1, <1>2, <1>3
  <2>2. CASE j = Len(a)
    BY <1>1, <1>2, <1>3, <2>1, <2>2
  <2>3. CASE j # Len(a)
    <3>1. j \in 1..Len(w)
      BY <1>1, <2>3
    <3>2. a[j] = w[j] /\ v[a[j].key] = u[w[j].key]
      BY <1>1, <1>2, <1>3, <3>1
    <3> QED
      BY <2>1, <3>1, <3>2 DEF Ordered
  <2> QED
    BY <2>2, <2>3
<1> QED
  BY <1>1, <1>4 DEF a, v

\* Eviction takes the first entries, no more than it must.
LEMMA EvictIs ==
    ASSUME NEW c \in Seq(Entry)
    PROVE  LET e == Evict(c)
           IN /\ e \in Seq(Entry) /\ Len(e) <= MaxSize /\ Len(e) <= Len(c)
              /\ Len(c) > 0 /\ MaxSize > 0 => Len(e) > 0
              /\ \E gone \in Nat : /\ Len(e) + gone = Len(c)
                                   /\ \A i \in 1..Len(e) : e[i] = c[i + gone]
<1>0. MaxSize \in Nat /\ Len(c) \in Nat
  BY LRUConstants
<1>1. CASE Len(c) <= MaxSize
  <2>1. Evict(c) = c
    BY <1>1 DEF Evict
  <2>2. \E gone \in Nat : Len(c) + gone = Len(c) /\ \A i \in 1..Len(c) : c[i] = c[i + gone]
    <3>1. Len(c) + 0 = Len(c) /\ \A i \in 1..Len(c) : c[i] = c[i + 0]
      BY <1>0
    <3> QED
      BY <3>1
  <2>3. Len(c) <= Len(c)
    BY <1>0
  <2> QED
    BY <1>1, <2>1, <2>2, <2>3, Zenon
<1>2. CASE ~(Len(c) <= MaxSize)
  <2> DEFINE gone == Len(c) - MaxSize
             e == SubSeq(c, gone + 1, Len(c))
  <2>1. gone \in Nat /\ gone <= Len(c) /\ Len(c) - gone = MaxSize
    BY <1>0, <1>2
  <2>2. Evict(c) = e
    BY <1>2 DEF Evict
  <2> HIDE DEF gone
  <2>3. /\ e \in Seq(Entry) /\ Len(e) = Len(c) - gone
        /\ \A i \in 1..Len(e) : e[i] = c[i + gone]
    BY <2>1
  <2> HIDE DEF e
  <2>4. Len(e) + gone = Len(c) /\ Len(e) <= MaxSize /\ Len(e) <= Len(c)
        /\ (MaxSize > 0 => Len(e) > 0)
    BY <1>0, <1>2, <2>1, <2>3
  <2> QED
    BY <2>1, <2>2, <2>3, <2>4
<1> QED
  BY <1>1, <1>2

LEMMA LRUFacts ==
    ASSUME LRUInv
    PROVE  /\ cache \in Seq(Entry) /\ Len(cache) <= MaxSize /\ Len(cache) \in Nat
           /\ used \in [Keys -> Nat] /\ used \in [Keys -> 0..MaxOps]
           /\ ops \in Nat /\ ops <= MaxOps /\ now \in Nat /\ now <= MaxTime
           /\ hits \in Nat /\ misses \in Nat /\ hits + misses <= ops
           /\ written \in [Keys -> [value : Values \union {None}, expires_at : Nat]]
           /\ Ordered(cache, used) /\ AsWritten
           /\ \A k \in Keys : used[k] < ops + 1
<1>1. /\ cache \in Seq(Entry) /\ used \in [Keys -> 0..MaxOps] /\ ops \in 0..MaxOps
      /\ now \in 0..MaxTime /\ hits \in Nat /\ misses \in Nat /\ hits + misses <= ops
      /\ written \in [Keys -> [value : Values \union {None}, expires_at : Nat]]
  BY DEF LRUInv, TypeOK
<1>2. Len(cache) <= MaxSize /\ Ordered(cache, used) /\ AsWritten /\ \A k \in Keys : used[k] <= ops
  BY DEF LRUInv
<1>3. \A k \in Keys : used[k] \in Nat
  BY <1>1
<1>4. Len(cache) \in Nat
  BY <1>1
<1>5. used \in [Keys -> Nat]
  BY <1>1
<1>6. ops \in Nat /\ ops <= MaxOps /\ now \in Nat /\ now <= MaxTime
  BY <1>1, LRUConstants
<1>7. \A k \in Keys : used[k] < ops + 1
  BY <1>2, <1>3, <1>6
<1> QED
  BY <1>1, <1>2, <1>4, <1>5, <1>6, <1>7

\* The place of a key is that of its entry.
LEMMA EntryIs ==
    ASSUME NEW c \in Seq(Entry), NEW k, Has(c, k)
    PROVE  \E p \in DOMAIN c : EntryOf(c, k) = c[p] /\ c[p].key = k
  BY DEF Has, EntryOf, Place

LEMMA LRUInit == Init => LRUInv
<1> SUFFICES ASSUME Init PROVE LRUInv
  OBVIOUS
<1>1. cache = << >> /\ cache \in Seq(Entry) /\ Len(cache) = 0
  BY DEF Init
<1>2. 0 \in 0..MaxTime /\ 0 \in 0..MaxOps /\ 0 <= MaxSize
  BY LRUConstants
<1>3. Unwritten \in [value : Values \union {None}, expires_at : Nat]
  BY DEF Unwritten
<1>4. TypeOK
  BY <1>1, <1>2, <1>3 DEF Init, TypeOK
<1> QED
  BY <1>1, <1>2, <1>4 DEF Init, LRUInv, Ordered, AsWritten

LEMMA LRUTick == ASSUME LRUInv, Tick PROVE LRUInv'
<1>1. now' = now + 1 /\ now < MaxTime /\ UNCHANGED <<cache, hits, misses, ops, written, used>>
  BY DEF Tick
<1>2. now' \in 0..MaxTime
  BY <1>1, LRUFacts, LRUConstants
<1> QED
  BY <1>1, <1>2 DEF LRUInv, TypeOK, AsWritten

LEMMA LRUGet == ASSUME LRUInv, NEW k \in Keys, Get(k) PROVE LRUInv'
<1> DEFINE w == Without(cache, k)
<1>0. cache \in Seq(Entry) /\ used \in [Keys -> Nat] /\ Ordered(cache, used)
  BY LRUFacts
<1>1. /\ ops < MaxOps /\ ops' = ops + 1 /\ UNCHANGED <<now, written>>
      /\ cache' = AfterGet(cache, k, now)
  BY DEF Get, Count
<1>2. ops' \in 0..MaxOps /\ ops' \in Nat
  BY <1>1, LRUFacts, LRUConstants
<1>3. /\ w \in Seq(Entry) /\ Ordered(w, used) /\ Len(w) <= Len(cache)
      /\ Has(cache, k) => Len(w) + 1 = Len(cache)
      /\ \A i \in DOMAIN w : w[i].key # k /\ \E j \in DOMAIN cache : w[i] = cache[j]
  BY <1>0, WithoutKeeps
<1> HIDE DEF w
<1>4. CASE Hit(cache, k, now)
  <2> DEFINE e == EntryOf(cache, k)
             a == Append(w, e)
  <2>1. /\ cache' = a /\ hits' = hits + 1 /\ misses' = misses
        /\ used' = [used EXCEPT ![k] = ops']
    BY <1>1, <1>4 DEF Get, AfterGet, w
  <2>2. PICK p \in DOMAIN cache : e = cache[p] /\ cache[p].key = k
    BY <1>4, LRUFacts, EntryIs DEF Hit
  <2>3. e \in Entry /\ e.key = k
    BY <2>2, LRUFacts
  <2> HIDE DEF e
  <2>4. /\ a \in Seq(Entry) /\ Len(a) = Len(w) + 1 /\ Ordered(a, [used EXCEPT ![k] = ops + 1])
        /\ a[Len(a)] = e /\ Len(w) \in Nat
        /\ \A i \in 1..Len(w) : a[i] = w[i]
    <3>1. \A i \in DOMAIN w : w[i].key # e.key
      BY <1>3, <2>3
    <3>2. ops + 1 \in Nat /\ \A j \in Keys : used[j] < ops + 1
      BY LRUFacts
    <3>3. LET b == Append(w, e)
          IN /\ b \in Seq(Entry) /\ Len(b) = Len(w) + 1
             /\ Ordered(b, [used EXCEPT ![e.key] = ops + 1])
             /\ b[Len(b)] = e /\ Len(w) \in Nat /\ \A i \in 1..Len(w) : b[i] = w[i]
      BY <1>0, <1>3, <2>3, <3>1, <3>2, AppendKeeps, ZenonT(30)
    <3> QED
      BY <2>3, <3>3
  <2> HIDE DEF a
  <2>5. Len(cache') <= MaxSize
    BY <1>3, <1>4, <2>1, <2>4, LRUFacts DEF Hit
  <2>6. \A i \in 1..Len(a) : \E j \in DOMAIN cache : a[i] = cache[j]
    <3> SUFFICES ASSUME NEW i \in 1..Len(a) PROVE \E j \in DOMAIN cache : a[i] = cache[j]
      OBVIOUS
    <3>1. CASE i = Len(a)
      BY <2>2, <2>4, <3>1
    <3>2. CASE i # Len(a)
      <4>1. i \in 1..Len(w)
        BY <2>4, <3>2
      <4> QED
        BY <1>3, <2>4, <4>1
    <3> QED
      BY <3>1, <3>2
  <2>7. AsWritten'
    <3>1. \A i \in DOMAIN cache : /\ cache[i].value = written[cache[i].key].value
                                  /\ cache[i].expires_at = written[cache[i].key].expires_at
      BY LRUFacts DEF AsWritten
    <3>2. DOMAIN a = 1..Len(a)
      BY <2>4
    <3> QED
      BY <1>1, <2>1, <2>6, <3>1, <3>2 DEF AsWritten
  <2>8. used' \in [Keys -> 0..MaxOps] /\ \A j \in Keys : used'[j] <= ops'
    BY <1>1, <1>2, <2>1, LRUFacts, SMTT(30)
  <2>9. TypeOK'
    <3>1. hits' \in Nat /\ misses' \in Nat /\ hits' + misses' <= ops'
      BY <1>1, <2>1, LRUFacts
    <3> QED
      BY <1>1, <1>2, <2>1, <2>4, <2>8, <3>1 DEF TypeOK, LRUInv
  <2> QED
    BY <1>1, <2>1, <2>4, <2>5, <2>7, <2>8, <2>9 DEF LRUInv
<1>5. CASE ~Hit(cache, k, now)
  <2>1. cache' = w /\ misses' = misses + 1 /\ UNCHANGED <<hits, used>>
    BY <1>1, <1>5 DEF Get, AfterGet, w
  <2>2. Len(cache') <= MaxSize
    <3>1. Len(w) \in Nat /\ Len(w) <= Len(cache)
      BY <1>3
    <3>2. Len(cache) \in Nat /\ Len(cache) <= MaxSize /\ MaxSize \in Nat
      BY LRUFacts, LRUConstants
    <3> QED
      BY <2>1, <3>1, <3>2
  <2>3. AsWritten'
    <3>1. ASSUME NEW i \in DOMAIN w
          PROVE  /\ w[i].value = written[w[i].key].value
                 /\ w[i].expires_at = written[w[i].key].expires_at
      <4>1. PICK j \in DOMAIN cache : w[i] = cache[j]
        BY <1>3
      <4> QED
        BY <4>1, LRUFacts DEF AsWritten
    <3>2. cache' = w /\ written' = written
      BY <1>1, <2>1
    <3> QED
      BY <3>1, <3>2 DEF AsWritten
  <2>4. \A j \in Keys : used'[j] <= ops'
    BY <1>1, <2>1, LRUFacts
  <2>5. TypeOK'
    BY <1>1, <1>2, <1>3, <2>1, LRUFacts, SMTT(30) DEF TypeOK
  <2> QED
    BY <1>3, <2>1, <2>2, <2>3, <2>4, <2>5 DEF LRUInv
<1> QED
  BY <1>4, <1>5

\* What a set leaves: its own entry at the end, and before it what was used latest.
LEMMA SetIs ==
    ASSUME LRUInv, NEW k \in Keys, NEW v \in Values, NEW ttl \in Ttls, Set(k, v, ttl)
    PROVE  /\ cache' \in Seq(Entry) /\ Len(cache') <= MaxSize
           /\ Ordered(cache', used')
           /\ \A i \in DOMAIN cache' :
                 \/ cache'[i] = [key |-> k, value |-> v, expires_at |-> now + ttl]
                 \/ cache'[i].key # k /\ \E j \in DOMAIN cache : cache'[i] = cache[j]
           /\ MaxSize > 0 => Has(cache', k)
           /\ \A i \in DOMAIN cache, j \in DOMAIN cache' :
                 cache[i].key # k /\ ~Has(cache', cache[i].key) =>
                     used'[cache[i].key] < used'[cache'[j].key]
<1> DEFINE w == Without(cache, k)
           e == [key |-> k, value |-> v, expires_at |-> now + ttl]
           a == Append(w, e)
<1>0. cache \in Seq(Entry) /\ used \in [Keys -> Nat] /\ Ordered(cache, used)
  BY LRUFacts
<1>1. /\ ops < MaxOps /\ ops' = ops + 1 /\ used' = [used EXCEPT ![k] = ops + 1]
      /\ cache' = Evict(a)
  BY DEF Set, Count, AfterSet
<1>2. e \in Entry /\ e.key = k
  BY LRUFacts, LRUConstants DEF Entry
<1>3. /\ w \in Seq(Entry) /\ Ordered(w, used)
      /\ \A i \in DOMAIN w : w[i].key # k /\ \E j \in DOMAIN cache : w[i] = cache[j]
      /\ \A j \in DOMAIN cache : cache[j].key # k => \E i \in DOMAIN w : w[i] = cache[j]
  BY <1>0, WithoutKeeps
<1> HIDE DEF w, e
<1>4. /\ a \in Seq(Entry) /\ Len(a) = Len(w) + 1 /\ Ordered(a, used')
      /\ a[Len(a)] = e /\ Len(w) \in Nat
      /\ \A i \in 1..Len(w) : a[i] = w[i]
  <2>1. \A i \in DOMAIN w : w[i].key # e.key
    BY <1>2, <1>3
  <2>2. ops + 1 \in Nat /\ \A j \in Keys : used[j] < ops + 1
    BY LRUFacts
  <2>3. used' = [used EXCEPT ![e.key] = ops + 1]
    BY <1>1, <1>2
  <2>4. LET b == Append(w, e)
        IN /\ b \in Seq(Entry) /\ Len(b) = Len(w) + 1
           /\ Ordered(b, [used EXCEPT ![e.key] = ops + 1])
           /\ b[Len(b)] = e /\ Len(w) \in Nat /\ \A i \in 1..Len(w) : b[i] = w[i]
    BY <1>0, <1>2, <1>3, <2>1, <2>2, AppendKeeps, ZenonT(30)
  <2> QED
    BY <2>3, <2>4
<1> HIDE DEF a
<1> DEFINE c == Evict(a)
<1>5. /\ c \in Seq(Entry) /\ Len(c) <= MaxSize /\ Len(c) <= Len(a)
      /\ Len(a) > 0 /\ MaxSize > 0 => Len(c) > 0
      /\ \E gone \in Nat : /\ Len(c) + gone = Len(a)
                           /\ \A i \in 1..Len(c) : c[i] = a[i + gone]
  BY <1>4, EvictIs
<1> HIDE DEF c
<1>6. PICK gone \in Nat : /\ Len(c) + gone = Len(a)
                          /\ \A i \in 1..Len(c) : c[i] = a[i + gone]
  BY <1>5
<1>7. /\ DOMAIN c = 1..Len(c) /\ Len(c) \in Nat /\ DOMAIN a = 1..Len(a) /\ Len(a) \in Nat
      /\ DOMAIN w = 1..Len(w) /\ DOMAIN cache = 1..Len(cache)
  BY <1>3, <1>4, <1>5, LRUFacts
<1>8. \A i \in 1..Len(c) : i + gone \in 1..Len(a)
  BY <1>6, <1>7
<1>9. Ordered(c, used')
  <2> SUFFICES ASSUME NEW i \in 1..Len(c), NEW j \in 1..Len(c), i < j
               PROVE  used'[c[i].key] < used'[c[j].key]
    BY <1>7 DEF Ordered
  <2>1. i + gone < j + gone /\ c[i] = a[i + gone] /\ c[j] = a[j + gone]
    BY <1>6
  <2>2. i + gone \in DOMAIN a /\ j + gone \in DOMAIN a
    BY <1>7, <1>8
  <2>3. used'[a[i + gone].key] < used'[a[j + gone].key]
    BY <1>4, <2>1, <2>2 DEF Ordered
  <2> QED
    BY <2>1, <2>3
<1>10. ASSUME NEW i \in 1..Len(a)
       PROVE  a[i] = e \/ (a[i].key # k /\ \E j \in DOMAIN cache : a[i] = cache[j])
  <2>1. CASE i = Len(a)
    BY <1>4, <2>1
  <2>2. CASE i # Len(a)
    <3>1. i \in 1..Len(w)
      BY <1>4, <2>2
    <3>2. a[i] = w[i] /\ i \in DOMAIN w
      BY <1>4, <1>7, <3>1
    <3> QED
      BY <1>3, <3>2
  <2> QED
    BY <2>1, <2>2
<1>11. \A i \in 1..Len(c) : c[i] = e \/ (c[i].key # k /\ \E j \in DOMAIN cache : c[i] = cache[j])
  BY <1>6, <1>8, <1>10
<1>12. MaxSize > 0 => Has(c, k)
  <2> SUFFICES ASSUME MaxSize > 0 PROVE Has(c, k)
    OBVIOUS
  <2>1. Len(c) \in 1..Len(c) /\ Len(c) + gone = Len(a)
    BY <1>4, <1>5, <1>6, <1>7
  <2>2. c[Len(c)] = e
    BY <1>4, <1>6, <2>1
  <2> QED
    BY <1>2, <1>7, <2>1, <2>2 DEF Has
<1>13. ASSUME NEW i \in DOMAIN cache, NEW j \in DOMAIN c, cache[i].key # k, ~Has(c, cache[i].key)
       PROVE  used'[cache[i].key] < used'[c[j].key]
  <2>1. PICK n \in 1..Len(w) : w[n] = cache[i]
    BY <1>3, <1>7, <1>13
  <2>2. n \in 1..Len(a) /\ a[n] = cache[i]
    BY <1>4, <2>1
  <2>3. n <= gone
    <3> SUFFICES ASSUME ~(n <= gone) PROVE FALSE
      OBVIOUS
    <3>1. n - gone \in 1..Len(c) /\ (n - gone) + gone = n
      BY <1>6, <1>7, <2>2
    <3>2. c[n - gone] = cache[i]
      BY <1>6, <2>2, <3>1
    <3> QED
      BY <1>7, <1>13, <3>1, <3>2 DEF Has
  <2>4. j + gone \in 1..Len(a) /\ c[j] = a[j + gone] /\ n < j + gone
    BY <1>6, <1>7, <1>8, <2>1, <2>3
  <2> QED
    BY <1>4, <1>7, <2>2, <2>4 DEF Ordered
<1> QED
  BY <1>1, <1>5, <1>7, <1>9, <1>11, <1>12, <1>13 DEF c, e

LEMMA LRUSet ==
    ASSUME LRUInv, NEW k \in Keys, NEW v \in Values, NEW ttl \in Ttls, Set(k, v, ttl)
    PROVE  LRUInv'
<1>1. /\ ops < MaxOps /\ ops' = ops + 1 /\ used' = [used EXCEPT ![k] = ops + 1]
      /\ written' = [written EXCEPT ![k] = [value |-> v, expires_at |-> now + ttl]]
      /\ UNCHANGED <<hits, misses, now>>
  BY DEF Set, Count
<1>2. /\ cache' \in Seq(Entry) /\ Len(cache') <= MaxSize /\ Ordered(cache', used')
      /\ \A i \in DOMAIN cache' :
            \/ cache'[i] = [key |-> k, value |-> v, expires_at |-> now + ttl]
            \/ cache'[i].key # k /\ \E j \in DOMAIN cache : cache'[i] = cache[j]
  BY SetIs
<1>3. ops' \in 0..MaxOps /\ ops' \in Nat /\ now + ttl \in Nat
  BY <1>1, LRUFacts, LRUConstants, SMTT(30)
<1>4. [value |-> v, expires_at |-> now + ttl] \in [value : Values \union {None}, expires_at : Nat]
  BY <1>3
<1>5. used' \in [Keys -> 0..MaxOps] /\ \A j \in Keys : used'[j] <= ops'
  BY <1>1, <1>3, LRUFacts
<1>6. written' \in [Keys -> [value : Values \union {None}, expires_at : Nat]]
  BY <1>1, <1>4, LRUFacts
<1>7. TypeOK'
  BY <1>1, <1>2, <1>3, <1>5, <1>6, LRUFacts DEF TypeOK
<1>8. AsWritten'
  <2> SUFFICES ASSUME NEW i \in DOMAIN cache'
               PROVE  /\ cache'[i].value = written'[cache'[i].key].value
                      /\ cache'[i].expires_at = written'[cache'[i].key].expires_at
    BY DEF AsWritten
  <2>1. CASE cache'[i] = [key |-> k, value |-> v, expires_at |-> now + ttl]
    BY <1>1, <2>1, LRUFacts
  <2>2. CASE cache'[i].key # k /\ \E j \in DOMAIN cache : cache'[i] = cache[j]
    <3>1. PICK j \in DOMAIN cache : cache'[i] = cache[j] /\ cache[j].key # k
      BY <2>2
    <3>2. cache[j].key \in Keys
      BY LRUFacts, EntryFields
    <3>3. written'[cache[j].key] = written[cache[j].key]
      BY <1>1, <3>1, <3>2, LRUFacts
    <3> QED
      BY <3>1, <3>3, LRUFacts DEF AsWritten
  <2> QED
    BY <1>2, <2>1, <2>2
<1> QED
  BY <1>2, <1>5, <1>7, <1>8 DEF LRUInv

LEMMA LRUDelete == ASSUME LRUInv, NEW k \in Keys, Delete(k) PROVE LRUInv'
<1> DEFINE w == Without(cache, k)
<1>0. cache \in Seq(Entry) /\ used \in [Keys -> Nat] /\ Ordered(cache, used)
  BY LRUFacts
<1>1. /\ ops < MaxOps /\ ops' = ops + 1 /\ cache' = w
      /\ written' = [written EXCEPT ![k] = Unwritten] /\ UNCHANGED <<hits, misses, now, used>>
  BY DEF Delete, Count
<1>2. /\ w \in Seq(Entry) /\ Ordered(w, used) /\ Len(w) <= Len(cache)
      /\ \A i \in DOMAIN w : w[i].key # k /\ \E j \in DOMAIN cache : w[i] = cache[j]
  BY <1>0, WithoutKeeps
<1> HIDE DEF w
<1>3. ops' \in 0..MaxOps /\ Len(w) <= MaxSize
  BY <1>1, <1>2, LRUFacts, LRUConstants
<1>4. written' \in [Keys -> [value : Values \union {None}, expires_at : Nat]]
  BY <1>1, LRUFacts DEF Unwritten
<1>5. TypeOK'
  BY <1>1, <1>2, <1>3, <1>4, LRUFacts DEF TypeOK
<1>6. AsWritten'
  <2> SUFFICES ASSUME NEW i \in DOMAIN w
               PROVE  /\ w[i].value = written'[w[i].key].value
                      /\ w[i].expires_at = written'[w[i].key].expires_at
    BY <1>1 DEF AsWritten
  <2>1. PICK j \in DOMAIN cache : w[i] = cache[j] /\ cache[j].key # k
    BY <1>2
  <2>2. cache[j].key \in Keys
    BY LRUFacts, EntryFields
  <2>3. written'[cache[j].key] = written[cache[j].key]
    BY <1>1, <2>1, <2>2, LRUFacts
  <2> QED
    BY <2>1, <2>3, LRUFacts DEF AsWritten
<1>7. \A j \in Keys : used'[j] <= ops'
  BY <1>1, LRUFacts
<1> QED
  BY <1>1, <1>2, <1>3, <1>5, <1>6, <1>7 DEF LRUInv

LEMMA LRUClear == ASSUME LRUInv, Clear PROVE LRUInv'
<1>1. /\ ops < MaxOps /\ ops' = ops + 1 /\ cache' = << >>
      /\ written' = [k \in Keys |-> Unwritten] /\ UNCHANGED <<hits, misses, now, used>>
  BY DEF Clear, Count
<1>2. ops' \in 0..MaxOps /\ Len(cache') <= MaxSize /\ cache' \in Seq(Entry)
  BY <1>1, LRUFacts, LRUConstants
<1>3. written' \in [Keys -> [value : Values \union {None}, expires_at : Nat]]
  BY <1>1 DEF Unwritten
<1>4. TypeOK'
  BY <1>1, <1>2, <1>3, LRUFacts DEF TypeOK
<1>5. \A j \in Keys : used'[j] <= ops'
  BY <1>1, LRUFacts
<1> QED
  BY <1>1, <1>2, <1>4, <1>5 DEF LRUInv, Ordered, AsWritten

LEMMA LRUStep == LRUInv /\ [Next]_vars => LRUInv'
<1> SUFFICES ASSUME LRUInv, [Next]_vars PROVE LRUInv'
  OBVIOUS
<1>1. CASE UNCHANGED vars
  BY <1>1 DEF vars, LRUInv, TypeOK, AsWritten
<1> QED
  BY <1>1, LRUTick, LRUGet, LRUSet, LRUDelete, LRUClear DEF Next

LEMMA LRUSized == LRUInv => OneEntryPerKeyWithinSize
  BY LRUFacts, OneEntryPerKey DEF OneEntryPerKeyWithinSize

LEMMA LRUServes == LRUInv => ServesLastWrite
<1> SUFFICES ASSUME LRUInv, NEW k \in Keys, GetValue(cache, k, now) # None
             PROVE  /\ GetValue(cache, k, now) = written[k].value
                    /\ now <= written[k].expires_at
  BY DEF ServesLastWrite
<1>1. Hit(cache, k, now) /\ GetValue(cache, k, now) = EntryOf(cache, k).value
  BY DEF GetValue
<1>2. PICK p \in DOMAIN cache : EntryOf(cache, k) = cache[p] /\ cache[p].key = k
  BY <1>1, LRUFacts, EntryIs DEF Hit
<1>3. cache[p].value = written[k].value /\ cache[p].expires_at = written[k].expires_at
  BY <1>2, LRUFacts DEF AsWritten
<1>4. ~(now > cache[p].expires_at) /\ cache[p].expires_at \in Nat /\ now \in Nat
  BY <1>1, <1>2, LRUFacts, EntryFields DEF Hit, IsExpired
<1> QED
  BY <1>1, <1>2, <1>3, <1>4

\* What EvictsLeastRecentlyUsed says of a step.
LEMMA LRUEvicts ==
    ASSUME LRUInv, MaxSize > 0, NEW set \in Keys, NEW v \in Values, NEW ttl \in Ttls,
           Set(set, v, ttl)
    PROVE  /\ Has(cache', set)
           /\ \A k, j \in Keys : Has(cache, k) /\ ~Has(cache', k) /\ Has(cache', j)
                                 => used[k] < used'[j]
<1>1. Has(cache', set)
  BY SetIs
<1>2. ASSUME NEW k \in Keys, NEW j \in Keys, Has(cache, k), ~Has(cache', k), Has(cache', j)
      PROVE  used[k] < used'[j]
  <2>1. PICK m \in DOMAIN cache : cache[m].key = k
    BY <1>2 DEF Has
  <2>2. PICK n \in DOMAIN cache' : cache'[n].key = j
    BY <1>2 DEF Has
  <2>3. k # set
    BY <1>1, <1>2
  <2>4. used'[k] < used'[j]
    BY <1>2, <2>1, <2>2, <2>3, SetIs
  <2>5. used'[k] = used[k]
    BY <2>3, LRUFacts DEF Set
  <2> QED
    BY <2>4, <2>5
<1> QED
  BY <1>1, <1>2

------------------------------------------------------------------------------
(* TaggedCache *)

\* The key has the tag in the store, for as long as its value is kept.
Added(k, t) == k \in tagged[t].keys /\ tagged[t].expires >= store[k].expires

\* A clear that has looked its keys up has found the key, or the key has no value.
ClearFound(c, k) ==
    c \in Tag!Clears /\ k \in Tag!ReachedBy(call[c].tag) /\ store[k] # None =>
        /\ call[c].do # "untag"
        /\ call[c].do = "delete" => k \in call[c].found

\* The fill of a key goes from tag to tag, with data no clear was to reach.
FillGoesOn(c, k) ==
    c \in Tag!Filling(k) =>
        /\ call[c].version >= due[k]
        /\ call[c].do = "store" => store[k] = None
        /\ call[c].do = "expire" => k \in tagged[TagsOf[k][call[c].tag]].keys
        /\ store[k] # None => \A i \in 1..(call[c].tag - 1) : Added(k, TagsOf[k][i])

Undisturbed(k) ==
    /\ \A c, d \in Tag!Filling(k) : c = d
    /\ store[k] # None => store[k].version >= due[k]
    /\ store[k] # None /\ Tag!Filling(k) = {} => \A i \in DOMAIN TagsOf[k] : Added(k, TagsOf[k][i])
    /\ \A c \in TagCallers : ClearFound(c, k) /\ FillGoesOn(c, k)

\* The places of the calls, and what the version and the clock bound.
Bounds ==
    /\ \A k \in TagKeys : /\ due[k] <= version
                          /\ store[k] # None => store[k].expires <= tgNow + TagTtl
    /\ \A c \in Tag!Clears : call[c].version <= version
    /\ \A c \in TagCallers : Tag!At(c, "tag") \/ Tag!At(c, "expire") =>
                                call[c].tag \in DOMAIN TagsOf[call[c].key]
    /\ \A c \in TagCallers : Tag!At(c, "untag") => call[c].tag # None

ClearsDisturb == Tag!Clears # {} => Tag!KeysBeingFilled \subseteq disturbed

TagInv ==
    /\ Tag!TypeOK
    /\ Bounds
    /\ ClearsDisturb
    /\ \A k \in TagKeys \ disturbed : Undisturbed(k)

LEMMA TagConstants ==
    /\ TagsOf \in [TagKeys -> Seq(Tags)]
    /\ TagTtl \in Nat /\ TagTtl > 0 /\ MaxTime \in Nat /\ MaxVersion \in Nat
    /\ None \notin Tags /\ None \notin Tag!Fill /\ None \notin Tag!Clear
  BY CachesAssumption DEF Tag!TaggedCacheAssumption

LEMMA TagOfKey == \A k \in TagKeys : \A i \in DOMAIN TagsOf[k] : TagsOf[k][i] \in Tags
  BY TagConstants

LEMMA FillFields ==
    \A r \in Tag!Fill : /\ r.do \in {"store", "tag", "expire"} /\ r.key \in TagKeys
                        /\ r.version \in Tag!Versions /\ r.tag \in Nat /\ r # None
  BY TagConstants DEF Tag!Fill

LEMMA ClearFields ==
    \A r \in Tag!Clear : /\ r.do \in {"members", "delete", "untag"} /\ r.tag \in Tags \union {None}
                         /\ r.version \in Tag!Versions /\ r.found \subseteq TagKeys /\ r # None
  BY TagConstants DEF Tag!Clear

LEMMA FillChange ==
    ASSUME NEW r \in Tag!Fill, NEW do \in {"store", "tag", "expire"}, NEW n \in Nat
    PROVE  /\ LET q == [r EXCEPT !.do = do, !.tag = n] IN
                q \in Tag!Fill /\ q.do = do /\ q.tag = n /\ q.key = r.key /\ q.version = r.version
           /\ LET q == [r EXCEPT !.do = do] IN
                /\ q \in Tag!Fill /\ q.do = do /\ q.tag = r.tag
                /\ q.key = r.key /\ q.version = r.version
  BY DEF Tag!Fill

LEMMA ClearChange ==
    ASSUME NEW r \in Tag!Clear, NEW do \in {"members", "delete", "untag"}, NEW f \in SUBSET TagKeys
    PROVE  /\ LET q == [r EXCEPT !.do = do, !.found = f] IN
                /\ q \in Tag!Clear /\ q.do = do /\ q.found = f
                /\ q.tag = r.tag /\ q.version = r.version
           /\ LET q == [r EXCEPT !.do = do] IN
                /\ q \in Tag!Clear /\ q.do = do /\ q.found = r.found
                /\ q.tag = r.tag /\ q.version = r.version
  BY DEF Tag!Clear

\* Who is filling and who clearing, by what their calls are.
LEMMA Calls ==
    ASSUME call \in [TagCallers -> {None} \union Tag!Fill \union Tag!Clear]
    PROVE  /\ \A c \in TagCallers : \A k : c \in Tag!Filling(k) <=>
                                              call[c] \in Tag!Fill /\ call[c].key = k
           /\ \A c \in TagCallers : c \in Tag!Clears <=> call[c] \in Tag!Clear
           /\ \A k : Tag!Filling(k) \subseteq TagCallers
           /\ Tag!Clears \subseteq TagCallers
  BY FillFields, ClearFields DEF Tag!Filling, Tag!Clears

LEMMA CallsNext ==
    ASSUME call' \in [TagCallers -> {None} \union Tag!Fill \union Tag!Clear]
    PROVE  /\ \A c \in TagCallers : \A k : c \in Tag!Filling(k)' <=>
                                              call'[c] \in Tag!Fill /\ call'[c].key = k
           /\ \A c \in TagCallers : c \in Tag!Clears' <=> call'[c] \in Tag!Clear
           /\ \A k : Tag!Filling(k)' \subseteq TagCallers
           /\ Tag!Clears' \subseteq TagCallers
  BY FillFields, ClearFields DEF Tag!Filling, Tag!Clears

\* What keeps a key undisturbed: it loses its value or keeps it, and its fill stands still.
LEMMA KeyKept ==
    ASSUME Tag!TypeOK, Bounds, NEW k \in TagKeys, Undisturbed(k),
           call' \in [TagCallers -> {None} \union Tag!Fill \union Tag!Clear],
           store'[k] \in {None, store[k]},
           due'[k] = due[k] \/ (store'[k] = None /\ Tag!Filling(k) = {}),
           \A i \in DOMAIN TagsOf[k] :
               /\ k \in tagged[TagsOf[k][i]].keys /\ Tag!Filling(k) # {} =>
                      k \in tagged'[TagsOf[k][i]].keys
               /\ store'[k] # None /\ Added(k, TagsOf[k][i]) => Added(k, TagsOf[k][i])',
           \A c \in TagCallers : \/ call'[c] = call[c]
                                 \/ /\ c \notin Tag!Filling(k) /\ c \notin Tag!Filling(k)'
                                    /\ ClearFound(c, k)'
    PROVE  Undisturbed(k)'
<1>1. /\ \A c \in TagCallers : c \in Tag!Filling(k) <=> call[c] \in Tag!Fill /\ call[c].key = k
      /\ \A c \in TagCallers : c \in Tag!Clears <=> call[c] \in Tag!Clear
      /\ Tag!Filling(k) \subseteq TagCallers
  BY Calls DEF Tag!TypeOK
<1>2. /\ \A c \in TagCallers : c \in Tag!Filling(k)' <=> call'[c] \in Tag!Fill /\ call'[c].key = k
      /\ \A c \in TagCallers : c \in Tag!Clears' <=> call'[c] \in Tag!Clear
      /\ Tag!Filling(k)' \subseteq TagCallers
  BY CallsNext
<1>3. Tag!Filling(k)' = Tag!Filling(k)
  BY <1>1, <1>2
<1>4. \A c, d \in Tag!Filling(k)' : c = d
  BY <1>3 DEF Undisturbed
<1>5. store'[k] # None => store'[k].version >= due'[k]
  BY DEF Undisturbed
<1>6. store'[k] # None /\ Tag!Filling(k)' = {} =>
          \A i \in DOMAIN TagsOf[k] : Added(k, TagsOf[k][i])'
  BY <1>3 DEF Undisturbed
<1>7. ASSUME NEW c \in TagCallers PROVE ClearFound(c, k)' /\ FillGoesOn(c, k)'
  <2>1. CASE call'[c] = call[c]
    <3>1. ClearFound(c, k)'
      BY <1>1, <1>2, <2>1 DEF Undisturbed, ClearFound, Tag!ReachedBy
    <3>2. CASE c \notin Tag!Filling(k)
      BY <1>3, <3>1, <3>2 DEF FillGoesOn
    <3>3. CASE c \in Tag!Filling(k)
      <4>1. /\ call[c] \in Tag!Fill /\ call[c].key = k /\ due'[k] = due[k]
            /\ call[c].do \in {"store", "tag", "expire"} /\ call[c].tag \in Nat /\ call[c] # None
        BY <1>1, <3>3, FillFields
      <4>2. FillGoesOn(c, k)
        BY DEF Undisturbed
      <4>3. call[c].do # "store" => call[c].tag \in DOMAIN TagsOf[k]
        BY <4>1 DEF Bounds, Tag!At
      <4>4. call[c].do # "store" => \A i \in 1..(call[c].tag - 1) : i \in DOMAIN TagsOf[k]
        BY <4>1, <4>3, TagConstants
      <4> QED
        BY <2>1, <3>1, <3>3, <4>1, <4>2, <4>3, <4>4 DEF FillGoesOn
    <3> QED
      BY <3>2, <3>3
  <2>2. CASE c \notin Tag!Filling(k)' /\ ClearFound(c, k)'
    BY <2>2 DEF FillGoesOn
  <2> QED
    BY <2>1, <2>2
<1> QED
  BY <1>4, <1>5, <1>6, <1>7 DEF Undisturbed

LEMMA OneCall ==
    ASSUME Tag!TypeOK, NEW c \in TagCallers, NEW r \in {None} \union Tag!Fill \union Tag!Clear,
           call' = [call EXCEPT ![c] = r]
    PROVE  /\ call' \in [TagCallers -> {None} \union Tag!Fill \union Tag!Clear]
           /\ call'[c] = r /\ \A d \in TagCallers : d # c => call'[d] = call[d]
  BY DEF Tag!TypeOK

\* Only a clear that starts and a fill that starts can spoil ClearsDisturb.
LEMMA KeepsDisturbed ==
    ASSUME Tag!TypeOK, ClearsDisturb, disturbed \subseteq disturbed',
           call' \in [TagCallers -> {None} \union Tag!Fill \union Tag!Clear],
           \A c \in TagCallers :
               /\ call'[c] \in Tag!Clear => call[c] \in Tag!Clear
               /\ call'[c] \in Tag!Fill => call[c] \in Tag!Fill /\ call'[c].key = call[c].key
    PROVE  ClearsDisturb'
<1>1. Tag!Clears' \subseteq Tag!Clears
  BY Calls, CallsNext DEF Tag!TypeOK
<1>2. \A k : Tag!Filling(k)' \subseteq Tag!Filling(k)
  BY Calls, CallsNext DEF Tag!TypeOK
<1>3. Tag!KeysBeingFilled' \subseteq Tag!KeysBeingFilled
  BY <1>2 DEF Tag!KeysBeingFilled
<1> QED
  BY <1>1, <1>3 DEF ClearsDisturb

TagValues == [version : Tag!Versions, expires : Tag!Time]

LEMMA TagFacts ==
    ASSUME TagInv
    PROVE  /\ store \in [TagKeys -> {None} \union TagValues]
           /\ tagged \in [Tags -> [keys : SUBSET TagKeys, expires : Tag!Time]]
           /\ call \in [TagCallers -> {None} \union Tag!Fill \union Tag!Clear]
           /\ version \in Nat /\ version <= MaxVersion /\ tgNow \in Nat /\ tgNow <= MaxTime
           /\ disturbed \subseteq TagKeys
           /\ due \in [TagKeys -> Tag!Versions]
           /\ \A k \in TagKeys : due[k] \in Nat /\ due[k] <= version
           /\ \A k \in TagKeys : store[k] # None =>
                 /\ store[k].version \in Nat /\ store[k].expires \in Nat
                 /\ store[k].expires <= tgNow + TagTtl
           /\ \A t \in Tags : tagged[t].keys \subseteq TagKeys /\ tagged[t].expires \in Nat
<1>1. /\ store \in [TagKeys -> {None} \union TagValues]
      /\ tagged \in [Tags -> [keys : SUBSET TagKeys, expires : Tag!Time]]
      /\ call \in [TagCallers -> {None} \union Tag!Fill \union Tag!Clear]
      /\ version \in Tag!Versions /\ tgNow \in 0..MaxTime /\ disturbed \subseteq TagKeys
      /\ due \in [TagKeys -> Tag!Versions]
  BY DEF TagInv, Tag!TypeOK, TagValues
<1>2. /\ Tag!Versions \subseteq Nat /\ Tag!Time \subseteq Nat
      /\ \A v \in Tag!Versions : v <= MaxVersion
  BY TagConstants DEF Tag!Versions, Tag!Time
<1>3. \A k \in TagKeys : store[k] # None => store[k].version \in Nat /\ store[k].expires \in Nat
  BY <1>1, <1>2 DEF TagValues
<1>4. \A t \in Tags : tagged[t].keys \subseteq TagKeys /\ tagged[t].expires \in Nat
  BY <1>1, <1>2
<1>5. \A k \in TagKeys : /\ due[k] <= version
                         /\ store[k] # None => store[k].expires <= tgNow + TagTtl
  BY DEF TagInv, Bounds
<1>6. version \in Nat /\ version <= MaxVersion /\ tgNow \in Nat /\ tgNow <= MaxTime
  BY <1>1, <1>2, TagConstants
<1>7. \A k \in TagKeys : due[k] \in Nat
  BY <1>1, <1>2
<1> QED
  BY <1>1, <1>3, <1>4, <1>5, <1>6, <1>7

LEMMA TagTick == ASSUME TagInv, Tag!Tick PROVE TagInv'
<1>1. /\ tgNow < MaxTime /\ tgNow' = tgNow + 1 /\ UNCHANGED <<version, call, due>>
      /\ store' = [k \in TagKeys |-> IF store[k] # None /\ store[k].expires <= tgNow' THEN None
                                     ELSE store[k]]
      /\ tagged' = [t \in Tags |-> IF tagged[t].expires <= tgNow' THEN Tag!NoTag ELSE tagged[t]]
      /\ disturbed' = IF tagged' = tagged THEN disturbed ELSE disturbed \union Tag!KeysBeingFilled
  BY DEF Tag!Tick
<1>2. Tag!KeysBeingFilled \subseteq TagKeys /\ disturbed \subseteq disturbed'
  BY <1>1 DEF Tag!KeysBeingFilled
<1>3. Tag!NoTag \in [keys : SUBSET TagKeys, expires : Tag!Time]
  BY TagConstants DEF Tag!NoTag, Tag!Time
<1>4. Tag!TypeOK'
  <2>1. tagged' \in [Tags -> [keys : SUBSET TagKeys, expires : Tag!Time]]
    BY <1>1, <1>3, TagFacts
  <2>2. store' \in [TagKeys -> {None} \union TagValues]
    BY <1>1, TagFacts
  <2>3. tgNow' \in 0..MaxTime /\ disturbed' \in SUBSET TagKeys
    BY <1>1, <1>2, TagFacts, TagConstants
  <2> QED
    BY <1>1, <2>1, <2>2, <2>3 DEF TagInv, Tag!TypeOK, TagValues
<1>5. Bounds'
  <2>1. \A k \in TagKeys : store'[k] # None => store'[k] = store[k]
    BY <1>1
  <2>2. \A k \in TagKeys : store'[k] # None => store'[k].expires <= tgNow' + TagTtl
    BY <1>1, <2>1, TagFacts, TagConstants
  <2> QED
    BY <1>1, <2>2 DEF TagInv, Bounds, Tag!At, Tag!Clears
<1>6. ClearsDisturb'
  BY <1>1, <1>2, KeepsDisturbed DEF TagInv, Tag!TypeOK
<1>7. ASSUME NEW k \in TagKeys \ disturbed' PROVE Undisturbed(k)'
  <2>1. k \notin disturbed /\ Undisturbed(k) /\ store'[k] \in {None, store[k]}
    BY <1>1, <1>2 DEF TagInv
  <2>2. ASSUME NEW i \in DOMAIN TagsOf[k]
        PROVE  /\ k \in tagged[TagsOf[k][i]].keys /\ Tag!Filling(k) # {} =>
                      k \in tagged'[TagsOf[k][i]].keys
               /\ store'[k] # None /\ Added(k, TagsOf[k][i]) => Added(k, TagsOf[k][i])'
    <3>1. PICK t \in Tags : t = TagsOf[k][i]
      BY TagOfKey
    <3>2. Tag!Filling(k) # {} => tagged' = tagged
      BY <1>1 DEF Tag!KeysBeingFilled
    <3>3. ASSUME store'[k] # None, Added(k, t) PROVE tagged'[t] = tagged[t]
      BY <1>1, <3>3, TagFacts DEF Added
    <3> QED
      BY <2>1, <3>1, <3>2, <3>3 DEF Added
  <2> QED
    BY <1>1, <2>1, <2>2, KeyKept DEF TagInv, Tag!TypeOK
<1> QED
  BY <1>4, <1>5, <1>6, <1>7 DEF TagInv

LEMMA TagChange == ASSUME TagInv, Tag!Change PROVE TagInv'
<1>1. /\ version < MaxVersion /\ version' = version + 1
      /\ UNCHANGED <<store, tagged, tgNow, call, disturbed, due>>
  BY DEF Tag!Change
<1>2. Tag!TypeOK'
  <2>1. version' \in Tag!Versions
    BY <1>1, TagFacts, TagConstants DEF Tag!Versions
  <2> QED
    BY <1>1, <2>1 DEF TagInv, Tag!TypeOK
<1>3. Bounds'
  <2>1. \A c \in Tag!Clears : call[c].version \in Nat /\ call[c].version <= version
    BY TagConstants, TagFacts, Calls, ClearFields DEF TagInv, Bounds, Tag!Versions
  <2>2. \A k \in TagKeys : due[k] <= version'
    BY <1>1, TagFacts
  <2> QED
    BY <1>1, <2>1, <2>2, TagFacts DEF TagInv, Bounds, Tag!At, Tag!Clears
<1>4. ClearsDisturb'
  BY <1>1 DEF TagInv, ClearsDisturb, Tag!Clears, Tag!KeysBeingFilled, Tag!Filling
<1>5. ASSUME NEW k \in TagKeys \ disturbed' PROVE Undisturbed(k)'
  BY <1>1 DEF TagInv, Undisturbed, Added, ClearFound, FillGoesOn, Tag!Clears, Tag!Filling,
     Tag!ReachedBy
<1> QED
  BY <1>2, <1>3, <1>4, <1>5 DEF TagInv

LEMMA TagDelete == ASSUME TagInv, NEW j \in TagKeys, Tag!Delete(j) PROVE TagInv'
<1>1. /\ store' = [store EXCEPT ![j] = None]
      /\ UNCHANGED <<tagged, version, tgNow, call, disturbed, due>>
  BY DEF Tag!Delete
<1>2. \A k \in TagKeys : store'[k] \in {None, store[k]}
  BY <1>1, TagFacts
<1>3. Tag!TypeOK'
  <2>1. store' \in [TagKeys -> {None} \union TagValues]
    BY <1>1, TagFacts
  <2> QED
    BY <1>1, <2>1 DEF TagInv, Tag!TypeOK, TagValues
<1>4. Bounds'
  BY <1>1, <1>2 DEF TagInv, Bounds, Tag!At, Tag!Clears
<1>5. ClearsDisturb'
  BY <1>1 DEF TagInv, ClearsDisturb, Tag!Clears, Tag!KeysBeingFilled, Tag!Filling
<1>6. ASSUME NEW k \in TagKeys \ disturbed' PROVE Undisturbed(k)'
  <2>1. k \notin disturbed /\ Undisturbed(k) /\ store'[k] \in {None, store[k]}
    BY <1>1, <1>2 DEF TagInv
  <2>2. store'[k] # None => \A t : Added(k, t) => Added(k, t)'
    BY <1>1, <2>1 DEF Added
  <2> QED
    BY <1>1, <2>1, <2>2, KeyKept DEF TagInv, Tag!TypeOK
<1> QED
  BY <1>3, <1>4, <1>5, <1>6 DEF TagInv

\* The only fill of a key that is not disturbed, and no clear runs.
LEMMA OnlyFill ==
    ASSUME TagInv, NEW c \in TagCallers, call[c] \in Tag!Fill, call[c].key \notin disturbed
    PROVE  /\ Undisturbed(call[c].key) /\ FillGoesOn(c, call[c].key)
           /\ c \in Tag!Filling(call[c].key)
           /\ Tag!Filling(call[c].key) = {c} /\ Tag!Clears = {}
<1>1. c \in Tag!Filling(call[c].key) /\ call[c].key \in TagKeys
  BY Calls, FillFields, TagFacts
<1>2. call[c].key \in Tag!KeysBeingFilled
  BY <1>1 DEF Tag!KeysBeingFilled
<1> QED
  BY <1>1, <1>2 DEF TagInv, Undisturbed, ClearsDisturb

\* The keys a fill does not touch, and its own when it is over.
LEMMA OtherKey ==
    ASSUME TagInv, NEW c \in TagCallers, call[c] \in Tag!Fill,
           NEW r \in {None} \union Tag!Fill, r # None => r.key = call[c].key,
           call' = [call EXCEPT ![c] = r],
           NEW k \in TagKeys \ disturbed, k # call[c].key, store'[k] = store[k], due' = due,
           \A i \in DOMAIN TagsOf[k] :
               /\ k \in tagged[TagsOf[k][i]].keys => k \in tagged'[TagsOf[k][i]].keys
               /\ store'[k] # None /\ Added(k, TagsOf[k][i]) => Added(k, TagsOf[k][i])'
    PROVE  Undisturbed(k)'
<1>1. /\ call' \in [TagCallers -> {None} \union Tag!Fill \union Tag!Clear]
      /\ call'[c] = r /\ \A d \in TagCallers : d # c => call'[d] = call[d]
  BY OneCall DEF TagInv
<1>2. c \notin Tag!Filling(k)
  BY Calls, TagFacts
<1>3. c \notin Tag!Filling(k)' /\ c \notin Tag!Clears'
  BY <1>1, CallsNext, FillFields, ClearFields
<1>4. ClearFound(c, k)'
  BY <1>3 DEF ClearFound
<1> QED
  BY <1>1, <1>2, <1>3, <1>4, KeyKept DEF TagInv

\* A fill that goes on or ends leaves the callers' bounds alone.
LEMMA FillBounds ==
    ASSUME TagInv, NEW c \in TagCallers, call[c] \in Tag!Fill,
           NEW r \in {None} \union Tag!Fill,
           r # None => r.key = call[c].key /\ r.tag \in DOMAIN TagsOf[r.key],
           call' = [call EXCEPT ![c] = r], disturbed \subseteq disturbed',
           UNCHANGED <<version, tgNow, due>>,
           \A k \in TagKeys : store'[k] # None => store'[k].expires <= tgNow + TagTtl
    PROVE  Bounds' /\ ClearsDisturb'
<1>1. /\ call' \in [TagCallers -> {None} \union Tag!Fill \union Tag!Clear]
      /\ call'[c] = r /\ \A d \in TagCallers : d # c => call'[d] = call[d]
  BY OneCall DEF TagInv
<1>2. r \notin Tag!Clear
  BY FillFields, ClearFields
<1>3. c \notin Tag!Clears' /\ Tag!Clears' \subseteq Tag!Clears
  BY <1>1, <1>2, Calls, CallsNext, TagFacts
<1>4. ClearsDisturb'
  BY <1>1, <1>2, KeepsDisturbed, FillFields, ClearFields DEF TagInv
<1>5. \A d \in Tag!Clears' : call'[d].version <= version'
  BY <1>1, <1>3, Calls, TagFacts DEF TagInv, Bounds
<1>6. ASSUME NEW d \in TagCallers, (Tag!At(d, "tag") \/ Tag!At(d, "expire"))'
      PROVE  call'[d].tag \in DOMAIN TagsOf[call'[d].key]
  <2>1. CASE d = c
    BY <1>1, <1>6, <2>1 DEF Tag!At
  <2>2. CASE d # c
    BY <1>1, <1>6, <2>2 DEF TagInv, Bounds, Tag!At
  <2> QED
    BY <2>1, <2>2
<1>7. ASSUME NEW d \in TagCallers, Tag!At(d, "untag")' PROVE call'[d].tag # None
  <2>1. d # c
    BY <1>1, <1>7, FillFields DEF Tag!At
  <2> QED
    BY <1>1, <1>7, <2>1 DEF TagInv, Bounds, Tag!At
<1> QED
  BY <1>4, <1>5, <1>6, <1>7 DEF TagInv, Bounds

LEMMA Continues ==
    ASSUME TagInv, NEW c \in TagCallers, call[c] \in Tag!Fill, NEW n \in Nat \ {0},
           Tag!Continue(c, n)
    PROVE  \E r \in {None} \union Tag!Fill :
               /\ call' = [call EXCEPT ![c] = r]
               /\ r = None => DOMAIN TagsOf[call[c].key] \subseteq 1..(n - 1)
               /\ r # None => /\ r.do = "tag" /\ r.tag = n /\ n \in DOMAIN TagsOf[call[c].key]
                              /\ r.key = call[c].key /\ r.version = call[c].version
<1> DEFINE s == TagsOf[call[c].key]
           r == IF n > Len(s) THEN None ELSE [call[c] EXCEPT !.do = "tag", !.tag = n]
<1>1. call' = [call EXCEPT ![c] = r]
  BY TagFacts DEF Tag!Continue
<1>2. s \in Seq(Tags) /\ Len(s) \in Nat /\ DOMAIN s = 1..Len(s)
  BY FillFields, TagConstants
<1> HIDE DEF s
<1>3. CASE n > Len(s)
  <2>1. DOMAIN s \subseteq 1..(n - 1)
    BY <1>2, <1>3
  <2> QED
    BY <1>1, <1>3, <2>1 DEF s
<1>4. CASE ~(n > Len(s))
  <2>1. n \in DOMAIN s
    BY <1>2, <1>4
  <2> DEFINE q == [call[c] EXCEPT !.do = "tag", !.tag = n]
  <2>2. r = q
    BY <1>4
  <2>3. /\ q \in Tag!Fill /\ q.do = "tag" /\ q.tag = n /\ q.key = call[c].key
        /\ q.version = call[c].version
    BY DEF Tag!Fill
  <2> HIDE DEF q, r
  <2>4. q # None
    BY <2>3, FillFields
  <2> QED
    BY <1>1, <2>1, <2>2, <2>3, <2>4 DEF s
<1> QED
  BY <1>3, <1>4

LEMMA TagMiss ==
    ASSUME TagInv, NEW c \in TagCallers, NEW j \in TagKeys, Tag!Miss(c, j)
    PROVE  TagInv'
<1> DEFINE r == [do |-> "store", key |-> j, version |-> version, tag |-> 1]
<1>1. /\ call[c] = None /\ store[j] = None /\ call' = [call EXCEPT ![c] = r]
      /\ disturbed' = IF Tag!Clears = {} /\ Tag!Filling(j) = {} THEN disturbed \ {j}
                      ELSE disturbed \union {j}
      /\ UNCHANGED <<store, tagged, version, tgNow, due>>
  BY DEF Tag!Miss
<1>2. r \in Tag!Fill /\ r.do = "store" /\ r.key = j /\ r.version = version
  BY DEF TagInv, Tag!TypeOK, Tag!Fill
<1> HIDE DEF r
<1>3. /\ call' \in [TagCallers -> {None} \union Tag!Fill \union Tag!Clear]
      /\ call'[c] = r /\ \A d \in TagCallers : d # c => call'[d] = call[d]
  BY <1>1, <1>2, OneCall DEF TagInv
<1>4. r \notin Tag!Clear /\ None \notin Tag!Clear /\ None \notin Tag!Fill
  BY <1>2, ClearFields, TagConstants
<1>5. Tag!Clears' = Tag!Clears
  <2>1. Tag!Clears' \subseteq TagCallers /\ Tag!Clears \subseteq TagCallers
    BY <1>3, Calls, CallsNext, TagFacts
  <2>2. \A d \in TagCallers : call'[d] \in Tag!Clear <=> call[d] \in Tag!Clear
    BY <1>1, <1>3, <1>4
  <2>3. \A d \in TagCallers : d \in Tag!Clears' <=> d \in Tag!Clears
    BY <1>3, <2>2, Calls, CallsNext, TagFacts
  <2> QED
    BY <2>1, <2>3
<1>6. ASSUME NEW k
      PROVE  Tag!Filling(k)' = IF k = j THEN Tag!Filling(k) \union {c} ELSE Tag!Filling(k)
  <2>1. Tag!Filling(k)' \subseteq TagCallers /\ Tag!Filling(k) \subseteq TagCallers
    BY <1>3, Calls, CallsNext, TagFacts
  <2>2. ASSUME NEW d \in TagCallers
        PROVE  d \in Tag!Filling(k)' <=> d \in Tag!Filling(k) \/ (k = j /\ d = c)
    <3>1. d \in Tag!Filling(k)' <=> call'[d] \in Tag!Fill /\ call'[d].key = k
      BY <1>3, CallsNext
    <3>2. d \in Tag!Filling(k) <=> call[d] \in Tag!Fill /\ call[d].key = k
      BY Calls, TagFacts
    <3> QED
      BY <1>1, <1>2, <1>3, <1>4, <3>1, <3>2
  <2> QED
    BY <2>1, <2>2
<1>7. Tag!TypeOK'
  BY <1>1, <1>3 DEF TagInv, Tag!TypeOK
<1>8. Bounds'
  <2>1. \A d \in Tag!Clears' : call'[d].version <= version'
    BY <1>1, <1>3, <1>4, <1>5, Calls, TagFacts DEF TagInv, Bounds
  <2>2. \A d \in TagCallers : Tag!At(d, "tag")' \/ Tag!At(d, "expire")' =>
                                 call'[d].tag \in DOMAIN TagsOf[call'[d].key]
    BY <1>2, <1>3 DEF TagInv, Bounds, Tag!At
  <2>3. \A d \in TagCallers : Tag!At(d, "untag")' => call'[d].tag # None
    BY <1>2, <1>3 DEF TagInv, Bounds, Tag!At
  <2> QED
    BY <1>1, <2>1, <2>2, <2>3 DEF TagInv, Bounds
<1>9. ClearsDisturb'
  BY <1>1, <1>5, <1>6 DEF TagInv, ClearsDisturb, Tag!KeysBeingFilled
<1>10. ASSUME NEW k \in TagKeys \ disturbed' PROVE Undisturbed(k)'
  <2>1. CASE k = j
    <3>1. Tag!Filling(k)' = {c} /\ Tag!Clears' = {} /\ store'[k] = None
      BY <1>1, <1>5, <1>6, <1>10, <2>1
    <3>2. FillGoesOn(c, k)'
      BY <1>1, <1>2, <1>3, <3>1, TagFacts DEF FillGoesOn
    <3> QED
      BY <3>1, <3>2 DEF Undisturbed, ClearFound, FillGoesOn
  <2>2. CASE k # j
    <3>1. k \notin disturbed /\ Undisturbed(k)
      BY <1>1, <1>10, <2>2 DEF TagInv
    <3>2. c \notin Tag!Filling(k) /\ c \notin Tag!Filling(k)' /\ ClearFound(c, k)'
      BY <1>1, <1>4, <1>5, <1>6, <2>2, Calls, TagFacts DEF ClearFound
    <3> QED
      BY <1>1, <1>3, <3>1, <3>2, KeyKept DEF TagInv, Added
  <2> QED
    BY <2>1, <2>2
<1> QED
  BY <1>7, <1>8, <1>9, <1>10 DEF TagInv

LEMMA TagStore == ASSUME TagInv, NEW c \in TagCallers, Tag!Store(c) PROVE TagInv'
<1> PICK j : j = call[c].key
  OBVIOUS
<1> DEFINE v == [version |-> call[c].version, expires |-> tgNow + TagTtl]
<1>1. /\ call[c] # None /\ call[c].do = "store" /\ Tag!Continue(c, 1)
      /\ store' = [store EXCEPT ![j] = v]
      /\ disturbed' = disturbed \union (IF Tag!Clears = {} THEN {} ELSE {j})
      /\ UNCHANGED <<tagged, version, tgNow, due>>
  BY DEF Tag!Store, Tag!At, Tag!Disturb
<1>2. call[c] \in Tag!Fill /\ j \in TagKeys /\ call[c].version \in Tag!Versions
  BY <1>1, TagFacts, ClearFields, FillFields
<1>3. PICK r \in {None} \union Tag!Fill :
               /\ call' = [call EXCEPT ![c] = r]
               /\ r = None => DOMAIN TagsOf[j] \subseteq 1..(1 - 1)
               /\ r # None => /\ r.do = "tag" /\ r.tag = 1 /\ 1 \in DOMAIN TagsOf[j]
                              /\ r.key = j /\ r.version = call[c].version
  <2>1. PICK m \in Nat \ {0} : m = 1
    OBVIOUS
  <2>2. \E r \in {None} \union Tag!Fill :
               /\ call' = [call EXCEPT ![c] = r]
               /\ r = None => DOMAIN TagsOf[j] \subseteq 1..(m - 1)
               /\ r # None => /\ r.do = "tag" /\ r.tag = m /\ m \in DOMAIN TagsOf[j]
                              /\ r.key = j /\ r.version = call[c].version
    <3>1. Tag!Continue(c, m)
      BY <1>1, <2>1
    <3> QED
      BY <1>2, <3>1, Continues
  <2> QED
    BY <2>1, <2>2
<1>4. /\ call' \in [TagCallers -> {None} \union Tag!Fill \union Tag!Clear]
      /\ call'[c] = r /\ \A d \in TagCallers : d # c => call'[d] = call[d]
  BY <1>3, OneCall DEF TagInv
<1>5. v \in TagValues /\ v.version = call[c].version /\ v.expires = tgNow + TagTtl
  BY <1>2, TagFacts, TagConstants DEF TagValues, Tag!Time
<1> HIDE DEF v
<1>6. store'[j] = v /\ \A k \in TagKeys : k # j => store'[k] = store[k]
  BY <1>1, <1>2, TagFacts
<1>7. Tag!TypeOK'
  <2>1. store' \in [TagKeys -> {None} \union TagValues]
    BY <1>1, <1>5, TagFacts
  <2> QED
    BY <1>1, <1>2, <1>4, <2>1 DEF TagInv, Tag!TypeOK, TagValues
<1>8. Bounds' /\ ClearsDisturb'
  <2>1. \A k \in TagKeys : store'[k] # None => store'[k].expires <= tgNow + TagTtl
    BY <1>5, <1>6, TagFacts, TagConstants
  <2> QED
    BY <1>1, <1>2, <1>3, <2>1, FillBounds
<1>9. ASSUME NEW k \in TagKeys \ disturbed' PROVE Undisturbed(k)'
  <2>0. k \notin disturbed
    BY <1>1, <1>9
  <2>1. CASE k = j
    <3>1. Undisturbed(j) /\ FillGoesOn(c, j) /\ Tag!Filling(j) = {c} /\ Tag!Clears = {}
          /\ c \in Tag!Filling(j)
      BY <1>2, <2>0, <2>1, OnlyFill
    <3>2. Tag!Clears' = {}
      BY <1>2, <1>4, <3>1, Calls, CallsNext, FillFields, ClearFields, TagFacts
    <3>3. Tag!Filling(j)' \subseteq {c}
      <4>1. Tag!Filling(j)' \subseteq TagCallers
        BY <1>4, CallsNext
      <4>2. ASSUME NEW d \in TagCallers, d # c PROVE d \notin Tag!Filling(j)'
        <5>1. call'[d] = call[d] /\ d \notin Tag!Filling(j)
          BY <1>4, <3>1, <4>2
        <5> QED
          BY <1>4, <5>1, Calls, CallsNext, TagFacts
      <4> QED
        BY <4>1, <4>2
    <3>4. v.version >= due'[j]
      BY <1>1, <1>5, <3>1 DEF FillGoesOn
    <3>5. FillGoesOn(c, j)'
      <4>1. call'[c] \in Tag!Fill => r # None /\ \A i \in 1..(call'[c].tag - 1) : FALSE
        BY <1>3, <1>4, FillFields
      <4> QED
        BY <1>1, <1>3, <1>4, <1>5, <3>1, <3>4, <4>1, CallsNext DEF FillGoesOn
    <3>6. Tag!Filling(j)' = {} => DOMAIN TagsOf[j] = {}
      <4>1. r # None => c \in Tag!Filling(j)'
        BY <1>3, <1>4, CallsNext
      <4> QED
        BY <1>3, <4>1
    <3> QED
      BY <1>6, <2>1, <3>2, <3>3, <3>4, <3>5, <3>6 DEF Undisturbed, ClearFound, FillGoesOn
  <2>2. CASE k # j
    BY <1>1, <1>2, <1>3, <1>6, <2>0, <2>2, OtherKey DEF Added
  <2> QED
    BY <2>1, <2>2
<1> QED
  BY <1>7, <1>8, <1>9 DEF TagInv

LEMMA TagTag == ASSUME TagInv, NEW c \in TagCallers, Tag!Tag(c) PROVE TagInv'
<1> PICK j : j = call[c].key
  OBVIOUS
<1> PICK n : n = call[c].tag
  OBVIOUS
<1> DEFINE t == TagsOf[j][n]
           r == [call[c] EXCEPT !.do = "expire"]
<1>1. /\ call[c] # None /\ call[c].do = "tag"
      /\ tagged' = [tagged EXCEPT ![t] = Tag!WithKey(t, j)]
      /\ call' = [call EXCEPT ![c] = r]
      /\ disturbed' = disturbed \union (IF Tag!Clears = {} THEN {} ELSE {j})
      /\ UNCHANGED <<store, version, tgNow, due>>
  BY DEF Tag!Tag, Tag!At, Tag!Disturb
<1>2. call[c] \in Tag!Fill /\ j \in TagKeys /\ n \in DOMAIN TagsOf[j]
  <2>1. call[c] \in Tag!Fill
    BY <1>1, TagFacts, ClearFields
  <2> QED
    BY <1>1, <2>1, FillFields DEF TagInv, Bounds, Tag!At
<1>3. r \in Tag!Fill /\ r.do = "expire" /\ r.tag = n /\ r.key = j /\ r.version = call[c].version
  BY <1>2 DEF Tag!Fill
<1> HIDE DEF r
<1>4. /\ call' \in [TagCallers -> {None} \union Tag!Fill \union Tag!Clear]
      /\ call'[c] = r /\ \A d \in TagCallers : d # c => call'[d] = call[d]
  BY <1>1, <1>3, OneCall DEF TagInv
<1>5. t \in Tags
  BY <1>2, TagOfKey
<1> HIDE DEF t
<1>6. /\ Tag!WithKey(t, j) \in [keys : SUBSET TagKeys, expires : Tag!Time]
      /\ Tag!WithKey(t, j).keys = tagged[t].keys \union {j}
      /\ tagged[t].keys # {} => Tag!WithKey(t, j).expires = tagged[t].expires
  <2> DEFINE x == IF tagged[t].keys = {} THEN MaxTime + TagTtl ELSE tagged[t].expires
             q == [keys |-> tagged[t].keys \union {j}, expires |-> x]
  <2>1. Tag!WithKey(t, j) = q
    BY DEF Tag!WithKey
  <2>2. MaxTime + TagTtl \in Tag!Time
    BY TagConstants DEF Tag!Time
  <2>3. tagged[t].keys \union {j} \in SUBSET TagKeys /\ tagged[t].expires \in Tag!Time
    BY <1>2, <1>5, TagFacts
  <2>4. x \in Tag!Time /\ (tagged[t].keys # {} => x = tagged[t].expires)
    BY <2>2, <2>3
  <2> HIDE DEF x
  <2>5. q \in [keys : SUBSET TagKeys, expires : Tag!Time] /\ q.expires = x
        /\ q.keys = tagged[t].keys \union {j}
    BY <2>3, <2>4
  <2> HIDE DEF q
  <2> QED
    BY <2>1, <2>4, <2>5
<1>7. \A u \in Tags : tagged'[u] = IF u = t THEN Tag!WithKey(t, j) ELSE tagged[u]
  BY <1>1, TagFacts
<1>8. \A u \in Tags : \A k \in tagged[u].keys :
          k \in tagged'[u].keys /\ tagged'[u].expires = tagged[u].expires
  BY <1>6, <1>7
<1>9. Tag!TypeOK'
  <2>1. tagged' \in [Tags -> [keys : SUBSET TagKeys, expires : Tag!Time]]
    BY <1>1, <1>6, TagFacts
  <2> QED
    BY <1>1, <1>2, <1>4, <2>1 DEF TagInv, Tag!TypeOK
<1>10. Bounds' /\ ClearsDisturb'
  BY <1>1, <1>2, <1>3, TagFacts, FillBounds
<1>11. ASSUME NEW k \in TagKeys \ disturbed' PROVE Undisturbed(k)'
  <2>1. k \notin disturbed
    BY <1>1, <1>11
  <2>2. \A i \in DOMAIN TagsOf[k] : Added(k, TagsOf[k][i]) => Added(k, TagsOf[k][i])'
    BY <1>1, <1>8, TagOfKey DEF Added
  <2>3. CASE k = j
    <3>1. Undisturbed(j) /\ FillGoesOn(c, j) /\ Tag!Filling(j) = {c} /\ Tag!Clears = {}
          /\ c \in Tag!Filling(j)
      BY <1>2, <2>1, <2>3, OnlyFill
    <3>2. Tag!Clears' = {}
      BY <1>2, <1>3, <1>4, <3>1, Calls, CallsNext, FillFields, ClearFields, TagFacts
    <3>3. Tag!Filling(j)' = {c}
      <4>1. Tag!Filling(j)' \subseteq TagCallers /\ c \in Tag!Filling(j)'
        BY <1>3, <1>4, CallsNext
      <4>2. ASSUME NEW d \in TagCallers, d # c PROVE d \notin Tag!Filling(j)'
        <5>1. call'[d] = call[d] /\ d \notin Tag!Filling(j)
          BY <1>4, <3>1, <4>2
        <5> QED
          BY <1>4, <5>1, Calls, CallsNext, TagFacts
      <4> QED
        BY <4>1, <4>2
    <3>4. FillGoesOn(c, j)'
      <4>1. j \in tagged'[TagsOf[j][n]].keys
        BY <1>5, <1>6, <1>7 DEF t
      <4>2. store[j] # None => \A i \in 1..(n - 1) : Added(j, TagsOf[j][i])
        BY <3>1 DEF FillGoesOn
      <4>3. \A i \in 1..(n - 1) : i \in DOMAIN TagsOf[j]
        BY <1>2, TagConstants
      <4> QED
        BY <1>1, <1>3, <1>4, <2>2, <2>3, <3>1, <4>1, <4>2, <4>3 DEF FillGoesOn
    <3> QED
      BY <1>1, <2>3, <3>1, <3>2, <3>3, <3>4 DEF Undisturbed, ClearFound, FillGoesOn
  <2>4. CASE k # j
    <3>1. \A i \in DOMAIN TagsOf[k] :
              k \in tagged[TagsOf[k][i]].keys => k \in tagged'[TagsOf[k][i]].keys
      BY <1>8, TagOfKey
    <3> QED
      BY <1>1, <1>2, <1>3, <2>1, <2>2, <2>4, <3>1, OtherKey
  <2> QED
    BY <2>3, <2>4
<1> QED
  BY <1>9, <1>10, <1>11 DEF TagInv

LEMMA TagExpire == ASSUME TagInv, NEW c \in TagCallers, Tag!Expire(c) PROVE TagInv'
<1> PICK j : j = call[c].key
  OBVIOUS
<1> PICK n : n = call[c].tag
  OBVIOUS
<1> DEFINE t == TagsOf[j][n]
<1>1. /\ call[c] # None /\ call[c].do = "expire" /\ Tag!Continue(c, n + 1)
      /\ tagged' = IF tagged[t].keys = {} THEN tagged
                   ELSE [tagged EXCEPT ![t].expires = tgNow + TagTtl]
      /\ disturbed' = disturbed \union (IF Tag!Clears = {} THEN {} ELSE {j})
      /\ UNCHANGED <<store, version, tgNow, due>>
  BY DEF Tag!Expire, Tag!At, Tag!Disturb, Tag!TagExpires
<1>2. call[c] \in Tag!Fill /\ j \in TagKeys /\ n \in DOMAIN TagsOf[j] /\ n \in Nat \ {0}
  <2>1. call[c] \in Tag!Fill
    BY <1>1, TagFacts, ClearFields
  <2>2. j \in TagKeys /\ n \in DOMAIN TagsOf[j]
    BY <1>1, <2>1, FillFields DEF TagInv, Bounds, Tag!At
  <2> QED
    BY <2>1, <2>2, TagConstants
<1>3. PICK r \in {None} \union Tag!Fill :
               /\ call' = [call EXCEPT ![c] = r]
               /\ r = None => DOMAIN TagsOf[j] \subseteq 1..n
               /\ r # None => /\ r.do = "tag" /\ r.tag = n + 1 /\ n + 1 \in DOMAIN TagsOf[j]
                              /\ r.key = j /\ r.version = call[c].version
  <2>1. PICK m \in Nat \ {0} : m = n + 1 /\ m - 1 = n
    BY <1>2
  <2>2. \E r \in {None} \union Tag!Fill :
               /\ call' = [call EXCEPT ![c] = r]
               /\ r = None => DOMAIN TagsOf[j] \subseteq 1..(m - 1)
               /\ r # None => /\ r.do = "tag" /\ r.tag = m /\ m \in DOMAIN TagsOf[j]
                              /\ r.key = j /\ r.version = call[c].version
    <3>1. Tag!Continue(c, m)
      BY <1>1, <2>1
    <3> QED
      BY <1>2, <3>1, Continues
  <2> QED
    BY <2>1, <2>2
<1>4. /\ call' \in [TagCallers -> {None} \union Tag!Fill \union Tag!Clear]
      /\ call'[c] = r /\ \A d \in TagCallers : d # c => call'[d] = call[d]
  BY <1>3, OneCall DEF TagInv
<1>5. t \in Tags /\ tgNow + TagTtl \in Tag!Time
  <2>1. t \in Tags
    BY <1>2, TagOfKey
  <2>2. tgNow + TagTtl \in Tag!Time
    BY TagFacts, TagConstants DEF Tag!Time
  <2> QED
    BY <2>1, <2>2
<1> HIDE DEF t
<1>6. \A u \in Tags : /\ tagged'[u].keys = tagged[u].keys
                      /\ tagged[u].keys # {} => tagged'[u].expires = IF u = t THEN tgNow + TagTtl
                                                                     ELSE tagged[u].expires
  BY <1>1, TagFacts
<1>7. ASSUME NEW k \in TagKeys, NEW u \in Tags, store[k] # None, k \in tagged[u].keys,
             u = t \/ Added(k, u)
      PROVE  Added(k, u)'
  BY <1>1, <1>6, <1>7, TagFacts DEF Added
<1>8. Tag!TypeOK'
  <2>1. tagged' \in [Tags -> [keys : SUBSET TagKeys, expires : Tag!Time]]
    BY <1>1, <1>5, TagFacts
  <2> QED
    BY <1>1, <1>2, <1>4, <2>1 DEF TagInv, Tag!TypeOK
<1>9. Bounds' /\ ClearsDisturb'
  BY <1>1, <1>2, <1>3, TagFacts, FillBounds
<1>10. ASSUME NEW k \in TagKeys \ disturbed' PROVE Undisturbed(k)'
  <2>1. k \notin disturbed
    BY <1>1, <1>10
  <2>2. CASE k = j
    <3>1. Undisturbed(j) /\ FillGoesOn(c, j) /\ Tag!Filling(j) = {c} /\ Tag!Clears = {}
          /\ c \in Tag!Filling(j)
      BY <1>2, <2>1, <2>2, OnlyFill
    <3>2. Tag!Clears' = {}
      BY <1>2, <1>3, <1>4, <3>1, Calls, CallsNext, FillFields, ClearFields, TagFacts
    <3>3. Tag!Filling(j)' \subseteq {c}
      <4>1. Tag!Filling(j)' \subseteq TagCallers
        BY <1>4, CallsNext
      <4>2. ASSUME NEW d \in TagCallers, d # c PROVE d \notin Tag!Filling(j)'
        <5>1. call'[d] = call[d] /\ d \notin Tag!Filling(j)
          BY <1>4, <3>1, <4>2
        <5> QED
          BY <1>4, <5>1, Calls, CallsNext, TagFacts
      <4> QED
        BY <4>1, <4>2
    <3>4. ASSUME store[j] # None, NEW i \in 1..n PROVE Added(j, TagsOf[j][i])'
      <4>1. i \in DOMAIN TagsOf[j] /\ (i = n \/ i \in 1..(n - 1))
        BY <1>2, TagConstants
      <4>2. j \in tagged[TagsOf[j][n]].keys /\ \A m \in 1..(n - 1) : Added(j, TagsOf[j][m])
        BY <1>1, <3>1, <3>4 DEF FillGoesOn
      <4>3. TagsOf[j][i] \in Tags
        BY <1>2, <4>1, TagOfKey
      <4> QED
        BY <1>2, <1>7, <3>4, <4>1, <4>2, <4>3 DEF t, Added
    <3>5. FillGoesOn(c, j)'
      <4>1. call'[c] \in Tag!Fill => r # None /\ (n + 1) - 1 = n
        BY <1>2, <1>4, FillFields
      <4> QED
        BY <1>1, <1>3, <1>4, <3>1, <3>4, <4>1, CallsNext DEF FillGoesOn
    <3>6. Tag!Filling(j)' = {} => DOMAIN TagsOf[j] \subseteq 1..n
      <4>1. r # None => c \in Tag!Filling(j)'
        BY <1>3, <1>4, CallsNext
      <4> QED
        BY <1>3, <4>1
    <3> QED
      BY <1>1, <2>2, <3>1, <3>2, <3>3, <3>4, <3>5, <3>6 DEF Undisturbed, ClearFound, FillGoesOn
  <2>3. CASE k # j
    <3>1. \A i \in DOMAIN TagsOf[k] :
              /\ k \in tagged[TagsOf[k][i]].keys => k \in tagged'[TagsOf[k][i]].keys
              /\ store'[k] # None /\ Added(k, TagsOf[k][i]) => Added(k, TagsOf[k][i])'
      BY <1>1, <1>6, <1>7, TagOfKey DEF Added
    <3> QED
      BY <1>1, <1>2, <1>3, <2>1, <2>3, <3>1, OtherKey
  <2> QED
    BY <2>2, <2>3
<1> QED
  BY <1>8, <1>9, <1>10 DEF TagInv

LEMMA TagFillFails == ASSUME TagInv, NEW c \in TagCallers, Tag!FillFails(c) PROVE TagInv'
<1> PICK j : j = call[c].key
  OBVIOUS
<1>1. /\ call[c] # None /\ c \notin Tag!Clears /\ call' = [call EXCEPT ![c] = None]
      /\ disturbed' = IF call[c].do \in {"tag", "expire"} THEN disturbed \union {j} ELSE disturbed
      /\ UNCHANGED <<store, tagged, version, tgNow, due>>
  BY DEF Tag!FillFails
<1>2. call[c] \in Tag!Fill /\ j \in TagKeys /\ call[c].do \in {"store", "tag", "expire"}
  BY <1>1, Calls, TagFacts, FillFields
<1>3. /\ call' \in [TagCallers -> {None} \union Tag!Fill \union Tag!Clear]
      /\ call'[c] = None /\ \A d \in TagCallers : d # c => call'[d] = call[d]
  BY <1>1, OneCall DEF TagInv
<1>4. Tag!TypeOK'
  BY <1>1, <1>2, <1>3 DEF TagInv, Tag!TypeOK
<1>5. Bounds' /\ ClearsDisturb'
  BY <1>1, <1>2, TagFacts, FillBounds
<1>6. ASSUME NEW k \in TagKeys \ disturbed' PROVE Undisturbed(k)'
  <2>1. k \notin disturbed
    BY <1>1, <1>6
  <2>2. CASE k = j
    <3>1. FillGoesOn(c, j) /\ Tag!Filling(j) = {c} /\ c \in Tag!Filling(j)
      BY <1>2, <2>1, <2>2, OnlyFill
    <3>2. store'[j] = None
      BY <1>1, <1>2, <1>6, <2>2, <3>1 DEF FillGoesOn
    <3>3. Tag!Filling(j)' = {}
      <4>1. Tag!Filling(j)' \subseteq TagCallers /\ c \notin Tag!Filling(j)'
        BY <1>3, CallsNext, TagConstants
      <4>2. ASSUME NEW d \in TagCallers, d # c PROVE d \notin Tag!Filling(j)'
        <5>1. call'[d] = call[d] /\ d \notin Tag!Filling(j)
          BY <1>3, <3>1, <4>2
        <5> QED
          BY <1>3, <5>1, Calls, CallsNext, TagFacts
      <4> QED
        BY <4>1, <4>2
    <3> QED
      BY <2>2, <3>2, <3>3 DEF Undisturbed, ClearFound, FillGoesOn
  <2>3. CASE k # j
    BY <1>1, <1>2, <2>1, <2>3, OtherKey DEF Added
  <2> QED
    BY <2>2, <2>3
<1> QED
  BY <1>4, <1>5, <1>6 DEF TagInv

LEMMA TagStartClear ==
    ASSUME TagInv, NEW c \in TagCallers, NEW t \in Tags \union {None}, Tag!StartClear(c, t)
    PROVE  TagInv'
<1> DEFINE r == [do |-> "members", tag |-> t, found |-> {}, version |-> version]
<1>1. /\ call[c] = None /\ call' = [call EXCEPT ![c] = r]
      /\ disturbed' = disturbed \union Tag!KeysBeingFilled
      /\ UNCHANGED <<store, tagged, version, tgNow, due>>
  BY DEF Tag!StartClear
<1>2. r \in Tag!Clear /\ r.do = "members" /\ r.version = version
  BY DEF TagInv, Tag!TypeOK, Tag!Clear
<1> HIDE DEF r
<1>3. /\ call' \in [TagCallers -> {None} \union Tag!Fill \union Tag!Clear]
      /\ call'[c] = r /\ \A d \in TagCallers : d # c => call'[d] = call[d]
  BY <1>1, <1>2, OneCall DEF TagInv
<1>4. r \notin Tag!Fill /\ None \notin Tag!Fill /\ r # None
  BY <1>2, FillFields, ClearFields, TagConstants
<1>5. ASSUME NEW k PROVE Tag!Filling(k)' = Tag!Filling(k)
  <2>1. Tag!Filling(k)' \subseteq TagCallers /\ Tag!Filling(k) \subseteq TagCallers
    BY <1>3, Calls, CallsNext, TagFacts
  <2>2. ASSUME NEW d \in TagCallers PROVE d \in Tag!Filling(k)' <=> d \in Tag!Filling(k)
    BY <1>1, <1>3, <1>4, Calls, CallsNext, TagFacts
  <2> QED
    BY <2>1, <2>2
<1>6. ClearsDisturb' /\ Tag!KeysBeingFilled \subseteq TagKeys
  BY <1>1, <1>5 DEF ClearsDisturb, Tag!KeysBeingFilled
<1>7. Tag!TypeOK'
  BY <1>1, <1>3, <1>6 DEF TagInv, Tag!TypeOK
<1>8. Bounds'
  <2>1. ASSUME NEW d \in TagCallers, d \in Tag!Clears' PROVE call'[d].version <= version'
    <3>1. CASE d = c
      BY <1>1, <1>2, <1>3, <3>1, TagFacts
    <3>2. CASE d # c
      BY <1>1, <1>3, <2>1, <3>2, Calls, CallsNext, TagFacts DEF TagInv, Bounds
    <3> QED
      BY <3>1, <3>2
  <2>2. \A d \in TagCallers : Tag!At(d, "tag")' \/ Tag!At(d, "expire")' =>
                                 call'[d].tag \in DOMAIN TagsOf[call'[d].key]
    BY <1>2, <1>3 DEF TagInv, Bounds, Tag!At
  <2>3. \A d \in TagCallers : Tag!At(d, "untag")' => call'[d].tag # None
    BY <1>2, <1>3 DEF TagInv, Bounds, Tag!At
  <2>4. Tag!Clears' \subseteq TagCallers
    BY <1>3, CallsNext
  <2> QED
    BY <1>1, <2>1, <2>2, <2>3, <2>4 DEF TagInv, Bounds
<1>9. ASSUME NEW k \in TagKeys \ disturbed' PROVE Undisturbed(k)'
  <2>1. k \notin disturbed /\ Undisturbed(k)
    BY <1>1, <1>9 DEF TagInv
  <2>2. c \notin Tag!Filling(k) /\ c \notin Tag!Filling(k)'
    BY <1>1, <1>4, <1>5, Calls, TagFacts
  <2>3. ClearFound(c, k)'
    BY <1>2, <1>3 DEF ClearFound
  <2> QED
    BY <1>1, <1>3, <2>1, <2>2, <2>3, KeyKept DEF TagInv, Added
<1> QED
  BY <1>6, <1>7, <1>8, <1>9 DEF TagInv

\* A clear that goes on, with what it finds and deletes, or ends.
LEMMA ClearStep ==
    ASSUME TagInv, NEW c \in TagCallers, call[c] \in Tag!Clear,
           NEW r \in {None} \union Tag!Clear,
           r # None => r.version = call[c].version /\ (r.do = "untag" => r.tag # None),
           call' = [call EXCEPT ![c] = r], UNCHANGED <<version, tgNow, disturbed>>,
           store' \in [TagKeys -> {None} \union TagValues],
           \A k \in TagKeys : store'[k] \in {None, store[k]},
           tagged' \in [Tags -> [keys : SUBSET TagKeys, expires : Tag!Time]],
           \/ due' = due
           \/ due' = [k \in TagKeys |->
                        IF k \in Tag!ReachedBy(call[c].tag) \ disturbed /\ due[k] < call[c].version
                        THEN call[c].version ELSE due[k]],
           \A k \in TagKeys \ disturbed : k \in Tag!ReachedBy(call[c].tag) =>
                                             due' = due \/ store'[k] = None,
           \A k \in TagKeys \ disturbed : ClearFound(c, k)',
           \A k \in TagKeys \ disturbed : \A i \in DOMAIN TagsOf[k] :
               store'[k] # None /\ Added(k, TagsOf[k][i]) => Added(k, TagsOf[k][i])'
    PROVE  TagInv'
<1>1. /\ call' \in [TagCallers -> {None} \union Tag!Fill \union Tag!Clear]
      /\ call'[c] = r /\ \A d \in TagCallers : d # c => call'[d] = call[d]
  BY OneCall DEF TagInv
<1>2. r \notin Tag!Fill /\ call[c] \notin Tag!Fill /\ call[c].version \in Tag!Versions
      /\ call[c].version \in Nat /\ call[c].version <= version
  <2>1. r \notin Tag!Fill /\ call[c] \notin Tag!Fill /\ call[c].version \in Tag!Versions
    BY FillFields, ClearFields, TagConstants
  <2>2. c \in Tag!Clears
    BY Calls, TagFacts
  <2>3. call[c].version \in Nat
    BY <2>1, TagConstants DEF Tag!Versions
  <2> QED
    BY <2>1, <2>2, <2>3 DEF TagInv, Bounds
<1>3. due' \in [TagKeys -> Tag!Versions] /\ \A k \in TagKeys : due'[k] <= version
  BY <1>2, TagFacts
<1>4. Tag!TypeOK'
  BY <1>1, <1>3 DEF TagInv, Tag!TypeOK, TagValues
<1>5. ClearsDisturb'
  BY <1>1, <1>2, KeepsDisturbed DEF TagInv
<1>6. Bounds'
  <2>1. ASSUME NEW d \in TagCallers, d \in Tag!Clears' PROVE call'[d].version <= version'
    <3>1. CASE d = c
      BY <1>1, <1>2, <2>1, <3>1, CallsNext, TagConstants
    <3>2. CASE d # c
      BY <1>1, <2>1, <3>2, Calls, CallsNext, TagFacts DEF TagInv, Bounds
    <3> QED
      BY <3>1, <3>2
  <2>2. ASSUME NEW d \in TagCallers, Tag!At(d, "tag")' \/ Tag!At(d, "expire")'
        PROVE  call'[d].tag \in DOMAIN TagsOf[call'[d].key]
    <3>1. d # c
      BY <1>1, <2>2, ClearFields DEF Tag!At
    <3> QED
      BY <1>1, <2>2, <3>1 DEF TagInv, Bounds, Tag!At
  <2>3. \A d \in TagCallers : Tag!At(d, "untag")' => call'[d].tag # None
    BY <1>1 DEF TagInv, Bounds, Tag!At
  <2>4. Tag!Clears' \subseteq TagCallers
    BY <1>1, CallsNext
  <2>5. \A k \in TagKeys : store'[k] # None => store'[k].expires <= tgNow' + TagTtl
    BY TagFacts
  <2> QED
    BY <1>3, <2>1, <2>2, <2>3, <2>4, <2>5 DEF Bounds
<1>7. ASSUME NEW k \in TagKeys \ disturbed' PROVE Undisturbed(k)'
  <2>1. k \notin disturbed /\ Undisturbed(k)
    BY <1>7 DEF TagInv
  <2>2. c \in Tag!Clears /\ c \notin Tag!Filling(k) /\ c \notin Tag!Filling(k)'
    BY <1>1, <1>2, Calls, CallsNext, TagFacts
  <2>3. Tag!Filling(k) = {}
    BY <2>1, <2>2 DEF TagInv, ClearsDisturb, Tag!KeysBeingFilled
  <2>4. due'[k] = due[k] \/ store'[k] = None
    BY <2>1, TagFacts
  <2> QED
    BY <1>1, <2>1, <2>2, <2>3, <2>4, KeyKept DEF TagInv
<1> QED
  BY <1>4, <1>5, <1>6, <1>7 DEF TagInv

LEMMA TagMembers == ASSUME TagInv, NEW c \in TagCallers, Tag!Members(c) PROVE TagInv'
<1> DEFINE found == IF call[c].tag = None THEN {k \in TagKeys : store[k] # None}
                    ELSE tagged[call[c].tag].keys
           q == [call[c] EXCEPT !.do = "delete", !.found = found]
<1>1. /\ call[c] # None /\ call[c].do = "members"
      /\ IF found = {} THEN Tag!FinishClear(c) ELSE call' = [call EXCEPT ![c] = q] /\ due' = due
      /\ UNCHANGED <<store, tagged, version, tgNow, disturbed>>
  BY DEF Tag!Members, Tag!At
<1>2. call[c] \in Tag!Clear /\ call[c].tag \in Tags \union {None}
  BY <1>1, TagFacts, FillFields, ClearFields
<1>3. c \in Tag!Clears /\ found \in SUBSET TagKeys
  BY <1>2, Calls, TagFacts
<1>4. ASSUME NEW k \in TagKeys \ disturbed, k \in Tag!ReachedBy(call[c].tag), store[k] # None
      PROVE  k \in found
  <2>1. CASE call[c].tag = None
    BY <1>4, <2>1
  <2>2. CASE call[c].tag # None
    <3>1. PICK i \in DOMAIN TagsOf[k] : TagsOf[k][i] = call[c].tag
      BY <1>4, <2>2 DEF Tag!ReachedBy
    <3>2. Tag!Filling(k) = {}
      BY <1>3, <1>4 DEF TagInv, ClearsDisturb, Tag!KeysBeingFilled
    <3>3. Added(k, TagsOf[k][i])
      BY <1>4, <3>2 DEF TagInv, Undisturbed
    <3> QED
      BY <2>2, <3>1, <3>3 DEF Added
  <2> QED
    BY <2>1, <2>2
<1>5. CASE found = {}
  <2>1. call' = [call EXCEPT ![c] = None] /\ Tag!FinishClear(c)
    BY <1>1, <1>5 DEF Tag!FinishClear
  <2>2. \A k : ClearFound(c, k)'
    <3>1. call'[c] = None
      BY <2>1, OneCall DEF TagInv
    <3> QED
      BY <3>1, ClearFields DEF ClearFound, Tag!Clears
  <2> HIDE DEF found
  <2> QED
    BY <1>1, <1>2, <1>4, <1>5, <2>1, <2>2, TagFacts, ClearStep DEF Tag!FinishClear, Added
<1>6. CASE found # {}
  <2>1. call' = [call EXCEPT ![c] = q] /\ due' = due
    BY <1>1, <1>6
  <2> HIDE DEF found
  <2>2. /\ q \in Tag!Clear /\ q.do = "delete" /\ q.found = found /\ q.tag = call[c].tag
        /\ q.version = call[c].version
    BY <1>2, <1>3 DEF Tag!Clear
  <2> HIDE DEF q
  <2>3. call'[c] = q
    BY <2>1, <2>2, OneCall DEF TagInv
  <2>4. \A k \in TagKeys \ disturbed : ClearFound(c, k)'
    BY <1>1, <1>4, <2>2, <2>3 DEF ClearFound, Tag!ReachedBy
  <2> QED
    BY <1>1, <1>2, <2>1, <2>2, <2>4, TagFacts, ClearStep DEF Added
<1> QED
  BY <1>5, <1>6

LEMMA TagDeleteKeys == ASSUME TagInv, NEW c \in TagCallers, Tag!DeleteKeys(c) PROVE TagInv'
<1> DEFINE q == [call[c] EXCEPT !.do = "untag"]
<1>1. /\ call[c] # None /\ call[c].do = "delete"
      /\ store' = [k \in TagKeys |-> IF k \in call[c].found THEN None ELSE store[k]]
      /\ IF call[c].tag = None THEN Tag!FinishClear(c)
         ELSE call' = [call EXCEPT ![c] = q] /\ due' = due
      /\ UNCHANGED <<tagged, version, tgNow, disturbed>>
  BY DEF Tag!DeleteKeys, Tag!At, Tag!Remaining
<1>2. call[c] \in Tag!Clear /\ call[c].tag \in Tags \union {None} /\ c \in Tag!Clears
  BY <1>1, TagFacts, FillFields, ClearFields, Calls
<1>3. /\ store' \in [TagKeys -> {None} \union TagValues]
      /\ \A k \in TagKeys : store'[k] \in {None, store[k]}
  BY <1>1, TagFacts
<1>4. \A k \in TagKeys \ disturbed : k \in Tag!ReachedBy(call[c].tag) => store'[k] = None
  <2>1. \A k \in TagKeys \ disturbed : ClearFound(c, k)
    BY DEF TagInv, Undisturbed
  <2> QED
    BY <1>1, <1>2, <2>1 DEF ClearFound
<1>5. \A k \in TagKeys, t \in Tags : store'[k] # None /\ Added(k, t) => Added(k, t)'
  BY <1>1, <1>3 DEF Added
<1>6. CASE call[c].tag = None
  <2>1. call' = [call EXCEPT ![c] = None] /\ Tag!FinishClear(c)
    BY <1>1, <1>6 DEF Tag!FinishClear
  <2>2. \A k : ClearFound(c, k)'
    <3>1. call'[c] = None
      BY <2>1, OneCall DEF TagInv
    <3> QED
      BY <3>1, ClearFields DEF ClearFound, Tag!Clears
  <2> QED
    BY <1>1, <1>2, <1>3, <1>4, <1>5, <2>1, <2>2, TagOfKey, TagFacts, ClearStep DEF Tag!FinishClear
<1>7. CASE call[c].tag # None
  <2>1. call' = [call EXCEPT ![c] = q] /\ due' = due
    BY <1>1, <1>7
  <2>2. /\ q \in Tag!Clear /\ q.do = "untag" /\ q.tag = call[c].tag
        /\ q.version = call[c].version
    BY <1>2 DEF Tag!Clear
  <2> HIDE DEF q
  <2>3. call'[c] = q
    BY <2>1, <2>2, OneCall DEF TagInv
  <2>4. \A k \in TagKeys \ disturbed : ClearFound(c, k)'
    BY <1>4, <2>2, <2>3 DEF ClearFound, Tag!ReachedBy
  <2> QED
    BY <1>1, <1>2, <1>3, <1>4, <1>5, <1>7, <2>1, <2>2, <2>4, TagOfKey, TagFacts, ClearStep
<1> QED
  BY <1>6, <1>7

LEMMA TagUntag == ASSUME TagInv, NEW c \in TagCallers, Tag!Untag(c) PROVE TagInv'
<1>1. /\ call[c] # None /\ call[c].do = "untag" /\ Tag!FinishClear(c)
      /\ tagged' = [tagged EXCEPT ![call[c].tag] = Tag!NoTag]
      /\ UNCHANGED <<store, version, tgNow, disturbed>>
  BY DEF Tag!Untag, Tag!At
<1>2. call[c] \in Tag!Clear /\ call[c].tag \in Tags /\ c \in Tag!Clears
  <2>1. call[c] \in Tag!Clear /\ c \in Tag!Clears
    BY <1>1, TagFacts, FillFields, Calls
  <2> QED
    BY <1>1, <2>1, ClearFields DEF TagInv, Bounds, Tag!At
<1>3. tagged' \in [Tags -> [keys : SUBSET TagKeys, expires : Tag!Time]]
  <2>1. Tag!NoTag \in [keys : SUBSET TagKeys, expires : Tag!Time]
    BY TagConstants DEF Tag!NoTag, Tag!Time
  <2> QED
    BY <1>1, <2>1, TagFacts
<1>4. \A k \in TagKeys \ disturbed : k \in Tag!ReachedBy(call[c].tag) => store[k] = None
  <2>1. \A k \in TagKeys \ disturbed : ClearFound(c, k)
    BY DEF TagInv, Undisturbed
  <2> QED
    BY <1>1, <1>2, <2>1 DEF ClearFound
<1>5. ASSUME NEW k \in TagKeys \ disturbed, NEW i \in DOMAIN TagsOf[k],
             store'[k] # None, Added(k, TagsOf[k][i])
      PROVE  Added(k, TagsOf[k][i])'
  <2>1. TagsOf[k][i] # call[c].tag
    BY <1>1, <1>2, <1>4, <1>5, TagConstants DEF Tag!ReachedBy
  <2> QED
    BY <1>1, <1>2, <1>5, <2>1, TagOfKey, TagFacts DEF Added
<1>6. call' = [call EXCEPT ![c] = None]
  BY <1>1 DEF Tag!FinishClear
<1>7. \A k : ClearFound(c, k)'
  <2>1. call'[c] = None
    BY <1>6, OneCall DEF TagInv
  <2> QED
    BY <2>1, ClearFields DEF ClearFound, Tag!Clears
<1> QED
  BY <1>1, <1>2, <1>3, <1>4, <1>5, <1>6, <1>7, TagFacts, ClearStep DEF Tag!FinishClear

LEMMA TagClearFails == ASSUME TagInv, NEW c \in TagCallers, Tag!ClearFails(c) PROVE TagInv'
<1>1. /\ c \in Tag!Clears /\ call' = [call EXCEPT ![c] = None]
      /\ UNCHANGED <<store, tagged, version, tgNow, disturbed, due>>
  BY DEF Tag!ClearFails
<1>2. call[c] \in Tag!Clear
  BY <1>1, Calls, TagFacts
<1>3. \A k : ClearFound(c, k)'
  <2>1. call'[c] = None
    BY <1>1, OneCall DEF TagInv
  <2> QED
    BY <2>1, ClearFields DEF ClearFound, Tag!Clears
<1> QED
  BY <1>1, <1>2, <1>3, TagFacts, ClearStep DEF Added

LEMMA TagInit == Tag!Init => TagInv
<1> SUFFICES ASSUME Tag!Init PROVE TagInv
  OBVIOUS
<1>1. 0 \in Tag!Versions /\ 0 \in 0..MaxTime /\ 0 \in Tag!Time
  BY TagConstants DEF Tag!Versions, Tag!Time
<1>2. Tag!NoTag \in [keys : SUBSET TagKeys, expires : Tag!Time]
  BY <1>1 DEF Tag!NoTag
<1>3. Tag!TypeOK
  BY <1>1, <1>2 DEF Tag!Init, Tag!TypeOK
<1>4. Tag!Clears = {} /\ \A k : Tag!Filling(k) = {}
  BY DEF Tag!Init, Tag!Clears, Tag!Filling
<1>5. Bounds
  BY <1>4 DEF Tag!Init, Bounds, Tag!At
<1>6. \A k \in TagKeys : Undisturbed(k)
  BY <1>4 DEF Tag!Init, Undisturbed, ClearFound, FillGoesOn
<1> QED
  BY <1>3, <1>4, <1>5, <1>6 DEF TagInv, ClearsDisturb

LEMMA TagStep == TagInv /\ [Tag!Next]_taggedVars => TagInv'
<1> SUFFICES ASSUME TagInv, [Tag!Next]_taggedVars PROVE TagInv'
  OBVIOUS
<1>1. CASE UNCHANGED taggedVars
  BY <1>1 DEF taggedVars, TagInv, Tag!TypeOK, Bounds, ClearsDisturb, Undisturbed, ClearFound,
     FillGoesOn, Added, Tag!At, Tag!Clears, Tag!Filling, Tag!KeysBeingFilled, Tag!ReachedBy
<1> QED
  BY <1>1, TagTick, TagChange, TagDelete, TagMiss, TagStore, TagTag, TagExpire, TagFillFails,
     TagStartClear, TagMembers, TagDeleteKeys, TagUntag, TagClearFails DEF Tag!Next

LEMMA TagCleared == TagInv => ClearedIsGone
  BY DEF TagInv, Undisturbed, ClearedIsGone, Tag!ClearedIsGone

------------------------------------------------------------------------------
(* FeatureFlags *)

\* The answer that is right now is recorded as right now.
Recorded ==
    \A p \in Processes, u \in Users : trueAt[p][u][Flag!Answer(flag, u, flNow)] = flNow

\* A kept answer was right when it was kept or later.
KeptWereRight ==
    \A p \in Processes, u \in Users : answers[p][u] # None =>
        /\ trueAt[p][u][answers[p][u].value] # None
        /\ answers[p][u].at <= trueAt[p][u][answers[p][u].value]
        /\ answers[p][u].at <= flNow

FlagInv == Flag!TypeOK /\ Recorded /\ KeptWereRight

LEMMA AnswerType == \A f, u, at : Flag!Answer(f, u, at) \in BOOLEAN
  BY DEF Flag!Answer

LEMMA FlagInit == Flag!Init => FlagInv
<1> SUFFICES ASSUME Flag!Init PROVE FlagInv
  OBVIOUS
<1>1. MaxTime \in Nat /\ 0 \in Flag!Time
  BY CachesAssumption DEF Flag!FeatureFlagsAssumption, Flag!Time
<1>2. [Flag!NotYet EXCEPT ![FALSE] = 0] \in [BOOLEAN -> {None} \union Flag!Time]
  BY <1>1 DEF Flag!NotYet
<1>3. Flag!TypeOK
  BY <1>1, <1>2 DEF Flag!Init, Flag!TypeOK
<1>4. \A u : Flag!Answer(None, u, 0) = FALSE
  BY DEF Flag!Answer
<1>5. Recorded
  BY <1>4 DEF Flag!Init, Recorded, Flag!NotYet
<1>6. KeptWereRight
  BY DEF Flag!Init, KeptWereRight
<1> QED
  BY <1>3, <1>5, <1>6 DEF FlagInv

\* A change of the flag or the clock, with the answers that are left of those kept.
LEMMA FlagChanged ==
    ASSUME FlagInv, NEW fresh \in SUBSET Processes, Flag!Record(flag', flNow', fresh),
           flNow' \in Flag!Time, flNow' >= flNow, flag' \in {None} \union Flag!Flags,
           changing' \in [Processes -> {None} \union Flag!Flags],
           answers' = [p \in Processes |->
                         IF p \in fresh THEN [u \in Users |-> None] ELSE answers[p]]
    PROVE  FlagInv'
<1>1. /\ trueAt' \in [Processes -> [Users -> [BOOLEAN -> {None} \union Flag!Time]]]
      /\ \A p \in Processes, u \in Users, b \in BOOLEAN :
           trueAt'[p][u][b] = IF b = Flag!Answer(flag', u, flNow') THEN flNow'
                              ELSE IF p \in fresh THEN None ELSE trueAt[p][u][b]
  <2> PICK at : at = flNow'
    OBVIOUS
  <2> DEFINE T == {None} \union Flag!Time
             right(u) == Flag!Answer(flag', u, flNow')
             old(p, u) == IF p \in fresh THEN Flag!NotYet ELSE trueAt[p][u]
             new(p, u) == [old(p, u) EXCEPT ![right(u)] = at]
  <2>1. trueAt' = [p \in Processes |-> [u \in Users |-> new(p, u)]]
    BY DEF Flag!Record
  <2>2. ASSUME NEW p \in Processes, NEW u \in Users
        PROVE  /\ old(p, u) \in [BOOLEAN -> T]
               /\ \A b \in BOOLEAN : old(p, u)[b] = IF p \in fresh THEN None ELSE trueAt[p][u][b]
    BY DEF Flag!NotYet, FlagInv, Flag!TypeOK
  <2>3. at \in T /\ \A u : right(u) \in BOOLEAN
    BY AnswerType DEF T
  <2> HIDE DEF T, old, right
  <2>4. ASSUME NEW p \in Processes, NEW u \in Users
        PROVE  /\ new(p, u) \in [BOOLEAN -> T]
               /\ \A b \in BOOLEAN :
                    new(p, u)[b] = IF b = right(u) THEN at ELSE old(p, u)[b]
    BY <2>2, <2>3
  <2> HIDE DEF new
  <2> QED
    BY <2>1, <2>2, <2>4 DEF T, right
<1>2. Recorded'
  BY <1>1, AnswerType DEF Recorded
<1>3. answers \in [Processes -> [Users -> {None} \union [value : BOOLEAN, at : Flag!Time]]]
  BY DEF FlagInv, Flag!TypeOK
<1>4. answers' \in [Processes -> [Users -> {None} \union [value : BOOLEAN, at : Flag!Time]]]
  BY <1>3
<1>5. Flag!TypeOK'
  BY <1>1, <1>4 DEF Flag!TypeOK
<1>6. ASSUME NEW p \in Processes, NEW u \in Users, answers'[p][u] # None
      PROVE  /\ trueAt'[p][u][answers'[p][u].value] # None
             /\ answers'[p][u].at <= trueAt'[p][u][answers'[p][u].value]
             /\ answers'[p][u].at <= flNow'
  <2>1. p \notin fresh /\ answers'[p][u] = answers[p][u] /\ answers[p][u] # None
    BY <1>3, <1>6
  <2> DEFINE a == answers[p][u]
             t == trueAt[p][u][a.value]
  <2>2. a.value \in BOOLEAN /\ a.at \in Flag!Time
    BY <1>3, <2>1
  <2>3. t # None /\ a.at <= t /\ a.at <= flNow
    BY <2>1 DEF FlagInv, KeptWereRight
  <2>4. trueAt'[p][u][a.value] \in {flNow', t}
    BY <1>1, <2>1, <2>2
  <2>5. flNow \in Nat /\ flNow' \in Nat /\ None \notin Nat
    BY CachesAssumption DEF FlagInv, Flag!TypeOK, Flag!Time, Flag!FeatureFlagsAssumption
  <2>6. a.at \in Nat
    BY <2>2 DEF Flag!Time
  <2> HIDE DEF a, t
  <2> QED
    BY <2>1, <2>3, <2>4, <2>5, <2>6 DEF a
<1> QED
  BY <1>2, <1>5, <1>6 DEF FlagInv, KeptWereRight

LEMMA FlagStep == FlagInv /\ [Flag!Next]_flagVars => FlagInv'
<1> SUFFICES ASSUME FlagInv, [Flag!Next]_flagVars PROVE FlagInv'
  OBVIOUS
<1>1. /\ Flag!TypeOK /\ MaxTime \in Nat /\ Lifetime \in Nat /\ None \notin Nat
      /\ flNow \in Flag!Time /\ flNow \in Nat
  BY CachesAssumption DEF FlagInv, Flag!TypeOK, Flag!Time, Flag!FeatureFlagsAssumption
<1>2. answers = [p \in Processes |-> IF p \in {} THEN [u \in Users |-> None] ELSE answers[p]]
  BY <1>1 DEF Flag!TypeOK
<1>3. CASE Flag!Tick
  <2>1. flNow' \in Flag!Time /\ flNow' >= flNow /\ UNCHANGED <<flag, answers, changing>>
    BY <1>1, <1>3 DEF Flag!Tick, Flag!Time
  <2>2. Flag!Record(flag', flNow', {})
    BY <1>3, <2>1 DEF Flag!Tick
  <2> QED
    BY <1>1, <1>2, <2>1, <2>2, FlagChanged DEF Flag!TypeOK
<1>4. ASSUME NEW p \in Processes, NEW u \in Users, Flag!IsEnabled(p, u) PROVE FlagInv'
  <2> DEFINE a == [value |-> Flag!Answer(flag, u, flNow), at |-> flNow]
  <2>1. /\ answers' = [answers EXCEPT ![p][u] = a]
        /\ UNCHANGED <<flag, changing, flNow, trueAt>>
    BY <1>4 DEF Flag!IsEnabled
  <2>2. a \in [value : BOOLEAN, at : Flag!Time]
    BY <1>1, AnswerType
  <2>3. trueAt[p][u][a.value] = flNow /\ a.at = flNow
    BY DEF FlagInv, Recorded
  <2> HIDE DEF a
  <2>4. Flag!TypeOK'
    BY <1>1, <2>1, <2>2 DEF Flag!TypeOK
  <2>5. Recorded'
    BY <2>1 DEF FlagInv, Recorded
  <2>6. answers'[p][u] = a /\ \A q \in Processes, w \in Users :
            <<q, w>> # <<p, u>> => answers'[q][w] = answers[q][w]
    BY <1>1, <2>1 DEF Flag!TypeOK
  <2>7. KeptWereRight'
    BY <1>1, <2>1, <2>3, <2>6 DEF FlagInv, KeptWereRight
  <2> QED
    BY <2>4, <2>5, <2>7 DEF FlagInv
<1>5. ASSUME NEW p \in Processes, NEW enabled \in BOOLEAN, Flag!StartChange(p, enabled)
      PROVE  FlagInv'
  <2>1. /\ changing' = [changing EXCEPT ![p] = [flag EXCEPT !.enabled = enabled]]
        /\ flag # None /\ UNCHANGED <<flag, answers, flNow, trueAt>>
    BY <1>5 DEF Flag!StartChange
  <2>2. [flag EXCEPT !.enabled = enabled] \in Flag!Flags
    BY <1>1, <2>1 DEF Flag!TypeOK, Flag!Flags
  <2>3. Flag!TypeOK'
    BY <1>1, <2>1, <2>2 DEF Flag!TypeOK
  <2> QED
    BY <2>1, <2>3 DEF FlagInv, Recorded, KeptWereRight
<1>6. ASSUME NEW p \in Processes, Flag!Change(p) PROVE FlagInv'
  <2>1. /\ flag' \in {flag, changing[p]} /\ changing[p] # None /\ UNCHANGED flNow
        /\ answers' = [answers EXCEPT ![p] = [u \in Users |-> None]]
        /\ changing' = [changing EXCEPT ![p] = None]
        /\ Flag!Record(flag', flNow, {p})
    BY <1>6 DEF Flag!Change, Flag!CacheAfterChange
  <2>2. flag' \in {None} \union Flag!Flags /\ changing' \in [Processes -> {None} \union Flag!Flags]
    BY <1>1, <2>1 DEF Flag!TypeOK
  <2>3. answers' = [q \in Processes |-> IF q \in {p} THEN [u \in Users |-> None] ELSE answers[q]]
    BY <1>1, <2>1 DEF Flag!TypeOK
  <2>4. Flag!Record(flag', flNow', {p}) /\ flNow' >= flNow
    BY <1>1, <2>1
  <2> QED
    BY <1>1, <2>1, <2>2, <2>3, <2>4, FlagChanged
<1>7. ASSUME NEW p \in Processes, NEW type \in DOMAIN Reached, NEW enabled \in BOOLEAN,
             NEW lasts \in BOOLEAN, Flag!CreateFlag(p, type, enabled, lasts)
      PROVE  FlagInv'
  <2>1. /\ flag' = [type |-> type, enabled |-> enabled,
                    expires |-> IF lasts THEN flNow + Lifetime ELSE None]
        /\ UNCHANGED <<answers, changing, flNow>> /\ Flag!Record(flag', flNow, {})
    BY <1>7 DEF Flag!CreateFlag
  <2>2. (IF lasts THEN flNow + Lifetime ELSE None) \in {None} \union (0..(MaxTime + Lifetime))
    BY <1>1 DEF Flag!Time
  <2>3. flag' \in Flag!Flags
    BY <2>1, <2>2 DEF Flag!Flags
  <2>4. Flag!Record(flag', flNow', {}) /\ flNow' >= flNow /\ answers' = answers
    BY <1>1, <2>1
  <2> QED
    BY <1>1, <1>2, <2>1, <2>3, <2>4, FlagChanged DEF Flag!TypeOK
<1>8. ASSUME NEW p \in Processes, Flag!Delete(p) PROVE FlagInv'
  <2>1. flag' = None /\ UNCHANGED <<answers, changing, flNow>> /\ Flag!Record(flag', flNow, {})
    BY <1>8 DEF Flag!Delete
  <2>2. Flag!Record(flag', flNow', {}) /\ flNow' >= flNow /\ answers' = answers
    BY <1>1, <2>1
  <2> QED
    BY <1>1, <1>2, <2>1, <2>2, FlagChanged DEF Flag!TypeOK
<1>9. CASE UNCHANGED flagVars
  <2>1. UNCHANGED <<flag, answers, changing, flNow, trueAt>>
    BY <1>9 DEF flagVars
  <2>2. Flag!TypeOK'
    BY <1>1, <2>1 DEF Flag!TypeOK
  <2> QED
    BY <2>1, <2>2 DEF FlagInv, Recorded, KeptWereRight
<1> QED
  BY <1>3, <1>4, <1>5, <1>6, <1>7, <1>8, <1>9 DEF Flag!Next

LEMMA FlagRecent == FlagInv => CachedAnswersRecent
<1> SUFFICES ASSUME FlagInv, NEW p \in Processes, NEW u \in Users, Flag!Cached(p, u)
             PROVE  /\ trueAt[p][u][answers[p][u].value] # None
                    /\ flNow - trueAt[p][u][answers[p][u].value] < CacheTtl
  BY DEF CachedAnswersRecent, Flag!CachedAnswersRecent
<1> DEFINE a == answers[p][u]
           t == trueAt[p][u][a.value]
<1>1. a # None /\ flNow - a.at < CacheTtl
  BY DEF Flag!Cached
<1>2. t # None /\ a.at <= t
  BY <1>1 DEF FlagInv, KeptWereRight
<1>3. a \in [value : BOOLEAN, at : Flag!Time]
  BY <1>1 DEF FlagInv, Flag!TypeOK
<1>4. t \in Flag!Time /\ flNow \in Flag!Time
  BY <1>2, <1>3 DEF FlagInv, Flag!TypeOK
<1>5. a.at \in Nat /\ t \in Nat /\ flNow \in Nat /\ CacheTtl \in Nat
  BY <1>3, <1>4, CachesAssumption DEF Flag!Time, Flag!FeatureFlagsAssumption
<1> QED
  BY <1>1, <1>2, <1>5

------------------------------------------------------------------------------
(* CacheMaintenance *)

\* While no two calls of start() have overlapped at most one awaits, and the flag is down.
OneStarts ==
    overlapped \/ /\ \A s, t \in starting : s = t
                  /\ starting # {} => ~running

MaintenanceInv ==
    /\ Maintenance!TypeOK
    /\ alive \subseteq 1..made
    /\ made + Cardinality(starting) <= MaxTasks
    /\ OneStarts
    /\ OneTaskRuns

\* The instance has its own copies of the operators of FiniteSets.
LEMMA SameFiniteSets ==
    \A S : /\ Maintenance!IsFiniteSet(S) <=> IsFiniteSet(S)
           /\ Maintenance!Cardinality(S) = Cardinality(S)
  BY DEF Maintenance!IsFiniteSet, IsFiniteSet, Maintenance!Cardinality, Cardinality

LEMMA MaintenanceInit == Maintenance!Init => MaintenanceInv
<1> SUFFICES ASSUME Maintenance!Init PROVE MaintenanceInv
  OBVIOUS
<1>1. MaxTasks \in Nat /\ Cardinality({}) = 0
  BY CachesAssumption, FS_EmptySet DEF Maintenance!MaintenanceAssumption
<1>2. running \in BOOLEAN /\ overlapped \in BOOLEAN
  BY Zenon DEF Maintenance!Init
<1>3. 0 \in 0..MaxTasks
  BY <1>1
<1>4. Maintenance!TypeOK
  BY <1>2, <1>3, Zenon DEF Maintenance!Init, Maintenance!TypeOK
<1> QED
  BY <1>1, <1>4
     DEF Maintenance!Init, MaintenanceInv, OneStarts, OneTaskRuns, Maintenance!OneTaskRuns

LEMMA MaintenanceStep == MaintenanceInv /\ [Maintenance!Next]_maintenanceVars => MaintenanceInv'
<1> SUFFICES ASSUME MaintenanceInv, [Maintenance!Next]_maintenanceVars PROVE MaintenanceInv'
  OBVIOUS
<1>0. MaxTasks \in Nat /\ None \notin Nat /\ IsFiniteSet(Starters)
  BY CachesAssumption, SameFiniteSets
     DEF Flag!FeatureFlagsAssumption, Maintenance!MaintenanceAssumption
<1>1. /\ Maintenance!TypeOK
      /\ MaxTasks \in Nat /\ None \notin Nat /\ IsFiniteSet(Starters)
      /\ made \in Nat /\ made <= MaxTasks
  <2>1. Maintenance!TypeOK
    BY DEF MaintenanceInv
  <2>2. made \in 0..MaxTasks
    BY <2>1 DEF Maintenance!TypeOK
  <2> QED
    BY <1>0, <2>1, <2>2
<1> USE DEF Maintenance!Tasks, OneTaskRuns, Maintenance!OneTaskRuns
<1>2. IsFiniteSet(starting) /\ Cardinality(starting) \in Nat
  BY <1>1, FS_Subset, FS_CardinalityType DEF Maintenance!TypeOK
<1>3. /\ alive \subseteq 1..made
      /\ made + Cardinality(starting) <= MaxTasks
      /\ OneStarts
      /\ OneTaskRuns
  BY DEF MaintenanceInv
<1>4. ASSUME NEW s \in Starters, Maintenance!Start(s) PROVE MaintenanceInv'
  <2>1. /\ s \notin starting /\ ~running /\ made + Cardinality(starting) < MaxTasks
        /\ starting' = starting \union {s}
        /\ overlapped' = (overlapped \/ starting # {})
        /\ UNCHANGED <<running, task, alive, cancelled, stopping, made>>
    BY <1>4, SameFiniteSets DEF Maintenance!Start
  <2>2. Cardinality(starting') = Cardinality(starting) + 1
    BY <1>2, <2>1, FS_AddElement
  <2>3. made' + Cardinality(starting') <= MaxTasks
    BY <1>1, <1>2, <2>1, <2>2
  <2>4. overlapped' \in BOOLEAN
    <3>1. CASE overlapped \/ starting # {}
      BY <2>1, <3>1
    <3>2. CASE ~(overlapped \/ starting # {})
      BY <2>1, <3>2
    <3> QED
      BY <3>1, <3>2
  <2>5. Maintenance!TypeOK'
    BY <1>1, <2>1, <2>4, Zenon DEF Maintenance!TypeOK
  <2>6. OneStarts'
    BY <1>3, <2>1 DEF OneStarts
  <2>7. OneTaskRuns'
    BY <1>3, <2>1
  <2> QED
    BY <1>3, <2>1, <2>3, <2>5, <2>6, <2>7 DEF MaintenanceInv
<1>5. ASSUME NEW s \in Starters, Maintenance!Connected(s) PROVE MaintenanceInv'
  <2>1. /\ s \in starting /\ starting' = starting \ {s}
        /\ running' = TRUE /\ made' = made + 1 /\ task' = made + 1
        /\ alive' = alive \union {made + 1}
        /\ UNCHANGED <<cancelled, stopping, overlapped>>
    BY <1>5 DEF Maintenance!Connected
  <2>2. Cardinality(starting') = Cardinality(starting) - 1 /\ Cardinality(starting) > 0
    BY <1>2, <2>1, FS_RemoveElement, FS_EmptySet
  <2>3. made' \in 1..MaxTasks /\ made' + Cardinality(starting') <= MaxTasks
    BY <1>1, <1>2, <1>3, <2>1, <2>2
  <2>4. Maintenance!TypeOK'
    BY <1>1, <2>1, <2>3 DEF Maintenance!TypeOK
  <2>5. alive' \subseteq 1..made'
    <3>1. \A t \in alive : t \in 1..made
      BY <1>3
    <3>2. \A t \in 1..made : t \in 1..(made + 1)
      BY <1>1
    <3> QED
      BY <1>1, <2>1, <3>1, <3>2
  <2>6. OneStarts'
    BY <1>3, <2>1 DEF OneStarts
  <2>7. OneTaskRuns'
    <3>1. CASE overlapped
      BY <3>1, <2>1
    <3>2. CASE ~overlapped
      <4>1. alive \subseteq {stopping[u] : u \in Stoppers}
        BY <1>3, <2>1, <3>2 DEF OneStarts
      <4>2. made + 1 \notin cancelled
        BY <1>1, <1>3 DEF Maintenance!TypeOK
      <4> QED
        BY <2>1, <4>1, <4>2
    <3> QED
      BY <3>1, <3>2
  <2> QED
    BY <2>3, <2>4, <2>5, <2>6, <2>7 DEF MaintenanceInv
<1>6. ASSUME NEW s \in Stoppers, Maintenance!Stop(s) PROVE MaintenanceInv'
  <2>1. /\ stopping[s] = None /\ running /\ running' = FALSE
        /\ cancelled' = cancelled \union ({task} \intersect alive)
        /\ stopping' = [stopping EXCEPT ![s] = task]
        /\ UNCHANGED <<task, alive, starting, made, overlapped>>
    BY <1>6 DEF Maintenance!Stop
  <2>2. Maintenance!TypeOK'
    BY <1>1, <2>1 DEF Maintenance!TypeOK
  <2>3. OneStarts'
    BY <1>3, <2>1 DEF OneStarts
  <2>4. OneTaskRuns'
    <3>1. \A u \in Stoppers : stopping'[u] = IF u = s THEN task ELSE stopping[u]
      BY <1>1, <2>1 DEF Maintenance!TypeOK
    <3>2. ASSUME NEW t \in alive, ~overlapped PROVE \E u \in Stoppers : stopping'[u] = t
      <4>1. t # None
        BY <1>1 DEF Maintenance!TypeOK
      <4>2. t = task \/ \E u \in Stoppers : stopping[u] = t
        BY <1>3, <2>1, <3>2
      <4> QED
        BY <2>1, <3>1, <4>1, <4>2
    <3> QED
      BY <2>1, <3>2
  <2> QED
    BY <1>3, <2>1, <2>2, <2>3, <2>4 DEF MaintenanceInv
<1>7. ASSUME NEW s \in Stoppers, Maintenance!Stopped(s) PROVE MaintenanceInv'
  <2>1. /\ stopping[s] # None /\ stopping[s] \notin alive
        /\ stopping' = [stopping EXCEPT ![s] = None]
        /\ UNCHANGED <<running, task, alive, cancelled, starting, made, overlapped>>
    BY <1>7 DEF Maintenance!Stopped
  <2>2. Maintenance!TypeOK'
    BY <1>1, <2>1 DEF Maintenance!TypeOK
  <2>3. OneStarts'
    BY <1>3, <2>1 DEF OneStarts
  <2>4. OneTaskRuns'
    <3>1. \A u \in Stoppers : u # s => stopping'[u] = stopping[u]
      BY <1>1, <2>1 DEF Maintenance!TypeOK
    <3>2. ASSUME NEW t \in alive, ~overlapped
          PROVE  (running /\ t = task) \/ \E u \in Stoppers : stopping'[u] = t
      BY <1>3, <2>1, <3>1, <3>2
    <3> QED
      BY <1>3, <2>1, <3>2
  <2> QED
    BY <1>3, <2>1, <2>2, <2>3, <2>4 DEF MaintenanceInv
<1>8. ASSUME NEW t \in 1..MaxTasks, Maintenance!End(t) PROVE MaintenanceInv'
  <2>1. /\ t \in cancelled \/ ~running
        /\ alive' = alive \ {t} /\ cancelled' = cancelled \ {t}
        /\ UNCHANGED <<running, task, starting, stopping, made, overlapped>>
    BY <1>8 DEF Maintenance!End
  <2>2. Maintenance!TypeOK'
    BY <1>1, <2>1 DEF Maintenance!TypeOK
  <2>3. OneStarts' /\ OneTaskRuns'
    BY <1>3, <2>1 DEF OneStarts
  <2> QED
    BY <1>3, <2>1, <2>2, <2>3 DEF MaintenanceInv
<1>9. CASE UNCHANGED maintenanceVars
  <2>1. UNCHANGED <<running, task, alive, cancelled, starting, stopping, made, overlapped>>
    BY <1>9 DEF maintenanceVars
  <2> QED
    BY <1>1, <1>3, <2>1 DEF MaintenanceInv, Maintenance!TypeOK, OneStarts
<1> QED
  BY <1>4, <1>5, <1>6, <1>7, <1>8, <1>9 DEF Maintenance!Next

------------------------------------------------------------------------------
(* The caches together *)

CachesInv == LRUInv /\ TagInv /\ FlagInv /\ MaintenanceInv

LEMMA CachesInvariance == MCSpec => []CachesInv
<1>1. MCInit => CachesInv
  BY LRUInit, TagInit, FlagInit, MaintenanceInit DEF MCInit, CachesInv
<1>2. CachesInv /\ [MCNext]_MCvars => CachesInv'
  <2> SUFFICES ASSUME CachesInv, [MCNext]_MCvars PROVE CachesInv'
    OBVIOUS
  <2>1. /\ [Next]_vars /\ [Tag!Next]_taggedVars
        /\ [Flag!Next]_flagVars /\ [Maintenance!Next]_maintenanceVars
    <3>1. CASE MCNext
      BY <3>1 DEF MCNext
    <3>2. CASE UNCHANGED MCvars
      BY <3>2 DEF MCvars
    <3> QED
      BY <3>1, <3>2
  <2> QED
    BY <2>1, LRUStep, TagStep, FlagStep, MaintenanceStep DEF CachesInv
<1> QED
  BY <1>1, <1>2, PTL DEF MCSpec

\* Every variable of the five caches keeps to its type, and the LRUCache of
\* app/core/cache.py holds one entry for a key and no more than max_size.
THEOREM CachesAreWellTyped == MCSpec => []CachesTypeOK
<1>1. CachesInv => CachesTypeOK
  BY LRUSized DEF CachesInv, CachesTypeOK, LRUInv, TagInv, FlagInv, MaintenanceInv
<1> QED
  BY <1>1, CachesInvariance, PTL

\* LRUCache.get returns what the last set of its key wrote, while its ttl lasts, or nothing.
THEOREM LastWriteIsServed == MCSpec => []ServesLastWrite
<1>1. CachesInv => ServesLastWrite
  BY LRUServes DEF CachesInv
<1> QED
  BY <1>1, CachesInvariance, PTL

\* LRUCache.set keeps its own key and drops entries used before all it keeps, if
\* there is room for one at all.
THEOREM OldestGoesFirst == ASSUME MaxSize > 0 PROVE MCSpec => EvictsLeastRecentlyUsed
<1> DEFINE Evicts == \A set \in Keys, v \in Values, ttl \in Ttls : Set(set, v, ttl) =>
                        /\ Has(cache', set)
                        /\ \A k, j \in Keys : Has(cache, k) /\ ~Has(cache', k) /\ Has(cache', j)
                                             => used[k] < used'[j]
<1>1. CachesInv => [Evicts]_vars
  BY LRUEvicts DEF CachesInv
<1> QED
  BY <1>1, CachesInvariance, PTL DEF EvictsLeastRecentlyUsed

\* After clear_by_tag or clear_pattern no key that was not disturbed is served from
\* data older than the clear.
THEOREM ClearsReachTheirKeys == MCSpec => []ClearedIsGone
<1>1. CachesInv => ClearedIsGone
  BY TagCleared DEF CachesInv
<1> QED
  BY <1>1, CachesInvariance, PTL

\* is_enabled answers from the cache of a process what was right less than its ttl ago.
THEOREM AnswersAreRecent == MCSpec => []CachedAnswersRecent
<1>1. CachesInv => CachedAnswersRecent
  BY FlagRecent DEF CachesInv
<1> QED
  BY <1>1, CachesInvariance, PTL

\* Unless calls of start() overlap, one maintenance task runs while the flag is up,
\* and others only as long as some stop() awaits them.
THEOREM OneMaintenanceTask == MCSpec => []OneTaskRuns
<1>1. CachesInv => OneTaskRuns
  BY DEF CachesInv, MaintenanceInv
<1> QED
  BY <1>1, CachesInvariance, PTL
==============================================================================
