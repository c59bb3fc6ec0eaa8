---------------------------- MODULE ServicesProofs ----------------------------
(***************************************************************************)
(* Theorems about the parts that MCServices puts together, for every value *)
(* of their constants.  The parts share no state: each section proves what *)
(* the steps of one of them keep, and "The services together" puts these   *)
(* facts into theorems about MCSpec.                                       *)
(***************************************************************************)
EXTENDS MCServices, FiniteSetTheorems, SequenceTheorems, TLAPS

\* The instances have their own copies of the operators of FiniteSets.
LEMMA SameFiniteSets ==
    \A S : /\ Monitor!IsFiniteSet(S) <=> IsFiniteSet(S)
           /\ Monitor!Cardinality(S) = Cardinality(S)
           /\ Pool!IsFiniteSet(S) <=> IsFiniteSet(S)
           /\ Pool!Cardinality(S) = Cardinality(S)
  BY DEF Monitor!IsFiniteSet, Pool!IsFiniteSet, IsFiniteSet,
         Monitor!Cardinality, Pool!Cardinality, Cardinality

Indicator(p) == IF p THEN 1 ELSE 0

\* A set that gains or loses at most one element.
LEMMA OneElement ==
    ASSUME NEW A, NEW B, NEW u, IsFiniteSet(A), \A x : x # u => (x \in A <=> x \in B)
    PROVE  /\ IsFiniteSet(B) /\ Cardinality(A) \in Nat /\ Cardinality(B) \in Nat
           /\ Cardinality(B) + Indicator(u \in A) = Cardinality(A) + Indicator(u \in B)
<1> USE DEF Indicator
<1> DEFINE C == A \ {u}
<1>1. IsFiniteSet(C) /\ u \notin C
  BY FS_Subset
<1>2. IsFiniteSet(C \union {u}) /\ Cardinality(C \union {u}) = Cardinality(C) + 1
  BY <1>1, FS_AddElement
<1>3. Cardinality(C) \in Nat
  BY <1>1, FS_CardinalityType
<1>4. A = (IF u \in A THEN C \union {u} ELSE C) /\ B = (IF u \in B THEN C \union {u} ELSE C)
  OBVIOUS
<1> HIDE DEF C
<1>5. IsFiniteSet(B)
  BY <1>1, <1>2, <1>4
<1>6. Cardinality(A) = Cardinality(C) + Indicator(u \in A)
  <2>1. CASE u \in A
    BY <1>2, <1>4, <2>1
  <2>2. CASE u \notin A
    BY <1>3, <1>4, <2>2
  <2> QED
    BY <2>1, <2>2
<1>7. Cardinality(B) = Cardinality(C) + Indicator(u \in B)
  <2>1. CASE u \in B
    BY <1>2, <1>4, <2>1
  <2>2. CASE u \notin B
    BY <1>3, <1>4, <2>2
  <2> QED
    BY <2>1, <2>2
<1> QED
  BY <1>3, <1>5, <1>6, <1>7

\* A total and a bound that grow: the total stays below the bound.
LEMMA StaysBelow ==
    ASSUME NEW a \in Nat, NEW b \in Nat, NEW i \in Nat, NEW j \in Nat, NEW c \in Nat,
           NEW d \in Nat, NEW s \in Nat, NEW t \in Nat,
           b + i = a + j, c + a <= s, d + s + j <= c + t + i
    PROVE  d + b <= t
  OBVIOUS

LEMMA IndicatorType == \A p \in BOOLEAN : Indicator(p) \in Nat
  BY DEF Indicator

LEMMA UpTo == \A n \in Nat : IsFiniteSet(1..n) /\ Cardinality(1..n) = n
<1> TAKE n \in Nat
<1>1. 1 \in Int /\ n \in Int
  OBVIOUS
<1>2. IsFiniteSet(1..n) /\ Cardinality(1..n) = IF 1 > n THEN 0 ELSE n - 1 + 1
  BY <1>1, FS_Interval
<1> QED
  BY <1>2

\* A set of at most n elements can be numbered from 1 to n.
LEMMA Numbered ==
    ASSUME NEW S, IsFiniteSet(S), NEW n \in Nat, Cardinality(S) <= n
    PROVE  \E f \in [S -> 1..n] : \A x, y \in S : f[x] = f[y] => x = y
<1>1. PICK m \in Nat : m = Cardinality(S)
  BY FS_CardinalityType
<1>2. ExistsBijection(S, 1..m)
  BY <1>1, UpTo, FS_SameCardinalityBij
<1>3. PICK f : f \in Bijection(S, 1..m)
  BY <1>2 DEF ExistsBijection
<1>4. f \in [S -> 1..m] /\ \A x, y \in S : f[x] = f[y] => x = y
  BY <1>3 DEF Bijection, Injection, IsInjective
<1>5. f \in [S -> 1..n]
  BY <1>1, <1>4
<1> QED
  BY <1>4, <1>5

\* At most a places with at most b members each: at most a * b pairs of a place and a
\* member of it.
LEMMA PairsBound ==
    ASSUME NEW S, IsFiniteSet(S), NEW a \in Nat, Cardinality(S) <= a,
           NEW V, NEW b \in Nat, \A p \in S : IsFiniteSet(V[p]) /\ Cardinality(V[p]) <= b,
           NEW U, \A u \in U : \E p \in S : \E x \in V[p] : u = <<p, x>>
    PROVE  IsFiniteSet(U) /\ Cardinality(U) <= a * b
<1>1. PICK f \in [S -> 1..a] : \A p, q \in S : f[p] = f[q] => p = q
  BY Numbered
<1> DEFINE Good(p, g) == g \in [V[p] -> 1..b] /\ \A x, y \in V[p] : g[x] = g[y] => x = y
           g == [p \in S |-> CHOOSE h : Good(p, h)]
           F == [u \in U |-> <<f[u[1]], g[u[1]][u[2]]>>]
<1>2. ASSUME NEW p \in S PROVE Good(p, g[p])
  <2>1. \E h : Good(p, h)
    BY Numbered
  <2> QED
    BY <2>1
<1> HIDE DEF g
<1>3. ASSUME NEW u \in U
      PROVE  /\ u[1] \in S /\ u[2] \in V[u[1]] /\ u = <<u[1], u[2]>>
             /\ f[u[1]] \in 1..a /\ g[u[1]][u[2]] \in 1..b
  <2>1. PICK p \in S : \E x \in V[p] : u = <<p, x>>
    OBVIOUS
  <2>2. PICK x \in V[p] : u = <<p, x>>
    BY <2>1
  <2>3. u[1] = p /\ u[2] = x
    BY <2>2
  <2>4. f[p] \in 1..a /\ g[p][x] \in 1..b
    BY <1>1, <1>2
  <2> QED
    BY <2>2, <2>3, <2>4
<1>4. F \in [U -> (1..a) \X (1..b)]
  BY <1>3
<1>5. ASSUME NEW u \in U, NEW v \in U, F[u] = F[v] PROVE u = v
  <2>1. f[u[1]] = f[v[1]] /\ g[u[1]][u[2]] = g[v[1]][v[2]]
    BY <1>5
  <2>2. u[1] = v[1]
    BY <1>1, <1>3, <2>1
  <2>3. u[2] = v[2]
    BY <1>2, <1>3, <2>1, <2>2
  <2> QED
    BY <1>3, <2>2, <2>3
<1> HIDE DEF F
<1>6. F \in Injection(U, (1..a) \X (1..b))
  BY <1>4, <1>5 DEF Injection, IsInjective
<1>7. IsFiniteSet((1..a) \X (1..b)) /\ Cardinality((1..a) \X (1..b)) = a * b
  <2>1. /\ IsFiniteSet(1..a) /\ Cardinality(1..a) = a
        /\ IsFiniteSet(1..b) /\ Cardinality(1..b) = b
    BY UpTo
  <2>2. PICK A, B : A = 1..a /\ B = 1..b
    OBVIOUS
  <2>3. IsFiniteSet(A \X B) /\ Cardinality(A \X B) = Cardinality(A) * Cardinality(B)
    BY <2>1, <2>2, FS_Product
  <2> QED
    BY <2>1, <2>2, <2>3
<1> QED
  BY <1>6, <1>7, FS_Injection

\* A step moves one part, as a step of its own, or none.
LEMMA Moves ==
    ASSUME [MCNext]_MCvars
    PROVE  /\ [Next]_vars /\ [Notify!Next]_notificationVars
           /\ [Monitor!Next]_monitoringVars /\ [Async!Next]_asyncVars
           /\ [Pool!Next]_poolVars /\ [Locations!Next]_locationVars
           /\ [Pipeline!Next]_pipelineVars /\ [Resilient!Next]_resilientVars
           /\ [Audit!Next]_auditVars /\ [PropertyAlert!Next]_propertyAlertVars
           /\ [Bookmark!Next]_bookmarkVars /\ [Export!Next]_exportVars
           /\ [Listing!Next]_listingVars
<1>1. CASE MCNext
  BY <1>1 DEF MCNext
<1>2. CASE UNCHANGED MCvars
  BY <1>2 DEF MCvars
<1> QED
  BY <1>1, <1>2

------------------------------------------------------------------------------
(* DuplicateFilter *)

\* What clear() leaves behind is a filter.
LEMMA ClearType ==
    ASSUME NEW f \in FilterType
    PROVE  ClearFilter(f) \in FilterType
<1> DEFINE kept == IF f.has_exact THEN f.exact ELSE {}
           f1 == [f  EXCEPT !.bits = {}]
           f2 == [f1 EXCEPT !.exact = kept]
           f3 == [f2 EXCEPT !.has_exact = TRUE]
<1>1. kept \in SUBSET Keys
  BY DEF FilterType
<1>2. f1 \in FilterType
  BY DEF FilterType
<1> HIDE DEF kept, f1
<1>3. f2 \in FilterType
  BY <1>1, <1>2 DEF FilterType
<1> HIDE DEF f2
<1>4. f3 \in FilterType
  BY <1>3 DEF FilterType
<1>5. ClearFilter(f) = f3
  BY DEF ClearFilter, FilterType, f1, f2, kept
<1> QED
  BY <1>4, <1>5

\* What is_duplicate() and add() leave behind is a filter.
LEMMA FilterTypes ==
    ASSUME NEW f \in FilterType, NEW k \in Keys
    PROVE  /\ Remember(f, k) \in FilterType
           /\ AddKey(f, k) \in FilterType
<1>1. Hash[k] \subseteq Bits /\ \A keys \in SUBSET Keys : BitsOf(keys) \subseteq Bits
  BY FilterAssumption DEF BitsOf
<1>2. AddToBloom(f, k) \in FilterType
  BY <1>1 DEF AddToBloom, FilterType
<1>3. [f EXCEPT !.exact = @ \union {k}] \in FilterType
  BY DEF FilterType
<1>4. ASSUME NEW g \in FilterType PROVE Migrate(g) \in FilterType
  BY <1>1 DEF Migrate, FilterType
<1>5. Remember(f, k) \in FilterType
  BY <1>2, <1>3, <1>4 DEF Remember
<1> QED
  BY <1>2, <1>3, <1>5, FilterAssumption DEF FilterType, AddKey

\* The type invariant holds at first and is kept by every step.
LEMMA FilterInit == Init => TypeOK
  BY FilterAssumption DEF Init, TypeOK, NewFilter, FilterType

LEMMA FilterStep == TypeOK /\ [Next]_vars => TypeOK'
<1> SUFFICES ASSUME TypeOK, [Next]_vars PROVE TypeOK'
  OBVIOUS
<1> USE DEF TypeOK
<1>1. ASSUME NEW k \in Keys, Check(k) PROVE TypeOK'
  BY <1>1, FilterTypes DEF Check, See
<1>2. ASSUME NEW k \in Keys, Add(k) PROVE TypeOK'
  BY <1>2, FilterTypes DEF Add, See
<1>3. CASE Clear
  <2>1. filter' \in FilterType
    BY <1>3, ClearType DEF Clear
  <2> QED
    BY <1>3, <2>1 DEF Clear
<1>4. CASE UNCHANGED vars
  BY <1>4 DEF vars
<1> QED
  BY <1>1, <1>2, <1>3, <1>4 DEF Next

LEMMA FilterTyped == MCSpec => []TypeOK
<1>1. MCInit => TypeOK
  BY FilterInit DEF MCInit
<1>2. TypeOK /\ [MCNext]_MCvars => TypeOK'
  BY FilterStep, Moves
<1> QED
  BY <1>1, <1>2, PTL DEF MCSpec
------------------------------------------------------------------------------
\* What an operation leaves in the exact set and among the bits.
LEMMA RememberContents ==
    ASSUME NEW f \in FilterType, NEW k \in Keys
    PROVE  LET g == Remember(f, k) IN
           \/ g = f /\ IsDuplicate(f, k)
           \/ /\ ChecksExactly(f) /\ g.has_exact
              /\ g.exact = f.exact \union {k} /\ g.bits = f.bits
           \/ /\ ~g.has_exact /\ ChecksExactly(f) /\ g.exact = {}
              /\ g.bits = f.bits \union BitsOf(f.exact \union {k})
           \/ /\ ~ChecksExactly(f) /\ g.has_exact = f.has_exact
              /\ g.exact = f.exact /\ g.bits = f.bits \union Hash[k]
<1> DEFINE grown == [f EXCEPT !.exact = @ \union {k}]
<1>1. grown \in FilterType /\ grown.exact = f.exact \union {k} /\ grown.bits = f.bits
        /\ grown.has_exact = f.has_exact
  BY DEF FilterType
<1> HIDE DEF grown
<1>2. CASE IsDuplicate(f, k)
  BY <1>2 DEF Remember
<1>3. CASE ~IsDuplicate(f, k) /\ ~ChecksExactly(f)
  <2>1. Remember(f, k) = AddToBloom(f, k)
    BY <1>3 DEF Remember
  <2> QED
    BY <1>3, <2>1 DEF AddToBloom, FilterType
<1>4. CASE /\ ~IsDuplicate(f, k) /\ ChecksExactly(f)
           /\ Cardinality(grown.exact) > ExactCheckThreshold
  <2>1. Remember(f, k) = Migrate(grown)
    BY <1>4 DEF Remember, grown
  <2> QED
    BY <1>1, <1>4, <2>1 DEF Migrate
<1>5. CASE /\ ~IsDuplicate(f, k) /\ ChecksExactly(f)
           /\ ~(Cardinality(grown.exact) > ExactCheckThreshold)
  <2>1. Remember(f, k) = grown
    BY <1>5 DEF Remember, grown
  <2> QED
    BY <1>1, <1>5, <2>1 DEF ChecksExactly
<1> QED
  BY <1>2, <1>3, <1>4, <1>5

LEMMA AddContents ==
    ASSUME NEW f \in FilterType, NEW k \in Keys
    PROVE  LET g == AddKey(f, k) IN
           /\ g.has_exact = f.has_exact
           /\ g.exact = IF f.has_exact THEN f.exact \union {k} ELSE f.exact
           /\ g.bits = IF f.has_exact THEN f.bits ELSE f.bits \union Hash[k]
  BY DEF AddKey, AddToBloom, FilterType

LEMMA ClearContents ==
    ASSUME NEW f \in FilterType
    PROVE  LET g == ClearFilter(f) IN
           /\ g.has_exact /\ g.bits = {}
           /\ g.exact = IF f.has_exact THEN f.exact ELSE {}
  BY DEF ClearFilter, FilterType

\* With exact checking on, a key once seen is never taken for a new one, however
\* the filter switches between its exact set and the Bloom filter.
THEOREM NoFalseNegatives ==
    ASSUME UseExactCheck PROVE MCSpec => []SeenIsRemembered
<1>1. MCInit => SeenIsRemembered
  BY DEF MCInit, Init, SeenIsRemembered
<1>2. TypeOK /\ SeenIsRemembered /\ [Next]_vars => SeenIsRemembered'
  <2> SUFFICES ASSUME TypeOK, SeenIsRemembered, [Next]_vars, NEW j \in seen'
               PROVE  IsDuplicate(filter', j)
    BY DEF SeenIsRemembered
  <2> USE DEF TypeOK
  <2>1. ASSUME NEW k \in Keys, Check(k) PROVE IsDuplicate(filter', j)
    <3>1. filter' = Remember(filter, k) /\ (j = k \/ IsDuplicate(filter, j))
      BY <2>1 DEF Check, See, SeenIsRemembered
    <3>2. \A keys \in SUBSET Keys : \A i \in keys : Hash[i] \subseteq BitsOf(keys)
      BY DEF BitsOf
    <3>3. j \in filter.exact \/ j = k => Hash[j] \subseteq BitsOf(filter.exact \union {k})
      BY <3>2 DEF FilterType
    <3>4. \/ filter' = filter /\ IsDuplicate(filter, k)
          \/ /\ ChecksExactly(filter) /\ filter'.has_exact
             /\ filter'.exact = filter.exact \union {k} /\ filter'.bits = filter.bits
          \/ /\ ~filter'.has_exact /\ ChecksExactly(filter) /\ filter'.exact = {}
             /\ filter'.bits = filter.bits \union BitsOf(filter.exact \union {k})
          \/ /\ ~ChecksExactly(filter) /\ filter'.has_exact = filter.has_exact
             /\ filter'.exact = filter.exact /\ filter'.bits = filter.bits \union Hash[k]
      BY <3>1, RememberContents
    <3>5. ChecksExactly(filter) <=> filter.has_exact
      BY DEF ChecksExactly
    <3>6. filter \in FilterType /\ filter' \in FilterType
      BY FilterStep
    <3> QED
      BY <3>1, <3>3, <3>4, <3>5, <3>6
         DEF IsDuplicate, ChecksExactly, InBloom
  <2>2. ASSUME NEW k \in Keys, Add(k) PROVE IsDuplicate(filter', j)
    <3>1. filter' = AddKey(filter, k) /\ (j = k \/ IsDuplicate(filter, j))
      BY <2>2 DEF Add, See, SeenIsRemembered
    <3>2. /\ filter'.has_exact = filter.has_exact
          /\ filter'.exact = IF filter.has_exact THEN filter.exact \union {k} ELSE filter.exact
          /\ filter'.bits = IF filter.has_exact THEN filter.bits ELSE filter.bits \union Hash[k]
      BY <3>1, AddContents
    <3> QED
      BY <3>1, <3>2 DEF IsDuplicate, ChecksExactly, InBloom
  <2>3. CASE Clear
    BY <2>3 DEF Clear
  <2>4. CASE UNCHANGED vars
    BY <2>4 DEF vars, SeenIsRemembered
  <2> QED
    BY <2>1, <2>2, <2>3, <2>4 DEF Next
<1>4. [MCNext]_MCvars => [Next]_vars
  BY Moves
<1> QED
  BY <1>1, <1>2, <1>4, FilterTyped, PTL DEF MCSpec

\* Everything the filter holds comes from keys that were seen.
HoldsOnlySeen == filter.exact \subseteq ever /\ filter.bits \subseteq BitsOf(ever)

\* A false positive is a collision of hashes, and only in the Bloom filter.
THEOREM FalsePositivesCollide == MCSpec => []FalsePositivesAreCollisions
<1>1. MCInit => HoldsOnlySeen
  BY DEF MCInit, Init, HoldsOnlySeen, NewFilter
<1>2. TypeOK /\ HoldsOnlySeen /\ [Next]_vars => HoldsOnlySeen'
  <2> SUFFICES ASSUME TypeOK, HoldsOnlySeen, [Next]_vars PROVE HoldsOnlySeen'
    OBVIOUS
  <2> USE DEF TypeOK, HoldsOnlySeen
  <2>a. \A k \in Keys : /\ BitsOf(ever) \subseteq BitsOf(ever \union {k})
                        /\ Hash[k] \subseteq BitsOf(ever \union {k})
                        /\ BitsOf(filter.exact \union {k}) \subseteq BitsOf(ever \union {k})
    BY DEF BitsOf
  <2>1. ASSUME NEW k \in Keys, Check(k) PROVE HoldsOnlySeen'
    <3>1. filter' = Remember(filter, k) /\ ever' = ever \union {k}
      BY <2>1 DEF Check, See
    <3>2. \/ filter' = filter /\ IsDuplicate(filter, k)
          \/ /\ ChecksExactly(filter) /\ filter'.has_exact
             /\ filter'.exact = filter.exact \union {k} /\ filter'.bits = filter.bits
          \/ /\ ~filter'.has_exact /\ ChecksExactly(filter) /\ filter'.exact = {}
             /\ filter'.bits = filter.bits \union BitsOf(filter.exact \union {k})
          \/ /\ ~ChecksExactly(filter) /\ filter'.has_exact = filter.has_exact
             /\ filter'.exact = filter.exact /\ filter'.bits = filter.bits \union Hash[k]
      BY <3>1, RememberContents
    <3> QED
      BY <2>a, <3>1, <3>2
  <2>2. ASSUME NEW k \in Keys, Add(k) PROVE HoldsOnlySeen'
    <3>1. filter' = AddKey(filter, k) /\ ever' = ever \union {k}
      BY <2>2 DEF Add, See
    <3>2. /\ filter'.has_exact = filter.has_exact
          /\ filter'.exact = IF filter.has_exact THEN filter.exact \union {k} ELSE filter.exact
          /\ filter'.bits = IF filter.has_exact THEN filter.bits ELSE filter.bits \union Hash[k]
      BY <3>1, AddContents
    <3> QED
      BY <2>a, <3>1, <3>2
  <2>3. CASE Clear
    BY <2>3, ClearContents DEF Clear
  <2>4. CASE UNCHANGED vars
    BY <2>4 DEF vars
  <2> QED
    BY <2>1, <2>2, <2>3, <2>4 DEF Next
<1>3. HoldsOnlySeen => FalsePositivesAreCollisions
  BY DEF HoldsOnlySeen, FalsePositivesAreCollisions, IsDuplicate, InBloom
<1>4. [MCNext]_MCvars => [Next]_vars
  BY Moves
<1> QED
  BY <1>1, <1>2, <1>3, <1>4, FilterTyped, PTL DEF MCSpec

------------------------------------------------------------------------------
(* Notifications *)

Known(s) == handler[s] \in {"listening", "ended"}

\* A socket whose endpoint has begun has a topic, and ends after its client is gone.
HandlersSound ==
    \A s \in Sockets :
        /\ handler[s] # "none" => topic[s] \in Asked
        /\ handler[s] = "ended" => link[s] = "down"

\* What a broadcast has still to send goes to sockets of its topic that have not got
\* it, and what it will disconnect is gone.
CastSound(m, t) ==
    /\ cast[m][t].phase = "none" <=> (kind[m] = "none" \/ t \notin Notify!TopicsOf[kind[m]])
    /\ cast[m][t].phase # "sending" => cast[m][t].todo = {}
    /\ \A s \in cast[m][t].disconnected : link[s] = "down"
    /\ \A s \in cast[m][t].todo : topic[s] = t /\ Known(s) /\ got[s][m] = 0

\* A socket gets a message from the broadcast to its topic alone; one in the audience
\* will be sent to, is about to be, or has got it.
SocketSound(m, s) ==
    /\ got[s][m] \in {0, 1}
    /\ got[s][m] = 1 => Known(s) /\ cast[m][topic[s]].phase \in {"sending", "done"}
    /\ s \in audience[m] =>
           /\ kind[m] # "none" /\ Known(s)
           /\ link[s] = "up" /\ topic[s] \in Notify!TopicsOf[kind[m]] =>
                  \/ cast[m][topic[s]].phase = "called"
                  \/ s \in cast[m][topic[s]].todo
                  \/ got[s][m] = 1

MessagesSound ==
    \A m \in Messages : /\ \A t \in Notify!Topics : CastSound(m, t)
                        /\ \A s \in Sockets : SocketSound(m, s)

NotifyInv == Notify!TypeOK /\ Notify!RegisteredWhileListening /\ HandlersSound /\ MessagesSound

LEMMA TopicsOfTypes ==
    /\ \A k \in Notify!Kinds : Notify!TopicsOf[k] \subseteq Notify!Topics
    /\ "none" \notin Notify!Kinds /\ "none" \notin Notify!Topics
  BY DEF Notify!Kinds, Notify!TopicsOf, Notify!Topics

LEMMA KnownTopics ==
    ASSUME Notify!NotificationsAssumption, NotifyInv, NEW s \in Sockets, Known(s)
    PROVE  topic[s] \in Notify!Topics
  BY DEF Notify!NotificationsAssumption, NotifyInv, HandlersSound, Known

LEMMA NotifyInit == Notify!Init => NotifyInv
<1> SUFFICES ASSUME Notify!Init PROVE NotifyInv
  OBVIOUS
<1>1. Notify!Idle \in Notify!Cast
  BY DEF Notify!Idle, Notify!Cast
<1>2. Notify!TypeOK
  BY <1>1 DEF Notify!Init, Notify!TypeOK
<1>3. Notify!RegisteredWhileListening /\ HandlersSound
  BY DEF Notify!Init, Notify!RegisteredWhileListening, HandlersSound
<1>4. MessagesSound
  BY DEF Notify!Init, MessagesSound, CastSound, SocketSound, Notify!Idle
<1> QED
  BY <1>2, <1>3, <1>4 DEF NotifyInv
------------------------------------------------------------------------------
\* What disconnect() keeps: every connection but those that are to go, and no topic
\* without connections.
LEMMA DisconnectKeeps ==
    ASSUME NEW lost, NEW t
    PROVE  /\ DOMAIN Notify!Disconnect(lost, t) \subseteq DOMAIN active
           /\ \A u \in DOMAIN Notify!Disconnect(lost, t) : Notify!Disconnect(lost,
                 t)[u] \subseteq active[u]
           /\ \A u \in DOMAIN active : \A s \in active[u] \ lost :
                  u \in DOMAIN Notify!Disconnect(lost, t) /\ s \in Notify!Disconnect(lost, t)[u]
           /\ \A s \in lost : t \in DOMAIN Notify!Disconnect(lost, t) =>
                 s \notin Notify!Disconnect(lost, t)[t]
           /\ (\A u \in DOMAIN active : active[u] # {})
              => \A u \in DOMAIN Notify!Disconnect(lost, t) : Notify!Disconnect(lost, t)[u] # {}
  BY DEF Notify!Disconnect

\* Disconnecting sockets whose clients are gone or whose endpoint ends.
LEMMA DisconnectRegistered ==
    ASSUME Notify!TypeOK, Notify!RegisteredWhileListening, NEW lost, NEW t,
           active' = Notify!Disconnect(lost, t), UNCHANGED topic,
           \A s \in Sockets : handler'[s] = handler[s] \/ (s \in lost /\ topic[s] = t),
           \A s \in lost : link'[s] = "down", UNCHANGED link
    PROVE  Notify!RegisteredWhileListening'
<1>1. \A s \in Sockets : handler'[s] = "listening" /\ link'[s] = "up" =>
          topic'[s] \in DOMAIN active' /\ s \in active'[topic'[s]]
  <2> SUFFICES ASSUME NEW s \in Sockets, handler'[s] = "listening", link'[s] = "up"
               PROVE  topic[s] \in DOMAIN active' /\ s \in active'[topic[s]]
    OBVIOUS
  <2>1. s \notin lost /\ handler[s] = "listening" /\ link[s] = "up"
    OBVIOUS
  <2>2. topic[s] \in DOMAIN active /\ s \in active[topic[s]]
    BY <2>1 DEF Notify!RegisteredWhileListening, Notify!Registered, Notify!ConnectionsOf
  <2> QED
    BY <2>1, <2>2, DisconnectKeeps
<1>2. \A s \in Sockets : \A u \in DOMAIN active' : s \in active'[u] =>
          u = topic'[s] /\ handler'[s] = "listening"
  <2> SUFFICES ASSUME NEW s \in Sockets, NEW u \in DOMAIN active', s \in active'[u]
               PROVE  u = topic[s] /\ handler'[s] = "listening"
    OBVIOUS
  <2>1. u \in DOMAIN active /\ s \in active[u]
    BY DisconnectKeeps
  <2>2. u = topic[s] /\ handler[s] = "listening"
    BY <2>1 DEF Notify!RegisteredWhileListening
  <2>3. ~(s \in lost /\ topic[s] = t)
    BY <2>2, DisconnectKeeps
  <2> QED
    BY <2>2, <2>3
<1> QED
  BY <1>1, <1>2 DEF Notify!RegisteredWhileListening, Notify!Registered, Notify!ConnectionsOf

LEMMA DisconnectTypes ==
    ASSUME Notify!TypeOK, NEW lost, NEW t, active' = Notify!Disconnect(lost, t)
    PROVE  DOMAIN active' \subseteq Notify!Topics /\ \A u \in DOMAIN active' :
             active'[u] \in (SUBSET Sockets) \ {{}}
<1>1. \A u \in DOMAIN active : active[u] # {} /\ active[u] \subseteq Sockets
  BY DEF Notify!TypeOK
<1>2. \A u \in DOMAIN active' : active'[u] \subseteq active[u] /\ active'[u] # {}
      /\ u \in DOMAIN active
  BY <1>1, DisconnectKeeps
<1> QED
  BY <1>1, <1>2 DEF Notify!TypeOK

\* Clients that come and go: what is known of a socket stays, and links only go down.
LEMMA SocketsMove ==
    ASSUME NotifyInv, UNCHANGED <<kind, cast, audience, got>>,
           \A s \in Sockets : link'[s] = link[s] \/ link'[s] = "down",
           \A s \in Sockets : Known(s) => Known(s)' /\ topic'[s] = topic[s]
    PROVE  MessagesSound'
<1>1. ASSUME NEW m \in Messages, NEW t \in Notify!Topics PROVE CastSound(m, t)'
  <2>1. CastSound(m, t)
    BY DEF NotifyInv, MessagesSound
  <2>2. cast[m][t].todo \subseteq Sockets /\ cast[m][t].disconnected \subseteq Sockets
    BY DEF NotifyInv, Notify!TypeOK, Notify!Cast
  <2> QED
    BY <2>1, <2>2 DEF CastSound
<1>2. ASSUME NEW m \in Messages, NEW s \in Sockets PROVE SocketSound(m, s)'
  <2>1. SocketSound(m, s)
    BY DEF NotifyInv, MessagesSound
  <2>2. link'[s] = "up" => link[s] = "up"
    OBVIOUS
  <2> QED
    BY <2>1, <2>2 DEF SocketSound
<1> QED
  BY <1>1, <1>2 DEF MessagesSound

LEMMA NotifyOpen ==
    ASSUME Notify!NotificationsAssumption, NotifyInv, NEW s \in Sockets, NEW t \in Asked,
           Notify!Open(s, t)
    PROVE  NotifyInv'
<1>1. Notify!TypeOK'
  BY DEF NotifyInv, Notify!Open, Notify!TypeOK
<1>2. \A r \in Sockets : r # s => topic'[r] = topic[r] /\ handler'[r] = handler[r]
  BY DEF NotifyInv, Notify!Open, Notify!TypeOK
<1>3. topic'[s] = t /\ handler'[s] = "accepting" /\ handler[s] = "none"
  BY DEF NotifyInv, Notify!Open, Notify!TypeOK
<1>4. Notify!RegisteredWhileListening'
  BY <1>2, <1>3 DEF NotifyInv, Notify!Open, Notify!RegisteredWhileListening, Notify!Registered,
       Notify!ConnectionsOf
<1>5. HandlersSound'
  BY <1>2, <1>3 DEF NotifyInv, Notify!Open, HandlersSound
<1>6. MessagesSound'
  BY <1>2, <1>3, SocketsMove DEF Notify!Open, Known
<1> QED
  BY <1>1, <1>4, <1>5, <1>6 DEF NotifyInv

LEMMA NotifyConnect ==
    ASSUME Notify!NotificationsAssumption, NotifyInv, NEW s \in Sockets, Notify!Connect(s)
    PROVE  NotifyInv'
<1>1. \A r \in Sockets : r # s => handler'[r] = handler[r]
  BY DEF NotifyInv, Notify!Connect, Notify!TypeOK
<1>2. handler'[s] = "listening" /\ handler[s] = "accepting" /\ UNCHANGED <<topic, link>>
  BY DEF NotifyInv, Notify!Connect, Notify!TypeOK
<1>3. topic[s] \in Asked /\ topic[s] \in Notify!Topics
  BY <1>2 DEF Notify!NotificationsAssumption, NotifyInv, HandlersSound
<1>4. /\ DOMAIN active' = DOMAIN active \union {topic[s]}
      /\ \A u \in DOMAIN active' :
            active'[u] = Notify!ConnectionsOf(u) \union (IF u = topic[s] THEN {s} ELSE {})
  BY DEF Notify!Connect
<1>5. DOMAIN active' \subseteq Notify!Topics /\ \A u \in DOMAIN active' :
      active'[u] \in (SUBSET Sockets) \ {{}}
  <2>1. /\ DOMAIN active \subseteq Notify!Topics
        /\ \A u \in DOMAIN active : active[u] # {} /\ active[u] \subseteq Sockets
    BY DEF NotifyInv, Notify!TypeOK
  <2>2. \A u : Notify!ConnectionsOf(u) \subseteq Sockets /\ (u \in DOMAIN active =>
        Notify!ConnectionsOf(u) # {})
    BY <2>1 DEF Notify!ConnectionsOf
  <2> QED
    BY <1>3, <1>4, <2>1, <2>2
<1>6. Notify!TypeOK'
  BY <1>5 DEF NotifyInv, Notify!Connect, Notify!TypeOK
<1>7. Notify!RegisteredWhileListening'
  BY <1>1, <1>2, <1>4 DEF NotifyInv, Notify!RegisteredWhileListening, Notify!Registered,
       Notify!ConnectionsOf
<1>8. HandlersSound'
  BY <1>1, <1>2, <1>3 DEF NotifyInv, HandlersSound
<1>9. MessagesSound'
  BY <1>1, <1>2, SocketsMove DEF Notify!Connect, Known
<1> QED
  BY <1>6, <1>7, <1>8, <1>9 DEF NotifyInv

LEMMA NotifyRefuse ==
    ASSUME NotifyInv, NEW s \in Sockets, Notify!Refuse(s) PROVE NotifyInv'
<1>1. Notify!TypeOK' /\ \A r \in Sockets : r # s => handler'[r] = handler[r]
  BY DEF NotifyInv, Notify!Refuse, Notify!TypeOK
<1>2. handler'[s] = "ended" /\ handler[s] = "accepting" /\ link[s] = "down"
  BY DEF NotifyInv, Notify!Refuse, Notify!TypeOK
<1>3. Notify!RegisteredWhileListening'
  BY <1>1, <1>2 DEF NotifyInv, Notify!Refuse, Notify!RegisteredWhileListening,
       Notify!Registered, Notify!ConnectionsOf
<1>4. HandlersSound'
  BY <1>1, <1>2 DEF NotifyInv, Notify!Refuse, HandlersSound
<1>5. MessagesSound'
  BY <1>1, <1>2, SocketsMove DEF Notify!Refuse, Known
<1> QED
  BY <1>1, <1>3, <1>4, <1>5 DEF NotifyInv

LEMMA NotifyHangup ==
    ASSUME NotifyInv, NEW s \in Sockets, Notify!Hangup(s) PROVE NotifyInv'
<1>1. Notify!TypeOK' /\ \A r \in Sockets : link'[r] = link[r] \/ link'[r] = "down"
  BY DEF NotifyInv, Notify!Hangup, Notify!TypeOK
<1>2. link'[s] = "down" /\ \A r \in Sockets : link[r] = "down" => link'[r] = "down"
  BY DEF NotifyInv, Notify!Hangup, Notify!TypeOK
<1>3. Notify!RegisteredWhileListening'
  BY <1>1, <1>2 DEF NotifyInv, Notify!Hangup, Notify!RegisteredWhileListening,
       Notify!Registered, Notify!ConnectionsOf
<1>4. HandlersSound'
  BY <1>1, <1>2 DEF NotifyInv, Notify!Hangup, HandlersSound
<1>5. MessagesSound'
  BY <1>1, <1>2, SocketsMove DEF Notify!Hangup, Known
<1> QED
  BY <1>1, <1>3, <1>4, <1>5 DEF NotifyInv

LEMMA NotifyLeave ==
    ASSUME NotifyInv, NEW s \in Sockets, Notify!Leave(s) PROVE NotifyInv'
<1>1. \A r \in Sockets : r # s => handler'[r] = handler[r]
  BY DEF NotifyInv, Notify!Leave, Notify!TypeOK
<1>2. /\ handler'[s] = "ended" /\ handler[s] = "listening" /\ link[s] = "down"
      /\ active' = Notify!Disconnect({s}, topic[s]) /\ UNCHANGED <<topic, link>>
  BY DEF NotifyInv, Notify!Leave, Notify!TypeOK
<1>3. Notify!TypeOK'
  BY <1>2, DisconnectTypes DEF NotifyInv, Notify!Leave, Notify!TypeOK
<1>4. Notify!RegisteredWhileListening'
  <2>1. \A r \in Sockets : handler'[r] = handler[r] \/ (r \in {s} /\ topic[r] = topic[s])
    BY <1>1
  <2>2. (\A r \in {s} : link'[r] = "down") /\ UNCHANGED topic /\ UNCHANGED link
    BY <1>2
  <2>3. Notify!TypeOK /\ Notify!RegisteredWhileListening /\ active' = Notify!Disconnect({s},
        topic[s])
    BY <1>2 DEF NotifyInv
  <2> QED
    BY <2>1, <2>2, <2>3, DisconnectRegistered
<1>5. HandlersSound'
  BY <1>1, <1>2 DEF NotifyInv, HandlersSound
<1>6. MessagesSound'
  BY <1>1, <1>2, SocketsMove DEF Notify!Leave, Known
<1> QED
  BY <1>3, <1>4, <1>5, <1>6 DEF NotifyInv
------------------------------------------------------------------------------
\* The messages and broadcasts that a step leaves alone.
LEMMA OtherMessages ==
    ASSUME NotifyInv, NEW m \in Messages, UNCHANGED <<topic, handler, link>>,
           kind'[m] = kind[m], cast'[m] = cast[m], audience'[m] = audience[m],
           \A s \in Sockets : got'[s][m] = got[s][m]
    PROVE  (\A t \in Notify!Topics : CastSound(m, t)') /\ (\A s \in Sockets : SocketSound(m, s)')
<1>1. ASSUME NEW t \in Notify!Topics PROVE CastSound(m, t)'
  <2>1. CastSound(m, t) /\ cast[m][t].todo \subseteq Sockets
    BY DEF NotifyInv, MessagesSound, Notify!TypeOK, Notify!Cast
  <2> QED
    BY <2>1 DEF CastSound, Known
<1>2. ASSUME NEW s \in Sockets PROVE SocketSound(m, s)'
  BY DEF NotifyInv, MessagesSound, SocketSound, Known
<1> QED
  BY <1>1, <1>2

\* A message that is made: nobody has it, and everyone in its audience is listening.
LEMMA NotifyMakes ==
    ASSUME Notify!NotificationsAssumption, NotifyInv, NEW m \in Messages,
           NEW k \in Notify!Kinds, Notify!Notify(m, k)
    PROVE  NotifyInv'
<1> DEFINE casts == [t \in Notify!Topics |->
                       [phase |-> IF t \in Notify!TopicsOf[k] THEN "called" ELSE "none",
                        todo |-> {}, disconnected |-> {}]]
           heard == {s \in Sockets : handler[s] = "listening"}
<1>1. /\ kind[m] = "none" /\ kind' = [kind EXCEPT ![m] = k]
      /\ cast' = [cast EXCEPT ![m] = casts] /\ audience' = [audience EXCEPT ![m] = heard]
      /\ UNCHANGED <<active, topic, handler, link, got>>
  BY DEF Notify!Notify
<1>2. casts \in [Notify!Topics -> Notify!Cast]
  BY DEF Notify!Cast
<1>3. \A t \in Notify!Topics :
      /\ casts[t].phase = IF t \in Notify!TopicsOf[k] THEN "called" ELSE "none"
      /\ casts[t].todo = {} /\ casts[t].disconnected = {}
  OBVIOUS
<1> HIDE DEF casts
<1>4. Notify!TypeOK'
  BY <1>1, <1>2 DEF NotifyInv, Notify!TypeOK
<1>5. kind'[m] = k /\ cast'[m] = casts /\ audience'[m] = heard
  BY <1>1 DEF NotifyInv, Notify!TypeOK
<1>6. \A n \in Messages : n # m =>
          kind'[n] = kind[n] /\ cast'[n] = cast[n] /\ audience'[n] = audience[n]
  BY <1>1 DEF NotifyInv, Notify!TypeOK
<1>7. Notify!RegisteredWhileListening' /\ HandlersSound'
  BY <1>1 DEF NotifyInv, Notify!RegisteredWhileListening, Notify!Registered,
       Notify!ConnectionsOf, HandlersSound
<1>8. ASSUME NEW t \in Notify!Topics PROVE CastSound(m, t)'
  BY <1>1, <1>3, <1>5, TopicsOfTypes DEF CastSound
<1>9. ASSUME NEW s \in Sockets PROVE SocketSound(m, s)'
  <2>1. got[s][m] = 0
    <3>1. SocketSound(m, s) /\ handler[s] \in {"none", "accepting", "listening", "ended"}
      BY DEF NotifyInv, MessagesSound, Notify!TypeOK
    <3>2. got[s][m] = 1 => topic[s] \in Notify!Topics /\ cast[m][topic[s]].phase # "none"
      BY <3>1, KnownTopics DEF SocketSound
    <3>3. \A t \in Notify!Topics : cast[m][t].phase = "none"
      BY <1>1 DEF NotifyInv, MessagesSound, CastSound
    <3> QED
      BY <3>1, <3>2, <3>3 DEF SocketSound
  <2>2. topic[s] \in Notify!TopicsOf[k] => casts[topic[s]].phase = "called"
    BY <1>3, TopicsOfTypes
  <2> QED
    BY <1>1, <1>5, <2>1, <2>2, TopicsOfTypes DEF SocketSound, Known
<1>10. MessagesSound'
  <2>1. ASSUME NEW n \in Messages, n # m
        PROVE  (\A t \in Notify!Topics : CastSound(n, t)') /\ (\A s \in Sockets :
                 SocketSound(n, s)')
    BY <1>1, <1>6, <2>1, OtherMessages
  <2> QED
    BY <1>8, <1>9, <2>1 DEF MessagesSound
<1> QED
  BY <1>4, <1>7, <1>10 DEF NotifyInv

\* A broadcast that begins copies the connections of its topic; those in the audience
\* that are still there are among them.
LEMMA NotifyBroadcast ==
    ASSUME Notify!NotificationsAssumption, NotifyInv, NEW m \in Messages,
           NEW t \in Notify!Topics, Notify!Broadcast(m, t)
    PROVE  NotifyInv'
<1> DEFINE c == [phase |-> IF t \in DOMAIN active THEN "sending" ELSE "done",
                 todo |-> Notify!ConnectionsOf(t), disconnected |-> {}]
<1>1. /\ cast[m][t].phase = "called" /\ cast' = [cast EXCEPT ![m][t] = c]
      /\ UNCHANGED <<active, topic, handler, link, kind, audience, got>>
  BY DEF Notify!Broadcast
<1>2. c \in Notify!Cast
  BY DEF NotifyInv, Notify!TypeOK, Notify!Cast, Notify!ConnectionsOf
<1>3. /\ c.phase \in {"sending", "done"} /\ (c.phase # "sending" => c.todo = {})
      /\ c.todo = Notify!ConnectionsOf(t) /\ c.disconnected = {}
  BY DEF Notify!ConnectionsOf
<1> HIDE DEF c
<1>4. Notify!TypeOK'
  BY <1>1, <1>2 DEF NotifyInv, Notify!TypeOK
<1>5. /\ cast'[m][t] = c
      /\ \A u \in Notify!Topics : u # t => cast'[m][u] = cast[m][u]
      /\ \A n \in Messages : n # m => cast'[n] = cast[n]
  BY <1>1 DEF NotifyInv, Notify!TypeOK
<1>6. Notify!RegisteredWhileListening' /\ HandlersSound'
  BY <1>1 DEF NotifyInv, Notify!RegisteredWhileListening, Notify!Registered,
       Notify!ConnectionsOf, HandlersSound
<1>7. \A s \in c.todo : s \in Sockets /\ topic[s] = t /\ handler[s] = "listening"
  BY <1>3 DEF NotifyInv, Notify!TypeOK, Notify!ConnectionsOf, Notify!RegisteredWhileListening
<1>8. kind[m] # "none" /\ t \in Notify!TopicsOf[kind[m]]
  BY <1>1 DEF NotifyInv, MessagesSound, CastSound
<1>9. ASSUME NEW u \in Notify!Topics PROVE CastSound(m, u)'
  <2>1. CASE u = t
    <3>1. \A s \in c.todo : got[s][m] = 0
      BY <1>1, <1>7 DEF NotifyInv, MessagesSound, SocketSound
    <3> QED
      BY <1>1, <1>3, <1>5, <1>7, <1>8, <2>1, <3>1 DEF CastSound, Known
  <2>2. CASE u # t
    <3>1. CastSound(m, u) /\ cast'[m][u] = cast[m][u]
      BY <1>5, <2>2 DEF NotifyInv, MessagesSound
    <3> QED
      BY <1>1, <3>1 DEF CastSound, Known
  <2> QED
    BY <2>1, <2>2
<1>10. ASSUME NEW s \in Sockets PROVE SocketSound(m, s)'
  <2>1. SocketSound(m, s)
    BY DEF NotifyInv, MessagesSound
  <2>2. CASE ~Known(s)
    BY <1>1, <2>1, <2>2 DEF SocketSound, Known
  <2>3. CASE Known(s) /\ topic[s] # t
    <3>1. cast'[m][topic[s]] = cast[m][topic[s]]
      BY <1>5, <2>3, KnownTopics
    <3> QED
      BY <1>1, <2>1, <3>1 DEF SocketSound, Known
  <2>4. CASE Known(s) /\ topic[s] = t
    <3>1. got[s][m] = 0
      BY <1>1, <2>1, <2>4 DEF SocketSound
    <3>2. link[s] = "up" => s \in c.todo
      <4> SUFFICES ASSUME link[s] = "up" PROVE s \in c.todo
        OBVIOUS
      <4>1. handler[s] = "listening"
        BY <2>4 DEF NotifyInv, HandlersSound, Known
      <4> QED
        BY <1>3, <2>4, <4>1 DEF NotifyInv, Notify!RegisteredWhileListening, Notify!Registered
    <3> QED
      BY <1>1, <1>5, <2>1, <2>4, <3>1, <3>2 DEF SocketSound, Known
  <2> QED
    BY <2>2, <2>3, <2>4
<1>11. MessagesSound'
  <2>1. ASSUME NEW n \in Messages, n # m
        PROVE  (\A u \in Notify!Topics : CastSound(n, u)') /\ (\A s \in Sockets :
                 SocketSound(n, s)')
    BY <1>1, <1>5, <2>1, OtherMessages
  <2> QED
    BY <1>9, <1>10, <2>1 DEF MessagesSound
<1> QED
  BY <1>4, <1>6, <1>11 DEF NotifyInv

\* A send takes the socket off the broadcast and gives it the message, or marks it.
LEMMA NotifySend ==
    ASSUME Notify!NotificationsAssumption, NotifyInv, NEW m \in Messages,
           NEW t \in Notify!Topics, NEW s \in Sockets,
           NEW fails \in BOOLEAN, Notify!Send(m, t, s, fails)
    PROVE  NotifyInv'
<1> DEFINE c == Notify!AfterSend(cast[m][t], s, fails)
<1>1. /\ cast[m][t].phase = "sending" /\ s \in cast[m][t].todo /\ (fails => link[s] = "down")
      /\ got' = IF link[s] = "up" THEN [got EXCEPT ![s][m] = got[s][m] + 1] ELSE got
      /\ cast' = [cast EXCEPT ![m][t] = c]
      /\ active' = IF c.phase = "done" THEN Notify!Disconnect(c.disconnected, t) ELSE active
      /\ UNCHANGED <<topic, handler, link, kind, audience>>
  BY DEF Notify!Send
<1>2. cast[m][t] \in Notify!Cast /\ CastSound(m, t)
  BY DEF NotifyInv, Notify!TypeOK, MessagesSound
<1>3. /\ c.phase = (IF cast[m][t].todo = {s} THEN "done" ELSE "sending")
      /\ c.todo = cast[m][t].todo \ {s}
      /\ c.disconnected = IF fails THEN cast[m][t].disconnected \union {s}
                          ELSE cast[m][t].disconnected
  BY DEF Notify!AfterSend
<1>4. c \in Notify!Cast
  BY <1>2 DEF Notify!AfterSend, Notify!Cast
<1>5. /\ c.phase \in {"sending", "done"} /\ (c.phase # "sending" => c.todo = {})
      /\ \A r \in c.disconnected : link[r] = "down"
  BY <1>1, <1>2, <1>3 DEF CastSound
<1> HIDE DEF c
<1>6. topic[s] = t /\ Known(s) /\ got[s][m] = 0
  BY <1>1, <1>2 DEF CastSound
<1>7. /\ cast'[m][t] = c
      /\ \A u \in Notify!Topics : u # t => cast'[m][u] = cast[m][u]
      /\ \A n \in Messages : n # m => cast'[n] = cast[n]
  BY <1>1 DEF NotifyInv, Notify!TypeOK
<1>8. /\ got' \in [Sockets -> [Messages -> 0..2]]
      /\ got'[s][m] = IF link[s] = "up" THEN 1 ELSE 0
      /\ \A r \in Sockets, n \in Messages : r # s \/ n # m => got'[r][n] = got[r][n]
  BY <1>1, <1>6 DEF NotifyInv, Notify!TypeOK
<1>9. DOMAIN active' \subseteq Notify!Topics /\ \A u \in DOMAIN active' :
      active'[u] \in (SUBSET Sockets) \ {{}}
  <2>1. CASE c.phase = "done"
    BY <1>1, <2>1, DisconnectTypes DEF NotifyInv
  <2>2. CASE c.phase # "done"
    BY <1>1, <2>2 DEF NotifyInv, Notify!TypeOK
  <2> QED
    BY <2>1, <2>2
<1>10. Notify!TypeOK'
  BY <1>1, <1>4, <1>8, <1>9 DEF NotifyInv, Notify!TypeOK
<1>11. Notify!RegisteredWhileListening'
  <2>1. CASE c.phase = "done"
    <3>1. /\ UNCHANGED topic /\ UNCHANGED link /\ Notify!TypeOK /\ Notify!RegisteredWhileListening
          /\ active' = Notify!Disconnect(c.disconnected, t)
      BY <1>1, <2>1 DEF NotifyInv
    <3>2. \A r \in Sockets : handler'[r] = handler[r] \/ (r \in c.disconnected /\ topic[r] = t)
      BY <1>1
    <3>3. \A r \in c.disconnected : link'[r] = "down"
      BY <1>1, <1>5
    <3> QED
      BY <3>1, <3>2, <3>3, DisconnectRegistered
  <2>2. CASE c.phase # "done"
    BY <1>1, <2>2 DEF NotifyInv, Notify!RegisteredWhileListening, Notify!Registered,
         Notify!ConnectionsOf
  <2> QED
    BY <2>1, <2>2
<1>12. HandlersSound'
  BY <1>1 DEF NotifyInv, HandlersSound
<1>13. kind[m] # "none" /\ t \in Notify!TopicsOf[kind[m]]
  BY <1>1, <1>2 DEF CastSound
<1>14. ASSUME NEW u \in Notify!Topics PROVE CastSound(m, u)'
  <2>1. CASE u = t
    <3>1. \A r \in c.todo : r \in Sockets /\ topic[r] = t /\ Known(r) /\ got'[r][m] = 0
      BY <1>2, <1>3, <1>8 DEF CastSound, Notify!Cast
    <3> QED
      BY <1>1, <1>5, <1>7, <1>13, <2>1, <3>1 DEF CastSound, Known
  <2>2. CASE u # t
    <3>1. CastSound(m, u) /\ cast'[m][u] = cast[m][u] /\ cast[m][u].todo \subseteq Sockets
      BY <1>7, <2>2 DEF NotifyInv, MessagesSound, Notify!TypeOK, Notify!Cast
    <3>2. \A r \in cast[m][u].todo : r # s /\ got'[r][m] = got[r][m]
      BY <1>6, <1>8, <2>2, <3>1 DEF CastSound
    <3> QED
      BY <1>1, <3>1, <3>2 DEF CastSound, Known
  <2> QED
    BY <2>1, <2>2
<1>15. ASSUME NEW r \in Sockets PROVE SocketSound(m, r)'
  <2>1. SocketSound(m, r)
    BY DEF NotifyInv, MessagesSound
  <2>2. CASE r = s
    BY <1>1, <1>5, <1>6, <1>7, <1>8, <2>1, <2>2 DEF SocketSound, Known
  <2>3. CASE r # s /\ ~Known(r)
    BY <1>1, <1>8, <2>1, <2>3 DEF SocketSound, Known
  <2>4. CASE r # s /\ Known(r) /\ topic[r] # t
    <3>1. cast'[m][topic[r]] = cast[m][topic[r]]
      BY <1>7, <2>4, KnownTopics
    <3> QED
      BY <1>1, <1>8, <2>1, <2>4, <3>1 DEF SocketSound, Known
  <2>5. CASE r # s /\ Known(r) /\ topic[r] = t
    BY <1>1, <1>3, <1>5, <1>7, <1>8, <2>1, <2>5 DEF SocketSound, Known
  <2> QED
    BY <2>2, <2>3, <2>4, <2>5
<1>16. MessagesSound'
  <2>1. ASSUME NEW n \in Messages, n # m
        PROVE  (\A u \in Notify!Topics : CastSound(n, u)') /\ (\A r \in Sockets :
                 SocketSound(n, r)')
    BY <1>1, <1>7, <1>8, <2>1, OtherMessages
  <2> QED
    BY <1>14, <1>15, <2>1 DEF MessagesSound
<1> QED
  BY <1>10, <1>11, <1>12, <1>16 DEF NotifyInv

LEMMA NotifyNext ==
    ASSUME Notify!NotificationsAssumption, NotifyInv, [Notify!Next]_notificationVars
    PROVE  NotifyInv'
<1>1. CASE UNCHANGED notificationVars
  BY <1>1 DEF NotifyInv, Notify!TypeOK, Notify!RegisteredWhileListening, Notify!Registered,
       Notify!ConnectionsOf, HandlersSound,
     MessagesSound, CastSound, SocketSound, Known, notificationVars
<1>2. CASE Notify!Next
  BY <1>2, NotifyOpen, NotifyConnect, NotifyRefuse, NotifyHangup, NotifyLeave, NotifyMakes,
       NotifyBroadcast,
     NotifySend DEF Notify!Next
<1> QED
  BY <1>1, <1>2

LEMMA NotifyServes == ASSUME NotifyInv PROVE Notify!ReachesTheConnected
<1> SUFFICES ASSUME NEW m \in Messages, NEW s \in Sockets
             PROVE  /\ got[s][m] <= 1
                    /\ /\ Notify!Delivered(m) /\ s \in audience[m] /\ link[s] = "up"
                       /\ topic[s] \in Notify!TopicsOf[kind[m]]
                       => got[s][m] = 1
  BY DEF Notify!ReachesTheConnected
<1>1. SocketSound(m, s) /\ kind[m] \in Notify!Kinds \union {"none"}
  BY DEF NotifyInv, MessagesSound, Notify!TypeOK
<1>2. got[s][m] <= 1
  BY <1>1 DEF SocketSound
<1>3. ASSUME Notify!Delivered(m), s \in audience[m], link[s] = "up",
      topic[s] \in Notify!TopicsOf[kind[m]]
      PROVE  got[s][m] = 1
  <2>1. topic[s] \in Notify!Topics
    BY <1>1, <1>3, TopicsOfTypes DEF SocketSound
  <2>2. cast[m][topic[s]].phase = "done"
    BY <1>3 DEF Notify!Delivered
  <2>3. cast[m][topic[s]].todo = {}
    BY <2>1, <2>2 DEF NotifyInv, MessagesSound, CastSound
  <2> QED
    BY <1>1, <1>3, <2>2, <2>3 DEF SocketSound
<1> QED
  BY <1>2, <1>3

------------------------------------------------------------------------------
(* Monitoring *)

\* Rules have places of their own and were made by calls that have been counted.
Placed ==
    \A n \in Monitor!Present :
        /\ rules[n].at <= added /\ rules[n].made <= added
        /\ \A m \in Monitor!Present : rules[m].at = rules[n].at => m = n

\* A rule remembers the check that raised its last alert.
Remembered ==
    \A n \in RuleNames : raised[n] # << >> =>
        n \in Monitor!Present /\ rules[n].last = raised[n][Len(raised[n])]

\* What a walk has passed it need not raise, unless the rule was replaced meanwhile.
PassedBy(walk) ==
    /\ walk.made <= added
    /\ \A n \in Monitor!Present \intersect walk.above :
           rules[n].made <= walk.made /\ rules[n].at <= walk.past
           => walk.began < rules[n].last + Cooldown

WalksPassed == \A l \in Loops : check[l] # None => PassedBy(check[l])

\* Only the loop that was started last can be alive, unless start was called twice.
LoopKnown == restarted \/ alive \subseteq (IF running THEN {checkTask} ELSE {})

MonitorInv ==
    /\ Monitor!TypeOK /\ Placed /\ Remembered /\ WalksPassed /\ LoopKnown
    /\ Monitor!AlertsSpaced /\ Monitor!ChecksComplete

LEMMA PresentCounts ==
    ASSUME Monitor!MonitoringAssumption
    PROVE  Cardinality(Monitor!Present) \in 0..Cardinality(RuleNames)
<1>1. Monitor!Present \in SUBSET RuleNames /\ IsFiniteSet(RuleNames)
  BY SameFiniteSets DEF Monitor!MonitoringAssumption, Monitor!Present
<1>2. IsFiniteSet(Monitor!Present) /\ Cardinality(Monitor!Present) <= Cardinality(RuleNames)
  BY <1>1, FS_Subset
<1> QED
  BY <1>1, <1>2, FS_CardinalityType

\* The parts of the state that the proofs below compute with.
LEMMA RuleTypes ==
    ASSUME Monitor!TypeOK, NEW n \in Monitor!Present
    PROVE  /\ n \in RuleNames /\ rules[n] \in Monitor!Rule
           /\ rules[n].at \in 1..MaxAdded /\ rules[n].made \in 1..MaxAdded
           /\ rules[n].last \in {-Cooldown} \union 0..CheckTime
<1>1. n \in RuleNames /\ rules[n] \in Monitor!Rule
  BY DEF Monitor!TypeOK, Monitor!Present
<1> QED
  BY <1>1 DEF Monitor!Rule

LEMMA MonitorInit == ASSUME Monitor!MonitoringAssumption, Monitor!Init PROVE MonitorInv
<1>1. Monitor!TypeOK
  <2>1. rules \in [RuleNames -> {None} \union Monitor!Rule]
        /\ check \in [Loops -> {None} \union Monitor!Walk]
    BY DEF Monitor!Init
  <2>2. << >> \in Seq(0..CheckTime)
    OBVIOUS
  <2>3. raised \in [RuleNames -> Seq(0..CheckTime)]
    BY <2>2 DEF Monitor!Init
  <2>4. added \in 0..MaxAdded /\ checkNow \in 0..CheckTime
    BY DEF Monitor!MonitoringAssumption, Monitor!Init
  <2> QED
    BY <2>1, <2>3, <2>4 DEF Monitor!Init, Monitor!TypeOK
<1>2. Placed /\ Remembered /\ WalksPassed /\ LoopKnown
  BY DEF Monitor!Init, Monitor!Present, Placed, Remembered, WalksPassed, LoopKnown
<1>3. Monitor!AlertsSpaced /\ Monitor!ChecksComplete
  BY DEF Monitor!Init, Monitor!AlertsSpaced, Monitor!ChecksComplete
<1> QED
  BY <1>1, <1>2, <1>3 DEF MonitorInv
------------------------------------------------------------------------------
\* A walk raises its next alert: the rule is due, so its last alert is old enough.
LEMMA MonitorRaiseNext ==
    ASSUME Monitor!MonitoringAssumption, MonitorInv, NEW l \in Loops, NEW walk \in Monitor!Walk,
           PassedBy(walk),
           Monitor!RaiseNext(l, walk), UNCHANGED <<added, Monitor!looping, checkNow>>
    PROVE  MonitorInv'
<1>1. PICK n \in Monitor!Due(walk) :
          /\ \A m \in Monitor!Due(walk) : rules[n].at <= rules[m].at
          /\ rules' = [rules EXCEPT ![n].last = walk.began]
          /\ raised' = [raised EXCEPT ![n] = Append(@, walk.began)]
          /\ check' = [check EXCEPT ![l] = [walk EXCEPT !.past = rules[n].at]]
          /\ UNCHANGED missed
  BY DEF Monitor!RaiseNext, Monitor!Trigger
<1>2. /\ n \in Monitor!Present /\ n \in walk.above
      /\ walk.began >= rules[n].last + Cooldown /\ rules[n].at > walk.past
  BY DEF Monitor!Due, Monitor!Raised
<1>3. /\ walk.began \in 0..CheckTime /\ walk.past \in 0..MaxAdded /\ walk.made \in 0..MaxAdded
      /\ Cooldown \in Nat /\ Cooldown > 0 /\ CheckTime \in Nat /\ MaxAdded \in Nat
  BY DEF Monitor!MonitoringAssumption, Monitor!Walk
<1>4. Monitor!TypeOK
  BY DEF MonitorInv
<1>5. n \in RuleNames /\ rules[n] \in Monitor!Rule /\ rules[n].at \in 1..MaxAdded
        /\ rules[n].last \in {-Cooldown} \union 0..CheckTime
  BY <1>2, <1>4, RuleTypes
<1>6. rules'[n] = [rules[n] EXCEPT !.last = walk.began] /\ rules'[n] \in Monitor!Rule
  <2>1. rules'[n] = [rules[n] EXCEPT !.last = walk.began]
    BY <1>1, <1>4, <1>5 DEF Monitor!TypeOK
  <2> QED
    BY <2>1, <1>3, <1>5 DEF Monitor!Rule
<1>7. /\ rules'[n].last = walk.began /\ rules'[n].at = rules[n].at
      /\ rules'[n].made = rules[n].made
  BY <1>5, <1>6 DEF Monitor!Rule
<1>8. rules' \in [RuleNames -> {None} \union Monitor!Rule]
  BY <1>1, <1>4, <1>5, <1>6 DEF Monitor!TypeOK
<1>9. \A m \in RuleNames : m # n => rules'[m] = rules[m] /\ raised'[m] = raised[m]
  BY <1>1, <1>4 DEF Monitor!TypeOK
<1>10. Monitor!Present' = Monitor!Present
  BY <1>2, <1>6, <1>9 DEF Monitor!Present, Monitor!MonitoringAssumption
<1>11. raised[n] \in Seq(0..CheckTime) /\ raised'[n] = Append(raised[n], walk.began)
         /\ raised'[n] \in Seq(0..CheckTime)
  BY <1>1, <1>3, <1>4, <1>5 DEF Monitor!TypeOK
<1> DEFINE onward == [walk EXCEPT !.past = rules[n].at]
<1>12. /\ onward \in Monitor!Walk /\ onward.began = walk.began /\ onward.above = walk.above
       /\ onward.made = walk.made /\ onward.past = rules[n].at
  BY <1>3, <1>5 DEF Monitor!Walk
<1>13. check' \in [Loops -> {None} \union Monitor!Walk] /\ check'[l] = onward
         /\ \A k \in Loops : k # l => check'[k] = check[k]
  BY <1>1, <1>4, <1>12 DEF Monitor!TypeOK
<1> HIDE DEF onward
<1>14. Monitor!TypeOK'
  <2>1. raised' \in [RuleNames -> Seq(0..CheckTime)]
    BY <1>1, <1>4, <1>5, <1>11 DEF Monitor!TypeOK
  <2> QED
    BY <1>1, <1>4, <1>8, <1>13, <2>1 DEF Monitor!TypeOK, Monitor!looping
<1>15. \A m \in Monitor!Present : rules'[m].at = rules[m].at /\ rules'[m].made = rules[m].made
  BY <1>7, <1>9 DEF Monitor!Present
<1>16. Placed'
  BY <1>10, <1>15 DEF MonitorInv, Placed
<1>17. Remembered'
  <2> SUFFICES ASSUME NEW m \in RuleNames, raised'[m] # << >>
               PROVE  m \in Monitor!Present' /\ rules'[m].last = raised'[m][Len(raised'[m])]
    BY DEF Remembered
  <2>1. CASE m = n
    <3>1. Len(raised'[n]) = Len(raised[n]) + 1 /\ raised'[n][Len(raised[n]) + 1] = walk.began
      BY <1>3, <1>11
    <3> QED
      BY <2>1, <3>1, <1>2, <1>7, <1>10
  <2>2. CASE m # n
    BY <2>2, <1>9, <1>10 DEF MonitorInv, Remembered
  <2> QED
    BY <2>1, <2>2
<1>18. Monitor!AlertsSpaced'
  <2> SUFFICES ASSUME NEW m \in RuleNames, NEW i \in 2..Len(raised'[m])
               PROVE  raised'[m][i] - raised'[m][i - 1] >= Cooldown
    BY DEF Monitor!AlertsSpaced
  <2>1. CASE m # n
    BY <2>1, <1>9 DEF MonitorInv, Monitor!AlertsSpaced
  <2>2. CASE m = n /\ i <= Len(raised[n])
    <3>1. i \in 2..Len(raised[n]) /\ i - 1 \in 1..Len(raised[n]) /\ i \in 1..Len(raised[n])
      BY <2>2, <1>11
    <3>2. raised'[n][i] = raised[n][i] /\ raised'[n][i - 1] = raised[n][i - 1]
      BY <3>1, <1>3, <1>11
    <3>3. raised[n][i] - raised[n][i - 1] >= Cooldown
      BY <3>1, <1>5 DEF MonitorInv, Monitor!AlertsSpaced
    <3> QED
      BY <2>2, <3>2, <3>3
  <2>3. CASE m = n /\ i > Len(raised[n])
    <3>1. i = Len(raised[n]) + 1 /\ Len(raised[n]) \in Nat /\ Len(raised[n]) >= 1
      BY <2>3, <1>11
    <3>2. raised'[n][i] = walk.began /\ raised'[n][i - 1] = raised[n][Len(raised[n])]
      BY <3>1, <1>3, <1>11
    <3>3. rules[n].last = raised[n][Len(raised[n])]
      BY <3>1, <1>5, <1>11 DEF MonitorInv, Remembered
    <3>4. raised'[n][i] - raised'[n][i - 1] = walk.began - rules[n].last
      BY <3>2, <3>3
    <3> QED
      BY <2>3, <3>4, <1>2, <1>3, <1>5, SMTT(30)
  <2> QED
    BY <2>1, <2>2, <2>3, <1>11
<1>19. WalksPassed'
  <2> SUFFICES ASSUME NEW k \in Loops, check'[k] # None,
                      NEW m \in Monitor!Present', m \in check'[k].above,
                      rules'[m].made <= check'[k].made, rules'[m].at <= check'[k].past
               PROVE  /\ check'[k].made <= added'
                      /\ check'[k].began < rules'[m].last + Cooldown
    <3>1. \A k \in Loops : check'[k] # None => check'[k].made <= added'
      <4> SUFFICES ASSUME NEW k \in Loops, check'[k] # None PROVE check'[k].made <= added'
        OBVIOUS
      <4>1. CASE k = l
        BY <4>1, <1>12, <1>13 DEF PassedBy
      <4>2. CASE k # l
        BY <4>2, <1>13 DEF MonitorInv, WalksPassed, PassedBy
      <4> QED
        BY <4>1, <4>2
    <3> QED
      BY <3>1 DEF WalksPassed, PassedBy
  <2>1. m \in Monitor!Present /\ rules[m].made = rules'[m].made /\ rules[m].at = rules'[m].at
    BY <1>10, <1>15
  <2>2. /\ rules[m].at \in 1..MaxAdded /\ rules[m].made \in 1..MaxAdded
        /\ rules[m].last \in {-Cooldown} \union 0..CheckTime
    BY <2>1, <1>4, RuleTypes
  <2>3. rules'[m].last >= rules[m].last
    <3>1. CASE m = n
      BY <3>1, <1>2, <1>3, <1>5, <1>7
    <3>2. CASE m # n
      BY <3>2, <2>1, <2>2, <1>3, <1>9 DEF Monitor!Present
    <3> QED
      BY <3>1, <3>2
  <2>4. rules'[m].last \in {-Cooldown} \union 0..CheckTime
    BY <1>4, <1>10, <1>14, <2>1, <1>3, <1>7, <1>9, <2>2 DEF Monitor!Present
  <2>5. CASE k # l
    <3>1. check'[k] = check[k] /\ check[k] \in Monitor!Walk /\ check[k].began \in 0..CheckTime
      BY <2>5, <1>4, <1>13 DEF Monitor!TypeOK, Monitor!Walk
    <3>2. check[k].made <= added /\ check[k].began < rules[m].last + Cooldown
      BY <2>1, <3>1 DEF MonitorInv, WalksPassed, PassedBy
    <3> QED
      BY <3>1, <3>2, <2>2, <2>3, <2>4, <1>3
  <2>6. CASE k = l
    <3>1. /\ m \in walk.above /\ rules[m].made <= walk.made /\ rules[m].at <= rules[n].at
          /\ check'[k].began = walk.began /\ check'[k].made = walk.made
      BY <2>1, <2>6, <1>12, <1>13
    <3>2. walk.made <= added'
      BY DEF PassedBy
    <3>3. CASE m = n
      BY <3>1, <3>2, <3>3, <1>3, <1>7
    <3>4. CASE m # n /\ rules[m].at <= walk.past
      <4>1. walk.began < rules[m].last + Cooldown
        BY <3>1, <3>4, <2>1 DEF PassedBy
      <4> QED
        BY <4>1, <3>1, <3>2, <2>2, <2>3, <2>4, <1>3
    <3>5. CASE m # n /\ rules[m].at > walk.past
      <4>1. rules[m].at # rules[n].at
        BY <3>5, <2>1, <1>2 DEF MonitorInv, Placed
      <4>2. m \notin Monitor!Due(walk)
        BY <4>1, <3>1, <2>2, <1>1, <1>5
      <4>3. walk.began < rules[m].last + Cooldown
        BY <4>2, <3>1, <3>5, <2>1, <2>2, <1>3 DEF Monitor!Due, Monitor!Raised
      <4> QED
        BY <4>3, <3>1, <3>2, <2>2, <2>3, <2>4, <1>3
    <3> QED
      BY <3>3, <3>4, <3>5, <2>2, <1>3
  <2> QED
    BY <2>5, <2>6
<1>20. LoopKnown' /\ Monitor!ChecksComplete'
  BY <1>1 DEF MonitorInv, LoopKnown, Monitor!ChecksComplete, Monitor!looping
<1> QED
  BY <1>14, <1>16, <1>17, <1>18, <1>19, <1>20 DEF MonitorInv

\* A walk that is complete has passed every rule, so it has left none out.
LEMMA MonitorComplete ==
    ASSUME Monitor!MonitoringAssumption, MonitorInv, NEW l \in Loops, NEW walk \in Monitor!Walk,
           PassedBy(walk),
           Monitor!Complete(l, walk), UNCHANGED <<added, Monitor!looping, checkNow>>
    PROVE  MonitorInv'
<1>1. Monitor!TypeOK
  BY DEF MonitorInv
<1>2. \A n \in Monitor!Raised(walk) : ~(rules[n].made <= walk.made)
  <2> SUFFICES ASSUME NEW n \in Monitor!Raised(walk), rules[n].made <= walk.made PROVE FALSE
    OBVIOUS
  <2>1. n \in Monitor!Present /\ n \in walk.above /\ walk.began >= rules[n].last + Cooldown
    BY DEF Monitor!Raised
  <2>2. rules[n].at \in 1..MaxAdded /\ rules[n].last \in {-Cooldown} \union 0..CheckTime
    BY <2>1, <1>1, RuleTypes
  <2>3. walk.began \in 0..CheckTime /\ walk.past \in 0..MaxAdded /\ Cooldown \in Nat
          /\ CheckTime \in Nat /\ MaxAdded \in Nat
    BY DEF Monitor!MonitoringAssumption, Monitor!Walk
  <2>4. n \notin Monitor!Due(walk)
    BY DEF Monitor!Complete
  <2>5. rules[n].at <= walk.past
    BY <2>2, <2>3, <2>4 DEF Monitor!Due
  <2>6. walk.began < rules[n].last + Cooldown
    BY <2>1, <2>5 DEF PassedBy
  <2> QED
    BY <2>1, <2>2, <2>3, <2>6
<1>3. missed' = {}
  BY <1>2 DEF Monitor!Complete, MonitorInv, Monitor!ChecksComplete
<1>4. UNCHANGED <<rules, raised, added, Monitor!looping, checkNow>>
      /\ check' = [check EXCEPT ![l] = None]
  BY DEF Monitor!Complete
<1>5. Monitor!TypeOK'
  BY <1>1, <1>3, <1>4 DEF Monitor!TypeOK, Monitor!looping
<1>6. WalksPassed'
  BY <1>1, <1>4 DEF MonitorInv, WalksPassed, PassedBy, Monitor!Present, Monitor!TypeOK
<1>7. Placed' /\ Remembered' /\ LoopKnown' /\ Monitor!AlertsSpaced' /\ Monitor!ChecksComplete'
  BY <1>3, <1>4 DEF MonitorInv, Placed, Remembered, Monitor!Present, LoopKnown,
       Monitor!AlertsSpaced, Monitor!ChecksComplete, Monitor!looping
<1> QED
  BY <1>5, <1>6, <1>7 DEF MonitorInv

LEMMA MonitorCheck ==
    ASSUME Monitor!MonitoringAssumption, MonitorInv, NEW l \in Loops, Monitor!Check(l)
    PROVE  MonitorInv'
<1>1. PICK above \in SUBSET Monitor!Present :
          Monitor!WalkOn(l, [began |-> checkNow, size |-> Cardinality(Monitor!Present),
                             past |-> 0, above |-> above, made |-> added])
  BY SameFiniteSets DEF Monitor!Check
<1> DEFINE walk == [began |-> checkNow, size |-> Cardinality(Monitor!Present), past |-> 0,
                    above |-> above, made |-> added]
<1>2. walk \in Monitor!Walk
  <2>1. above \in SUBSET RuleNames
    BY DEF Monitor!Present
  <2>2. checkNow \in 0..CheckTime /\ added \in 0..MaxAdded /\ 0 \in 0..MaxAdded
    BY DEF MonitorInv, Monitor!TypeOK, Monitor!MonitoringAssumption
  <2> QED
    BY <2>1, <2>2, PresentCounts, SameFiniteSets DEF Monitor!Walk
<1>3. PassedBy(walk)
  <2>1. added <= added
    BY DEF MonitorInv, Monitor!TypeOK, Monitor!MonitoringAssumption
  <2>2. \A n \in Monitor!Present : ~(rules[n].at <= 0)
    BY RuleTypes DEF MonitorInv, Monitor!MonitoringAssumption
  <2> QED
    BY <2>1, <2>2 DEF PassedBy
<1>4. Monitor!RaiseNext(l, walk) \/ Monitor!Complete(l, walk)
  BY <1>1 DEF Monitor!WalkOn
<1> HIDE DEF walk
<1> QED
  BY <1>2, <1>3, <1>4, MonitorRaiseNext, MonitorComplete DEF Monitor!Check

LEMMA MonitorNotified ==
    ASSUME Monitor!MonitoringAssumption, MonitorInv, NEW l \in Loops, Monitor!Notified(l)
    PROVE  MonitorInv'
<1>1. check[l] \in Monitor!Walk /\ PassedBy(check[l])
  BY DEF Monitor!Notified, MonitorInv, Monitor!TypeOK, WalksPassed
<1>2. Monitor!RaiseNext(l, check[l]) \/ Monitor!Complete(l, check[l])
  BY DEF Monitor!Notified, Monitor!WalkOn
<1> QED
  BY <1>1, <1>2, MonitorRaiseNext, MonitorComplete DEF Monitor!Notified
------------------------------------------------------------------------------
\* A rule that is added has no alerts yet, and was made after every walk began.
LEMMA MonitorAddRule ==
    ASSUME Monitor!MonitoringAssumption, MonitorInv, NEW n \in RuleNames,
           Monitor!AddRule(n)
    PROVE  MonitorInv'
<1> DEFINE rule == [at |-> IF rules[n] = None THEN added + 1 ELSE rules[n].at,
                    made |-> added + 1, last |-> -Cooldown]
<1>1. /\ added < MaxAdded /\ added' = added + 1
      /\ rules' = [rules EXCEPT ![n] = rule] /\ raised' = [raised EXCEPT ![n] = << >>]
      /\ UNCHANGED <<check, missed, Monitor!looping, checkNow>>
  BY DEF Monitor!AddRule
<1>2. Monitor!TypeOK /\ added \in 0..MaxAdded /\ MaxAdded \in Nat /\ Cooldown \in Nat
      /\ CheckTime \in Nat
  BY DEF MonitorInv, Monitor!TypeOK, Monitor!MonitoringAssumption
<1>3. n \in Monitor!Present => rules[n].at \in 1..MaxAdded /\ rules[n].at <= added
  BY <1>2, RuleTypes DEF MonitorInv, Placed
<1>4. rule.at \in 1..MaxAdded /\ rule.made = added + 1 /\ rule.at <= added + 1
  BY <1>1, <1>2, <1>3 DEF Monitor!Present
<1>5. rule \in Monitor!Rule
  BY <1>1, <1>2, <1>4 DEF Monitor!Rule
<1>6. \A m \in Monitor!Present : m # n => rules[m].at # rule.at
  BY <1>2, <1>3, RuleTypes DEF MonitorInv, Placed, Monitor!Present
<1> HIDE DEF rule
<1>7. rules'[n] = rule /\ raised'[n] = << >>
        /\ \A m \in RuleNames : m # n => rules'[m] = rules[m] /\ raised'[m] = raised[m]
  BY <1>1, <1>2 DEF Monitor!TypeOK
<1>8. Monitor!Present' = Monitor!Present \union {n}
  BY <1>5, <1>7 DEF Monitor!Present, Monitor!MonitoringAssumption
<1>9. Monitor!TypeOK'
  BY <1>1, <1>2, <1>5 DEF Monitor!TypeOK, Monitor!looping
<1>10. \A m \in Monitor!Present : rules[m].at \in 1..MaxAdded /\ rules[m].made \in 1..MaxAdded
                            /\ rules[m].at <= added /\ rules[m].made <= added
  BY <1>2, RuleTypes DEF MonitorInv, Placed
<1>11. Placed'
  <2> SUFFICES ASSUME NEW k \in Monitor!Present'
               PROVE  /\ rules'[k].at <= added' /\ rules'[k].made <= added'
                      /\ \A m \in Monitor!Present' : rules'[m].at = rules'[k].at => m = k
    BY DEF Placed
  <2>1. CASE k = n
    BY <2>1, <1>1, <1>2, <1>4, <1>6, <1>7, <1>8 DEF Monitor!Present
  <2>2. CASE k # n
    <3>1. k \in Monitor!Present /\ rules'[k] = rules[k]
      BY <2>2, <1>7, <1>8 DEF Monitor!Present
    <3> QED
      BY <2>2, <3>1, <1>1, <1>2, <1>6, <1>7, <1>8, <1>10 DEF MonitorInv, Placed, Monitor!Present
  <2> QED
    BY <2>1, <2>2
<1>12. Remembered'
  BY <1>7, <1>8 DEF MonitorInv, Remembered
<1>13. WalksPassed'
  <2> SUFFICES ASSUME NEW k \in Loops, check[k] # None
               PROVE  PassedBy(check[k])'
    BY <1>1 DEF WalksPassed
  <2>1. check[k].made \in 0..MaxAdded /\ PassedBy(check[k]) /\ check'[k] = check[k]
    BY <1>1, <1>2 DEF MonitorInv, WalksPassed, Monitor!TypeOK, Monitor!Walk
  <2>2. check[k].made <= added /\ ~(rules'[n].made <= check[k].made)
    BY <2>1, <1>2, <1>4, <1>7 DEF PassedBy
  <2>3. \A m \in Monitor!Present' : m # n => m \in Monitor!Present /\ rules'[m] = rules[m]
    BY <1>7, <1>8 DEF Monitor!Present
  <2> QED
    BY <2>1, <2>2, <2>3, <1>1, <1>2 DEF PassedBy
<1>14. Monitor!AlertsSpaced'
  <2> SUFFICES ASSUME NEW m \in RuleNames, NEW i \in 2..Len(raised'[m])
               PROVE  raised'[m][i] - raised'[m][i - 1] >= Cooldown
    BY DEF Monitor!AlertsSpaced
  <2>1. m # n
    BY <1>7
  <2> QED
    BY <2>1, <1>7 DEF MonitorInv, Monitor!AlertsSpaced
<1>15. LoopKnown' /\ Monitor!ChecksComplete'
  BY <1>1 DEF MonitorInv, LoopKnown, Monitor!ChecksComplete, Monitor!looping
<1> QED
  BY <1>9, <1>11, <1>12, <1>13, <1>14, <1>15 DEF MonitorInv

LEMMA MonitorRemoveRule ==
    ASSUME Monitor!MonitoringAssumption, MonitorInv, NEW n \in RuleNames,
           Monitor!RemoveRule(n)
    PROVE  MonitorInv'
<1>1. /\ rules' = [rules EXCEPT ![n] = None] /\ raised' = [raised EXCEPT ![n] = << >>]
      /\ UNCHANGED <<added, check, missed, Monitor!looping, checkNow>>
  BY DEF Monitor!RemoveRule
<1>2. Monitor!TypeOK
  BY DEF MonitorInv
<1>3. rules'[n] = None /\ raised'[n] = << >>
        /\ \A m \in RuleNames : m # n => rules'[m] = rules[m] /\ raised'[m] = raised[m]
  BY <1>1, <1>2 DEF Monitor!TypeOK
<1>4. Monitor!Present' = Monitor!Present \ {n} /\ \A m \in Monitor!Present' : rules'[m] = rules[m]
  BY <1>3 DEF Monitor!Present
<1>5. Monitor!TypeOK'
  BY <1>1, <1>2 DEF Monitor!TypeOK, Monitor!looping
<1>6. Placed'
  BY <1>1, <1>4 DEF MonitorInv, Placed
<1>7. Remembered'
  BY <1>3, <1>4 DEF MonitorInv, Remembered
<1>8. WalksPassed'
  BY <1>1, <1>4 DEF MonitorInv, WalksPassed, PassedBy
<1>9. Monitor!AlertsSpaced'
  <2> SUFFICES ASSUME NEW m \in RuleNames, NEW i \in 2..Len(raised'[m])
               PROVE  raised'[m][i] - raised'[m][i - 1] >= Cooldown
    BY DEF Monitor!AlertsSpaced
  <2>1. m # n
    BY <1>3
  <2> QED
    BY <2>1, <1>3 DEF MonitorInv, Monitor!AlertsSpaced
<1>10. LoopKnown' /\ Monitor!ChecksComplete'
  BY <1>1 DEF MonitorInv, LoopKnown, Monitor!ChecksComplete, Monitor!looping
<1> QED
  BY <1>5, <1>6, <1>7, <1>8, <1>9, <1>10 DEF MonitorInv

\* Steps that leave the rules and their alerts alone, and end walks at most.
LEMMA RulesUntouched ==
    ASSUME MonitorInv, UNCHANGED <<rules, added, raised, missed>>,
           \A l \in Loops : check'[l] = check[l] \/ check'[l] = None
    PROVE  Placed' /\ Remembered' /\ WalksPassed' /\ Monitor!AlertsSpaced'
             /\ Monitor!ChecksComplete'
<1>1. Placed' /\ Remembered' /\ Monitor!AlertsSpaced' /\ Monitor!ChecksComplete'
  BY DEF MonitorInv, Placed, Remembered, Monitor!Present, Monitor!AlertsSpaced,
       Monitor!ChecksComplete
<1>2. WalksPassed'
  <2> SUFFICES ASSUME NEW l \in Loops, check'[l] # None
               PROVE  PassedBy(check[l])'
    BY DEF WalksPassed
  <2>1. check'[l] = check[l] /\ PassedBy(check[l])
    BY DEF MonitorInv, WalksPassed
  <2> QED
    BY <2>1 DEF PassedBy, Monitor!Present
<1> QED
  BY <1>1, <1>2

LEMMA MonitorBreakOff ==
    ASSUME MonitorInv, NEW l \in Loops, Monitor!BreakOff(l) PROVE MonitorInv'
<1>1. Monitor!TypeOK' /\ \A k \in Loops : check'[k] = check[k] \/ check'[k] = None
  BY DEF MonitorInv, Monitor!BreakOff, Monitor!TypeOK, Monitor!looping
<1>2. LoopKnown'
  BY DEF MonitorInv, Monitor!BreakOff, LoopKnown, Monitor!looping
<1> QED
  BY <1>1, <1>2, RulesUntouched DEF MonitorInv, Monitor!BreakOff

\* start() while nothing runs finds no loop alive.
LEMMA MonitorStart ==
    ASSUME MonitorInv, NEW l \in Loops, Monitor!Start(l) PROVE MonitorInv'
<1>1. Monitor!TypeOK' /\ \A k \in Loops : check'[k] = check[k] \/ check'[k] = None
  BY DEF MonitorInv, Monitor!Start, Monitor!TypeOK, Monitor!checking
<1>2. LoopKnown'
  BY DEF MonitorInv, Monitor!Start, LoopKnown
<1> QED
  BY <1>1, <1>2, RulesUntouched DEF MonitorInv, Monitor!Start, Monitor!checking

LEMMA MonitorStop ==
    ASSUME MonitorInv, Monitor!Stop PROVE MonitorInv'
<1>1. Monitor!TypeOK' /\ \A k \in Loops : check'[k] = check[k] \/ check'[k] = None
  BY DEF MonitorInv, Monitor!Stop, Monitor!TypeOK
<1>2. LoopKnown'
  BY DEF MonitorInv, Monitor!Stop, LoopKnown
<1> QED
  BY <1>1, <1>2, RulesUntouched DEF MonitorInv, Monitor!Stop

LEMMA MonitorEnd ==
    ASSUME MonitorInv, NEW l \in Loops, Monitor!End(l) PROVE MonitorInv'
<1>1. Monitor!TypeOK' /\ \A k \in Loops : check'[k] = check[k] \/ check'[k] = None
  BY DEF MonitorInv, Monitor!End, Monitor!TypeOK, Monitor!checking
<1>2. LoopKnown'
  BY DEF MonitorInv, Monitor!End, LoopKnown
<1> QED
  BY <1>1, <1>2, RulesUntouched DEF MonitorInv, Monitor!End, Monitor!checking

LEMMA MonitorTick ==
    ASSUME Monitor!MonitoringAssumption, MonitorInv, Monitor!Tick PROVE MonitorInv'
<1>1. Monitor!TypeOK' /\ \A k \in Loops : check'[k] = check[k] \/ check'[k] = None
  BY DEF Monitor!MonitoringAssumption, MonitorInv, Monitor!Tick, Monitor!TypeOK,
       Monitor!checking, Monitor!looping
<1>2. LoopKnown'
  BY DEF MonitorInv, Monitor!Tick, LoopKnown, Monitor!looping
<1> QED
  BY <1>1, <1>2, RulesUntouched DEF MonitorInv, Monitor!Tick, Monitor!checking

LEMMA MonitorNext ==
    ASSUME Monitor!MonitoringAssumption, MonitorInv, [Monitor!Next]_monitoringVars
    PROVE  MonitorInv'
<1>1. CASE UNCHANGED monitoringVars
  <2>1. UNCHANGED <<rules, added, running, checkTask, alive, check, checkNow, raised, missed,
                    restarted>>
    BY <1>1 DEF monitoringVars
  <2>2. Monitor!TypeOK' /\ LoopKnown' /\ \A k \in Loops : check'[k] = check[k] \/ check'[k] = None
    BY <2>1 DEF MonitorInv, Monitor!TypeOK, LoopKnown
  <2> QED
    BY <2>1, <2>2, RulesUntouched DEF MonitorInv
<1>2. CASE Monitor!Next
  BY <1>2, MonitorTick, MonitorStop, MonitorAddRule, MonitorRemoveRule, MonitorStart,
       MonitorCheck, MonitorNotified, MonitorBreakOff, MonitorEnd DEF Monitor!Next
<1> QED
  BY <1>1, <1>2

LEMMA MonitorSound == ASSUME MonitorInv PROVE Monitor!AlertingSound
<1>1. Monitor!OneLoopRuns
  <2>1. CASE restarted
    BY <2>1 DEF Monitor!OneLoopRuns
  <2>2. CASE ~restarted
    <3>1. alive = {} \/ alive = {checkTask}
      BY <2>2 DEF MonitorInv, LoopKnown
    <3>2. Cardinality(alive) = 0 \/ Cardinality(alive) = 1
      BY <3>1, FS_EmptySet, FS_Singleton
    <3> QED
      BY <3>2, SameFiniteSets DEF Monitor!OneLoopRuns
  <2> QED
    BY <2>1, <2>2
<1> QED
  BY <1>1 DEF MonitorInv, Monitor!AlertingSound

------------------------------------------------------------------------------
(* AsyncTasks *)

\* What is known of one task.  Only a task that was never submitted or was deleted has no
\* entry; before its last step an entry has neither a result nor an error, and is
\* cancelled only by a request, which the next step will see.
TaskSound(id) ==
    LET entry == task_store[id]
        at == execution[id].at
        rest == execution[id].left
    IN  /\ at = "none" => id \notin deleted
        /\ at = "none" <=> id > submitted
        /\ entry = None <=> at = "none" \/ id \in deleted
        /\ at \in {"none", "queued"} => atCancel[id] > MaxSteps
        /\ at = "asleep" => rest > 0
        /\ at = "asleep" /\ atCancel[id] <= MaxSteps =>
               rest >= atCancel[id] /\ (entry = None \/ entry.status = "cancelled")
        /\ at = "over" /\ atCancel[id] <= MaxSteps => rest >= atCancel[id] - 1
        /\ entry # None =>
               /\ at = "queued" => entry.status \in {"pending", "cancelled"}
               /\ at = "asleep" => entry.status \in {"running", "cancelled"}
               /\ at = "over" => entry.status \in Async!Finished
               /\ at # "raised"
               /\ at \in {"queued", "asleep"} =>
                      /\ ~entry.result /\ ~entry.error
                      /\ entry.status = "cancelled" => id \in cancelled
               /\ entry.result => entry.status = "completed"
               /\ entry.status = "completed" => entry.result \/ id \in cancelled
               /\ entry.status = "failed" <=> entry.error

AsyncInv == Async!TypeOK /\ \A id \in Async!Ids : TaskSound(id)

LEMMA AsyncInit == Async!Init => AsyncInv
<1> SUFFICES ASSUME Async!Init PROVE AsyncInv
  OBVIOUS
<1>1. MaxTasks \in Nat /\ MaxSteps \in Nat
  BY ServicesAssumption DEF Async!AsyncTasksAssumption
<1>2. 0 \in Async!Invalid..MaxSteps /\ MaxSteps + 1 \in 1..(MaxSteps + 1)
  BY <1>1 DEF Async!Invalid
<1>3. Async!TypeOK
  BY <1>1, <1>2 DEF Async!Init, Async!TypeOK, Async!Absent
<1>4. ASSUME NEW id \in Async!Ids PROVE TaskSound(id)
  BY <1>1, <1>4 DEF Async!Init, Async!Ids, Async!Absent, TaskSound
<1> QED
  BY <1>3, <1>4 DEF AsyncInv

\* A task that a step leaves alone.
LEMMA OtherTask ==
    ASSUME NEW id, TaskSound(id), task_store'[id] = task_store[id],
           execution'[id] = execution[id], atCancel'[id] = atCancel[id],
           id > submitted <=> id > submitted',
           id \in deleted <=> id \in deleted', id \in cancelled <=> id \in cancelled'
    PROVE  TaskSound(id)'
  BY DEF TaskSound

LEMMA AsyncFacts ==
    /\ MaxTasks \in Nat /\ MaxSteps \in Nat /\ None \notin Async!Entry
    /\ Async!Absent = None /\ Async!Invalid = -1 /\ Async!Ids = 1..MaxTasks
  BY ServicesAssumption DEF Async!AsyncTasksAssumption, Async!Absent, Async!Invalid, Async!Ids

Place == [at : {"none", "queued", "asleep", "over", "raised"}, left : Async!Invalid..MaxSteps]

\* What a step may report of a task that still has its entry.
Truthful(id, at, rest, entry) ==
    task_store[id] # None =>
        /\ entry \in Async!Entry
        /\ at = "asleep" =>
               /\ rest > 0
               /\ entry.status \in {"running", "cancelled"} /\ ~entry.result /\ ~entry.error
               /\ entry.status = "cancelled" => id \in cancelled
               /\ atCancel[id] <= MaxSteps => rest >= atCancel[id] /\ entry.status = "cancelled"
        /\ at = "over" =>
               /\ entry.status \in Async!Finished
               /\ atCancel[id] <= MaxSteps => rest >= atCancel[id] - 1
        /\ entry.result => entry.status = "completed"
        /\ entry.status = "completed" => entry.result \/ id \in cancelled
        /\ entry.status = "failed" <=> entry.error

LEMMA ReportKeeps ==
    ASSUME AsyncInv, NEW id \in Async!Ids, execution[id].at \in {"queued", "asleep"},
           NEW at \in {"asleep", "over"}, NEW rest \in Async!Invalid..MaxSteps,
           NEW entry, Async!Report(id, at, rest, entry), Truthful(id, at, rest, entry)
    PROVE  AsyncInv'
<1> USE AsyncFacts
<1>1. Async!TypeOK /\ TaskSound(id)
  BY DEF AsyncInv
<1> DEFINE to == IF task_store[id] = None THEN "raised" ELSE at
<1>2. /\ task_store' = IF task_store[id] = None THEN task_store
                       ELSE [task_store EXCEPT ![id] = entry]
      /\ execution' = [execution EXCEPT ![id] = [at |-> to, left |-> rest]]
      /\ UNCHANGED <<submitted, cancelled, atCancel, deleted>>
  BY DEF Async!Report
<1>3. Async!TypeOK'
  <2>1. task_store' \in [Async!Ids -> Async!Entry \union {Async!Absent}]
    BY <1>1, <1>2 DEF Async!TypeOK, Truthful
  <2>2. [at |-> to, left |-> rest] \in Place
    BY DEF Place
  <2>3. execution' \in [Async!Ids -> Place]
    BY <1>1, <1>2, <2>2 DEF Async!TypeOK, Place
  <2> QED
    BY <1>1, <1>2, <2>1, <2>3 DEF Async!TypeOK, Place
<1>4. execution'[id] = [at |-> to, left |-> rest]
      /\ \A j \in Async!Ids : j # id =>
             execution'[j] = execution[j] /\ task_store'[j] = task_store[j]
  BY <1>1, <1>2 DEF Async!TypeOK
<1>5. task_store[id] = None => task_store'[id] = None
  BY <1>2
<1>6. task_store[id] # None => task_store'[id] = entry /\ entry # None
  BY <1>1, <1>2 DEF Async!TypeOK, Truthful
<1>7. TaskSound(id)'
  <2>1. CASE task_store[id] = None
    BY <1>1, <1>2, <1>4, <1>5, <2>1 DEF TaskSound
  <2>2. CASE task_store[id] # None
    BY <1>1, <1>2, <1>4, <1>6, <2>2 DEF TaskSound, Truthful
  <2> QED
    BY <2>1, <2>2
<1>8. ASSUME NEW j \in Async!Ids, j # id PROVE TaskSound(j)'
  <2>1. TaskSound(j)
    BY DEF AsyncInv
  <2> QED
    BY <1>2, <1>4, <1>8, <2>1, OtherTask
<1> QED
  BY <1>3, <1>7, <1>8 DEF AsyncInv

LEMMA AsyncSubmit ==
    ASSUME AsyncInv, NEW steps \in Async!Invalid..MaxSteps, Async!Submit(steps)
    PROVE  AsyncInv'
<1> USE AsyncFacts
<1>0. PICK n : n = submitted + 1
  OBVIOUS
<1> DEFINE entry == [status |-> "pending", result |-> FALSE, error |-> FALSE]
           place == [at |-> "queued", left |-> steps]
<1>1. /\ n \in Async!Ids /\ submitted \in Nat /\ submitted' = n
      /\ task_store' = [task_store EXCEPT ![n] = entry]
      /\ execution' = [execution EXCEPT ![n] = place]
      /\ UNCHANGED <<cancelled, atCancel, deleted>>
  BY <1>0 DEF AsyncInv, Async!TypeOK, Async!Submit
<1>2. entry \in Async!Entry /\ place \in Place
  BY DEF Async!Entry, Async!Status, Place
<1>3. Async!TypeOK'
  <2>1. task_store' \in [Async!Ids -> Async!Entry \union {Async!Absent}]
    BY <1>1, <1>2 DEF AsyncInv, Async!TypeOK
  <2>2. execution' \in [Async!Ids -> Place]
    BY <1>1, <1>2 DEF AsyncInv, Async!TypeOK, Place
  <2> QED
    BY <1>1, <2>1, <2>2, SMTT(30) DEF AsyncInv, Async!TypeOK, Place
<1>4. task_store'[n] = entry /\ execution'[n] = place /\ entry # None
      /\ \A j \in Async!Ids : j # n =>
             execution'[j] = execution[j] /\ task_store'[j] = task_store[j]
  BY <1>1, <1>2 DEF AsyncInv, Async!TypeOK
<1> HIDE DEF entry, place
<1>5. TaskSound(n)'
  <2>1. TaskSound(n) /\ n > submitted
    BY <1>0, <1>1 DEF AsyncInv
  <2>2. /\ execution'[n].at = "queued" /\ task_store'[n].status = "pending"
        /\ ~task_store'[n].result /\ ~task_store'[n].error /\ task_store'[n] # None
    BY <1>4 DEF entry, place
  <2>3. atCancel[n] > MaxSteps /\ n \notin deleted
    BY <2>1 DEF TaskSound
  <2> QED
    BY <1>1, <2>2, <2>3 DEF TaskSound
<1>6. ASSUME NEW j \in Async!Ids, j # n PROVE TaskSound(j)'
  <2>1. TaskSound(j) /\ (j > submitted <=> j > submitted')
    BY <1>0, <1>1, <1>6 DEF AsyncInv
  <2> QED
    BY <1>1, <1>4, <1>6, <2>1, OtherTask
<1> QED
  BY <1>3, <1>5, <1>6 DEF AsyncInv

LEMMA AsyncBegin == ASSUME AsyncInv, NEW id \in Async!Ids, Async!Begin(id) PROVE AsyncInv'
<1> USE AsyncFacts
<1> DEFINE rest == execution[id].left
           failing == [status |-> "failed", result |-> FALSE, error |-> TRUE]
           sleeping == [status |-> "running", result |-> FALSE, error |-> FALSE]
<1>1. /\ TaskSound(id) /\ execution[id].at = "queued" /\ rest \in Async!Invalid..MaxSteps
      /\ ~(atCancel[id] <= MaxSteps)
  BY DEF AsyncInv, Async!TypeOK, Async!Begin, TaskSound
<1> USE DEF Truthful, Async!Entry, Async!Status, Async!Finished
<1>2. CASE Async!Report(id, "over", rest, failing)
  <2>1. Truthful(id, "over", rest, failing)
    BY <1>1
  <2> QED
    BY ONLY AsyncInv, <1>1, <1>2, <2>1, ReportKeeps
<1>3. CASE Async!Report(id, "over", rest, Async!Completed)
  <2>1. Truthful(id, "over", rest, Async!Completed)
    BY <1>1 DEF Async!Completed
  <2> QED
    BY ONLY AsyncInv, <1>1, <1>3, <2>1, ReportKeeps
<1>4. CASE rest > 0 /\ Async!Report(id, "asleep", rest, sleeping)
  <2>1. Truthful(id, "asleep", rest, sleeping)
    BY <1>1, <1>4
  <2> QED
    BY ONLY AsyncInv, <1>1, <1>4, <2>1, ReportKeeps
<1> QED
  BY <1>2, <1>3, <1>4 DEF Async!Begin

LEMMA AsyncStep == ASSUME AsyncInv, NEW id \in Async!Ids, Async!Step(id) PROVE AsyncInv'
<1> USE AsyncFacts
<1> DEFINE rest == execution[id].left - 1
           entry == task_store[id]
           over == [entry EXCEPT !.status = "completed"]
<1>1. /\ TaskSound(id) /\ execution[id].at = "asleep" /\ rest \in Async!Invalid..MaxSteps
      /\ entry # None => entry \in Async!Entry
      /\ atCancel[id] \in 1..(MaxSteps + 1) /\ execution[id].left \in Int
  <2>1. execution[id].left \in Async!Invalid..MaxSteps /\ execution[id].left > 0
    BY DEF AsyncInv, Async!TypeOK, Async!Step, TaskSound
  <2> QED
    BY <2>1 DEF AsyncInv, Async!TypeOK, Async!Step
<1>2. CASE Async!Report(id, "over", rest, Async!Completed)
  <2>1. Truthful(id, "over", rest, Async!Completed)
    BY <1>1 DEF Truthful, Async!Entry, Async!Status, Async!Finished, Async!Completed, TaskSound
  <2> QED
    BY <1>1, <1>2, <2>1, ReportKeeps
<1>3. CASE entry # None /\ entry.status = "cancelled" /\ Async!Report(id, "over", rest, over)
  <2>1. over \in Async!Entry /\ over.status = "completed" /\ over.result = entry.result
          /\ over.error = entry.error
    BY <1>1, <1>3 DEF Async!Entry, Async!Status
  <2> HIDE DEF over
  <2>2. Truthful(id, "over", rest, over)
    BY <1>1, <1>3, <2>1 DEF Truthful, Async!Finished, TaskSound
  <2> QED
    BY <1>1, <1>3, <2>2, ReportKeeps
<1>4. CASE /\ rest > 0 /\ ~(entry # None /\ entry.status = "cancelled")
           /\ Async!Report(id, "asleep", rest, entry)
  <2>1. Truthful(id, "asleep", rest, entry)
    BY <1>1, <1>4 DEF Truthful, TaskSound
  <2> QED
    BY <1>1, <1>4, <2>1, ReportKeeps
<1> QED
  BY <1>1, <1>2, <1>3, <1>4 DEF Async!Step

LEMMA AsyncInterrupt == ASSUME AsyncInv, NEW id \in Async!Ids, Async!Interrupt(id) PROVE AsyncInv'
<1> USE AsyncFacts
<1> DEFINE rest == execution[id].left
           stopped == [status |-> "cancelled", result |-> FALSE, error |-> FALSE]
<1>1. /\ TaskSound(id) /\ execution[id].at = "asleep" /\ rest \in Async!Invalid..MaxSteps
      /\ Async!Report(id, "over", rest, stopped) /\ atCancel[id] \in 1..(MaxSteps + 1)
  BY DEF AsyncInv, Async!TypeOK, Async!Interrupt
<1>2. stopped \in Async!Entry
  BY DEF Async!Entry, Async!Status
<1> HIDE DEF stopped
<1>3. Truthful(id, "over", rest, stopped)
  BY <1>1, <1>2 DEF Truthful, TaskSound, Async!Finished, stopped
<1> QED
  BY <1>1, <1>3, ReportKeeps

LEMMA AsyncCancel == ASSUME AsyncInv, NEW id \in Async!Ids, Async!Cancel(id) PROVE AsyncInv'
<1> USE AsyncFacts
<1> DEFINE entry == task_store[id]
           stopped == [entry EXCEPT !.status = "cancelled"]
<1>1. /\ Async!TypeOK /\ TaskSound(id) /\ entry # None /\ entry.status \notin Async!Finished
      /\ task_store' = [task_store EXCEPT ![id] = stopped]
      /\ cancelled' = cancelled \union {id}
      /\ atCancel' = IF entry.status = "running"
                     THEN [atCancel EXCEPT ![id] = execution[id].left] ELSE atCancel
      /\ UNCHANGED <<execution, submitted, deleted>>
  <2>1. task_store' = [task_store EXCEPT ![id].status = "cancelled"]
    BY DEF Async!Cancel
  <2>2. [task_store EXCEPT ![id].status = "cancelled"] = [task_store EXCEPT ![id] = stopped]
    BY DEF AsyncInv, Async!TypeOK
  <2> QED
    BY <2>1, <2>2 DEF AsyncInv, Async!Cancel
<1>2. entry \in Async!Entry /\ execution[id] \in Place
  BY <1>1 DEF Async!TypeOK, Place
<1>3. /\ stopped \in Async!Entry /\ stopped.status = "cancelled"
      /\ stopped.result = entry.result /\ stopped.error = entry.error
  BY <1>2 DEF Async!Entry, Async!Status
<1> HIDE DEF stopped
<1>4. entry.status \in {"pending", "running"} /\ execution[id].at \in {"queued", "asleep"}
  BY <1>1, <1>2 DEF TaskSound, Async!Entry, Async!Status, Async!Finished, Place
<1>5. entry.status = "running" => execution[id].at = "asleep" /\ execution[id].left \in 1..MaxSteps
  BY <1>1, <1>2, <1>4 DEF TaskSound, Place
<1>6. atCancel' \in [Async!Ids -> 1..(MaxSteps + 1)]
      /\ \A j \in Async!Ids : j # id => atCancel'[j] = atCancel[j]
  BY <1>1, <1>5 DEF Async!TypeOK
<1>7. atCancel'[id] = IF entry.status = "running" THEN execution[id].left ELSE atCancel[id]
  BY <1>1 DEF Async!TypeOK
<1>8. task_store' \in [Async!Ids -> Async!Entry \union {Async!Absent}]
      /\ task_store'[id] = stopped /\ stopped # None
      /\ \A j \in Async!Ids : j # id => task_store'[j] = task_store[j]
  BY <1>1, <1>3 DEF Async!TypeOK
<1>9. Async!TypeOK'
  BY <1>1, <1>6, <1>8 DEF Async!TypeOK
<1>10. TaskSound(id)'
  BY <1>1, <1>2, <1>3, <1>4, <1>5, <1>7, <1>8 DEF TaskSound, Place, Async!Finished
<1>11. ASSUME NEW j \in Async!Ids, j # id PROVE TaskSound(j)'
  <2>1. TaskSound(j)
    BY DEF AsyncInv
  <2> QED
    BY <1>1, <1>6, <1>8, <1>11, <2>1, OtherTask
<1> QED
  BY <1>9, <1>10, <1>11 DEF AsyncInv

LEMMA AsyncRemove ==
    ASSUME AsyncInv, NEW ids \in SUBSET Async!Ids, \A id \in ids : task_store[id] # None,
           Async!Remove(ids)
    PROVE  AsyncInv'
<1> USE AsyncFacts
<1>1. /\ task_store' = [id \in Async!Ids |-> IF id \in ids THEN None ELSE task_store[id]]
      /\ deleted' = deleted \union ids
      /\ UNCHANGED <<execution, submitted, cancelled, atCancel>>
  BY DEF Async!Remove
<1>2. Async!TypeOK'
  BY <1>1 DEF AsyncInv, Async!TypeOK
<1>3. ASSUME NEW id \in Async!Ids PROVE TaskSound(id)'
  <2>1. TaskSound(id)
    BY DEF AsyncInv
  <2>2. CASE id \in ids
    BY <1>1, <2>1, <2>2 DEF TaskSound
  <2>3. CASE id \notin ids
    BY <1>1, <2>1, <2>3, OtherTask
  <2> QED
    BY <2>2, <2>3
<1> QED
  BY <1>2, <1>3 DEF AsyncInv

LEMMA AsyncNext == ASSUME AsyncInv, [Async!Next]_asyncVars PROVE AsyncInv'
<1> USE AsyncFacts
<1>1. ASSUME NEW id \in Async!Ids, Async!Delete(id) PROVE AsyncInv'
  BY <1>1, AsyncRemove DEF Async!Delete
<1>2. ASSUME NEW newest \in Async!Ids, NEW statuses, Async!Cleanup(newest, statuses) PROVE AsyncInv'
  <2> DEFINE ids == {id \in 1..newest : task_store[id] # Async!Absent
                                        /\ task_store[id].status \in statuses}
  <2>1. ids \in SUBSET Async!Ids /\ \A id \in ids : task_store[id] # None
    OBVIOUS
  <2>2. Async!Remove(ids)
    BY <1>2 DEF Async!Cleanup
  <2> QED
    BY <2>1, <2>2, AsyncRemove
<1>3. CASE UNCHANGED asyncVars
  BY <1>3, SMTT(30) DEF asyncVars, AsyncInv, Async!TypeOK, TaskSound
<1> QED
  BY <1>1, <1>2, <1>3, AsyncSubmit, AsyncBegin, AsyncStep, AsyncInterrupt, AsyncCancel
     DEF Async!Next

LEMMA AsyncTruly == ASSUME AsyncInv PROVE TasksAnswerTruly
<1>1. ASSUME NEW id \in Async!Ids PROVE TaskSound(id)
  BY <1>1 DEF AsyncInv
<1>2. \A id \in Async!Ids : /\ task_store[id] # None => task_store[id] \in Async!Entry
                            /\ execution[id] \in Place
                            /\ atCancel[id] \in 1..(MaxSteps + 1)
  BY AsyncFacts DEF AsyncInv, Async!TypeOK, Place
<1>3. ASSUME NEW id \in Async!Ids, task_store[id] # None
      PROVE  LET stands == task_store[id].status
                 at == execution[id].at
             IN /\ stands = "pending" => at = "queued"
                /\ stands = "running" => at = "asleep"
                /\ at = "queued" => stands \in {"pending", "cancelled"}
                /\ at = "asleep" => stands \in {"running", "cancelled"}
                /\ at # "raised"
                /\ task_store[id].result => stands = "completed"
                /\ stands = "completed" => task_store[id].result \/ id \in cancelled
                /\ stands = "failed" <=> task_store[id].error
  BY <1>1, <1>2, <1>3 DEF TaskSound, Async!Finished, Place
<1>4. Async!StatusIsTrue
  BY <1>1, <1>3, AsyncFacts DEF Async!StatusIsTrue, TaskSound
<1>5. Async!CancelStopsWork
  BY <1>1, <1>2, AsyncFacts DEF Async!CancelStopsWork, TaskSound, Place
<1> QED
  BY <1>4, <1>5 DEF TasksAnswerTruly

------------------------------------------------------------------------------
(* HttpPool *)

User == [at : {"none", "asking", "ready", "sending"},
         name : ClientNames \union {None}, client : Pool!Clients \union {None},
         tries : 0..(RequestAttempts - 1), counted : BOOLEAN]

Sending == {u \in Users : user[u].at = "sending"}
Counted(n) == {u \in Users : user[u].name = n /\ user[u].counted}

\* Each client is under one name.  One whose closing has begun is named in the closing
\* that goes on, unless its closing was broken off; and one that is open is in the pool.
ClientsSound ==
    /\ \A n \in ClientNames : clients[n] # None =>
           /\ clients[n] \in 1..made
           /\ \A m \in ClientNames : clients[m] = clients[n] => m = n
           /\ clients[n] \in closed \ broken => closing # None /\ n \in closing.names
    /\ closing # None => \A n \in closing.names : clients[n] \in closed
    /\ Pool!HandedOutOpen
    /\ Pool!NoneLeaks

\* No request is counted that is not in flight, and each was sent once.
CountsSound ==
    /\ \A u \in Users : /\ user[u].counted => user[u].at = "sending"
                        /\ user[u].at # "none" => user[u].name \in ClientNames
    /\ \A n \in ClientNames :
           /\ requests[n] <= sent
           /\ requestsFailed[n] + Cardinality(Sending) <= sent
           /\ late[n] + Cardinality(Sending) <= sent
           /\ requestsFailed[n] + Cardinality(Counted(n)) <= requests[n] + late[n]

PoolInv == Pool!TypeOK /\ ClientsSound /\ CountsSound

LEMMA PoolFacts ==
    /\ IsFiniteSet(Users) /\ RequestAttempts \in Nat \ {0}
    /\ MaxClients \in Nat /\ MaxRequests \in Nat /\ Pool!Clients = 1..MaxClients
    /\ None \notin ClientNames /\ None \notin Nat
    /\ None \notin [all : BOOLEAN, names : SUBSET ClientNames]
  BY ServicesAssumption, SameFiniteSets DEF Pool!HttpPoolAssumption, Pool!Clients

LEMMA IdleType == Pool!Idle \in User /\ Pool!Idle.at = "none" /\ ~Pool!Idle.counted
  BY PoolFacts DEF Pool!Idle, User

LEMMA PoolInit == Pool!Init => PoolInv
<1> SUFFICES ASSUME Pool!Init PROVE PoolInv
  OBVIOUS
<1> USE PoolFacts
<1>1. Pool!TypeOK
  <2>1. user \in [Users -> User]
    BY IdleType DEF Pool!Init
  <2> QED
    BY <2>1 DEF Pool!Init, Pool!TypeOK, User
<1>2. ClientsSound
  BY DEF Pool!Init, ClientsSound, Pool!HandedOutOpen, Pool!NoneLeaks
<1>3. Sending = {} /\ \A n : Counted(n) = {}
  BY DEF Pool!Init, Sending, Counted, Pool!Idle
<1>4. CountsSound
  <2>1. Cardinality(Sending) = 0 /\ \A n : Cardinality(Counted(n)) = 0
    BY <1>3, FS_EmptySet
  <2>2. \A u \in Users : ~user[u].counted /\ user[u].at = "none"
    BY IdleType DEF Pool!Init
  <2> QED
    BY <2>1, <2>2 DEF Pool!Init, CountsSound
<1> QED
  BY <1>1, <1>2, <1>4 DEF PoolInv

\* Of the name n, what the counters gain covers what the tasks gain when u becomes r.
Covers(n, u, r) ==
    /\ requests'[n] + sent <= requests[n] + sent'
    /\ requestsFailed'[n] + sent + Indicator(r.at = "sending")
         <= requestsFailed[n] + sent' + Indicator(user[u].at = "sending")
    /\ late'[n] + sent + Indicator(r.at = "sending")
         <= late[n] + sent' + Indicator(user[u].at = "sending")
    /\ requestsFailed'[n] + (requests[n] + late[n]) + Indicator(r.counted /\ r.name = n)
         <= requestsFailed[n] + (requests'[n] + late'[n])
              + Indicator(user[u].counted /\ user[u].name = n)

Becomes(u, r) ==
    /\ user' = [user EXCEPT ![u] = r]
    /\ user[u].at # "none"
    /\ r.counted => r.at = "sending" /\ user[u].name = r.name
    /\ r.at # "none" => r.name = user[u].name
    /\ UNCHANGED <<clients, made, closed, closing, broken, misled>>
    /\ sent' \in 0..MaxRequests /\ sent <= sent'
    /\ requests' \in [ClientNames -> 0..MaxRequests]
    /\ requestsFailed' \in [ClientNames -> Nat] /\ late' \in [ClientNames -> Nat]
    /\ \A n \in ClientNames : Covers(n, u, r)

\* What a task does next, if it has a client: its counts change with it.
LEMMA UserMoves ==
    ASSUME PoolInv, NEW u \in Users, NEW r \in User, Becomes(u, r) PROVE PoolInv'
<1> USE PoolFacts
<1>1. Pool!TypeOK /\ user \in [Users -> User]
  BY DEF PoolInv, Pool!TypeOK, User
<1>2. user' \in [Users -> User] /\ user'[u] = r /\ \A v \in Users : v # u => user'[v] = user[v]
  BY <1>1 DEF Becomes
<1>3. ClientsSound'
  BY DEF Becomes, PoolInv, ClientsSound, Pool!HandedOutOpen, Pool!NoneLeaks
<1>4. /\ Cardinality(Sending) \in Nat /\ Cardinality(Sending') \in Nat
      /\ Cardinality(Sending') + Indicator(user[u].at = "sending")
           = Cardinality(Sending) + Indicator(r.at = "sending")
  <2>1. IsFiniteSet(Sending) /\ \A x : x # u => (x \in Sending <=> x \in Sending')
    BY <1>2, FS_Subset DEF Sending
  <2>2. (u \in Sending <=> user[u].at = "sending") /\ (u \in Sending' <=> r.at = "sending")
    BY <1>2 DEF Sending
  <2>3. /\ Cardinality(Sending) \in Nat /\ Cardinality(Sending') \in Nat
        /\ Cardinality(Sending') + Indicator(u \in Sending)
             = Cardinality(Sending) + Indicator(u \in Sending')
    BY <2>1, OneElement
  <2> QED
    BY <2>2, <2>3
<1>5. ASSUME NEW n \in ClientNames
      PROVE  /\ Cardinality(Counted(n)) \in Nat /\ Cardinality(Counted(n)') \in Nat
             /\ Cardinality(Counted(n)') + Indicator(user[u].counted /\ user[u].name = n)
                  = Cardinality(Counted(n)) + Indicator(r.counted /\ r.name = n)
  <2>1. IsFiniteSet(Counted(n)) /\ \A x : x # u => (x \in Counted(n) <=> x \in Counted(n)')
    BY <1>2, FS_Subset DEF Counted
  <2>2. /\ u \in Counted(n) <=> user[u].counted /\ user[u].name = n
        /\ u \in Counted(n)' <=> r.counted /\ r.name = n
    BY <1>2 DEF Counted
  <2>3. /\ Cardinality(Counted(n)) \in Nat /\ Cardinality(Counted(n)') \in Nat
        /\ Cardinality(Counted(n)') + Indicator(u \in Counted(n))
             = Cardinality(Counted(n)) + Indicator(u \in Counted(n)')
    BY <2>1, OneElement
  <2> QED
    BY <2>2, <2>3
<1>6. CountsSound'
  <2>1. ASSUME NEW v \in Users
        PROVE  /\ user'[v].counted => user'[v].at = "sending"
               /\ user'[v].at # "none" => user'[v].name \in ClientNames
    BY <1>2 DEF Becomes, PoolInv, CountsSound
  <2>2. ASSUME NEW n \in ClientNames
        PROVE  /\ requests'[n] <= sent'
               /\ requestsFailed'[n] + Cardinality(Sending') <= sent'
               /\ late'[n] + Cardinality(Sending') <= sent'
               /\ requestsFailed'[n] + Cardinality(Counted(n)') <= requests'[n] + late'[n]
    <3>1. /\ requests[n] <= sent
          /\ requestsFailed[n] + Cardinality(Sending) <= sent
          /\ late[n] + Cardinality(Sending) <= sent
          /\ requestsFailed[n] + Cardinality(Counted(n)) <= requests[n] + late[n]
      BY DEF PoolInv, CountsSound
    <3>2. /\ requests[n] \in Nat /\ requestsFailed[n] \in Nat /\ late[n] \in Nat /\ sent \in Nat
          /\ requests'[n] \in Nat /\ requestsFailed'[n] \in Nat /\ late'[n] \in Nat
          /\ sent' \in Nat
      BY <1>1 DEF Becomes, Pool!TypeOK
    <3>3. Covers(n, u, r)
      BY DEF Becomes
    <3>4. /\ Indicator(user[u].at = "sending") \in Nat /\ Indicator(r.at = "sending") \in Nat
          /\ Indicator(user[u].counted /\ user[u].name = n) \in Nat
          /\ Indicator(r.counted /\ r.name = n) \in Nat
      BY DEF Indicator
    <3>5. requests'[n] <= sent'
      BY <3>1, <3>2, <3>3, SMTT(30) DEF Covers
    <3>6. requestsFailed'[n] + Cardinality(Sending') <= sent'
      BY ONLY <1>4, <3>1, <3>2, <3>3, <3>4, StaysBelow DEF Covers
    <3>7. late'[n] + Cardinality(Sending') <= sent'
      BY ONLY <1>4, <3>1, <3>2, <3>3, <3>4, StaysBelow DEF Covers
    <3>8. requestsFailed'[n] + Cardinality(Counted(n)') <= requests'[n] + late'[n]
      <4>1. requests[n] + late[n] \in Nat /\ requests'[n] + late'[n] \in Nat
        BY <3>2, SMTT(30)
      <4> QED
        BY ONLY <4>1, <1>5, <3>1, <3>2, <3>3, <3>4, StaysBelow DEF Covers
    <3> QED
      BY <3>5, <3>6, <3>7, <3>8
  <2> QED
    BY <2>1, <2>2 DEF CountsSound
<1>7. Pool!TypeOK'
  <2>1. \A n \in ClientNames : requestsFailed'[n] \in 0..MaxRequests /\ late'[n] \in 0..MaxRequests
    <3>1. ASSUME NEW n \in ClientNames
          PROVE  /\ requestsFailed'[n] \in Nat /\ late'[n] \in Nat /\ sent' \in 0..MaxRequests
                 /\ requestsFailed'[n] + Cardinality(Sending') <= sent'
                 /\ late'[n] + Cardinality(Sending') <= sent'
      BY <1>6 DEF Becomes, CountsSound
    <3>2. Cardinality(Sending') \in Nat /\ MaxRequests \in Nat
      BY <1>4
    <3> QED
      BY ONLY <3>1, <3>2
  <2> QED
    BY <1>1, <1>2, <2>1, SMTT(30) DEF Becomes, Pool!TypeOK, User
<1> QED
  BY <1>3, <1>6, <1>7 DEF PoolInv

\* What a request leaves its task with.
LEMMA AfterFacts ==
    ASSUME Pool!TypeOK, NEW u \in Users
    PROVE  /\ Pool!After(u) \in User
           /\ Pool!After(u).at \in {"none", "ready"} /\ ~Pool!After(u).counted
           /\ Pool!After(u).at # "none" => Pool!After(u).name = user[u].name
<1>1. user[u] \in User
  BY DEF Pool!TypeOK, User
<1>2. CASE user[u].tries + 1 = RequestAttempts
  BY <1>2, IdleType DEF Pool!After
<1>3. CASE user[u].tries + 1 # RequestAttempts
  <2> DEFINE r == [user[u] EXCEPT !.at = "ready", !.tries = user[u].tries + 1, !.counted = FALSE]
  <2>1. Pool!After(u) = r
    BY <1>3 DEF Pool!After
  <2>2. user[u].tries + 1 \in 0..(RequestAttempts - 1)
    BY <1>1, <1>3, PoolFacts DEF User
  <2>3. r \in User /\ r.at = "ready" /\ r.counted = FALSE /\ r.name = user[u].name
    BY <1>1, <2>2 DEF User
  <2> QED
    BY <2>1, <2>3
<1> QED
  BY <1>2, <1>3

LEMMA PoolAsk ==
    ASSUME PoolInv, NEW u \in Users, NEW n \in ClientNames, Pool!Ask(u, n) PROVE PoolInv'
<1> USE PoolFacts
<1> DEFINE r == [user[u] EXCEPT !.at = "asking", !.name = n]
<1>1. /\ user[u].at = "none" /\ user' = [user EXCEPT ![u] = r]
      /\ UNCHANGED <<clients, made, closed, closing, sent, requests, requestsFailed, late,
                     broken, misled>>
  BY DEF Pool!Ask, Pool!counters, Pool!history
<1>2. Pool!TypeOK /\ user \in [Users -> User] /\ user[u] \in User /\ ~user[u].counted
  BY <1>1 DEF PoolInv, CountsSound, Pool!TypeOK, User
<1>3. r \in User /\ r.at = "asking" /\ r.name = n /\ ~r.counted
  BY <1>2 DEF User
<1> HIDE DEF r
<1>4. user' \in [Users -> User] /\ user'[u] = r /\ \A v \in Users : v # u => user'[v] = user[v]
  BY <1>1, <1>2, <1>3
<1>5. Sending' = Sending /\ \A m : Counted(m)' = Counted(m)
  BY <1>1, <1>2, <1>3, <1>4 DEF Sending, Counted
<1>6. ClientsSound'
  BY <1>1 DEF PoolInv, ClientsSound, Pool!HandedOutOpen, Pool!NoneLeaks
<1>7. CountsSound'
  <2>1. CountsSound
    BY DEF PoolInv
  <2>2. \A v \in Users : /\ user'[v].counted => user'[v].at = "sending"
                         /\ user'[v].at # "none" => user'[v].name \in ClientNames
    BY <1>3, <1>4, <2>1 DEF CountsSound
  <2> QED
    BY <1>1, <1>5, <2>1, <2>2 DEF CountsSound
<1>8. Pool!TypeOK'
  BY <1>1, <1>2, <1>4 DEF Pool!TypeOK, User
<1> QED
  BY <1>6, <1>7, <1>8 DEF PoolInv

LEMMA PoolSend == ASSUME PoolInv, NEW u \in Users, Pool!Send(u) PROVE PoolInv'
<1> USE PoolFacts
<1> DEFINE n == user[u].name
           r == IF user[u].client \in closed THEN Pool!After(u)
                ELSE [user[u] EXCEPT !.at = "sending", !.counted = TRUE]
<1>1. /\ user[u].at = "ready" /\ sent < MaxRequests /\ sent' = sent + 1
      /\ requests' = [requests EXCEPT ![n] = requests[n] + 1]
      /\ user' = [user EXCEPT ![u] = r]
      /\ UNCHANGED <<clients, made, closed, closing, requestsFailed, late, broken, misled>>
  BY DEF Pool!Send, Pool!history
<1>2. /\ Pool!TypeOK /\ user[u] \in User /\ ~user[u].counted /\ n \in ClientNames
      /\ \A m \in ClientNames : requests[m] <= sent
  BY <1>1 DEF PoolInv, CountsSound, Pool!TypeOK, User
<1>3. /\ r \in User /\ r.at \in {"none", "ready", "sending"}
      /\ r.counted => r.at = "sending" /\ r.name = n
      /\ r.at # "none" => r.name = n
  <2>1. CASE user[u].client \in closed
    BY <1>2, <2>1, AfterFacts
  <2>2. CASE user[u].client \notin closed
    BY <1>2, <2>2 DEF User
  <2> QED
    BY <2>1, <2>2
<1> HIDE DEF r
<1>4. /\ sent \in Nat /\ sent' \in 0..MaxRequests
      /\ \A m \in ClientNames : /\ requests[m] \in Nat /\ requestsFailed[m] \in Nat
                                /\ late[m] \in Nat
                                /\ requests'[m] = IF m = n THEN requests[m] + 1 ELSE requests[m]
  BY <1>1, <1>2 DEF Pool!TypeOK
<1>5. requests' \in [ClientNames -> 0..MaxRequests]
      /\ requestsFailed' \in [ClientNames -> Nat] /\ late' \in [ClientNames -> Nat]
  BY <1>1, <1>2, <1>4 DEF Pool!TypeOK
<1>6. ASSUME NEW m \in ClientNames PROVE Covers(m, u, r)
  <2>1. /\ sent' = sent + 1 /\ requestsFailed'[m] = requestsFailed[m] /\ late'[m] = late[m]
        /\ Indicator(user[u].at = "sending") = 0
        /\ Indicator(user[u].counted /\ user[u].name = m) = 0
        /\ Indicator(r.at = "sending") \in 0..1 /\ Indicator(r.counted /\ r.name = m) \in 0..1
        /\ m # n => Indicator(r.counted /\ r.name = m) = 0
    BY <1>1, <1>2, <1>3 DEF Indicator
  <2>2. requests'[m] \in Nat /\ requests'[m] >= requests[m] /\ requests'[m] <= requests[m] + 1
    BY <1>4
  <2>3. m = n => requests'[m] = requests[m] + 1
    BY <1>4
  <2> QED
    BY ONLY <1>4, <2>1, <2>2, <2>3 DEF Covers
<1>7. Becomes(u, r)
  BY <1>1, <1>2, <1>3, <1>4, <1>5, <1>6 DEF Becomes
<1> QED
  BY <1>3, <1>7, UserMoves

\* A task whose request ends, or that leaves, and what it counts of a failure.
LEMMA UserEnds ==
    ASSUME PoolInv, NEW u \in Users, NEW r \in User, user' = [user EXCEPT ![u] = r],
           user[u].at \in {"ready", "sending"}, r.at \in {"none", "ready"}, ~r.counted,
           r.at # "none" => r.name = user[u].name,
           UNCHANGED <<clients, made, closed, closing, broken, misled, sent, requests>>,
           \/ UNCHANGED <<requestsFailed, late>>
           \/ /\ user[u].at = "sending"
              /\ requestsFailed' = [requestsFailed EXCEPT ![user[u].name] = @ + 1]
              /\ late' = [late EXCEPT ![user[u].name] =
                              IF user[u].counted THEN @ ELSE @ + 1]
    PROVE  PoolInv'
<1> USE PoolFacts
<1> DEFINE n == user[u].name
<1>1. Pool!TypeOK /\ n \in ClientNames
  BY DEF PoolInv, CountsSound
<1>2. /\ sent \in Nat /\ sent \in 0..MaxRequests /\ requests \in [ClientNames -> 0..MaxRequests]
      /\ \A m \in ClientNames : /\ requests[m] \in Nat /\ requestsFailed[m] \in Nat
                                /\ late[m] \in Nat
  BY <1>1 DEF Pool!TypeOK
<1>3. /\ requestsFailed' \in [ClientNames -> Nat] /\ late' \in [ClientNames -> Nat]
      /\ \A m \in ClientNames :
             \/ requestsFailed'[m] = requestsFailed[m] /\ late'[m] = late[m]
             \/ /\ m = n /\ user[u].at = "sending"
                /\ requestsFailed'[m] = requestsFailed[m] + 1
                /\ late'[m] = IF user[u].counted THEN late[m] ELSE late[m] + 1
  <2>1. CASE UNCHANGED <<requestsFailed, late>>
    BY <1>1, <2>1 DEF Pool!TypeOK
  <2>2. CASE /\ user[u].at = "sending"
             /\ requestsFailed' = [requestsFailed EXCEPT ![n] = @ + 1]
             /\ late' = [late EXCEPT ![n] = IF user[u].counted THEN @ ELSE @ + 1]
    BY <1>1, <1>2, <2>2, SMTT(30) DEF Pool!TypeOK
  <2> QED
    BY <2>1, <2>2
<1>4. ASSUME NEW m \in ClientNames PROVE Covers(m, u, r)
  <2>1. /\ sent' = sent /\ requests'[m] = requests[m]
        /\ Indicator(r.at = "sending") = 0 /\ Indicator(r.counted /\ r.name = m) = 0
        /\ Indicator(user[u].at = "sending") \in 0..1
        /\ Indicator(user[u].counted /\ user[u].name = m) \in 0..1
    BY DEF Indicator
  <2>2. CASE requestsFailed'[m] = requestsFailed[m] /\ late'[m] = late[m]
    BY <1>2, <2>1, <2>2, SMTT(30) DEF Covers
  <2>3. CASE /\ m = n /\ user[u].at = "sending"
             /\ requestsFailed'[m] = requestsFailed[m] + 1
             /\ late'[m] = IF user[u].counted THEN late[m] ELSE late[m] + 1
    <3>1. Indicator(user[u].at = "sending") = 1
      BY <2>3 DEF Indicator
    <3>2. CASE user[u].counted
      <4>1. Indicator(user[u].counted /\ user[u].name = m) = 1 /\ late'[m] = late[m]
        BY <2>3, <3>2 DEF Indicator
      <4> QED
        BY ONLY <1>2, <2>1, <2>3, <3>1, <4>1, m \in ClientNames DEF Covers
    <3>3. CASE ~user[u].counted
      <4>1. late'[m] = late[m] + 1
        BY <2>3, <3>3
      <4> QED
        BY ONLY <1>2, <2>1, <2>3, <3>1, <4>1, m \in ClientNames DEF Covers
    <3> QED
      BY <3>2, <3>3
  <2> QED
    BY <1>3, <2>2, <2>3
<1>5. Becomes(u, r)
  BY <1>1, <1>2, <1>3, <1>4 DEF Becomes
<1> QED
  BY <1>5, UserMoves

LEMMA PoolEnds ==
    ASSUME PoolInv, NEW u \in Users,
           Pool!Succeed(u) \/ Pool!Fail(u) \/ Pool!Break(u) \/ Pool!Leave(u)
    PROVE  PoolInv'
<1> USE PoolFacts
<1>1. Pool!TypeOK /\ user[u] \in User
  BY DEF PoolInv, Pool!TypeOK, User
<1>2. CASE Pool!Succeed(u)
  <2> DEFINE r == [user[u] EXCEPT !.at = "ready", !.tries = 0, !.counted = FALSE]
  <2>1. /\ user[u].at = "sending" /\ user' = [user EXCEPT ![u] = r]
        /\ UNCHANGED <<clients, made, closed, closing, broken, misled, sent, requests,
                       requestsFailed, late>>
    BY <1>2 DEF Pool!Succeed, Pool!counters, Pool!history
  <2>2. 0 \in 0..(RequestAttempts - 1)
    OBVIOUS
  <2>3. r \in User /\ r.at = "ready" /\ r.counted = FALSE /\ r.name = user[u].name
    BY <1>1, <2>2 DEF User
  <2> HIDE DEF r
  <2> QED
    BY <2>1, <2>3, UserEnds
<1>3. CASE Pool!Fail(u)
  <2>1. /\ user[u].at = "sending" /\ user' = [user EXCEPT ![u] = Pool!After(u)]
        /\ requestsFailed' = [requestsFailed EXCEPT ![user[u].name] = @ + 1]
        /\ late' = [late EXCEPT ![user[u].name] = IF user[u].counted THEN @ ELSE @ + 1]
        /\ UNCHANGED <<clients, made, closed, closing, broken, misled, sent, requests>>
    BY <1>3 DEF Pool!Fail, Pool!history
  <2> QED
    BY <1>1, <2>1, AfterFacts, UserEnds
<1>4. CASE Pool!Break(u)
  <2>1. /\ user[u].at = "sending" /\ user' = [user EXCEPT ![u] = Pool!After(u)]
        /\ UNCHANGED <<clients, made, closed, closing, broken, misled, sent, requests,
                       requestsFailed, late>>
    BY <1>4 DEF Pool!Break, Pool!counters, Pool!history
  <2> QED
    BY <1>1, <2>1, AfterFacts, UserEnds
<1>5. CASE Pool!Leave(u)
  <2>1. /\ user[u].at = "ready" /\ user' = [user EXCEPT ![u] = Pool!Idle]
        /\ UNCHANGED <<clients, made, closed, closing, broken, misled, sent, requests,
                       requestsFailed, late>>
    BY <1>5 DEF Pool!Leave, Pool!counters, Pool!history
  <2> QED
    BY <2>1, IdleType, UserEnds
<1> QED
  BY <1>2, <1>3, <1>4, <1>5

\* The task is given the client of the name, or a new one, which no closing has met.
LEMMA PoolGetClient == ASSUME PoolInv, NEW u \in Users, Pool!GetClient(u) PROVE PoolInv'
<1> USE PoolFacts
<1> DEFINE n == user[u].name
           c == IF clients[n] = None THEN made + 1 ELSE clients[n]
           r == [user[u] EXCEPT !.at = "ready", !.client = c]
<1>1. /\ user[u].at = "asking" /\ closing = None /\ c \in 1..MaxClients
      /\ clients' = [clients EXCEPT ![n] = c]
      /\ made' = IF clients[n] = None THEN made + 1 ELSE made
      /\ user' = [user EXCEPT ![u] = r]
      /\ misled' = IF c \in closed \ broken THEN misled \union {u} ELSE misled
      /\ UNCHANGED <<closed, closing, sent, requests, requestsFailed, late, broken>>
  BY DEF Pool!GetClient, Pool!MayGet, Pool!counters
<1>2. /\ Pool!TypeOK /\ user \in [Users -> User] /\ user[u] \in User /\ ~user[u].counted
      /\ n \in ClientNames /\ ClientsSound /\ CountsSound
  BY <1>1 DEF PoolInv, CountsSound, Pool!TypeOK, User
<1>3. r \in User /\ r.at = "ready" /\ r.name = n /\ ~r.counted
  BY <1>1, <1>2 DEF User
<1> HIDE DEF r
<1>4. user' \in [Users -> User] /\ user'[u] = r /\ \A v \in Users : v # u => user'[v] = user[v]
  BY <1>1, <1>2, <1>3
<1>5. Sending' = Sending /\ \A m : Counted(m)' = Counted(m)
  BY <1>1, <1>2, <1>3, <1>4 DEF Sending, Counted
<1>6. CountsSound'
  <2>1. \A v \in Users : /\ user'[v].counted => user'[v].at = "sending"
                         /\ user'[v].at # "none" => user'[v].name \in ClientNames
    BY <1>2, <1>3, <1>4 DEF CountsSound
  <2> QED
    BY <1>1, <1>2, <1>5, <2>1 DEF CountsSound
<1>7. /\ clients \in [ClientNames -> Pool!Clients \union {None}] /\ made \in 0..MaxClients
      /\ closed \subseteq 1..made /\ broken \subseteq closed
      /\ \A m \in ClientNames : clients[m] # None => clients[m] \in 1..made /\ clients[m] # None
  BY <1>2 DEF Pool!TypeOK, ClientsSound
<1>8. c \notin closed \ broken /\ misled' = misled
  <2>1. CASE clients[n] = None
    BY <1>1, <1>7, <2>1
  <2>2. CASE clients[n] # None
    BY <1>1, <1>2, <2>2 DEF ClientsSound
  <2> QED
    BY <1>1, <2>1, <2>2
<1>9. clients'[n] = c /\ \A m \in ClientNames : m # n => clients'[m] = clients[m]
  BY <1>1, <1>2, <1>7
<1>10. ClientsSound'
  <2>1. CASE clients[n] = None
    <3>1. c = made + 1 /\ made' = made + 1
      BY <1>1, <2>1
    <3> HIDE DEF c
    <3>2. ASSUME NEW m \in ClientNames, clients'[m] # None
          PROVE  /\ clients'[m] \in 1..made'
                 /\ clients'[m] \notin closed' \ broken'
                 /\ \A k \in ClientNames : clients'[k] = clients'[m] => k = m
      BY <1>1, <1>2, <1>7, <1>8, <1>9, <3>1, <3>2 DEF ClientsSound
    <3>3. Pool!NoneLeaks'
      <4>1. (1..made) \ closed \subseteq {clients[k] : k \in ClientNames}
        BY <1>2 DEF ClientsSound, Pool!NoneLeaks
      <4>2. ASSUME NEW d \in (1..made') \ closed'
            PROVE  \E k \in ClientNames : d = clients'[k]
        <5>1. CASE d = c
          BY <1>2, <1>9, <5>1
        <5>2. CASE d # c
          <6>1. d \in (1..made) \ closed
            BY <1>1, <1>7, <3>1, <5>2
          <6>2. PICK k \in ClientNames : d = clients[k]
            BY <4>1, <6>1
          <6>3. k # n
            BY <1>7, <2>1, <6>1, <6>2
          <6> QED
            BY <1>9, <6>2, <6>3
        <5> QED
          BY <5>1, <5>2
      <4> QED
        BY <4>2 DEF Pool!NoneLeaks
    <3> QED
      BY <1>1, <1>2, <1>8, <3>2, <3>3 DEF ClientsSound, Pool!HandedOutOpen
  <2>2. CASE clients[n] # None
    <3>1. clients' = clients /\ made' = made
      BY <1>1, <1>7, <2>2
    <3> QED
      BY <1>1, <1>2, <1>8, <3>1 DEF ClientsSound, Pool!HandedOutOpen, Pool!NoneLeaks
  <2> QED
    BY <2>1, <2>2
<1>11. Pool!TypeOK'
  <2>1. clients' \in [ClientNames -> Pool!Clients \union {None}]
    BY <1>1, <1>7
  <2>2. made' \in 0..MaxClients /\ made <= made'
    BY <1>1, <1>7
  <2>3. closed' \subseteq 1..made'
    BY <1>1, <1>7, <2>2
  <2> QED
    BY <1>1, <1>2, <1>4, <1>8, <2>1, <2>2, <2>3 DEF Pool!TypeOK, User
<1> QED
  BY <1>6, <1>10, <1>11 DEF PoolInv

\* The closings leave the tasks and what was sent alone.
LEMMA PoolCloseNext ==
    ASSUME PoolInv, NEW all \in BOOLEAN, NEW names \in SUBSET ClientNames,
           NEW n \in ClientNames, clients[n] # None,
           \/ closing = None /\ names = {}
           \/ closing # None /\ names = closing.names,
           Pool!CloseNext(all, names, n)
    PROVE  PoolInv'
<1> USE PoolFacts
<1>1. /\ closing' = [all |-> all, names |-> names \union {n}]
      /\ closed' = closed \union {clients[n]}
      /\ UNCHANGED <<clients, made, user, sent, requests, requestsFailed, late, broken, misled>>
  BY DEF Pool!CloseNext, Pool!counters, Pool!history
<1>2. /\ closing' \in [all : BOOLEAN, names : SUBSET ClientNames] /\ closing' # None
      /\ closing'.names = names \union {n}
  BY <1>1
<1>3. ClientsSound'
  BY <1>1, <1>2 DEF PoolInv, ClientsSound, Pool!HandedOutOpen, Pool!NoneLeaks
<1>4. Sending' = Sending /\ \A m : Counted(m)' = Counted(m)
  BY <1>1 DEF Sending, Counted
<1>5. CountsSound'
  BY <1>1, <1>4 DEF PoolInv, CountsSound
<1>6. Pool!TypeOK'
  BY <1>1, <1>2, ZenonT(30) DEF PoolInv, ClientsSound, Pool!TypeOK
<1> QED
  BY <1>3, <1>5, <1>6 DEF PoolInv

\* A closing that begins or ends without a client being closed or counted anew.
LEMMA PoolCloses ==
    ASSUME PoolInv,
           \/ Pool!CloseAll \/ Pool!CloseEach \/ Pool!ClientClosed \/ Pool!CloseBreaksOff
           \/ \E n \in ClientNames : Pool!CloseClient(n)
    PROVE  PoolInv'
<1> USE PoolFacts
<1>1. /\ Pool!TypeOK /\ ClientsSound /\ CountsSound
      /\ clients \in [ClientNames -> Pool!Clients \union {None}]
      /\ closing # None => closing \in [all : BOOLEAN, names : SUBSET ClientNames]
  BY DEF PoolInv, Pool!TypeOK
<1>2. UNCHANGED <<user, sent, requests, requestsFailed, late>> => CountsSound'
  <2> SUFFICES ASSUME UNCHANGED <<user, sent, requests, requestsFailed, late>>
               PROVE  CountsSound'
    OBVIOUS
  <2>1. Sending' = Sending /\ \A m : Counted(m)' = Counted(m)
    BY DEF Sending, Counted
  <2> QED
    BY <1>1, <2>1 DEF CountsSound
<1>3. CASE Pool!CloseAll
  <2>1. /\ closing = None /\ closing' = [all |-> TRUE, names |-> {}]
        /\ UNCHANGED <<clients, made, closed, user, sent, requests, requestsFailed, late,
                       broken, misled>>
    BY <1>3 DEF Pool!CloseAll, Pool!counters, Pool!history
  <2>2. ClientsSound'
    BY <1>1, <2>1 DEF ClientsSound, Pool!HandedOutOpen, Pool!NoneLeaks
  <2>3. Pool!TypeOK'
    BY <1>1, <2>1 DEF Pool!TypeOK
  <2> QED
    BY <1>2, <2>1, <2>2, <2>3 DEF PoolInv
<1>4. CASE Pool!CloseEach
  <2>1. PICK n \in Pool!Pooled \ closing.names : Pool!CloseNext(TRUE, closing.names, n)
    BY <1>4 DEF Pool!CloseEach
  <2>2. closing # None /\ n \in ClientNames /\ clients[n] # None
        /\ closing.names \in SUBSET ClientNames
    BY <1>1, <1>4 DEF Pool!CloseEach, Pool!Pooled
  <2> QED
    BY <2>1, <2>2, PoolCloseNext
<1>5. CASE Pool!ClientClosed
  <2>1. /\ closing # None /\ closing' = None /\ clients' = Pool!Without(closing.names)
        /\ UNCHANGED <<made, closed, user, sent, requests, requestsFailed, late, broken, misled>>
    BY <1>5 DEF Pool!ClientClosed, Pool!counters, Pool!history
  <2>2. \A n \in ClientNames : clients'[n] = IF n \in closing.names THEN None ELSE clients[n]
    BY <2>1 DEF Pool!Without
  <2>3. ASSUME NEW n \in ClientNames, clients'[n] # None
        PROVE  /\ clients'[n] \in 1..made
               /\ clients'[n] \notin closed' \ broken'
               /\ \A m \in ClientNames : clients'[m] = clients'[n] => m = n
    BY <1>1, <2>1, <2>2, <2>3 DEF ClientsSound
  <2>4. ASSUME NEW d \in (1..made') \ closed' PROVE \E n \in ClientNames : d = clients'[n]
    <3>1. PICK n \in ClientNames : d = clients[n]
      BY <1>1, <2>1 DEF ClientsSound, Pool!NoneLeaks
    <3>2. n \notin closing.names
      BY <1>1, <2>1, <3>1 DEF ClientsSound
    <3> QED
      BY <2>2, <3>1, <3>2
  <2>5. ClientsSound'
    BY <1>1, <2>1, <2>3, <2>4 DEF ClientsSound, Pool!HandedOutOpen, Pool!NoneLeaks
  <2>6. Pool!TypeOK'
    <3>1. clients' \in [ClientNames -> Pool!Clients \union {None}]
      BY <1>1, <2>1 DEF Pool!Without
    <3> QED
      BY <1>1, <2>1, <3>1 DEF Pool!TypeOK
  <2> QED
    BY <1>2, <2>1, <2>5, <2>6 DEF PoolInv
<1>6. CASE Pool!CloseBreaksOff
  <2>1. /\ closing # None /\ closing' = None
        /\ broken' = broken \union {clients[n] : n \in closing.names}
        /\ UNCHANGED <<clients, made, closed, user, sent, requests, requestsFailed, late, misled>>
    BY <1>6 DEF Pool!CloseBreaksOff, Pool!counters
  <2>2. ClientsSound'
    BY <1>1, <2>1 DEF ClientsSound, Pool!HandedOutOpen, Pool!NoneLeaks
  <2>3. Pool!TypeOK'
    BY <1>1, <2>1, SMTT(30) DEF ClientsSound, Pool!TypeOK
  <2> QED
    BY <1>2, <2>1, <2>2, <2>3 DEF PoolInv
<1>7. ASSUME NEW n \in ClientNames, Pool!CloseClient(n) PROVE PoolInv'
  BY <1>7, PoolCloseNext DEF Pool!CloseClient, Pool!Pooled
<1> QED
  BY <1>3, <1>4, <1>5, <1>6, <1>7

\* The pool is empty and its counters are zero: nothing in flight is counted.
LEMMA PoolAllClosed == ASSUME PoolInv, Pool!AllClosed PROVE PoolInv'
<1> USE PoolFacts
<1>1. /\ closing # None /\ closing.names = Pool!Pooled /\ closing' = None
      /\ clients' = [n \in ClientNames |-> IF n \in ClientNames THEN None ELSE clients[n]]
      /\ requests' = [n \in ClientNames |-> 0] /\ requestsFailed' = [n \in ClientNames |-> 0]
      /\ late' = [n \in ClientNames |-> 0]
      /\ user' = [u \in Users |-> [user[u] EXCEPT !.counted = FALSE]]
      /\ UNCHANGED <<made, closed, sent, broken, misled>>
  BY DEF Pool!AllClosed, Pool!Without, Pool!FailuresCleared, Pool!history
<1>2. Pool!TypeOK /\ ClientsSound /\ CountsSound /\ user \in [Users -> User]
  BY DEF PoolInv, Pool!TypeOK, User
<1>3. \A u \in Users : /\ user'[u] \in User /\ ~user'[u].counted
                       /\ user'[u].at = user[u].at /\ user'[u].name = user[u].name
  BY <1>1, <1>2, ZenonT(30) DEF User
<1>4. ClientsSound'
  <2>1. \A d \in 1..made : d \in closed
    BY <1>1, <1>2 DEF ClientsSound, Pool!NoneLeaks, Pool!Pooled, Pool!TypeOK
  <2> QED
    BY <1>1, <1>2, <2>1 DEF ClientsSound, Pool!HandedOutOpen, Pool!NoneLeaks
<1>5. Sending' = Sending /\ \A n : Counted(n)' = {}
  BY <1>3 DEF Sending, Counted
<1>6. CountsSound'
  <2>1. /\ IsFiniteSet(Sending) /\ Cardinality(Sending) \in Nat /\ Cardinality({}) = 0
    BY FS_Subset, FS_CardinalityType, FS_EmptySet DEF Sending
  <2>2. ASSUME NEW n \in ClientNames
        PROVE  Cardinality(Sending) <= sent /\ sent \in Nat
    <3>1. /\ requestsFailed[n] + Cardinality(Sending) <= sent
          /\ requestsFailed[n] \in Nat /\ sent \in Nat
      BY <1>2 DEF CountsSound, Pool!TypeOK
    <3> QED
      BY <2>1, <3>1
  <2>3. ASSUME NEW n \in ClientNames
        PROVE  /\ requests'[n] <= sent'
               /\ requestsFailed'[n] + Cardinality(Sending') <= sent'
               /\ late'[n] + Cardinality(Sending') <= sent'
               /\ requestsFailed'[n] + Cardinality(Counted(n)') <= requests'[n] + late'[n]
    <3>1. /\ requests'[n] = 0 /\ requestsFailed'[n] = 0 /\ late'[n] = 0 /\ sent' = sent
          /\ Cardinality(Sending') = Cardinality(Sending)
          /\ Cardinality(Counted(n)') = 0
      BY <1>1, <1>5, <2>1
    <3> QED
      BY ONLY <2>1, <2>2, <3>1, n \in ClientNames
  <2>4. \A u \in Users : /\ user'[u].counted => user'[u].at = "sending"
                         /\ user'[u].at # "none" => user'[u].name \in ClientNames
    BY <1>2, <1>3 DEF CountsSound
  <2> QED
    BY <2>3, <2>4 DEF CountsSound
<1>7. Pool!TypeOK'
  <2>1. user' \in [Users -> User]
    BY <1>1, <1>3
  <2> QED
    BY <1>1, <1>2, <2>1 DEF Pool!TypeOK, User
<1> QED
  BY <1>4, <1>6, <1>7 DEF PoolInv

LEMMA PoolNext == ASSUME PoolInv, [Pool!Next]_poolVars PROVE PoolInv'
<1>1. CASE UNCHANGED poolVars
  <2>1. Sending' = Sending /\ \A m : Counted(m)' = Counted(m)
    BY <1>1 DEF poolVars, Sending, Counted
  <2> QED
    BY <1>1, <2>1 DEF poolVars, PoolInv, Pool!TypeOK, ClientsSound, CountsSound, Pool!HandedOutOpen,
                      Pool!NoneLeaks
<1>2. CASE \/ Pool!CloseAll \/ Pool!CloseEach \/ Pool!ClientClosed \/ Pool!CloseBreaksOff
           \/ \E n \in ClientNames : Pool!CloseClient(n)
  BY <1>2, PoolCloses
<1>3. ASSUME NEW u \in Users,
             \/ \E n \in ClientNames : Pool!Ask(u, n)
             \/ Pool!GetClient(u) \/ Pool!Send(u) \/ Pool!Succeed(u) \/ Pool!Fail(u)
             \/ Pool!Break(u) \/ Pool!Leave(u)
      PROVE  PoolInv'
  BY <1>3, PoolAsk, PoolGetClient, PoolSend, PoolEnds
<1>4. CASE Pool!AllClosed
  BY <1>4, PoolAllClosed
<1> QED
  BY <1>1, <1>2, <1>3, <1>4 DEF Pool!Next

LEMMA PoolIsSound == PoolInv => Pool!PoolSound
<1> SUFFICES ASSUME PoolInv PROVE Pool!PoolSound
  OBVIOUS
<1>1. \A n \in ClientNames :
          /\ Counted(n) = {u \in Users : user[u].name = n /\ user[u].counted}
          /\ requestsFailed[n] + Cardinality(Counted(n)) <= requests[n] + late[n]
  BY DEF PoolInv, CountsSound, Counted
<1> QED
  BY <1>1, SameFiniteSets
     DEF PoolInv, ClientsSound, Pool!PoolSound, Pool!FailuresCovered

------------------------------------------------------------------------------
(* LocationBatches *)

\* What a parser does, against what the tasks of its locations do.
ParserSound(p) ==
    /\ parser[p] = "waiting" => p \notin client /\ \A l \in Places : visit[p][l] = "none"
    /\ parser[p] \in {"leaving", "left"} => p \in reported \/ Locations!Disrupted(p)
    /\ p \in reported => \A l \in Places : visit[p][l] = "ended"
    /\ p \in client => parser[p] \in {"running", "leaving"} \/ Locations!Disrupted(p)
    /\ Cardinality(Locations!Visiting(p)) <= MaxLocations

\* A location that has been visited is in the results or among the errors, others in none.
PlacesSound(p) ==
    \A l \in Places :
        /\ l \in found[p] \union errors[p] <=> visit[p][l] \in {"ended", "raised"}
        /\ ~(l \in found[p] /\ l \in errors[p])
        /\ visit[p][l] = "backoff" => retries[p][l] < LocationRetries

LocationsInv ==
    /\ Locations!TypeOK
    /\ \A p \in Parsers : ParserSound(p) /\ PlacesSound(p)
    /\ Cardinality(Locations!Entered) <= MaxParsers

VisitStates == {"none", "waiting", "parsing", "backoff", "ended", "raised"}

LEMMA LocationFacts ==
    /\ IsFiniteSet(Parsers) /\ IsFiniteSet(Places)
    /\ MaxParsers \in Nat /\ MaxLocations \in Nat /\ LocationRetries \in Nat
    /\ \A S : Locations!Cardinality(S) = Cardinality(S)
    /\ \A p : IsFiniteSet(Locations!Visiting(p)) /\ Cardinality(Locations!Visiting(p)) \in Nat
    /\ IsFiniteSet(Locations!Entered) /\ Cardinality(Locations!Entered) \in Nat
<1>1. /\ IsFiniteSet(Parsers) /\ IsFiniteSet(Places)
      /\ MaxParsers \in Nat /\ MaxLocations \in Nat /\ LocationRetries \in Nat
  BY ServicesAssumption DEF Locations!LocationBatchesAssumption, Locations!IsFiniteSet, IsFiniteSet
<1>2. \A S : Locations!Cardinality(S) = Cardinality(S)
  BY DEF Locations!Cardinality, Cardinality
<1>3. \A p : Locations!Visiting(p) \subseteq Places
  BY DEF Locations!Visiting
<1>4. Locations!Entered \subseteq Parsers
  BY DEF Locations!Entered
<1> QED
  BY <1>1, <1>2, <1>3, <1>4, FS_Subset, FS_CardinalityType

LEMMA LocationTypes ==
    ASSUME Locations!TypeOK
    PROVE  /\ parser \in [Parsers -> {"waiting", "running", "leaving", "left"}]
           /\ visit \in [Parsers -> [Places -> VisitStates]]
           /\ retries \in [Parsers -> [Places -> 0..LocationRetries]]
           /\ client \in SUBSET Parsers /\ reported \in SUBSET Parsers
           /\ found \in [Parsers -> SUBSET Places] /\ errors \in [Parsers -> SUBSET Places]
  BY DEF Locations!TypeOK, VisitStates

LEMMA LocationsInit == Locations!Init => LocationsInv
<1> SUFFICES ASSUME Locations!Init PROVE LocationsInv
  OBVIOUS
<1> USE DEF Locations!Init
<1>1. Locations!TypeOK
  BY LocationFacts DEF Locations!TypeOK
<1>2. \A p \in Parsers : Locations!Visiting(p) = {}
  BY DEF Locations!Visiting
<1>3. Locations!Entered = {}
  BY DEF Locations!Entered
<1>4. Cardinality({}) = 0
  BY FS_EmptySet
<1>5. \A p \in Parsers : ParserSound(p)
  <2>1. ASSUME NEW p \in Parsers PROVE Cardinality(Locations!Visiting(p)) <= MaxLocations
    <3>1. Cardinality(Locations!Visiting(p)) = 0
      BY <1>2, <1>4
    <3>2. MaxLocations \in Nat
      BY LocationFacts
    <3> QED
      BY <3>1, <3>2
  <2> QED
    BY <2>1 DEF ParserSound
<1>6. \A p \in Parsers : PlacesSound(p)
  BY DEF PlacesSound
<1> QED
  BY <1>1, <1>3, <1>4, <1>5, <1>6, LocationFacts DEF LocationsInv

\* What does not touch a parser and its locations leaves them sound.
LEMMA OthersSound ==
    ASSUME NEW q \in Parsers, ParserSound(q), PlacesSound(q),
           parser'[q] = parser[q], visit'[q] = visit[q], retries'[q] = retries[q],
           q \in client' <=> q \in client, q \in reported' <=> q \in reported,
           found'[q] = found[q], errors'[q] = errors[q]
    PROVE  ParserSound(q)' /\ PlacesSound(q)'
<1>1. (Locations!Disrupted(q) <=> Locations!Disrupted(q)') /\ Locations!Visiting(q)' = Locations!Visiting(q)
  BY DEF Locations!Disrupted, Locations!Visiting
<1> QED
  BY <1>1 DEF ParserSound, PlacesSound

\* A step at one location of a parser that is not waiting.
LEMMA PlaceMoves ==
    ASSUME LocationsInv, NEW p \in Parsers, NEW l \in Places, NEW state \in VisitStates,
           visit[p][l] \in {"waiting", "parsing", "backoff"}, state # "none",
           visit' = [visit EXCEPT ![p][l] = state],
           UNCHANGED <<parser, client, reported>>,
           retries' \in [Parsers -> [Places -> 0..LocationRetries]],
           found' \in [Parsers -> SUBSET Places], errors' \in [Parsers -> SUBSET Places],
           \A q \in Parsers \ {p} :
               retries'[q] = retries[q] /\ found'[q] = found[q] /\ errors'[q] = errors[q],
           \A m \in Places \ {l} :
               /\ retries'[p][m] = retries[p][m]
               /\ m \in found'[p] <=> m \in found[p]
               /\ m \in errors'[p] <=> m \in errors[p],
           l \in found'[p] \union errors'[p] <=> state \in {"ended", "raised"},
           ~(l \in found'[p] /\ l \in errors'[p]),
           state = "backoff" => retries'[p][l] < LocationRetries,
           Cardinality(Locations!Visiting(p)') <= MaxLocations
    PROVE  LocationsInv'
<1>1. /\ Locations!TypeOK
      /\ parser \in [Parsers -> {"waiting", "running", "leaving", "left"}]
      /\ visit \in [Parsers -> [Places -> VisitStates]]
      /\ client \in SUBSET Parsers /\ reported \in SUBSET Parsers
      /\ \A q \in Parsers : ParserSound(q) /\ PlacesSound(q)
      /\ Cardinality(Locations!Entered) <= MaxParsers
  BY LocationTypes DEF LocationsInv
<1>2. /\ visit' \in [Parsers -> [Places -> VisitStates]]
      /\ \A q \in Parsers \ {p} : visit'[q] = visit[q]
      /\ visit'[p][l] = state /\ \A m \in Places \ {l} : visit'[p][m] = visit[p][m]
  BY <1>1
<1>3. Locations!TypeOK'
  BY <1>1, <1>2 DEF Locations!TypeOK, VisitStates
<1>4. ASSUME NEW q \in Parsers \ {p} PROVE ParserSound(q)' /\ PlacesSound(q)'
  BY <1>1, <1>2, OthersSound
<1>5. PlacesSound(p)'
  <2>1. ASSUME NEW m \in Places
        PROVE  /\ m \in found'[p] \union errors'[p] <=> visit'[p][m] \in {"ended", "raised"}
               /\ ~(m \in found'[p] /\ m \in errors'[p])
               /\ visit'[p][m] = "backoff" => retries'[p][m] < LocationRetries
    <3>1. CASE m = l
      <4>1. visit'[p][m] = state
        BY <1>2, <3>1
      <4>2. m \in found'[p] \union errors'[p] <=> state \in {"ended", "raised"}
        BY <3>1
      <4>3. ~(m \in found'[p] /\ m \in errors'[p])
        BY <3>1
      <4>4. state = "backoff" => retries'[p][m] < LocationRetries
        BY <3>1
      <4> QED
        BY <4>1, <4>2, <4>3, <4>4
    <3>2. CASE m # l
      <4>1. /\ m \in found[p] \union errors[p] <=> visit[p][m] \in {"ended", "raised"}
            /\ ~(m \in found[p] /\ m \in errors[p])
            /\ visit[p][m] = "backoff" => retries[p][m] < LocationRetries
        BY <1>1 DEF PlacesSound
      <4>2. /\ visit'[p][m] = visit[p][m] /\ retries'[p][m] = retries[p][m]
            /\ m \in found'[p] <=> m \in found[p]
            /\ m \in errors'[p] <=> m \in errors[p]
        <5>1. m \in Places \ {l}
          BY <3>2
        <5>2. visit'[p][m] = visit[p][m]
          BY <1>2, <5>1
        <5>3. /\ retries'[p][m] = retries[p][m]
              /\ m \in found'[p] <=> m \in found[p]
              /\ m \in errors'[p] <=> m \in errors[p]
          BY <5>1
        <5> QED
          BY <5>2, <5>3
      <4> QED
        BY <4>1, <4>2
    <3> QED
      BY <3>1, <3>2
  <2> QED
    BY <2>1 DEF PlacesSound
<1>6. ParserSound(p)'
  <2>1. parser[p] # "waiting" /\ p \notin reported
    BY <1>1 DEF ParserSound
  <2>2. Locations!Disrupted(p) => Locations!Disrupted(p)'
    BY <1>2 DEF Locations!Disrupted
  <2> QED
    BY <1>1, <2>1, <2>2 DEF ParserSound
<1>7. Locations!Entered' = Locations!Entered
  BY DEF Locations!Entered
<1> QED
  BY <1>1, <1>3, <1>4, <1>5, <1>6, <1>7 DEF LocationsInv

\* How many locations of a parser are being visited after a step at one of them.
LEMMA VisitingMoves ==
    ASSUME LocationsInv, NEW p \in Parsers, NEW l \in Places, NEW state \in VisitStates,
           visit' = [visit EXCEPT ![p][l] = state],
           \/ state \notin {"parsing", "backoff"}
           \/ visit[p][l] \in {"parsing", "backoff"}
           \/ Cardinality(Locations!Visiting(p)) < MaxLocations
    PROVE  Cardinality(Locations!Visiting(p)') <= MaxLocations
<1> DEFINE now == Locations!Visiting(p)
           then == Locations!Visiting(p)'
<1>1. /\ visit \in [Parsers -> [Places -> VisitStates]]
      /\ MaxLocations \in Nat /\ IsFiniteSet(now) /\ Cardinality(now) \in Nat
      /\ Cardinality(now) <= MaxLocations
  <2>1. ParserSound(p) /\ Locations!TypeOK
    BY DEF LocationsInv
  <2> QED
    BY <2>1, LocationTypes, LocationFacts DEF ParserSound
<1>2. /\ visit'[p][l] = state /\ \A m \in Places \ {l} : visit'[p][m] = visit[p][m]
  BY <1>1
<1>3. \A m : m # l => (m \in now <=> m \in then)
  BY <1>2 DEF Locations!Visiting
<1>4. /\ l \in now <=> visit[p][l] \in {"parsing", "backoff"}
      /\ l \in then <=> state \in {"parsing", "backoff"}
  BY <1>2 DEF Locations!Visiting
<1> HIDE DEF now, then
<1>5. /\ Cardinality(then) \in Nat
      /\ Cardinality(then) + Indicator(l \in now) = Cardinality(now) + Indicator(l \in then)
  BY <1>1, <1>3, OneElement
<1>6. Cardinality(then) <= MaxLocations
  <2>1. PICK i \in Nat, j \in Nat : /\ i = Indicator(l \in now) /\ j = Indicator(l \in then)
                                   /\ i <= 1 /\ j <= 1
    BY DEF Indicator
  <2>2. j = 0 \/ i = 1 \/ Cardinality(now) < MaxLocations
    BY <1>4, <2>1 DEF Indicator, now
  <2> QED
    BY <1>1, <1>5, <2>1, <2>2
<1> QED
  BY <1>6 DEF then

\* A step at location l of parser p.
PlaceSteps(p, l) ==
    Locations!Visit(p, l) \/ Locations!Succeed(p, l) \/ Locations!Fail(p, l)
    \/ Locations!Retry(p, l) \/ Locations!GiveUp(p, l)

LEMMA PlacesStep ==
    ASSUME LocationsInv, NEW p \in Parsers, NEW l \in Places, PlaceSteps(p, l)
    PROVE  LocationsInv'
<1>1. /\ visit \in [Parsers -> [Places -> VisitStates]]
      /\ retries \in [Parsers -> [Places -> 0..LocationRetries]] /\ LocationRetries \in Nat
      /\ found \in [Parsers -> SUBSET Places] /\ errors \in [Parsers -> SUBSET Places]
      /\ l \in found[p] \union errors[p] <=> visit[p][l] \in {"ended", "raised"}
      /\ ~(l \in found[p] /\ l \in errors[p])
      /\ visit[p][l] = "backoff" => retries[p][l] < LocationRetries
  <2>1. Locations!TypeOK /\ PlacesSound(p)
    BY DEF LocationsInv
  <2> QED
    BY <2>1, LocationTypes, LocationFacts DEF PlacesSound
<1>2. \A S : Locations!Cardinality(S) = Cardinality(S)
  BY LocationFacts
<1>3. CASE Locations!Visit(p, l)
  <2>1. /\ visit[p][l] = "waiting" /\ Cardinality(Locations!Visiting(p)) < MaxLocations
        /\ visit' = [visit EXCEPT ![p][l] = "parsing"]
        /\ UNCHANGED <<parser, retries, client, found, errors, reported>>
    BY <1>2, <1>3 DEF Locations!Visit, Locations!MayVisit, Locations!To
  <2>2. Cardinality(Locations!Visiting(p)') <= MaxLocations
    BY <2>1, VisitingMoves DEF VisitStates
  <2> QED
    BY <1>1, <2>1, <2>2, PlaceMoves DEF VisitStates
<1>4. CASE Locations!Succeed(p, l)
  <2>1. /\ visit[p][l] = "parsing" /\ found' = [found EXCEPT ![p] = @ \union {l}]
        /\ \E state \in {"ended", "raised"} : visit' = [visit EXCEPT ![p][l] = state]
        /\ UNCHANGED <<parser, retries, client, errors, reported>>
    BY <1>4 DEF Locations!Succeed, Locations!To
  <2>2. PICK state \in {"ended", "raised"} : visit' = [visit EXCEPT ![p][l] = state]
    BY <2>1
  <2>3. Cardinality(Locations!Visiting(p)') <= MaxLocations
    BY <2>2, VisitingMoves DEF VisitStates
  <2>4. /\ found' \in [Parsers -> SUBSET Places] /\ l \in found'[p] /\ l \notin errors[p]
        /\ \A q \in Parsers \ {p} : found'[q] = found[q]
        /\ \A m \in Places \ {l} : m \in found'[p] <=> m \in found[p]
    BY <1>1, <2>1
  <2> QED
    BY <1>1, <2>1, <2>2, <2>3, <2>4, PlaceMoves DEF VisitStates
<1>5. CASE Locations!Fail(p, l)
  <2>1. /\ visit[p][l] = "parsing" /\ retries[p][l] < LocationRetries
        /\ visit' = [visit EXCEPT ![p][l] = "backoff"]
        /\ UNCHANGED <<parser, retries, client, found, errors, reported>>
    BY <1>5 DEF Locations!Fail, Locations!To
  <2>2. Cardinality(Locations!Visiting(p)') <= MaxLocations
    BY <2>1, VisitingMoves DEF VisitStates
  <2> QED
    BY <1>1, <2>1, <2>2, PlaceMoves DEF VisitStates
<1>6. CASE Locations!Retry(p, l)
  <2>1. /\ visit[p][l] = "backoff" /\ retries' = [retries EXCEPT ![p][l] = @ + 1]
        /\ visit' = [visit EXCEPT ![p][l] = "parsing"]
        /\ UNCHANGED <<parser, client, found, errors, reported>>
    BY <1>6 DEF Locations!Retry, Locations!To
  <2>2. Cardinality(Locations!Visiting(p)') <= MaxLocations
    BY <2>1, VisitingMoves DEF VisitStates
  <2>3. retries[p][l] + 1 \in 0..LocationRetries
    BY <1>1, <2>1
  <2>4. /\ retries' \in [Parsers -> [Places -> 0..LocationRetries]]
        /\ \A q \in Parsers \ {p} : retries'[q] = retries[q]
        /\ \A m \in Places \ {l} : retries'[p][m] = retries[p][m]
    BY <1>1, <2>1, <2>3
  <2> QED
    BY <1>1, <2>1, <2>2, <2>4, PlaceMoves DEF VisitStates
<1>7. CASE Locations!GiveUp(p, l)
  <2>1. /\ visit[p][l] = "parsing" /\ errors' = [errors EXCEPT ![p] = errors[p] \union {l}]
        /\ \E state \in {"ended", "raised"} : visit' = [visit EXCEPT ![p][l] = state]
        /\ UNCHANGED <<parser, retries, client, found, reported>>
    BY <1>7 DEF Locations!GiveUp, Locations!ErrorsWith, Locations!To
  <2>2. PICK state \in {"ended", "raised"} : visit' = [visit EXCEPT ![p][l] = state]
    BY <2>1
  <2>3. Cardinality(Locations!Visiting(p)') <= MaxLocations
    BY <2>2, VisitingMoves DEF VisitStates
  <2>4. /\ errors' \in [Parsers -> SUBSET Places] /\ l \in errors'[p] /\ l \notin found[p]
        /\ \A q \in Parsers \ {p} : errors'[q] = errors[q]
        /\ \A m \in Places \ {l} : m \in errors'[p] <=> m \in errors[p]
    BY <1>1, <2>1
  <2> QED
    BY <1>1, <2>1, <2>2, <2>3, <2>4, PlaceMoves DEF VisitStates
<1> QED
  BY <1>3, <1>4, <1>5, <1>6, <1>7 DEF PlaceSteps

\* A step of a parser: what must be shown of it, and of the permits.
LEMMA ParserMoves ==
    ASSUME LocationsInv, NEW p \in Parsers, NEW state \in {"waiting", "running", "leaving", "left"},
           parser' = [parser EXCEPT ![p] = state],
           client' \in SUBSET Parsers, reported' \in SUBSET Parsers,
           visit' \in [Parsers -> [Places -> VisitStates]],
           \A q \in Parsers \ {p} :
               /\ visit'[q] = visit[q]
               /\ q \in client' <=> q \in client
               /\ q \in reported' <=> q \in reported,
           UNCHANGED <<retries, found, errors>>,
           ParserSound(p)', PlacesSound(p)',
           \/ state \notin {"running", "leaving"}
           \/ parser[p] \in {"running", "leaving"}
           \/ Cardinality(Locations!Entered) < MaxParsers
    PROVE  LocationsInv'
<1>1. /\ Locations!TypeOK
      /\ parser \in [Parsers -> {"waiting", "running", "leaving", "left"}]
      /\ \A q \in Parsers : ParserSound(q) /\ PlacesSound(q)
      /\ Cardinality(Locations!Entered) <= MaxParsers
  BY LocationTypes DEF LocationsInv
<1>2. parser'[p] = state /\ \A q \in Parsers \ {p} : parser'[q] = parser[q]
  BY <1>1
<1>3. Locations!TypeOK'
  BY <1>1 DEF Locations!TypeOK, VisitStates
<1>4. ASSUME NEW q \in Parsers \ {p} PROVE ParserSound(q)' /\ PlacesSound(q)'
  <2>1. visit'[q] = visit[q] /\ (q \in client' <=> q \in client) /\ (q \in reported' <=> q \in reported)
    OBVIOUS
  <2>2. parser'[q] = parser[q] /\ retries'[q] = retries[q] /\ found'[q] = found[q] /\ errors'[q] = errors[q]
    BY <1>2
  <2> QED
    BY <1>1, <2>1, <2>2, OthersSound
<1>5. Cardinality(Locations!Entered') <= MaxParsers
  <2> DEFINE now == Locations!Entered
             then == Locations!Entered'
  <2>1. \A q : q # p => (q \in now <=> q \in then)
    BY <1>2 DEF Locations!Entered
  <2>2. /\ p \in now <=> parser[p] \in {"running", "leaving"}
        /\ p \in then <=> state \in {"running", "leaving"}
    BY <1>2 DEF Locations!Entered
  <2>3. IsFiniteSet(now) /\ Cardinality(now) \in Nat /\ MaxParsers \in Nat
    BY LocationFacts
  <2>4. Cardinality(now) <= MaxParsers
        /\ (p \notin then \/ p \in now \/ Cardinality(now) < MaxParsers)
    BY <1>1, <2>2
  <2> HIDE DEF now, then
  <2>5. /\ Cardinality(then) \in Nat
        /\ Cardinality(then) + Indicator(p \in now) = Cardinality(now) + Indicator(p \in then)
    BY <2>1, <2>3, OneElement
  <2>6. PICK i \in Nat, j \in Nat : /\ i = Indicator(p \in now) /\ j = Indicator(p \in then)
                                   /\ i <= 1 /\ j <= 1
    BY DEF Indicator
  <2>7. j = 0 \/ i = 1 \/ Cardinality(now) < MaxParsers
    BY <2>4, <2>6 DEF Indicator
  <2>8. Cardinality(then) <= MaxParsers
    BY <2>3, <2>4, <2>5, <2>6, <2>7
  <2> QED
    BY <2>8 DEF then
<1> QED
  BY <1>3, <1>4, <1>5 DEF LocationsInv

LEMMA ParsersStep ==
    ASSUME LocationsInv, NEW p \in Parsers,
           \/ Locations!Enter(p) \/ Locations!Collect(p)
           \/ Locations!Abort(p) \/ Locations!Leave(p)
    PROVE  LocationsInv'
<1>1. /\ parser \in [Parsers -> {"waiting", "running", "leaving", "left"}]
      /\ visit \in [Parsers -> [Places -> VisitStates]]
      /\ client \in SUBSET Parsers /\ reported \in SUBSET Parsers
      /\ ParserSound(p) /\ PlacesSound(p)
  BY LocationTypes DEF LocationsInv
<1>2. /\ \A S : Locations!Cardinality(S) = Cardinality(S)
      /\ Cardinality(Locations!Visiting(p)) <= MaxLocations
  BY <1>1, LocationFacts DEF ParserSound
<1>3. CASE Locations!Enter(p)
  <2>1. /\ parser[p] = "waiting" /\ Cardinality(Locations!Entered) < MaxParsers
        /\ parser' = [parser EXCEPT ![p] = "running"] /\ client' = client \union {p}
        /\ visit' = [visit EXCEPT ![p] = [l \in Places |-> "waiting"]]
        /\ UNCHANGED <<retries, found, errors, reported>>
    BY <1>2, <1>3 DEF Locations!Enter
  <2>2. /\ parser'[p] = "running" /\ \A l \in Places : visit'[p][l] = "waiting"
        /\ \A l \in Places : visit[p][l] = "none"
    BY <1>1, <2>1 DEF ParserSound
  <2>3. Locations!Visiting(p)' = {} /\ Cardinality({}) = 0 /\ MaxLocations \in Nat
    BY <2>2, LocationFacts, FS_EmptySet DEF Locations!Visiting
  <2>4. Cardinality(Locations!Visiting(p)') <= MaxLocations
    BY <2>3
  <2>5. p \in reported => \A l \in Places : visit'[p][l] = "ended"
    BY <1>1, <2>2 DEF ParserSound
  <2>6. ParserSound(p)'
    BY <2>1, <2>2, <2>4, <2>5 DEF ParserSound
  <2>7. PlacesSound(p)'
    BY <1>1, <2>1, <2>2 DEF PlacesSound
  <2>8. /\ client' \in SUBSET Parsers /\ visit' \in [Parsers -> [Places -> VisitStates]]
        /\ \A q \in Parsers \ {p} : visit'[q] = visit[q] /\ (q \in client' <=> q \in client)
    BY <1>1, <2>1 DEF VisitStates
  <2> QED
    BY <1>1, <2>1, <2>6, <2>7, <2>8, ParserMoves
<1>4. CASE Locations!Collect(p)
  <2>1. /\ parser[p] = "running" /\ \A l \in Places : visit[p][l] = "ended"
        /\ parser' = [parser EXCEPT ![p] = "leaving"] /\ reported' = reported \union {p}
        /\ UNCHANGED <<visit, retries, client, found, errors>>
    BY <1>4 DEF Locations!Collect, Locations!Gathered
  <2>2. parser'[p] = "leaving" /\ Locations!Visiting(p)' = Locations!Visiting(p)
    BY <1>1, <2>1 DEF Locations!Visiting
  <2>3. ParserSound(p)' /\ PlacesSound(p)'
    BY <1>1, <1>2, <2>1, <2>2 DEF ParserSound, PlacesSound
  <2> QED
    BY <1>1, <2>1, <2>3, ParserMoves
<1>5. CASE Locations!Abort(p)
  <2>1. /\ parser[p] = "running" /\ Locations!Disrupted(p)
        /\ parser' = [parser EXCEPT ![p] = "leaving"]
        /\ UNCHANGED <<visit, retries, client, found, errors, reported>>
    BY <1>5 DEF Locations!Abort, Locations!Disrupted
  <2>2. /\ parser'[p] = "leaving" /\ Locations!Visiting(p)' = Locations!Visiting(p)
        /\ Locations!Disrupted(p)'
    BY <1>1, <2>1 DEF Locations!Visiting, Locations!Disrupted
  <2>3. ParserSound(p)' /\ PlacesSound(p)'
    BY <1>1, <1>2, <2>1, <2>2 DEF ParserSound, PlacesSound
  <2> QED
    BY <1>1, <2>1, <2>3, ParserMoves
<1>6. CASE Locations!Leave(p)
  <2>1. /\ parser[p] = "leaving" /\ parser' = [parser EXCEPT ![p] = "left"]
        /\ client' = client \ {p}
        /\ UNCHANGED <<visit, retries, found, errors, reported>>
    BY <1>6 DEF Locations!Leave
  <2>2. /\ parser'[p] = "left" /\ Locations!Visiting(p)' = Locations!Visiting(p)
        /\ Locations!Disrupted(p)' <=> Locations!Disrupted(p)
    BY <1>1, <2>1 DEF Locations!Visiting, Locations!Disrupted
  <2>3. ParserSound(p)' /\ PlacesSound(p)'
    BY <1>1, <1>2, <2>1, <2>2 DEF ParserSound, PlacesSound
  <2> QED
    BY <1>1, <2>1, <2>3, ParserMoves
<1> QED
  BY <1>3, <1>4, <1>5, <1>6

LEMMA ReconnectStep ==
    ASSUME LocationsInv, NEW p \in Parsers, NEW l \in Places, Locations!Reconnect(p, l)
    PROVE  LocationsInv'
<1>1. /\ visit[p][l] = "parsing" /\ client' = client \union {p}
      /\ UNCHANGED <<parser, visit, retries, found, errors, reported>>
  BY DEF Locations!Reconnect
<1>2. /\ Locations!TypeOK /\ client \in SUBSET Parsers
      /\ parser \in [Parsers -> {"waiting", "running", "leaving", "left"}]
      /\ \A q \in Parsers : ParserSound(q) /\ PlacesSound(q)
      /\ Cardinality(Locations!Entered) <= MaxParsers
  BY LocationTypes DEF LocationsInv
<1>3. Locations!TypeOK'
  BY <1>1, <1>2 DEF Locations!TypeOK
<1>4. parser[p] \in {"running", "leaving"} \/ Locations!Disrupted(p)
  BY <1>1, <1>2 DEF ParserSound
<1>5. \A q : Locations!Visiting(q)' = Locations!Visiting(q)
             /\ (Locations!Disrupted(q)' <=> Locations!Disrupted(q))
  BY <1>1 DEF Locations!Visiting, Locations!Disrupted
<1>6. ASSUME NEW q \in Parsers PROVE ParserSound(q)' /\ PlacesSound(q)'
  <2>1. CASE q # p
    BY <1>1, <1>2, <2>1, OthersSound
  <2>2. CASE q = p
    <3>1. PlacesSound(q)'
      BY <1>1, <1>2 DEF PlacesSound
    <3>2. parser[p] # "waiting"
      BY <1>1, <1>2 DEF ParserSound
    <3>3. ParserSound(q)'
      BY <1>1, <1>2, <1>4, <1>5, <2>2, <3>2 DEF ParserSound
    <3> QED
      BY <3>1, <3>3
  <2> QED
    BY <2>1, <2>2
<1>7. Locations!Entered' = Locations!Entered
  BY <1>1 DEF Locations!Entered
<1> QED
  BY <1>2, <1>3, <1>6, <1>7 DEF LocationsInv

LEMMA LocationsNext == ASSUME LocationsInv, [Locations!Next]_locationVars PROVE LocationsInv'
<1>1. CASE UNCHANGED locationVars
  <2>1. UNCHANGED <<parser, visit, retries, client, found, errors, reported>>
    BY <1>1 DEF locationVars
  <2>2. Locations!TypeOK'
    BY <2>1 DEF LocationsInv, Locations!TypeOK
  <2>3. \A q \in Parsers : ParserSound(q)' /\ PlacesSound(q)'
    BY <2>1, OthersSound DEF LocationsInv
  <2>4. Locations!Entered' = Locations!Entered
    BY <2>1 DEF Locations!Entered
  <2> QED
    BY <2>2, <2>3, <2>4 DEF LocationsInv
<1>2. ASSUME NEW p \in Parsers, NEW l \in Places,
             \/ Locations!Visit(p, l) \/ Locations!Reconnect(p, l) \/ Locations!Succeed(p, l)
             \/ Locations!Fail(p, l) \/ Locations!Retry(p, l) \/ Locations!GiveUp(p, l)
      PROVE  LocationsInv'
  BY <1>2, PlacesStep, ReconnectStep DEF PlaceSteps
<1> QED
  BY <1>1, <1>2, ParsersStep DEF Locations!Next

\* No more visits than the permits of the parsers and of their locations allow, unless a
\* parser was cut short: then only the parsers that have entered visit anything.
LEMMA LocationsClean == LocationsInv => Locations!BatchesEndClean
<1> SUFFICES ASSUME LocationsInv PROVE Locations!BatchesEndClean
  OBVIOUS
<1>1. /\ parser \in [Parsers -> {"waiting", "running", "leaving", "left"}]
      /\ client \in SUBSET Parsers
      /\ found \in [Parsers -> SUBSET Places] /\ errors \in [Parsers -> SUBSET Places]
      /\ \A p \in Parsers : ParserSound(p) /\ PlacesSound(p)
      /\ Cardinality(Locations!Entered) <= MaxParsers
  BY LocationTypes DEF LocationsInv
<1>2. ASSUME NEW p \in Parsers
      PROVE  /\ found[p] \intersect errors[p] = {}
             /\ p \in reported => found[p] \union errors[p] = Places
             /\ parser[p] = "left" => p \in reported \/ Locations!Disrupted(p)
             /\ Locations!Cardinality(Locations!Visiting(p)) <= MaxLocations
             /\ parser[p] = "left" /\ ~Locations!Disrupted(p) =>
                    Locations!Visiting(p) = {} /\ p \notin client
             /\ ~Locations!Disrupted(p) => /\ p \in client => p \in Locations!Entered
                                           /\ Locations!Visiting(p) # {} => p \in Locations!Entered
  <2>1. ParserSound(p) /\ PlacesSound(p) /\ found[p] \subseteq Places /\ errors[p] \subseteq Places
    BY <1>1
  <2>2. found[p] \intersect errors[p] = {}
    BY <2>1 DEF PlacesSound
  <2>3. p \in reported => found[p] \union errors[p] = Places
    BY <2>1 DEF PlacesSound, ParserSound
  <2>4. p \in reported => Locations!Visiting(p) = {}
    BY <2>1 DEF ParserSound, Locations!Visiting
  <2>5. parser[p] = "waiting" => Locations!Visiting(p) = {} /\ p \notin client
    BY <2>1 DEF ParserSound, Locations!Visiting
  <2>6. p \in Locations!Entered <=> parser[p] \in {"running", "leaving"}
    BY DEF Locations!Entered
  <2> QED
    BY <1>1, <2>1, <2>2, <2>3, <2>4, <2>5, <2>6, LocationFacts DEF ParserSound
<1>3. ASSUME \A p \in Parsers : ~Locations!Disrupted(p)
      PROVE  /\ Locations!Cardinality(client) <= MaxParsers
             /\ Locations!Cardinality(UNION {{p} \X Locations!Visiting(p) : p \in Parsers})
                    <= MaxParsers * MaxLocations
  <2>1. client \subseteq Locations!Entered
    BY <1>1, <1>2, <1>3
  <2>2. IsFiniteSet(Locations!Entered) /\ MaxParsers \in Nat /\ MaxLocations \in Nat
    BY LocationFacts
  <2>3. Cardinality(client) <= MaxParsers
    <3>1. Cardinality(client) <= Cardinality(Locations!Entered) /\ Cardinality(client) \in Nat
          /\ Cardinality(Locations!Entered) \in Nat
      BY <2>1, <2>2, FS_Subset, FS_CardinalityType
    <3> QED
      BY <1>1, <2>2, <3>1
  <2> DEFINE V == [p \in Parsers |-> Locations!Visiting(p)]
             U == UNION {{p} \X Locations!Visiting(p) : p \in Parsers}
  <2>4. \A p \in Locations!Entered : IsFiniteSet(V[p]) /\ Cardinality(V[p]) <= MaxLocations
    BY <1>2, LocationFacts DEF Locations!Entered
  <2>5. ASSUME NEW u \in U PROVE \E p \in Locations!Entered : \E x \in V[p] : u = <<p, x>>
    <3>1. PICK p \in Parsers : u \in {p} \X Locations!Visiting(p)
      OBVIOUS
    <3>2. PICK x \in Locations!Visiting(p) : u = <<p, x>>
      BY <3>1
    <3>3. p \in Locations!Entered
      BY <1>2, <1>3, <3>2
    <3> QED
      BY <3>2, <3>3
  <2> HIDE DEF U, V
  <2>6. Cardinality(U) <= MaxParsers * MaxLocations
    BY <1>1, <2>2, <2>4, <2>5, PairsBound
  <2> QED
    BY <2>3, <2>6, LocationFacts DEF U
<1>4. Locations!LocationsAccounted
  BY <1>2 DEF Locations!LocationsAccounted
<1>5. Locations!NothingLeftBehind
  BY <1>2, <1>3 DEF Locations!NothingLeftBehind
<1> QED
  BY <1>4, <1>5 DEF Locations!BatchesEndClean

------------------------------------------------------------------------------
(* BatchPipeline *)

LEMMA TimesKeepsOrder ==
    ASSUME NEW a \in Nat, NEW b \in Nat, NEW c \in Nat, a <= b
    PROVE  a * c <= b * c /\ a * c \in Nat /\ b * c \in Nat
  OBVIOUS

LEMMA DivFacts ==
    ASSUME NEW a \in Nat, NEW c \in Nat \ {0}
    PROVE  /\ a \div c \in Nat /\ (a \div c) * c <= a
           /\ a < (a \div c) * c + c
  OBVIOUS

LEMMA BatchFacts ==
    /\ Items \in Nat /\ MaxConcurrent \in Nat /\ BatchSize \in Nat \ {0} /\ Attempts \in Nat \ {0}
    /\ \A S : Pipeline!Cardinality(S) = Cardinality(S)
    /\ \E n \in Nat : Pipeline!Batches = 1..n
    /\ IsFiniteSet(Pipeline!Batches)
<1>1. /\ Items \in Nat /\ MaxConcurrent \in Nat /\ BatchSize \in Nat \ {0} /\ Attempts \in Nat \ {0}
  BY ServicesAssumption DEF Pipeline!BatchPipelineAssumption
<1>2. \A S : Pipeline!Cardinality(S) = Cardinality(S)
  BY DEF Pipeline!Cardinality, Cardinality
<1>3. Pipeline!Ceil(Items, BatchSize) \in Nat
  <2>1. Items + BatchSize - 1 \in Nat
    BY <1>1
  <2> QED
    BY <1>1, <2>1, DivFacts DEF Pipeline!Ceil
<1>4. \E n \in Nat : Pipeline!Batches = 1..n
  BY <1>3 DEF Pipeline!Batches
<1> QED
  BY <1>1, <1>2, <1>4, UpTo

\* The items of a batch.
LEMMA BatchItems ==
    ASSUME NEW b \in Pipeline!Batches
    PROVE  /\ b \in Nat \ {0}
           /\ Pipeline!First(b) \in Nat \ {0} /\ Pipeline!Last(b) \in 0..Items
           /\ Pipeline!First(b) <= Pipeline!Last(b) + 1
           /\ Pipeline!Last(b) <= b * BatchSize /\ Pipeline!First(b) = (b - 1) * BatchSize + 1
<1>1. Items \in Nat /\ BatchSize \in Nat \ {0} /\ Items + BatchSize - 1 \in Nat
  BY BatchFacts
<1> DEFINE top == (Items + BatchSize - 1) \div BatchSize
<1>2. top \in Nat /\ top * BatchSize <= Items + BatchSize - 1
  BY <1>1, DivFacts
<1>3. b \in Nat \ {0} /\ b <= top /\ b - 1 \in Nat
  BY <1>2 DEF Pipeline!Batches, Pipeline!Ceil
<1> HIDE DEF top
<1>4. b * BatchSize <= top * BatchSize /\ b * BatchSize \in Nat
  BY <1>1, <1>2, <1>3, TimesKeepsOrder
<1>5. (b - 1) * BatchSize \in Nat /\ (b - 1) * BatchSize + BatchSize = b * BatchSize
  BY <1>1, <1>3
<1>6. PICK x \in Nat, y \in Nat : x = (b - 1) * BatchSize /\ y = b * BatchSize
  BY <1>4, <1>5
<1>7. x + BatchSize = y /\ y <= Items + BatchSize - 1
  BY <1>1, <1>2, <1>4, <1>5, <1>6
<1>8. Pipeline!First(b) = x + 1 /\ Pipeline!Last(b) = IF y < Items THEN y ELSE Items
  BY <1>6 DEF Pipeline!First, Pipeline!Last
<1> QED
  BY <1>1, <1>3, <1>6, <1>7, <1>8

\* No item is in two batches.
LEMMA BatchesApart ==
    ASSUME NEW b \in Pipeline!Batches, NEW c \in Pipeline!Batches, NEW i \in Int,
           Pipeline!First(b) <= i, i <= Pipeline!Last(b),
           Pipeline!First(c) <= i, i <= Pipeline!Last(c)
    PROVE  b = c
<1>1. ASSUME NEW d \in Pipeline!Batches, NEW e \in Pipeline!Batches, d < e,
             Pipeline!First(e) <= i, i <= Pipeline!Last(d)
      PROVE  FALSE
  <2>1. d \in Nat /\ e - 1 \in Nat /\ d <= e - 1 /\ BatchSize \in Nat
    BY <1>1, BatchFacts, BatchItems
  <2>2. d * BatchSize <= (e - 1) * BatchSize
    BY <2>1, TimesKeepsOrder
  <2>3. PICK x, y : x = d * BatchSize /\ y = (e - 1) * BatchSize
    OBVIOUS
  <2>4. /\ Pipeline!Last(d) <= x /\ Pipeline!First(e) = y + 1 /\ x <= y
        /\ x \in Int /\ y \in Int /\ Pipeline!Last(d) \in Int
    BY <2>1, <2>2, <2>3, BatchItems
  <2> QED
    BY <1>1, <2>4
<1>2. b \in Nat /\ c \in Nat
  BY BatchItems
<1> QED
  BY <1>1, <1>2

\* Every item is in a batch.
LEMMA BatchOf ==
    ASSUME NEW i \in 1..Items
    PROVE  \E b \in Pipeline!Batches : Pipeline!First(b) <= i /\ i <= Pipeline!Last(b)
<1>1. Items \in Nat /\ BatchSize \in Nat \ {0} /\ Items + BatchSize - 1 \in Nat
      /\ i - 1 \in Nat
  BY BatchFacts
<1> DEFINE q == (i - 1) \div BatchSize
           top == (Items + BatchSize - 1) \div BatchSize
<1>2. q \in Nat /\ q * BatchSize <= i - 1 /\ i - 1 < q * BatchSize + BatchSize
  BY <1>1, DivFacts
<1>3. top \in Nat /\ Items + BatchSize - 1 < top * BatchSize + BatchSize
  BY <1>1, DivFacts
<1> HIDE DEF q, top
<1>4. (q + 1) * BatchSize = q * BatchSize + BatchSize /\ (top + 1) * BatchSize = top * BatchSize + BatchSize
  BY <1>1, <1>2, <1>3
<1>5. q + 1 <= top
  <2>1. SUFFICES ASSUME top <= q PROVE FALSE
    BY <1>2, <1>3
  <2>2. top * BatchSize <= q * BatchSize /\ top * BatchSize \in Nat /\ q * BatchSize \in Nat
    BY <1>1, <1>2, <1>3, <2>1, TimesKeepsOrder
  <2>3. PICK x \in Nat, y \in Nat : x = top * BatchSize /\ y = q * BatchSize
    BY <2>2
  <2>4. x <= y /\ y <= i - 1 /\ Items + BatchSize - 1 < x + BatchSize /\ i <= Items
    BY <1>2, <1>3, <2>2, <2>3
  <2> QED
    BY <1>1, <2>4
<1>6. q + 1 \in Pipeline!Batches
  BY <1>2, <1>3, <1>5 DEF Pipeline!Batches, Pipeline!Ceil, top
<1>7. Pipeline!First(q + 1) <= i /\ i <= Pipeline!Last(q + 1)
  <2>1. PICK y \in Nat : y = q * BatchSize
    BY <1>1, <1>2, TimesKeepsOrder
  <2>2. (q + 1) - 1 = q
    BY <1>2
  <2>3. Pipeline!First(q + 1) = y + 1
    BY <2>1, <2>2 DEF Pipeline!First
  <2>4. Pipeline!Last(q + 1) = IF y + BatchSize < Items THEN y + BatchSize ELSE Items
    BY <1>4, <2>1 DEF Pipeline!Last
  <2> QED
    BY <1>1, <1>2, <2>1, <2>3, <2>4
<1> QED
  BY <1>6, <1>7

\* The last item that batch b has begun, or the one before its first.
Reach(b) == IF batch[b] \in {"calling", "backoff"} THEN next[b] ELSE next[b] - 1

Begun == {i \in 1..Items : \E b \in Pipeline!Batches : Pipeline!First(b) <= i /\ i <= Reach(b)}

\* How many items a batch that has not ended is at.
Busy(b) == IF batch[b] = "waiting" THEN 0 ELSE 1

BatchSound(b) ==
    /\ Pipeline!First(b) <= next[b] /\ Reach(b) <= Pipeline!Last(b)
    /\ batch[b] = "waiting" => next[b] = Pipeline!First(b)
    /\ batch[b] \in {"ended", "raised"} => next[b] = Pipeline!Last(b) + 1

\* The counters count what has been begun and what is at an item; an item in the results
\* has been begun and passed by its batch.
PipelineInv ==
    /\ Pipeline!TypeOK
    /\ \A b \in Pipeline!Batches : BatchSound(b)
    /\ \A i \in results : \E b \in Pipeline!Batches : Pipeline!First(b) <= i /\ i < next[b]
    /\ successful = Cardinality(results)
    /\ processed = Cardinality(Begun)
    /\ processed = successful + failed + Cardinality(Pipeline!Running)
    /\ Cardinality(Pipeline!Running) <= MaxConcurrent
    /\ \A i \in 1..Items : calls[i] = IF i \in Begun THEN 1 ELSE 0
    /\ status = "completed" => \A b \in Pipeline!Batches : batch[b] = "ended"

BatchStates == {"waiting", "calling", "backoff", "ended", "raised"}

LEMMA BatchTypes ==
    ASSUME Pipeline!TypeOK
    PROVE  /\ batch \in [Pipeline!Batches -> BatchStates]
           /\ next \in [Pipeline!Batches -> 1..(Items + 1)]
           /\ tries \in [Pipeline!Batches -> 0..Attempts]
           /\ calls \in [1..Items -> 0..Attempts]
           /\ processed \in 0..Items /\ successful \in 0..Items /\ failed \in 0..Items
           /\ results \in SUBSET (1..Items)
           /\ status \in {"in_progress", "completed", "failed"}
  BY DEF Pipeline!TypeOK, BatchStates

LEMMA BatchSets ==
    /\ IsFiniteSet(Begun) /\ Cardinality(Begun) \in 0..Items
    /\ IsFiniteSet(Pipeline!Running) /\ Cardinality(Pipeline!Running) \in Nat
    /\ \A S \in SUBSET (1..Items) : IsFiniteSet(S) /\ Cardinality(S) \in 0..Items
<1>1. Items \in Nat /\ IsFiniteSet(1..Items) /\ Cardinality(1..Items) = Items
  BY BatchFacts, UpTo
<1>2. ASSUME NEW S \in SUBSET (1..Items) PROVE IsFiniteSet(S) /\ Cardinality(S) \in 0..Items
  <2>1. IsFiniteSet(S) /\ Cardinality(S) <= Items /\ Cardinality(S) \in Nat
    BY <1>1, FS_Subset, FS_CardinalityType
  <2> QED
    BY <1>1, <2>1
<1>3. Begun \in SUBSET (1..Items) /\ Pipeline!Running \in SUBSET Pipeline!Batches
  BY DEF Begun, Pipeline!Running
<1> QED
  BY <1>2, <1>3, BatchFacts, FS_Subset, FS_CardinalityType

LEMMA PipelineInit == Pipeline!Init => PipelineInv
<1> SUFFICES ASSUME Pipeline!Init PROVE PipelineInv
  OBVIOUS
<1>1. /\ batch = [b \in Pipeline!Batches |-> "waiting"]
      /\ next = [b \in Pipeline!Batches |-> Pipeline!First(b)]
      /\ tries = [b \in Pipeline!Batches |-> 0]
      /\ calls = [i \in 1..Items |-> 0] /\ processed = 0 /\ successful = 0 /\ failed = 0
      /\ results = {} /\ status = "in_progress"
  BY DEF Pipeline!Init
<1>2. Items \in Nat /\ Attempts \in Nat /\ MaxConcurrent \in Nat
  BY BatchFacts
<1>3. \A b \in Pipeline!Batches : Pipeline!First(b) \in 1..(Items + 1)
  BY <1>2, BatchItems
<1>4. Pipeline!TypeOK
  BY <1>1, <1>2, <1>3 DEF Pipeline!TypeOK
<1>5. \A b \in Pipeline!Batches : /\ Reach(b) = Pipeline!First(b) - 1 /\ Pipeline!First(b) \in Nat
                                 /\ Pipeline!Last(b) \in Nat /\ BatchSound(b)
  BY <1>1, BatchItems DEF Reach, BatchSound
<1>6. Begun = {}
  BY <1>5 DEF Begun
<1>7. Pipeline!Running = {} /\ Cardinality({}) = 0
  BY <1>1, FS_EmptySet DEF Pipeline!Running
<1>8. Cardinality(Pipeline!Running) = 0 /\ Cardinality(Begun) = 0 /\ Cardinality(results) = 0
  BY <1>1, <1>6, <1>7
<1> QED
  BY <1>1, <1>2, <1>4, <1>5, <1>6, <1>8 DEF PipelineInv

\* What Advance does at a batch that goes on from the item it has reached.
LEMMA Advances ==
    ASSUME PipelineInv, NEW b \in Pipeline!Batches, batch[b] \in {"waiting", "calling", "backoff"},
           Pipeline!Advance(b, Reach(b) + 1)
    PROVE  /\ batch' \in [Pipeline!Batches -> BatchStates]
           /\ next' \in [Pipeline!Batches -> 1..(Items + 1)]
           /\ tries' \in [Pipeline!Batches -> 0..Attempts]
           /\ calls' \in [1..Items -> 0..Attempts] /\ processed' \in 0..Items
           /\ \A c \in Pipeline!Batches : BatchSound(c)'
           /\ next'[b] = Reach(b) + 1 /\ \A c \in Pipeline!Batches \ {b} : next'[c] = next[c]
           /\ processed' = Cardinality(Begun')
           /\ \A i \in 1..Items : calls'[i] = IF i \in Begun' THEN 1 ELSE 0
           /\ Cardinality(Pipeline!Running') \in Nat
           /\ processed' + Cardinality(Pipeline!Running) + 1 =
                  processed + Cardinality(Pipeline!Running') + 1 + Busy(b)
           /\ Cardinality(Pipeline!Running') + Busy(b) <=
                  Cardinality(Pipeline!Running) + 1
<1> DEFINE i == Reach(b) + 1
           on == i <= Pipeline!Last(b)
<1>1. /\ batch \in [Pipeline!Batches -> BatchStates] /\ next \in [Pipeline!Batches -> 1..(Items + 1)]
      /\ tries \in [Pipeline!Batches -> 0..Attempts] /\ calls \in [1..Items -> 0..Attempts]
      /\ processed \in 0..Items /\ Items \in Nat /\ Attempts \in Nat \ {0}
      /\ \A c \in Pipeline!Batches : BatchSound(c)
      /\ processed = Cardinality(Begun)
      /\ \A j \in 1..Items : calls[j] = IF j \in Begun THEN 1 ELSE 0
  BY BatchTypes, BatchFacts DEF PipelineInv
<1>2. \A c \in Pipeline!Batches :
          /\ next[c] \in 1..(Items + 1) /\ Pipeline!First(c) \in Nat \ {0} /\ Pipeline!Last(c) \in 0..Items
          /\ Pipeline!First(c) <= next[c] /\ Reach(c) <= Pipeline!Last(c) /\ Reach(c) \in Int
  <2> SUFFICES ASSUME NEW c \in Pipeline!Batches
               PROVE  /\ next[c] \in 1..(Items + 1) /\ Pipeline!First(c) \in Nat \ {0}
                      /\ Pipeline!Last(c) \in 0..Items /\ Pipeline!First(c) <= next[c]
                      /\ Reach(c) <= Pipeline!Last(c) /\ Reach(c) \in Int
    OBVIOUS
  <2>1. Pipeline!First(c) \in Nat \ {0} /\ Pipeline!Last(c) \in 0..Items
    BY BatchItems
  <2>2. next[c] \in 1..(Items + 1) /\ Pipeline!First(c) <= next[c] /\ Reach(c) <= Pipeline!Last(c)
    BY <1>1 DEF BatchSound
  <2>3. Reach(c) \in Int
    BY <1>1, <2>2 DEF Reach
  <2> QED
    BY <2>1, <2>2, <2>3
<1>3. i \in Int /\ Pipeline!First(b) <= i /\ i <= Pipeline!Last(b) + 1 /\ i \in 1..(Items + 1)
  BY <1>1, <1>2 DEF Reach
<1>4. /\ next' = [next EXCEPT ![b] = i] /\ tries' = [tries EXCEPT ![b] = 0]
      /\ on => /\ batch' = [batch EXCEPT ![b] = "calling"] /\ processed' = processed + 1
               /\ calls' = [calls EXCEPT ![i] = @ + 1]
      /\ ~on => /\ \E end \in {"ended", "raised"} : batch' = [batch EXCEPT ![b] = end]
                /\ processed' = processed /\ calls' = calls
  BY DEF Pipeline!Advance
<1>5. /\ batch' \in [Pipeline!Batches -> BatchStates] /\ next' \in [Pipeline!Batches -> 1..(Items + 1)]
      /\ tries' \in [Pipeline!Batches -> 0..Attempts]
      /\ next'[b] = i /\ batch'[b] \in {"calling", "ended", "raised"} /\ (batch'[b] = "calling" <=> on)
      /\ \A c \in Pipeline!Batches \ {b} : next'[c] = next[c] /\ batch'[c] = batch[c]
  <2>1. tries' \in [Pipeline!Batches -> 0..Attempts] /\ next' \in [Pipeline!Batches -> 1..(Items + 1)]
        /\ next'[b] = i /\ \A c \in Pipeline!Batches \ {b} : next'[c] = next[c]
    BY <1>1, <1>3, <1>4
  <2>2. PICK end \in {"calling", "ended", "raised"} :
            batch' = [batch EXCEPT ![b] = end] /\ (end = "calling" <=> on)
    BY <1>4
  <2> QED
    BY <1>1, <2>1, <2>2 DEF BatchStates
<1> HIDE DEF on
<1>6. /\ Reach(b)' = (IF on THEN i ELSE i - 1)
      /\ \A c \in Pipeline!Batches \ {b} : Reach(c)' = Reach(c)
  BY <1>5 DEF Reach
<1>7. Reach(b) = i - 1
  BY <1>2
<1> HIDE DEF i
<1>8. \A c \in Pipeline!Batches : BatchSound(c)'
  <2>1. ASSUME NEW c \in Pipeline!Batches, c # b PROVE BatchSound(c)'
    <3>1. next'[c] = next[c] /\ batch'[c] = batch[c] /\ Reach(c)' = Reach(c) /\ BatchSound(c)
      BY <1>1, <1>5, <1>6, <2>1
    <3> QED
      BY <3>1 DEF BatchSound
  <2>2. BatchSound(b)'
    <3>1. Reach(b)' <= Pipeline!Last(b)
      BY <1>2, <1>3, <1>6, <1>7 DEF on
    <3>2. batch'[b] \in {"ended", "raised"} => i = Pipeline!Last(b) + 1
      <4>1. batch'[b] \in {"ended", "raised"} => ~on
        BY <1>5
      <4> QED
        BY <1>2, <1>3, <4>1 DEF on
    <3> QED
      BY <1>3, <1>5, <3>1, <3>2 DEF BatchSound
  <2> QED
    BY <2>1, <2>2
<1>9. on => i \in 1..Items /\ i \notin Begun
  <2>1. SUFFICES ASSUME on PROVE i \in 1..Items /\ i \notin Begun
    OBVIOUS
  <2>2. i \in 1..Items
    BY <1>1, <1>2, <1>3, <2>1 DEF on
  <2>3. ASSUME NEW c \in Pipeline!Batches, Pipeline!First(c) <= i, i <= Reach(c) PROVE FALSE
    <3>1. i <= Pipeline!Last(c) /\ i <= Pipeline!Last(b)
      BY <1>2, <1>3, <2>1, <2>3 DEF on
    <3>2. c = b
      BY <1>3, <2>3, <3>1, BatchesApart
    <3> QED
      BY <1>3, <1>7, <2>3, <3>2
  <2> QED
    BY <2>2, <2>3 DEF Begun
<1>10. /\ \A j : j # i => (j \in Begun <=> j \in Begun')
       /\ i \in Begun' <=> i \in Begun \/ on
       /\ ~on => Begun' = Begun
  <2>1. ASSUME NEW j \in 1..Items, j # i PROVE j \in Begun <=> j \in Begun'
    <3>1. \A c \in Pipeline!Batches : j <= Reach(c) <=> j <= Reach(c)'
      BY <1>2, <1>3, <1>6, <1>7, <2>1
    <3> QED
      BY <3>1 DEF Begun
  <2>2. on => i \in Begun'
    BY <1>3, <1>6, <1>9 DEF Begun
  <2>3. ~on => \A c \in Pipeline!Batches : Reach(c)' = Reach(c)
    BY <1>6, <1>7
  <2>4. ~on => Begun' = Begun
    BY <2>3 DEF Begun
  <2>5. Begun \subseteq 1..Items /\ Begun' \subseteq 1..Items
    BY DEF Begun
  <2> QED
    BY <1>9, <2>1, <2>2, <2>4, <2>5
<1>11. /\ Cardinality(Begun') \in 0..Items /\ Cardinality(Begun') = Cardinality(Begun) + Indicator(on)
  <2>1. IsFiniteSet(Begun) /\ Cardinality(Begun) \in 0..Items
    BY BatchSets
  <2>2. /\ Cardinality(Begun') \in Nat /\ IsFiniteSet(Begun')
        /\ Cardinality(Begun') + Indicator(i \in Begun) = Cardinality(Begun) + Indicator(i \in Begun')
    BY <1>10, <2>1, OneElement
  <2>3. Cardinality(Begun') = Cardinality(Begun) + Indicator(on)
    <3>1. CASE on
      <4>1. Indicator(i \in Begun) = 0 /\ Indicator(i \in Begun') = 1 /\ Indicator(on) = 1
        BY <1>9, <1>10, <3>1 DEF Indicator
      <4> QED
        BY <2>1, <2>2, <4>1
    <3>2. CASE ~on
      BY <1>10, <2>1, <3>2 DEF Indicator
    <3> QED
      BY <3>1, <3>2
  <2>4. Cardinality(Begun') <= Items
    <3>1. Begun' \in SUBSET (1..Items)
      BY DEF Begun
    <3> QED
      BY <1>1, <3>1, BatchSets
  <2> QED
    BY <1>1, <2>2, <2>3, <2>4
<1>12. processed' = Cardinality(Begun') /\ processed' = processed + Indicator(on)
  BY <1>1, <1>4, <1>11 DEF Indicator
<1>13. /\ calls' \in [1..Items -> 0..Attempts]
       /\ \A j \in 1..Items : calls'[j] = IF j \in Begun' THEN 1 ELSE 0
  <2>1. CASE on
    <3>1. calls' = [calls EXCEPT ![i] = 1] /\ i \in 1..Items
      <4>1. calls[i] = 0 /\ i \in 1..Items
        BY <1>1, <1>9, <2>1
      <4> QED
        BY <1>4, <2>1, <4>1
    <3> QED
      BY <1>1, <1>10, <2>1, <3>1
  <2>2. CASE ~on
    BY <1>1, <1>4, <1>10, <2>2
  <2> QED
    BY <2>1, <2>2
<1>14. /\ Cardinality(Pipeline!Running') \in Nat
       /\ Cardinality(Pipeline!Running') + Busy(b)
              = Cardinality(Pipeline!Running) + Indicator(on)
  <2> DEFINE now == Pipeline!Running
             then == Pipeline!Running'
  <2>1. \A c : c # b => (c \in now <=> c \in then)
    BY <1>5 DEF Pipeline!Running
  <2>2. (b \in now <=> batch[b] # "waiting") /\ (b \in then <=> on)
    BY <1>5 DEF Pipeline!Running
  <2>3. IsFiniteSet(now)
    BY BatchSets
  <2> HIDE DEF now, then
  <2>4. /\ Cardinality(then) \in Nat
        /\ Cardinality(then) + Indicator(b \in now) = Cardinality(now) + Indicator(b \in then)
    BY <2>1, <2>3, OneElement
  <2>5. Indicator(b \in now) = Busy(b) /\ Indicator(b \in then) = Indicator(on)
    BY <2>2 DEF Indicator, Busy
  <2> QED
    BY <2>4, <2>5 DEF now, then
<1>15. /\ processed' + Cardinality(Pipeline!Running) + 1 =
              processed + Cardinality(Pipeline!Running') + 1 + Busy(b)
       /\ Cardinality(Pipeline!Running') + Busy(b) <=
              Cardinality(Pipeline!Running) + 1
  <2>1. PICK u \in Nat, v \in Nat : /\ u = Indicator(on) /\ v = Busy(b) /\ u <= 1
    BY DEF Indicator, Busy
  <2>2. Cardinality(Pipeline!Running) \in Nat /\ processed \in Nat
    BY <1>1, BatchSets
  <2> QED
    BY <1>12, <1>14, <2>1, <2>2
<1> QED
  BY <1>5, <1>8, <1>11, <1>12, <1>13, <1>14, <1>15 DEF i

\* A step that advances a batch: what must be shown of the results and the failures.
LEMMA AdvanceKeeps ==
    ASSUME PipelineInv, NEW b \in Pipeline!Batches, batch[b] \in {"waiting", "calling", "backoff"},
           Pipeline!Advance(b, Reach(b) + 1),
           batch[b] = "waiting" => Cardinality(Pipeline!Running) < MaxConcurrent,
           status' = status, results' \in SUBSET (1..Items), successful' = Cardinality(results'),
           failed' \in Nat,
           successful' + failed' = successful + failed + Busy(b),
           \A i \in results' : i \in results \/ (i = next[b] /\ batch[b] # "waiting")
    PROVE  PipelineInv'
<1>1. /\ status \in {"in_progress", "completed", "failed"}
      /\ processed \in Nat /\ successful \in Nat /\ failed \in Nat
      /\ processed = successful + failed + Cardinality(Pipeline!Running)
      /\ Cardinality(Pipeline!Running) <= MaxConcurrent /\ Cardinality(Pipeline!Running) \in Nat
      /\ MaxConcurrent \in Nat /\ Items \in Nat
      /\ batch \in [Pipeline!Batches -> BatchStates]
  BY BatchTypes, BatchFacts, BatchSets DEF PipelineInv
<1>2. /\ batch' \in [Pipeline!Batches -> BatchStates]
      /\ next' \in [Pipeline!Batches -> 1..(Items + 1)]
      /\ tries' \in [Pipeline!Batches -> 0..Attempts]
      /\ calls' \in [1..Items -> 0..Attempts] /\ processed' \in 0..Items
      /\ \A c \in Pipeline!Batches : BatchSound(c)'
      /\ next'[b] = Reach(b) + 1 /\ \A c \in Pipeline!Batches \ {b} : next'[c] = next[c]
      /\ processed' = Cardinality(Begun')
      /\ \A i \in 1..Items : calls'[i] = IF i \in Begun' THEN 1 ELSE 0
      /\ Cardinality(Pipeline!Running') \in Nat
      /\ processed' + Cardinality(Pipeline!Running) + 1 =
             processed + Cardinality(Pipeline!Running') + 1 + Busy(b)
      /\ Cardinality(Pipeline!Running') + Busy(b) <=
             Cardinality(Pipeline!Running) + 1
  BY Advances
<1>3. PICK v \in Nat : v = Busy(b) /\ v <= 1 /\ (batch[b] = "waiting" <=> v = 0)
  BY DEF Busy
<1>4. /\ processed' = successful' + failed' + Cardinality(Pipeline!Running')
      /\ Cardinality(Pipeline!Running') <= MaxConcurrent
  <2>1. successful' \in Nat
    BY <1>1, BatchSets
  <2>2. successful' + failed' = successful + failed + v
    BY <1>3
  <2>3. /\ processed' + Cardinality(Pipeline!Running) + 1 = processed + Cardinality(Pipeline!Running') + 1 + v
        /\ Cardinality(Pipeline!Running') + v <= Cardinality(Pipeline!Running) + 1
        /\ processed' \in Nat /\ Cardinality(Pipeline!Running') \in Nat
    BY <1>1, <1>2, <1>3
  <2>4. v = 1 \/ Cardinality(Pipeline!Running) < MaxConcurrent
    BY <1>3
  <2> QED
    BY <1>1, <2>1, <2>2, <2>3, <2>4
<1>5. failed' \in 0..Items /\ successful' \in 0..Items
  <2>1. successful' \in 0..Items
    BY <1>1, BatchSets
  <2>2. processed' \in 0..Items /\ Cardinality(Pipeline!Running') \in Nat
    BY <1>2
  <2> QED
    BY <1>1, <1>4, <2>1, <2>2
<1>6. Pipeline!TypeOK'
  BY <1>1, <1>2, <1>5 DEF Pipeline!TypeOK, BatchStates
<1>7. ASSUME NEW i \in results'
      PROVE  \E c \in Pipeline!Batches : Pipeline!First(c) <= i /\ i < next'[c]
  <2>1. /\ next[b] \in Int /\ Pipeline!First(b) <= next[b] /\ \A c \in Pipeline!Batches : next[c] \in Int
        /\ next'[b] = (IF batch[b] = "waiting" THEN next[b] ELSE next[b] + 1)
    <3>1. next \in [Pipeline!Batches -> 1..(Items + 1)] /\ Pipeline!First(b) <= next[b]
      BY BatchTypes DEF PipelineInv, BatchSound
    <3>2. \A c \in Pipeline!Batches : next[c] \in Int
      BY <1>1, <3>1
    <3>3. Reach(b) = IF batch[b] = "waiting" THEN next[b] - 1 ELSE next[b]
      BY DEF Reach
    <3>4. next'[b] = Reach(b) + 1
      BY <1>2
    <3> QED
      BY <3>1, <3>2, <3>3, <3>4
  <2>2. CASE i \in results
    <3>1. PICK c \in Pipeline!Batches : Pipeline!First(c) <= i /\ i < next[c]
      BY <2>2 DEF PipelineInv
    <3>2. i \in Int
      OBVIOUS
    <3>3. next[c] <= next'[c]
      <4>1. CASE c = b
        BY <2>1, <4>1
      <4>2. CASE c # b
        BY <1>2, <2>1, <4>2
      <4> QED
        BY <4>1, <4>2
    <3>4. next'[c] \in Int /\ next[c] \in Int /\ Pipeline!First(c) \in Int
      BY <1>1, <1>2, <2>1, BatchItems
    <3> QED
      BY <3>1, <3>2, <3>3, <3>4
  <2>3. CASE i = next[b] /\ batch[b] # "waiting"
    BY <2>1, <2>3
  <2> QED
    BY <2>2, <2>3
<1>8. status' # "completed"
  BY DEF PipelineInv
<1> QED
  BY <1>2, <1>4, <1>6, <1>7, <1>8 DEF PipelineInv

LEMMA PipelineNext == ASSUME PipelineInv, [Pipeline!Next]_pipelineVars PROVE PipelineInv'
<1>1. /\ batch \in [Pipeline!Batches -> BatchStates] /\ next \in [Pipeline!Batches -> 1..(Items + 1)]
      /\ tries \in [Pipeline!Batches -> 0..Attempts] /\ Attempts \in Nat \ {0}
      /\ successful \in Nat /\ failed \in Nat /\ results \in SUBSET (1..Items)
      /\ successful = Cardinality(results) /\ Items \in Nat
      /\ \A b \in Pipeline!Batches : BatchSound(b)
      /\ \A S : Pipeline!Cardinality(S) = Cardinality(S)
  <2>1. Attempts \in Nat \ {0} /\ Items \in Nat /\ \A S : Pipeline!Cardinality(S) = Cardinality(S)
    BY BatchFacts
  <2>2. Pipeline!TypeOK /\ successful = Cardinality(results) /\ \A b \in Pipeline!Batches : BatchSound(b)
    BY DEF PipelineInv
  <2>3. /\ batch \in [Pipeline!Batches -> BatchStates] /\ next \in [Pipeline!Batches -> 1..(Items + 1)]
        /\ tries \in [Pipeline!Batches -> 0..Attempts] /\ results \in SUBSET (1..Items)
        /\ successful \in 0..Items /\ failed \in 0..Items
    BY <2>2, BatchTypes
  <2> QED
    BY <2>1, <2>2, <2>3
<1>2. ASSUME NEW b \in Pipeline!Batches
      PROVE  /\ batch[b] = "waiting" => Reach(b) + 1 = Pipeline!First(b)
             /\ batch[b] \in {"calling", "backoff"} => Reach(b) + 1 = next[b] + 1
  BY <1>1, BatchItems DEF BatchSound, Reach
<1>3. CASE UNCHANGED pipelineVars
  BY <1>3 DEF pipelineVars, PipelineInv, Pipeline!TypeOK, BatchSound, Reach, Begun, Pipeline!Running
<1>4. CASE Pipeline!Return
  <2>1. /\ status' \in {"completed", "failed"}
        /\ status' = "completed" => \A b \in Pipeline!Batches : batch[b] = "ended"
        /\ UNCHANGED <<batch, next, tries, calls, processed, successful, failed, results>>
    BY <1>4 DEF Pipeline!Return, Pipeline!Gathered
  <2> QED
    BY <2>1 DEF PipelineInv, Pipeline!TypeOK, BatchSound, Reach, Begun, Pipeline!Running
<1>5. ASSUME NEW b \in Pipeline!Batches, Pipeline!Start(b) PROVE PipelineInv'
  <2>1. /\ batch[b] = "waiting" /\ Cardinality(Pipeline!Running) < MaxConcurrent
        /\ Pipeline!Advance(b, Reach(b) + 1)
        /\ UNCHANGED <<successful, failed, results, status>>
    BY <1>1, <1>2, <1>5 DEF Pipeline!Start
  <2>2. Busy(b) = 0
    BY <2>1 DEF Busy
  <2> QED
    BY <1>1, <2>1, <2>2, AdvanceKeeps
<1>6. ASSUME NEW b \in Pipeline!Batches, Pipeline!Succeed(b) PROVE PipelineInv'
  <2>1. /\ batch[b] = "calling" /\ results' = results \union {next[b]} /\ successful' = successful + 1
        /\ Pipeline!Advance(b, Reach(b) + 1) /\ UNCHANGED <<failed, status>>
    BY <1>2, <1>6 DEF Pipeline!Succeed
  <2>2. Busy(b) = 1
    BY <2>1 DEF Busy
  <2>3. next[b] \in Int /\ Pipeline!First(b) <= next[b] /\ next[b] <= Pipeline!Last(b)
    BY <1>1, <2>1 DEF BatchSound, Reach
  <2>4. next[b] \in 1..Items
    <3>1. Pipeline!Last(b) \in 0..Items
      BY BatchItems
    <3> QED
      BY <1>1, <2>3, <3>1
  <2>5. next[b] \notin results
    <3>1. SUFFICES ASSUME next[b] \in results PROVE FALSE
      OBVIOUS
    <3>2. PICK c \in Pipeline!Batches : Pipeline!First(c) <= next[b] /\ next[b] < next[c]
      BY <3>1 DEF PipelineInv
    <3>3. next[b] <= Pipeline!Last(c)
      <4>1. /\ next[c] \in Int /\ Reach(c) <= Pipeline!Last(c) /\ Reach(c) \in {next[c], next[c] - 1}
            /\ Pipeline!Last(c) \in Int
        BY <1>1, BatchItems DEF BatchSound, Reach
      <4> QED
        BY <2>3, <3>2, <4>1
    <3>4. c = b
      BY <2>3, <3>2, <3>3, BatchesApart
    <3> QED
      BY <2>3, <3>2, <3>4
  <2>6. results' \in SUBSET (1..Items) /\ successful' = Cardinality(results')
    <3>1. IsFiniteSet(results)
      BY <1>1, BatchSets
    <3>2. Cardinality(results \union {next[b]}) = Cardinality(results) + 1
      BY <2>5, <3>1, FS_AddElement
    <3> QED
      BY <1>1, <2>1, <2>4, <3>2
  <2>7. successful' + failed' = successful + failed + Busy(b)
    BY <1>1, <2>1, <2>2
  <2> QED
    BY <1>1, <2>1, <2>6, <2>7, AdvanceKeeps
<1>7. ASSUME NEW b \in Pipeline!Batches, Pipeline!GiveUp(b) PROVE PipelineInv'
  <2>1. /\ batch[b] = "backoff" /\ failed' = failed + 1
        /\ Pipeline!Advance(b, Reach(b) + 1) /\ UNCHANGED <<successful, results, status>>
    BY <1>2, <1>7 DEF Pipeline!GiveUp, Pipeline!AfterFailure
  <2>2. Busy(b) = 1
    BY <2>1 DEF Busy
  <2>3. successful' + failed' = successful + failed + Busy(b)
    BY <1>1, <2>1, <2>2
  <2> QED
    BY <1>1, <2>1, <2>3, AdvanceKeeps
<1>8. ASSUME NEW b \in Pipeline!Batches, Pipeline!Fail(b) \/ Pipeline!AwaitAgain(b) PROVE PipelineInv'
  <2>1. /\ batch[b] \in {"calling", "backoff"} /\ batch' = [batch EXCEPT ![b] = "backoff"]
        /\ tries' \in [Pipeline!Batches -> 0..Attempts]
        /\ UNCHANGED <<next, calls, processed, successful, failed, results, status>>
    <3>1. CASE Pipeline!Fail(b)
      BY <1>1, <3>1 DEF Pipeline!Fail
    <3>2. CASE Pipeline!AwaitAgain(b)
      <4>1. /\ batch[b] = "backoff" /\ tries[b] + 1 < Attempts /\ tries' = [tries EXCEPT ![b] = @ + 1]
            /\ UNCHANGED <<batch, next, calls, processed, successful, failed, results, status>>
        BY <3>2 DEF Pipeline!AwaitAgain
      <4>2. tries[b] + 1 \in 0..Attempts /\ batch = [batch EXCEPT ![b] = "backoff"]
        BY <1>1, <4>1
      <4> QED
        BY <1>1, <4>1, <4>2
    <3> QED
      BY <1>8, <3>1, <3>2
  <2>2. /\ batch' \in [Pipeline!Batches -> BatchStates]
        /\ \A c \in Pipeline!Batches : /\ c # b => batch'[c] = batch[c]
                                       /\ c = b => batch'[c] = "backoff"
    BY <1>1, <2>1 DEF BatchStates
  <2>3. \A c \in Pipeline!Batches : Reach(c)' = Reach(c)
    BY <2>1, <2>2 DEF Reach
  <2>4. Begun' = Begun /\ Pipeline!Running' = Pipeline!Running
    BY <2>1, <2>2, <2>3 DEF Begun, Pipeline!Running
  <2>5. \A c \in Pipeline!Batches : BatchSound(c)'
    BY <1>1, <2>1, <2>2, <2>3 DEF BatchSound
  <2>6. Pipeline!TypeOK'
    BY <2>1, <2>2 DEF PipelineInv, Pipeline!TypeOK, BatchStates
  <2>7. status' = "completed" => \A c \in Pipeline!Batches : batch'[c] = "ended"
    BY <2>1 DEF PipelineInv
  <2> QED
    BY <2>1, <2>4, <2>5, <2>6, <2>7 DEF PipelineInv
<1> QED
  BY <1>3, <1>4, <1>5, <1>6, <1>7, <1>8 DEF Pipeline!Next

LEMMA PipelineSound == PipelineInv => Pipeline!ItemsAccounted
<1> SUFFICES ASSUME PipelineInv PROVE Pipeline!ItemsAccounted
  OBVIOUS
<1>1. \A S : Pipeline!Cardinality(S) = Cardinality(S)
  BY BatchFacts
<1>2. ASSUME status = "completed" PROVE processed = Items /\ Cardinality(Pipeline!Running) = 0
  <2>1. \A b \in Pipeline!Batches : batch[b] = "ended" /\ Reach(b) = Pipeline!Last(b)
    <3>1. ASSUME NEW b \in Pipeline!Batches PROVE batch[b] = "ended" /\ Reach(b) = Pipeline!Last(b)
      <4>1. batch[b] = "ended" /\ next[b] = Pipeline!Last(b) + 1 /\ Pipeline!Last(b) \in Int
        BY <1>2, BatchItems DEF PipelineInv, BatchSound
      <4> QED
        BY <4>1 DEF Reach
    <3> QED
      BY <3>1
  <2>2. Pipeline!Running = {}
    BY <2>1 DEF Pipeline!Running
  <2>3. Begun = 1..Items
    BY <2>1, BatchOf DEF Begun
  <2>4. Cardinality(1..Items) = Items
    BY BatchFacts, UpTo
  <2> QED
    BY <2>2, <2>3, <2>4, FS_EmptySet DEF PipelineInv
<1> QED
  BY <1>1, <1>2 DEF PipelineInv, Pipeline!ItemsAccounted, Pipeline!Running

------------------------------------------------------------------------------
(* ResilientParser *)

\* The alerts that were sent are a cooldown apart, and the latest is the one remembered:
\* only one checker is sending at a time, what it sends began a cooldown after that one.
ResilientInv ==
    /\ Resilient!TypeOK
    /\ Resilient!StatsAddUp
    /\ \A k \in Checkers : sending[k] # None => sending[k] <= rsNow
    /\ overlapped \/
       /\ \A j, k \in Checkers : j = k \/ sending[j] = None \/ sending[k] = None
       /\ \A k \in Checkers : sending[k] # None => sending[k] - lastAlert >= AlertCooldown
       /\ \A i \in 1..Len(alerts) : alerts[i] <= lastAlert
       /\ Resilient!AlertsSpaced

\* The callers whose parser is at work.
Parsing == {c \in Callers : call[c].at = "parser"}

LEMMA ResilientFacts ==
    /\ IsFiniteSet(Callers) /\ None \notin Int
    /\ MaxRetries \in Nat /\ AlertCooldown \in Nat /\ MaxCalls \in Nat /\ MaxTime \in Nat
    /\ Cardinality(Parsing) \in Nat
    /\ Resilient!StatsAddUp <=> total + twice = Cardinality(Parsing) + succeeded + failures
<1>1. /\ IsFiniteSet(Callers) /\ None \notin Int
      /\ MaxRetries \in Nat /\ AlertCooldown \in Nat /\ MaxCalls \in Nat /\ MaxTime \in Nat
  BY ServicesAssumption DEF Resilient!ResilientParserAssumption, Resilient!IsFiniteSet, IsFiniteSet
<1>2. Cardinality(Parsing) \in Nat
  BY <1>1, FS_Subset, FS_CardinalityType DEF Parsing
<1> QED
  BY <1>1, <1>2 DEF Resilient!StatsAddUp, Parsing, Resilient!Cardinality, Cardinality

LEMMA ResilientInit == Resilient!Init => ResilientInv
<1> SUFFICES ASSUME Resilient!Init PROVE ResilientInv
  OBVIOUS
<1> USE DEF Resilient!Init
<1>1. Resilient!TypeOK
  <2>1. Resilient!NotCalling \in [at : {"none", "parser", "store", "fallback"}, tries : 0..MaxRetries]
    BY ResilientFacts DEF Resilient!NotCalling
  <2>2. call \in [Callers -> [at : {"none", "parser", "store", "fallback"}, tries : 0..MaxRetries]]
    BY <2>1
  <2>3. /\ total \in 0..MaxCalls /\ succeeded \in 0..total /\ failures \in Nat
        /\ consecutive \in 0..failures /\ twice \in 0..failures /\ rsNow \in 0..MaxTime
    BY ResilientFacts
  <2>4. /\ sending \in [Checkers -> {None} \union 0..MaxTime]
        /\ lastAlert \in {-AlertCooldown} \union 0..MaxTime
        /\ alerts \in Seq(0..MaxTime) /\ overlapped \in BOOLEAN
    <3>1. << >> \in Seq(0..MaxTime)
      OBVIOUS
    <3> QED
      BY <3>1
  <2> QED
    BY <2>2, <2>3, <2>4 DEF Resilient!TypeOK
<1>2. Cardinality(Parsing) = 0
  <2>1. Parsing = {}
    BY DEF Parsing, Resilient!NotCalling
  <2> QED
    BY <2>1, FS_EmptySet
<1> QED
  BY <1>1, <1>2, ResilientFacts DEF ResilientInv, Resilient!AlertsSpaced

\* A step of one caller.
LEMMA CallerMoves ==
    ASSUME ResilientInv, NEW c \in Callers,
           NEW st \in [at : {"none", "parser", "store", "fallback"}, tries : 0..MaxRetries],
           call' = [call EXCEPT ![c] = st], UNCHANGED <<sending, lastAlert, alerts, overlapped, rsNow>>,
           total' \in 0..MaxCalls, succeeded' \in 0..total', failures' \in Nat,
           consecutive' \in 0..failures', twice' \in 0..failures',
           total' + twice' + Indicator(call[c].at = "parser") + succeeded + failures
               = total + twice + Indicator(st.at = "parser") + succeeded' + failures'
    PROVE  ResilientInv'
<1>1. Resilient!TypeOK /\ Resilient!StatsAddUp
  BY DEF ResilientInv
<1>2. Resilient!TypeOK'
  BY <1>1 DEF Resilient!TypeOK
<1>3. Resilient!StatsAddUp'
  <2>1. /\ call \in [Callers -> [at : {"none", "parser", "store", "fallback"}, tries : 0..MaxRetries]]
        /\ total \in Nat /\ twice \in Nat /\ succeeded \in Nat /\ failures \in Nat
        /\ total' \in Nat /\ twice' \in Nat /\ succeeded' \in Nat /\ failures' \in Nat
    BY <1>1, ResilientFacts DEF Resilient!TypeOK
  <2>2. \A d : d # c => (d \in Parsing <=> d \in Parsing')
    BY <2>1 DEF Parsing
  <2>3. IsFiniteSet(Parsing)
    BY ResilientFacts, FS_Subset DEF Parsing
  <2>4. /\ Cardinality(Parsing) \in Nat /\ Cardinality(Parsing') \in Nat
        /\ Cardinality(Parsing') + Indicator(c \in Parsing)
             = Cardinality(Parsing) + Indicator(c \in Parsing')
    BY <2>2, <2>3, OneElement
  <2>5. /\ (c \in Parsing) <=> (call[c].at = "parser")
        /\ (c \in Parsing') <=> (st.at = "parser")
    BY <2>1 DEF Parsing
  <2>6. total + twice = Cardinality(Parsing) + succeeded + failures
    BY <1>1, ResilientFacts
  <2>7. total' + twice' = Cardinality(Parsing') + succeeded' + failures'
    <3> DEFINE m == Cardinality(Parsing)
               n == Cardinality(Parsing')
               i == Indicator(call[c].at = "parser")
               j == Indicator(st.at = "parser")
    <3>1. m \in Nat /\ n \in Nat /\ n + i = m + j /\ total + twice = m + succeeded + failures
      BY <2>4, <2>5, <2>6 DEF Indicator
    <3>2. i \in Nat /\ j \in Nat
      BY DEF Indicator
    <3>3. total' + twice' + i + succeeded + failures = total + twice + j + succeeded' + failures'
      OBVIOUS
    <3> HIDE DEF m, n, i, j
    <3>4. total' + twice' = n + succeeded' + failures'
      BY <2>1, <3>1, <3>2, <3>3
    <3> QED
      BY <3>4 DEF n
  <2> QED
    BY <2>7 DEF Resilient!StatsAddUp, Parsing, Resilient!Cardinality, Cardinality
<1> QED
  BY <1>2, <1>3 DEF ResilientInv, Resilient!AlertsSpaced

\* A step of one caller, from where it is to another place.
CallerSteps(c) ==
    Resilient!Parse(c) \/ Resilient!Retry(c) \/ Resilient!Succeed(c) \/ Resilient!Exceed(c)
    \/ Resilient!Stored(c) \/ Resilient!StoreFails(c) \/ Resilient!FallBack(c)

LEMMA CallersStep ==
    ASSUME ResilientInv, NEW c \in Callers, CallerSteps(c)
    PROVE  ResilientInv'
<1> DEFINE States == [at : {"none", "parser", "store", "fallback"}, tries : 0..MaxRetries]
<1>1. /\ call \in [Callers -> States] /\ total \in 0..MaxCalls /\ succeeded \in 0..total
      /\ failures \in Nat /\ consecutive \in 0..failures /\ twice \in 0..failures
      /\ MaxRetries \in Nat /\ MaxCalls \in Nat
  BY ResilientFacts DEF ResilientInv, Resilient!TypeOK
<1>2. /\ call[c].at \in {"none", "parser", "store", "fallback"} /\ call[c].tries \in 0..MaxRetries
      /\ call[c] \in States
  BY <1>1
<1>3. \A what \in {"none", "parser", "store", "fallback"} :
        /\ [Resilient!NotCalling EXCEPT !.at = what] \in States
        /\ [Resilient!NotCalling EXCEPT !.at = what].at = what
  BY <1>1 DEF Resilient!NotCalling
<1>4. ASSUME NEW what \in {"none", "parser", "store", "fallback"}, Resilient!Await(c, what)
      PROVE  \E st \in States : st.at = what /\ call' = [call EXCEPT ![c] = st]
  BY <1>3, <1>4 DEF Resilient!Await
<1> /\ total \in Nat /\ succeeded \in Nat /\ consecutive \in Nat /\ twice \in Nat
    /\ total + twice = Cardinality(Parsing) + succeeded + failures /\ Cardinality(Parsing) \in Nat
  BY <1>1, ResilientFacts DEF ResilientInv
<1> USE DEF Resilient!statistics, Resilient!alerting, Indicator
<1> HIDE DEF States
<1>5. call[c].at = "parser" => Cardinality(Parsing) >= 1
  <2>1. IsFiniteSet(Parsing) /\ (call[c].at = "parser" => c \in Parsing)
    BY ResilientFacts, FS_Subset DEF Parsing
  <2> QED
    BY <2>1, FS_EmptySet
<1>12. CASE Resilient!Parse(c)
  <2>1. /\ call[c].at = "none" /\ total < MaxCalls /\ total' = total + 1
        /\ \E st \in States : st.at = "parser" /\ call' = [call EXCEPT ![c] = st]
        /\ UNCHANGED <<succeeded, failures, consecutive, twice, sending, lastAlert, alerts,
                       overlapped, rsNow>>
    BY <1>4, <1>12 DEF Resilient!Parse
  <2>2. total' \in 0..MaxCalls /\ succeeded' \in 0..total'
    BY <1>1, <2>1
  <2> QED
    <3>1. PICK st \in States : st.at = "parser" /\ call' = [call EXCEPT ![c] = st]
      BY <2>1
    <3>8. total' + twice' + Indicator(call[c].at = "parser") + succeeded + failures
              = total + twice + Indicator(st.at = "parser") + succeeded' + failures'
      BY <1>1, <2>1, <2>2, <3>1
    <3>9. /\ total' \in 0..MaxCalls /\ succeeded' \in 0..total' /\ failures' \in Nat
          /\ consecutive' \in 0..failures' /\ twice' \in 0..failures'
      BY <1>1, <2>1, <2>2, <3>1
    <3> QED
      BY <3>8, <3>9, <1>1, <2>1, <2>2, <3>1, CallerMoves DEF States
<1>6. CASE Resilient!Retry(c)
  <2> DEFINE st == [call[c] EXCEPT !.tries = @ + 1]
  <2>1. /\ call[c].at = "parser" /\ call[c].tries < MaxRetries /\ call' = [call EXCEPT ![c] = st]
        /\ UNCHANGED <<total, succeeded, failures, consecutive, twice, sending, lastAlert, alerts,
                       overlapped, rsNow>>
    BY <1>6 DEF Resilient!Retry
  <2>2. st \in States /\ st.at = "parser"
    BY <1>1, <1>2, <2>1 DEF States
  <2> HIDE DEF st
  <2> QED
    BY <1>1, <2>1, <2>2, CallerMoves DEF States
<1>7. CASE Resilient!Succeed(c)
  <2>1. /\ call[c].at = "parser" /\ succeeded' = succeeded + 1 /\ consecutive' = 0
        /\ \E st \in States : st.at \in {"none", "store"} /\ call' = [call EXCEPT ![c] = st]
        /\ UNCHANGED <<total, failures, twice, sending, lastAlert, alerts, overlapped, rsNow>>
    BY <1>4, <1>7 DEF Resilient!Succeed
  <2>2. succeeded' \in 0..total'
    BY <1>1, <1>5, <2>1
  <2>3. PICK st \in States : st.at \in {"none", "store"} /\ call' = [call EXCEPT ![c] = st]
    BY <2>1
  <2>8. total' + twice' + Indicator(call[c].at = "parser") + succeeded + failures
            = total + twice + Indicator(st.at = "parser") + succeeded' + failures'
    BY <1>1, <2>1, <2>2, <2>3
  <2>9. /\ total' \in 0..MaxCalls /\ succeeded' \in 0..total' /\ failures' \in Nat
        /\ consecutive' \in 0..failures' /\ twice' \in 0..failures'
    BY <1>1, <2>1, <2>2, <2>3
  <2> QED
    BY <2>8, <2>9, <1>1, <2>1, <2>2, <2>3, CallerMoves DEF States
<1>8. CASE Resilient!Exceed(c)
  <2>1. /\ call[c].at = "parser" /\ failures' = failures + 1 /\ consecutive' = consecutive + 1
        /\ \E st \in States : st.at = "fallback" /\ call' = [call EXCEPT ![c] = st]
        /\ UNCHANGED <<total, succeeded, twice, sending, lastAlert, alerts, overlapped, rsNow>>
    BY <1>4, <1>8 DEF Resilient!Exceed, Resilient!CountFailure
  <2>2. PICK st \in States : st.at = "fallback" /\ call' = [call EXCEPT ![c] = st]
    BY <2>1
  <2>8. total' + twice' + Indicator(call[c].at = "parser") + succeeded + failures
            = total + twice + Indicator(st.at = "parser") + succeeded' + failures'
    BY <1>1, <2>1, <2>2
  <2>9. /\ total' \in 0..MaxCalls /\ succeeded' \in 0..total' /\ failures' \in Nat
        /\ consecutive' \in 0..failures' /\ twice' \in 0..failures'
    BY <1>1, <2>1, <2>2
  <2> QED
    BY <2>8, <2>9, <1>1, <2>1, <2>2, CallerMoves DEF States
<1>9. CASE Resilient!Stored(c) \/ Resilient!FallBack(c)
  <2>1. /\ call[c].at # "parser"
        /\ \E st \in States : st.at = "none" /\ call' = [call EXCEPT ![c] = st]
        /\ UNCHANGED <<total, succeeded, failures, consecutive, twice, sending, lastAlert, alerts,
                       overlapped, rsNow>>
    BY <1>4, <1>9 DEF Resilient!Stored, Resilient!FallBack
  <2>2. PICK st \in States : st.at = "none" /\ call' = [call EXCEPT ![c] = st]
    BY <2>1
  <2> QED
    BY <1>1, <2>1, <2>2, CallerMoves DEF States
<1>10. CASE Resilient!StoreFails(c)
  <2>1. /\ call[c].at = "store" /\ failures' = failures + 1 /\ consecutive' = consecutive + 1
        /\ twice' = twice + 1
        /\ \E st \in States : st.at = "fallback" /\ call' = [call EXCEPT ![c] = st]
        /\ UNCHANGED <<total, succeeded, sending, lastAlert, alerts, overlapped, rsNow>>
    BY <1>4, <1>10 DEF Resilient!StoreFails, Resilient!CountFailure
  <2>2. PICK st \in States : st.at = "fallback" /\ call' = [call EXCEPT ![c] = st]
    BY <2>1
  <2>8. total' + twice' + Indicator(call[c].at = "parser") + succeeded + failures
            = total + twice + Indicator(st.at = "parser") + succeeded' + failures'
    BY <1>1, <2>1, <2>2
  <2>9. /\ total' \in 0..MaxCalls /\ succeeded' \in 0..total' /\ failures' \in Nat
        /\ consecutive' \in 0..failures' /\ twice' \in 0..failures'
    BY <1>1, <2>1, <2>2
  <2> QED
    BY <2>8, <2>9, <1>1, <2>1, <2>2, CallerMoves DEF States
<1> QED
  BY <1>12, <1>6, <1>7, <1>8, <1>9, <1>10 DEF CallerSteps

LEMMA CheckersStep ==
    ASSUME ResilientInv, NEW k \in Checkers,
           Resilient!Check(k) \/ Resilient!Sent(k) \/ Resilient!SendFails(k)
    PROVE  ResilientInv'
<1>1. /\ Resilient!TypeOK /\ Resilient!StatsAddUp
      /\ sending \in [Checkers -> {None} \union 0..MaxTime]
      /\ lastAlert \in {-AlertCooldown} \union 0..MaxTime /\ lastAlert \in Int
      /\ rsNow \in 0..MaxTime /\ alerts \in Seq(0..MaxTime) /\ overlapped \in BOOLEAN
      /\ MaxTime \in Nat /\ AlertCooldown \in Nat /\ None \notin Int
  BY ResilientFacts DEF ResilientInv, Resilient!TypeOK
<1>2. Resilient!StatsAddUp'
  BY <1>1 DEF Resilient!Check, Resilient!Sent, Resilient!SendFails, Resilient!statistics,
              Resilient!StatsAddUp
<1>3. CASE Resilient!Check(k)
  <2>1. /\ sending[k] = None /\ rsNow - lastAlert >= AlertCooldown
        /\ overlapped' = (overlapped \/ \E j \in Checkers : sending[j] # None)
        /\ sending' = [sending EXCEPT ![k] = rsNow]
        /\ UNCHANGED <<call, total, succeeded, failures, consecutive, twice, lastAlert, alerts, rsNow>>
    BY <1>3 DEF Resilient!Check, Resilient!MayAlert, Resilient!statistics
  <2>2. Resilient!TypeOK'
    BY <1>1, <2>1 DEF Resilient!TypeOK
  <2>3. \A j \in Checkers : sending'[j] = IF j = k THEN rsNow ELSE sending[j]
    BY <1>1, <2>1
  <2>4. \A j \in Checkers : sending'[j] # None => sending'[j] <= rsNow'
    BY <1>1, <2>1, <2>3 DEF ResilientInv
  <2>5. ASSUME ~overlapped'
        PROVE  /\ \A j, h \in Checkers : j = h \/ sending'[j] = None \/ sending'[h] = None
               /\ \A j \in Checkers : sending'[j] # None => sending'[j] - lastAlert' >= AlertCooldown
               /\ \A i \in 1..Len(alerts') : alerts'[i] <= lastAlert'
               /\ Resilient!AlertsSpaced'
    <3>1. ~overlapped /\ \A j \in Checkers : sending[j] = None
      BY <2>1, <2>5
    <3> QED
      BY <2>1, <2>3, <3>1 DEF ResilientInv, Resilient!AlertsSpaced
  <2> QED
    BY <1>2, <2>2, <2>4, <2>5 DEF ResilientInv
<1>4. CASE Resilient!Sent(k)
  <2>1. /\ sending[k] # None /\ sending' = [sending EXCEPT ![k] = None]
        /\ lastAlert' = sending[k] /\ alerts' = Append(alerts, sending[k])
        /\ UNCHANGED <<call, total, succeeded, failures, consecutive, twice, overlapped, rsNow>>
    BY <1>4 DEF Resilient!Sent, Resilient!statistics
  <2>2. sending[k] \in 0..MaxTime /\ sending[k] \in Int
    BY <1>1, <2>1
  <2>3. /\ alerts' \in Seq(0..MaxTime) /\ Len(alerts') = Len(alerts) + 1 /\ Len(alerts) \in Nat
        /\ alerts'[Len(alerts) + 1] = sending[k]
        /\ \A i \in 1..Len(alerts) : alerts'[i] = alerts[i] /\ alerts[i] \in Int
    BY <1>1, <2>1, <2>2
  <2>4. Resilient!TypeOK'
    BY <1>1, <2>1, <2>2, <2>3 DEF Resilient!TypeOK
  <2>5. \A j \in Checkers : sending'[j] = IF j = k THEN None ELSE sending[j]
    BY <1>1, <2>1
  <2>6. \A j \in Checkers : sending'[j] # None => sending'[j] <= rsNow'
    BY <1>1, <2>1, <2>5 DEF ResilientInv
  <2>7. ASSUME ~overlapped'
        PROVE  /\ \A j, h \in Checkers : j = h \/ sending'[j] = None \/ sending'[h] = None
               /\ \A j \in Checkers : sending'[j] # None => sending'[j] - lastAlert' >= AlertCooldown
               /\ \A i \in 1..Len(alerts') : alerts'[i] <= lastAlert'
               /\ Resilient!AlertsSpaced'
    <3>1. /\ \A j \in Checkers : j = k \/ sending[j] = None
          /\ sending[k] - lastAlert >= AlertCooldown
          /\ \A i \in 1..Len(alerts) : alerts[i] <= lastAlert
          /\ \A i, j \in 1..Len(alerts) : i < j => alerts[j] - alerts[i] >= AlertCooldown
      BY <2>1, <2>7 DEF ResilientInv, Resilient!AlertsSpaced
    <3>2. \A j \in Checkers : sending'[j] = None
      BY <2>5, <3>1
    <3>3. \A i \in 1..Len(alerts) : sending[k] - alerts[i] >= AlertCooldown /\ alerts[i] <= sending[k]
      <4>1. ASSUME NEW i \in 1..Len(alerts)
            PROVE  sending[k] - alerts[i] >= AlertCooldown /\ alerts[i] <= sending[k]
        <5>1. alerts[i] \in Int /\ alerts[i] <= lastAlert /\ lastAlert \in Int
          BY <1>1, <2>3, <3>1
        <5> QED
          BY <1>1, <2>2, <3>1, <5>1
      <4> QED
        BY <4>1
    <3>4. ASSUME NEW i \in 1..Len(alerts') PROVE alerts'[i] <= lastAlert'
      <4>1. i \in 1..Len(alerts) \/ i = Len(alerts) + 1
        BY <2>3
      <4> QED
        BY <2>1, <2>2, <2>3, <3>3, <4>1
    <3>5. ASSUME NEW i \in 1..Len(alerts'), NEW j \in 1..Len(alerts'), i < j
          PROVE  alerts'[j] - alerts'[i] >= AlertCooldown
      <4>1. i \in 1..Len(alerts) /\ (j \in 1..Len(alerts) \/ j = Len(alerts) + 1)
        BY <2>3, <3>5
      <4> QED
        BY <2>3, <3>1, <3>3, <3>5, <4>1
    <3> QED
      BY <3>2, <3>4, <3>5 DEF Resilient!AlertsSpaced
  <2> QED
    BY <1>2, <2>4, <2>6, <2>7 DEF ResilientInv
<1>5. CASE Resilient!SendFails(k)
  <2>1. /\ sending' = [sending EXCEPT ![k] = None]
        /\ UNCHANGED <<call, total, succeeded, failures, consecutive, twice, lastAlert, alerts,
                       overlapped, rsNow>>
    BY <1>5 DEF Resilient!SendFails, Resilient!statistics
  <2>2. Resilient!TypeOK'
    BY <1>1, <2>1 DEF Resilient!TypeOK
  <2>3. \A j \in Checkers : sending'[j] = IF j = k THEN None ELSE sending[j]
    BY <1>1, <2>1
  <2> QED
    BY <1>1, <1>2, <2>1, <2>2, <2>3 DEF ResilientInv, Resilient!AlertsSpaced
<1> QED
  BY <1>3, <1>4, <1>5

LEMMA ResilientNext == ASSUME ResilientInv, [Resilient!Next]_resilientVars PROVE ResilientInv'
<1>1. CASE UNCHANGED resilientVars
  BY <1>1 DEF resilientVars, ResilientInv, Resilient!TypeOK, Resilient!StatsAddUp,
              Resilient!AlertsSpaced
<1>2. CASE Resilient!Tick
  <2>1. /\ rsNow < MaxTime /\ rsNow' = rsNow + 1
        /\ UNCHANGED <<call, total, succeeded, failures, consecutive, twice, sending, lastAlert,
                       alerts, overlapped>>
    BY <1>2 DEF Resilient!Tick, Resilient!statistics, Resilient!alerting
  <2>2. rsNow \in 0..MaxTime /\ MaxTime \in Nat
        /\ sending \in [Checkers -> {None} \union 0..MaxTime]
    BY ResilientFacts DEF ResilientInv, Resilient!TypeOK
  <2>3. Resilient!TypeOK'
    BY <2>1, <2>2 DEF ResilientInv, Resilient!TypeOK
  <2>4. \A k \in Checkers : sending'[k] # None => sending'[k] <= rsNow'
    BY <2>1, <2>2 DEF ResilientInv
  <2> QED
    BY <2>1, <2>3, <2>4 DEF ResilientInv, Resilient!StatsAddUp, Resilient!AlertsSpaced
<1> QED
  BY <1>1, <1>2, CallersStep, CheckersStep DEF Resilient!Next, CallerSteps

LEMMA ResilientSound == ResilientInv => Resilient!FailuresAccounted
  BY DEF ResilientInv, Resilient!FailuresAccounted, Resilient!AlertsSpaced

------------------------------------------------------------------------------
(* The services together *)

LEMMA NotifyInvariance == MCSpec => []NotifyInv
<1>1. MCInit => NotifyInv
  BY NotifyInit DEF MCInit
<1>2. NotifyInv /\ [MCNext]_MCvars => NotifyInv'
  BY ServicesAssumption, NotifyNext, Moves
<1> QED
  BY <1>1, <1>2, PTL DEF MCSpec

LEMMA MonitorInvariance == MCSpec => []MonitorInv
<1>1. MCInit => MonitorInv
  BY ServicesAssumption, MonitorInit DEF MCInit
<1>2. MonitorInv /\ [MCNext]_MCvars => MonitorInv'
  BY ServicesAssumption, MonitorNext, Moves
<1> QED
  BY <1>1, <1>2, PTL DEF MCSpec

LEMMA AsyncInvariance == MCSpec => []AsyncInv
<1>1. MCInit => AsyncInv
  BY AsyncInit DEF MCInit
<1>2. AsyncInv /\ [MCNext]_MCvars => AsyncInv'
  BY AsyncNext, Moves
<1> QED
  BY <1>1, <1>2, PTL DEF MCSpec

LEMMA PoolInvariance == MCSpec => []PoolInv
<1>1. MCInit => PoolInv
  BY PoolInit DEF MCInit
<1>2. PoolInv /\ [MCNext]_MCvars => PoolInv'
  BY PoolNext, Moves
<1> QED
  BY <1>1, <1>2, PTL DEF MCSpec

\* A notification that has been sent has reached, once, every client that was connected
\* to one of its topics and still is; and a client is registered while it is there.
THEOREM TheConnectedAreServed == MCSpec => []ConnectedAreServed
<1>1. NotifyInv => ConnectedAreServed
  BY NotifyServes DEF NotifyInv, ConnectedAreServed, Notify!ConnectedAreServed
<1> QED
  BY <1>1, NotifyInvariance, PTL

\* Whatever rules come and go while notifications are being sent, and however many
\* loops run: the alerts of a rule come from checks a cooldown apart, a check that walks
\* to its end leaves no alert out, and one loop runs unless start was called twice.
THEOREM MonitoringIsSound == MCSpec => []AlertingSound
<1>1. MonitorInv => AlertingSound
  BY MonitorSound DEF AlertingSound
<1> QED
  BY <1>1, MonitorInvariance, PTL

\* Whatever is cancelled, deleted or cleaned up while tasks run: the status that a task
\* reports is the truth about it, and a task that was cancelled in time takes no
\* further step than the one it is in.
THEOREM TasksTellTheTruth == MCSpec => []TasksAnswerTruly
<1>1. AsyncInv => TasksAnswerTruly
  BY AsyncTruly
<1> QED
  BY <1>1, AsyncInvariance, PTL

\* Whatever closes clients, and however a closing ends: who asks is never given a client
\* whose closing ended, no open client is left out of the pool, and no more failures
\* are counted than requests.
THEOREM ThePoolIsSound == MCSpec => []PoolSound
<1>1. PoolInv => PoolSound
  BY PoolIsSound DEF PoolSound
<1> QED
  BY <1>1, PoolInvariance, PTL

LEMMA ResilientInvariance == MCSpec => []ResilientInv
<1>1. MCInit => ResilientInv
  BY ResilientInit DEF MCInit
<1>2. ResilientInv /\ [MCNext]_MCvars => ResilientInv'
  BY ResilientNext, Moves
<1> QED
  BY <1>1, <1>2, PTL DEF MCSpec

LEMMA LocationsInvariance == MCSpec => []LocationsInv
<1>1. MCInit => LocationsInv
  BY LocationsInit DEF MCInit
<1>2. LocationsInv /\ [MCNext]_MCvars => LocationsInv'
  BY LocationsNext, Moves
<1> QED
  BY <1>1, <1>2, PTL DEF MCSpec

LEMMA PipelineInvariance == MCSpec => []PipelineInv
<1>1. MCInit => PipelineInv
  BY PipelineInit DEF MCInit
<1>2. PipelineInv /\ [MCNext]_MCvars => PipelineInv'
  BY PipelineNext, Moves
<1> QED
  BY <1>1, <1>2, PTL DEF MCSpec

\* Whatever fails, raises or is retried, and however the tasks interleave: each location
\* and each item is in progress, done or failed, once; no visit, client or batch is over
\* the limits or outlives its parser unless a callback raised; every call is in progress,
\* successful or failed; and alerts are a cooldown apart unless two were sent at a time.
THEOREM WorkIsAccounted == MCSpec => []WorkAccounted
<1>1. LocationsInv /\ PipelineInv /\ ResilientInv => WorkAccounted
  BY LocationsClean, PipelineSound, ResilientSound DEF WorkAccounted
<1> QED
  BY <1>1, LocationsInvariance, PipelineInvariance, ResilientInvariance, PTL
==============================================================================
