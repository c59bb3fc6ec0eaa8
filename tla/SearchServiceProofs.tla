-------------------------- MODULE SearchServiceProofs --------------------------
(***************************************************************************)
(* Theorems about SearchService, for every set of searches and parsers,    *)
(* every pair of breaker thresholds and everything the parsers may find.   *)
(* What the pass over the filter returns is a fold, which stays with TLC.  *)
(***************************************************************************)
EXTENDS SearchService, CommonLemmas, FiniteSetTheorems, TLAPS

\* The types of what the tasks of the searches change.
TasksType ==
    /\ breakers \in [Parsers -> BreakerType]
    /\ phase \in [Searches -> Phase]
    /\ task \in [Searches -> [Parsers -> TaskState]]

\* The searches whose task for p has begun, and those whose task has ended.
Begun(p) == {s \in Searches : task[s][p] \in {"running", "done"}}
Ended(p) == {s \in Searches : task[s][p] \in {"done"}}

\* TasksAccounted with its sets named.
Accounted(p) ==
    /\ breakers[p].total_calls = Cardinality(Begun(p))
    /\ breakers[p].successful_calls + breakers[p].failed_calls + breakers[p].rejected_calls
         <= Cardinality(Ended(p))

IInv == TasksType /\ \A p \in Parsers : Accounted(p)

LEMMA AccountedIsTasksAccounted == TasksAccounted <=> \A p \in Parsers : Accounted(p)
  BY DEF TasksAccounted, Accounted, Begun, Ended

LEMMA SetsAreFinite ==
    ASSUME NEW p \in Parsers
    PROVE  /\ IsFiniteSet(Begun(p)) /\ Cardinality(Begun(p)) \in Nat
           /\ IsFiniteSet(Ended(p)) /\ Cardinality(Ended(p)) \in Nat
<1>1. IsFiniteSet(Begun(p)) /\ IsFiniteSet(Ended(p))
  BY SearchAssumption, FS_Subset DEF Begun, Ended
<1> QED
  BY <1>1, FS_CardinalityType

\* A task that is not touched, and a breaker that is not, stay accounted for.
LEMMA Untouched ==
    ASSUME NEW q \in Parsers, Accounted(q),
           breakers'[q] = breakers[q],
           \A s \in Searches : task'[s][q] = task[s][q]
    PROVE  Accounted(q)'
<1>1. Begun(q)' = Begun(q) /\ Ended(q)' = Ended(q)
  BY DEF Begun, Ended
<1> QED
  BY <1>1 DEF Accounted

LEMMA InitIInv == Init => IInv
<1> SUFFICES ASSUME Init PROVE IInv
  OBVIOUS
<1>1. NewBreaker \in BreakerType
  BY DEF NewBreaker, BreakerType, CircuitState
<1>2. TasksType
  BY <1>1 DEF Init, TasksType, Phase, TaskState
<1>3. ASSUME NEW p \in Parsers PROVE Accounted(p)
  <2>1. Begun(p) = {} /\ Ended(p) = {}
    BY DEF Init, Begun, Ended
  <2> QED
    BY <2>1, FS_EmptySet DEF Init, NewBreaker, Accounted
<1> QED
  BY <1>2, <1>3 DEF IInv

\* The statistics of a breaker are natural numbers.
LEMMA StatTypes ==
    ASSUME TasksType, NEW p \in Parsers
    PROVE  /\ breakers[p] \in BreakerType
           /\ breakers[p].total_calls \in Nat /\ breakers[p].successful_calls \in Nat
           /\ breakers[p].failed_calls \in Nat /\ breakers[p].rejected_calls \in Nat
<1>1. breakers[p] \in BreakerType
  BY DEF TasksType
<1> QED
  BY <1>1, FieldTypes

\* The search and the parser whose task a step moves; the others keep theirs.
LEMMA StartTaskIInv ==
    ASSUME IInv, NEW s \in Searches, NEW p \in Parsers, StartTask(s, p)
    PROVE  IInv'
<1> DEFINE rejected == MustReject(breakers[p], 0)
           b == IF rejected THEN RejectCall(breakers[p]) ELSE AdmitCall(breakers[p])
           to == IF rejected THEN "done" ELSE "running"
<1>1. TasksType /\ 0 \in Time
  BY DEF IInv, Time
<1>2. breakers' = [breakers EXCEPT ![p] = b] /\ task' = [task EXCEPT ![s][p] = to]
        /\ UNCHANGED phase /\ task[s][p] = "waiting"
  BY DEF StartTask
<1>3. b \in BreakerType
  BY <1>1, StatTypes, BreakerTypes
<1>4. to \in TaskState
  BY DEF TaskState
<1> HIDE DEF b, to
<1>5. TasksType'
  BY <1>1, <1>2, <1>3, <1>4 DEF TasksType
<1>6. ASSUME NEW q \in Parsers, q # p PROVE Accounted(q)'
  <2>1. breakers'[q] = breakers[q] /\ \A r \in Searches : task'[r][q] = task[r][q]
    BY <1>1, <1>2, <1>6 DEF TasksType
  <2> QED
    BY <1>6, <2>1, Untouched DEF IInv
<1>7. Accounted(p)'
  <2>1. breakers'[p] = b /\ task'[s][p] = to /\ \A r \in Searches : r # s => task'[r][p] = task[r][p]
    BY <1>1, <1>2 DEF TasksType
  <2>2. s \notin Begun(p) /\ s \notin Ended(p)
    BY <1>2 DEF Begun, Ended
  <2>3. Begun(p)' = Begun(p) \union {s}
    BY <2>1 DEF Begun, to
  <2>4. Cardinality(Begun(p)') = Cardinality(Begun(p)) + 1
    BY <2>2, <2>3, SetsAreFinite, FS_AddElement
  <2>5. Accounted(p)
    BY DEF IInv
  <2>6. CASE rejected
    <3>1. b = RejectCall(breakers[p]) /\ to = "done"
      BY <2>6 DEF b, to
    <3>2. Ended(p)' = Ended(p) \union {s}
      BY <2>1, <3>1 DEF Ended
    <3>3. Cardinality(Ended(p)') = Cardinality(Ended(p)) + 1
      BY <2>2, <3>2, SetsAreFinite, FS_AddElement
    <3>4. /\ b.total_calls = breakers[p].total_calls + 1
          /\ b.rejected_calls = breakers[p].rejected_calls + 1
          /\ b.successful_calls = breakers[p].successful_calls
          /\ b.failed_calls = breakers[p].failed_calls
      BY <1>1, <3>1, StatTypes, StatFacts
    <3> QED
      BY <1>1, <2>1, <2>4, <2>5, <3>3, <3>4, StatTypes, SetsAreFinite DEF Accounted
  <2>7. CASE ~rejected
    <3>1. b = AdmitCall(breakers[p]) /\ to = "running"
      BY <2>7 DEF b, to
    <3>2. Ended(p)' = Ended(p)
      BY <1>2, <2>1, <3>1 DEF Ended
    <3>3. /\ b.total_calls = breakers[p].total_calls + 1
          /\ b.rejected_calls = breakers[p].rejected_calls
          /\ b.successful_calls = breakers[p].successful_calls
          /\ b.failed_calls = breakers[p].failed_calls
      BY <1>1, <3>1, StatTypes, StatFacts
    <3> QED
      BY <1>1, <2>1, <2>4, <2>5, <3>2, <3>3, StatTypes, SetsAreFinite DEF Accounted
  <2> QED
    BY <2>6, <2>7
<1> QED
  BY <1>5, <1>6, <1>7 DEF IInv

LEMMA EndsTaskIInv ==
    ASSUME IInv, NEW s \in Searches, NEW p \in Parsers, EndsTask(s, p)
    PROVE  IInv'
<1> DEFINE b == breakers'[p]
<1>1. TasksType /\ 0 \in Time
  BY DEF IInv, Time
<1>2. task' = [task EXCEPT ![s][p] = "done"] /\ UNCHANGED phase /\ task[s][p] = "running"
  BY DEF EndsTask, TaskReturns, TaskRaises, TaskTimesOut, EndTask
<1>3. \/ breakers' = [breakers EXCEPT ![p] = OnSuccess(breakers[p])]
      \/ breakers' = [breakers EXCEPT ![p] = OnFailure(breakers[p], 0)]
      \/ breakers' = breakers
  BY DEF EndsTask, TaskReturns, TaskRaises, TaskTimesOut
<1>4. OnSuccess(breakers[p]) \in BreakerType /\ OnFailure(breakers[p], 0) \in BreakerType
  BY <1>1, StatTypes, BreakerTypes
<1>5. TasksType'
  BY <1>1, <1>2, <1>3, <1>4 DEF TasksType, TaskState
<1>6. ASSUME NEW q \in Parsers, q # p PROVE Accounted(q)'
  <2>1. breakers'[q] = breakers[q] /\ \A r \in Searches : task'[r][q] = task[r][q]
    BY <1>1, <1>2, <1>3, <1>6 DEF TasksType
  <2> QED
    BY <1>6, <2>1, Untouched DEF IInv
<1>7. Accounted(p)'
  <2>1. task'[s][p] = "done" /\ \A r \in Searches : r # s => task'[r][p] = task[r][p]
    BY <1>1, <1>2 DEF TasksType
  <2>2. Begun(p)' = Begun(p)
    BY <1>2, <2>1 DEF Begun
  <2>3. Ended(p)' = Ended(p) \union {s} /\ s \notin Ended(p)
    BY <1>2, <2>1 DEF Ended
  <2>4. Cardinality(Ended(p)') = Cardinality(Ended(p)) + 1
    BY <2>3, SetsAreFinite, FS_AddElement
  <2>5. b = OnSuccess(breakers[p]) \/ b = OnFailure(breakers[p], 0) \/ b = breakers[p]
    BY <1>1, <1>3 DEF TasksType
  <2>6. /\ b.total_calls = breakers[p].total_calls
        /\ b.rejected_calls = breakers[p].rejected_calls
        /\ \/ /\ b.successful_calls = breakers[p].successful_calls + 1
              /\ b.failed_calls = breakers[p].failed_calls
           \/ /\ b.successful_calls = breakers[p].successful_calls
              /\ b.failed_calls = breakers[p].failed_calls + 1
           \/ /\ b.successful_calls = breakers[p].successful_calls
              /\ b.failed_calls = breakers[p].failed_calls
    BY <1>1, <2>5, StatTypes, StatFacts
  <2>7. Accounted(p)
    BY DEF IInv
  <2> HIDE DEF b
  <2> QED
    BY <1>1, <2>2, <2>4, <2>6, <2>7, StatTypes, SetsAreFinite DEF Accounted, b
<1> QED
  BY <1>5, <1>6, <1>7 DEF IInv

\* What the overall timeout cancels had begun and has ended.
LEMMA OverallTimeoutIInv ==
    ASSUME IInv, NEW s \in Searches, OverallTimeout(s)
    PROVE  IInv'
<1>1. TasksType
  BY DEF IInv
<1>2. /\ task' = [task EXCEPT ![s] = [p \in Parsers |-> "done"]]
      /\ phase' = [phase EXCEPT ![s] = "gathered"]
      /\ UNCHANGED breakers
      /\ \A p \in Parsers : task[s][p] # "waiting"
  BY DEF OverallTimeout
<1>3. TasksType'
  BY <1>1, <1>2 DEF TasksType, TaskState, Phase
<1>4. ASSUME NEW p \in Parsers PROVE Accounted(p)'
  <2>1. task'[s][p] = "done" /\ \A r \in Searches : r # s => task'[r][p] = task[r][p]
    BY <1>1, <1>2 DEF TasksType
  <2>2. task[s][p] \in {"running", "done"}
    BY <1>1, <1>2 DEF TasksType, TaskState
  <2>3. Begun(p)' = Begun(p)
    BY <2>1, <2>2 DEF Begun
  <2>4. Ended(p) \subseteq Ended(p)' /\ Ended(p)' \subseteq Searches
    BY <2>1 DEF Ended
  <2>5. /\ Cardinality(Ended(p)) \in Nat /\ Cardinality(Ended(p)') \in Nat
        /\ Cardinality(Ended(p)) <= Cardinality(Ended(p)')
    BY <2>4, SearchAssumption, FS_Subset, FS_CardinalityType
  <2> QED
    BY <1>1, <1>2, <2>3, <2>5, StatTypes DEF Accounted, IInv
<1> QED
  BY <1>3, <1>4 DEF IInv

LEMMA StepIInv == IInv /\ [Next]_vars => IInv'
<1> SUFFICES ASSUME IInv, [Next]_vars PROVE IInv'
  OBVIOUS
<1>1. TasksType /\ \A q \in Parsers : Accounted(q)
  BY DEF IInv
<1>2. ASSUME NEW s \in Searches, Start(s) \/ Gather(s) \/ Finish(s) PROVE IInv'
  <2>1. UNCHANGED <<breakers, task>> /\ \E at \in Phase : phase' = [phase EXCEPT ![s] = at]
    BY <1>2 DEF Start, Gather, Finish, Phase
  <2>2. TasksType'
    BY <1>1, <2>1 DEF TasksType
  <2>3. \A q \in Parsers : Accounted(q)'
    BY <1>1, <2>1, Untouched
  <2> QED
    BY <2>2, <2>3 DEF IInv
<1>3. ASSUME NEW s \in Searches, OverallTimeout(s) PROVE IInv'
  BY <1>3, OverallTimeoutIInv
<1>4. ASSUME NEW s \in Searches, NEW p \in Parsers, StartTask(s, p) PROVE IInv'
  BY <1>4, StartTaskIInv
<1>5. ASSUME NEW s \in Searches, NEW p \in Parsers, EndsTask(s, p) PROVE IInv'
  BY <1>5, EndsTaskIInv
<1>6. CASE UNCHANGED vars
  <2>1. UNCHANGED <<breakers, task, phase>>
    BY <1>6 DEF vars
  <2>2. \A q \in Parsers : Accounted(q)'
    BY <1>1, <2>1, Untouched
  <2> QED
    BY <1>1, <2>1, <2>2 DEF IInv, TasksType
<1> QED
  BY <1>2, <1>3, <1>4, <1>5, <1>6 DEF Next, Done

\* The breakers of the parsers count every task of every search once, whatever the
\* searches, the timeouts and the breakers' own rejections interleave to.
THEOREM TasksAreAccounted == Spec => []TasksAccounted
<1>1. IInv => TasksAccounted
  BY AccountedIsTasksAccounted DEF IInv
<1> QED
  BY <1>1, InitIInv, StepIInv, PTL DEF Spec
------------------------------------------------------------------------------
\* Sequences and the sets of what is in them.
LEMMA ConcatContents ==
    ASSUME NEW S, NEW t \in Seq(S), NEW u \in Seq(S)
    PROVE  t \o u \in Seq(S) /\ ToSet(t \o u) = ToSet(t) \union ToSet(u)
<1>1. t \o u \in Seq(S) /\ Len(t \o u) = Len(t) + Len(u) /\ Len(t) \in Nat /\ Len(u) \in Nat
  OBVIOUS
<1>2. \A i \in 1..(Len(t) + Len(u)) :
        (t \o u)[i] = IF i <= Len(t) THEN t[i] ELSE u[i - Len(t)]
  OBVIOUS
<1>3. DOMAIN t = 1..Len(t) /\ DOMAIN u = 1..Len(u) /\ DOMAIN (t \o u) = 1..(Len(t) + Len(u))
  OBVIOUS
<1>4. ASSUME NEW i \in 1..Len(t) PROVE i \in 1..(Len(t) + Len(u)) /\ (t \o u)[i] = t[i]
  BY <1>1, <1>2
<1>5. ASSUME NEW i \in 1..Len(u)
      PROVE  i + Len(t) \in 1..(Len(t) + Len(u)) /\ (t \o u)[i + Len(t)] = u[i]
  BY <1>1, <1>2
<1>6. ASSUME NEW i \in 1..(Len(t) + Len(u))
      PROVE  \/ i \in 1..Len(t) /\ (t \o u)[i] = t[i]
             \/ i - Len(t) \in 1..Len(u) /\ (t \o u)[i] = u[i - Len(t)]
  BY <1>1, <1>2
<1> DEFINE c == t \o u
<1> HIDE DEF c
<1>7. ToSet(c) \subseteq ToSet(t) \union ToSet(u)
  BY <1>3, <1>6 DEF ToSet, c
<1>8. ToSet(t) \subseteq ToSet(c)
  BY <1>3, <1>4 DEF ToSet, c
<1>9. ToSet(u) \subseteq ToSet(c)
  BY <1>3, <1>5 DEF ToSet, c
<1> QED
  BY <1>1, <1>7, <1>8, <1>9 DEF c

LEMMA AppendsOnce ==
    ASSUME NEW S, NEW t \in Seq(S), NEW x \in S
    PROVE  /\ Append(t, x) \in Seq(S)
           /\ ToSet(Append(t, x)) = ToSet(t) \union {x}
           /\ IsInjective(t) /\ x \notin ToSet(t) => IsInjective(Append(t, x))
<1> DEFINE a == Append(t, x)
<1>1. a \in Seq(S) /\ Len(t) \in Nat /\ Len(a) = Len(t) + 1 /\ a[Len(t) + 1] = x
        /\ \A i \in 1..Len(t) : a[i] = t[i]
  OBVIOUS
<1>2. DOMAIN t = 1..Len(t) /\ DOMAIN a = 1..(Len(t) + 1)
  BY <1>1
<1>3. DOMAIN a = DOMAIN t \union {Len(t) + 1} /\ Len(t) + 1 \notin DOMAIN t
  BY <1>1, <1>2
<1>4. \A i \in DOMAIN t : a[i] = t[i]
  BY <1>1, <1>2
<1>5. a[Len(t) + 1] = x /\ a \in Seq(S)
  BY <1>1
<1> HIDE DEF a
<1>6. ToSet(a) = ToSet(t) \union {x}
  BY <1>3, <1>4, <1>5 DEF ToSet
<1>7. ASSUME IsInjective(t), x \notin ToSet(t) PROVE IsInjective(a)
  BY <1>3, <1>4, <1>5, <1>7 DEF IsInjective, ToSet
<1> QED
  BY <1>5, <1>6, <1>7 DEF a

------------------------------------------------------------------------------
\* The filter of a service that has delivered the keys D.
Holds(f, D) ==
    /\ f \in FilterType /\ D \subseteq Keys
    /\ f.has_exact => UseExactCheck /\ f.exact = D /\ f.bits = {}
    /\ ~f.has_exact => f.bits = BitsOf(D)

\* What is_duplicate() leaves behind is a filter.
LEMMA RememberType ==
    ASSUME NEW f \in FilterType, NEW k \in Keys
    PROVE  Remember(f, k) \in FilterType
<1>1. Hash[k] \subseteq Bits /\ \A keys \in SUBSET Keys : BitsOf(keys) \subseteq Bits
  BY FilterAssumption DEF BitsOf
<1>2. AddToBloom(f, k) \in FilterType
  BY <1>1 DEF AddToBloom, FilterType
<1>3. [f EXCEPT !.exact = @ \union {k}] \in FilterType
  BY DEF FilterType
<1>4. ASSUME NEW g \in FilterType PROVE Migrate(g) \in FilterType
  BY <1>1 DEF Migrate, FilterType
<1> QED
  BY <1>2, <1>3, <1>4 DEF Remember

\* What such a filter takes for a duplicate: FoundIsDelivered for one key.
Known(f, D, k) == k \in D \/ (~f.has_exact /\ Hash[k] \subseteq BitsOf(D))

LEMMA DuplicatesAreKnown ==
    ASSUME NEW f, NEW D, NEW k \in Keys, Holds(f, D)
    PROVE  IsDuplicate(f, k) <=> Known(f, D, k)
<1>1. k \in D => Hash[k] \subseteq BitsOf(D)
  BY DEF BitsOf
<1>2. CASE f.has_exact
  BY <1>2 DEF Holds, IsDuplicate, ChecksExactly, Known
<1>3. CASE ~f.has_exact
  BY <1>1, <1>3 DEF Holds, IsDuplicate, ChecksExactly, InBloom, Known
<1> QED
  BY <1>2, <1>3

\* What is known stays known as more is delivered.
LEMMA KnownStays ==
    ASSUME NEW f, NEW g, NEW D, NEW E, NEW k, D \subseteq E, Known(f, D, k),
           ~f.has_exact => ~g.has_exact
    PROVE  Known(g, E, k)
<1>1. BitsOf(D) \subseteq BitsOf(E)
  BY DEF BitsOf
<1> QED
  BY <1>1 DEF Known

\* A new key is remembered as delivered, across the switch to the Bloom filter.
LEMMA NewKeyHeld ==
    ASSUME NEW f, NEW D, NEW k \in Keys, Holds(f, D), ~IsDuplicate(f, k)
    PROVE  /\ Holds(Remember(f, k), D \union {k})
           /\ ~f.has_exact => ~Remember(f, k).has_exact
<1> DEFINE grown == [f EXCEPT !.exact = @ \union {k}]
           g == Remember(f, k)
           E == D \union {k}
<1>1. f \in FilterType /\ E \subseteq Keys
  BY DEF Holds
<1>2. /\ grown \in FilterType /\ grown.exact = f.exact \union {k}
      /\ grown.bits = f.bits /\ grown.has_exact = f.has_exact
  BY <1>1 DEF FilterType
<1>3. BitsOf(E) = BitsOf(D) \union Hash[k] /\ BitsOf(E) \subseteq Bits
  BY <1>1, FilterAssumption DEF BitsOf
<1>4. CASE ~f.has_exact
  <2>1. g = AddToBloom(f, k)
    BY <1>4 DEF Remember, ChecksExactly
  <2>2. g = [f EXCEPT !.bits = f.bits \union Hash[k]]
    BY <2>1 DEF AddToBloom
  <2>3. ~g.has_exact /\ g.bits = f.bits \union Hash[k]
    BY <1>1, <1>4, <2>2 DEF FilterType
  <2>4. f.bits = BitsOf(D)
    BY <1>4 DEF Holds
  <2>5. g \in FilterType
    <3>1. f.bits \union Hash[k] \in SUBSET Bits
      BY <1>3, <2>4
    <3> QED
      BY <1>1, <2>2, <3>1 DEF FilterType
  <2> HIDE DEF g, E
  <2>6. Holds(g, E)
    BY <1>1, <1>3, <2>3, <2>4, <2>5 DEF Holds
  <2> QED
    BY <2>3, <2>6 DEF g, E
<1>5. CASE f.has_exact
  <2>1. UseExactCheck /\ f.exact = D /\ f.bits = {} /\ ChecksExactly(f)
    BY <1>5 DEF Holds, ChecksExactly
  <2> HIDE DEF grown
  <2>2. CASE Cardinality(grown.exact) > ExactCheckThreshold
    <3>1. g = Migrate(grown)
      BY <2>1, <2>2 DEF Remember, grown
    <3>2. g = [has_exact |-> FALSE, exact |-> {}, bits |-> BitsOf(E)]
      BY <1>2, <2>1, <3>1 DEF Migrate
    <3>3. g \in FilterType
      BY <1>3, <3>2 DEF FilterType
    <3> HIDE DEF g, E
    <3>4. Holds(g, E)
      BY <1>1, <3>2, <3>3 DEF Holds
    <3> QED
      BY <1>5, <3>4 DEF g, E
  <2>3. CASE ~(Cardinality(grown.exact) > ExactCheckThreshold)
    <3>1. g = grown
      BY <2>1, <2>3 DEF Remember, grown
    <3> QED
      BY <1>1, <1>2, <1>5, <2>1, <3>1 DEF Holds
  <2> QED
    BY <2>2, <2>3
<1> QED
  BY <1>4, <1>5

------------------------------------------------------------------------------
\* The pass over the found keys.
PassType == [filter : FilterType, unique : Seq(Keys)]

LEMMA PassUnfolds ==
    ASSUME NEW f \in FilterType, NEW found \in Seq(Keys)
    PROVE  /\ Passed(f, found) \in [0..Len(found) -> PassType]
           /\ Passed(f, found)[0] = [filter |-> f, unique |-> << >>]
           /\ \A i \in 1..Len(found) :
                 LET before == Passed(f, found)[i - 1] IN
                 Passed(f, found)[i] =
                     IF IsDuplicate(before.filter, found[i]) THEN before
                     ELSE [filter |-> Remember(before.filter, found[i]),
                           unique |-> Append(before.unique, found[i])]
<1> DEFINE n == Len(found)
           base == [filter |-> f, unique |-> << >>]
           next(x, k) == IF IsDuplicate(x.filter, k) THEN x
                         ELSE [filter |-> Remember(x.filter, k), unique |-> Append(x.unique, k)]
           step == [i \in 1..n |-> [x \in PassType |-> next(x, found[i])]]
<1>1. n \in Nat /\ base \in PassType /\ \A i \in 1..n : found[i] \in Keys
  BY DEF PassType
<1>2. ASSUME NEW x \in PassType, NEW k \in Keys PROVE next(x, k) \in PassType
  <2>1. x.filter \in FilterType /\ x.unique \in Seq(Keys)
    BY DEF PassType
  <2>2. Remember(x.filter, k) \in FilterType /\ Append(x.unique, k) \in Seq(Keys)
    BY <2>1, RememberType
  <2> QED
    BY <2>2 DEF PassType
<1> HIDE DEF n, base, next
<1>3. step \in Steps(PassType, n)
  BY <1>1, <1>2 DEF Steps
<1>4. \A i \in 1..n, x \in PassType : step[i][x] = next(x, found[i])
  OBVIOUS
<1> HIDE DEF step
<1>5. PICK g : IsRun(g, PassType, base, n, step)
  BY <1>1, <1>3, Recursion
<1>6. g \in [0..n -> PassType] /\ g[0] = base
  BY <1>5 DEF IsRun
<1>7. ASSUME NEW i \in 1..n PROVE i - 1 \in 0..n /\ g[i] = next(g[i - 1], found[i])
  <2>1. i - 1 \in 0..n
    BY <1>1
  <2>2. g[i - 1] \in PassType /\ g[i] = step[i][g[i - 1]]
    BY <1>5, <1>6, <2>1 DEF IsRun
  <2> QED
    BY <1>4, <2>1, <2>2
<1>8. g = [i \in 0..n |-> IF i = 0 THEN base ELSE next(g[i - 1], found[i])]
  <2>1. \A i \in 0..n : g[i] = IF i = 0 THEN base ELSE next(g[i - 1], found[i])
    BY <1>1, <1>6, <1>7
  <2> QED
    BY <1>6, <2>1
<1>9. Passed(f, found) =
        [i \in 0..n |-> IF i = 0 THEN base ELSE next(Passed(f, found)[i - 1], found[i])]
  BY <1>8, Zenon DEF Passed, base, next, n
<1> DEFINE h == Passed(f, found)
<1> HIDE DEF h
<1>10. h[0] = base /\ \A i \in 1..n : h[i] = next(h[i - 1], found[i])
  BY <1>1, <1>9 DEF h
<1>11. h \in [0..n -> PassType]
  <2> DEFINE T == {i \in 0..n : h[i] \in PassType}
  <2>1. 0 \in T
    BY <1>1, <1>10
  <2>2. ASSUME NEW i \in 0..(n - 1), i \in T PROVE i + 1 \in T
    <3>1. i + 1 \in 1..n /\ (i + 1) - 1 = i /\ h[i] \in PassType
      BY <1>1, <2>2
    <3>2. h[i + 1] = next(h[i], found[i + 1])
      BY <1>10, <3>1
    <3> QED
      BY <1>1, <1>2, <3>1, <3>2
  <2>3. 0..n \subseteq T
    <3> HIDE DEF T
    <3> QED
      BY <1>1, <2>1, <2>2, InductionUpTo
  <2>4. h = [i \in 0..n |-> h[i]]
    BY <1>9 DEF h
  <2> QED
    BY <2>3, <2>4
<1> QED
  BY <1>10, <1>11 DEF h, n, base, next

\* After i keys of a pass that began with the filter f and the delivered keys D.
PassSound(f, D, found, t, i) ==
    /\ t \in PassType
    /\ IsInjective(t.unique) /\ ToSet(t.unique) \intersect D = {}
    /\ Holds(t.filter, D \union ToSet(t.unique))
    /\ ~f.has_exact => ~t.filter.has_exact
    /\ \A j \in 1..i : Known(t.filter, D \union ToSet(t.unique), found[j])

LEMMA PassStep ==
    ASSUME NEW f, NEW D, NEW found \in Seq(Keys), NEW t, NEW u,
           NEW i \in 1..Len(found), PassSound(f, D, found, t, i - 1),
           u = IF IsDuplicate(t.filter, found[i]) THEN t
               ELSE [filter |-> Remember(t.filter, found[i]),
                     unique |-> Append(t.unique, found[i])]
    PROVE  PassSound(f, D, found, u, i)
<1> DEFINE k == found[i]
           E == D \union ToSet(t.unique)
<1>1. k \in Keys /\ i \in Nat /\ t.unique \in Seq(Keys) /\ t.filter \in FilterType
        /\ Holds(t.filter, E)
  BY DEF PassSound, PassType
<1>2. CASE IsDuplicate(t.filter, k)
  <2>1. Known(t.filter, E, k)
    BY <1>1, <1>2, DuplicatesAreKnown
  <2>2. u = t
    BY <1>2
  <2>3. ASSUME NEW j \in 1..i PROVE Known(t.filter, E, found[j])
    <3>1. j \in 1..(i - 1) \/ j = i
      BY <1>1
    <3> QED
      BY <2>1, <3>1 DEF PassSound
  <2> QED
    BY <2>2, <2>3 DEF PassSound
<1>3. CASE ~IsDuplicate(t.filter, k)
  <2> DEFINE g == Remember(t.filter, k)
             a == Append(t.unique, k)
  <2>1. u = [filter |-> g, unique |-> a] /\ u.filter = g /\ u.unique = a
    BY <1>3
  <2>2. k \notin E
    BY <1>1, <1>3, DuplicatesAreKnown DEF Known
  <2>3. a \in Seq(Keys) /\ ToSet(a) = ToSet(t.unique) \union {k} /\ IsInjective(a)
    BY <1>1, <2>2, AppendsOnce DEF PassSound
  <2>4. Holds(g, E \union {k}) /\ (~t.filter.has_exact => ~g.has_exact)
    BY <1>1, <1>3, NewKeyHeld
  <2>5. D \union ToSet(a) = E \union {k} /\ ToSet(a) \intersect D = {}
    BY <2>2, <2>3 DEF PassSound
  <2>6. g \in FilterType
    BY <1>1, RememberType
  <2> HIDE DEF g, a, E
  <2>7. ASSUME NEW j \in 1..i PROVE Known(g, E \union {k}, found[j])
    <3>1. CASE j = i
      BY <3>1 DEF Known
    <3>2. CASE j # i
      <4>1. j \in 1..(i - 1)
        BY <1>1, <3>2
      <4>2. Known(t.filter, E, found[j])
        BY <4>1 DEF PassSound, E
      <4> QED
        BY <2>4, <4>2, KnownStays
    <3> QED
      BY <3>1, <3>2
  <2>8. u \in PassType /\ u.filter = g /\ u.unique = a
    <3>1. a \in Seq(Keys)
      BY <2>3
    <3>2. [filter |-> g, unique |-> a] \in PassType
      BY <2>6, <3>1 DEF PassType
    <3>3. u \in PassType
      BY <2>1, <3>2, Zenon
    <3> QED
      BY <2>1, <3>3
  <2>9. ~f.has_exact => ~g.has_exact
    BY <2>4 DEF PassSound
  <2> QED
    BY <2>3, <2>4, <2>5, <2>7, <2>8, <2>9 DEF PassSound
<1> QED
  BY <1>2, <1>3

\* The whole pass delivers no key twice and loses none.
LEMMA PassDelivers ==
    ASSUME NEW f, NEW D, NEW found \in Seq(Keys), Holds(f, D)
    PROVE  PassSound(f, D, found, FilterPass(f, found), Len(found))
<1> DEFINE n == Len(found)
           h == Passed(f, found)
           T == {i \in 0..n : PassSound(f, D, found, h[i], i)}
<1>1. n \in Nat /\ f \in FilterType
  BY DEF Holds
<1>2. h[0] = [filter |-> f, unique |-> << >>] /\ h \in [0..n -> PassType]
  BY <1>1, PassUnfolds
<1>3. \A i \in 1..n : h[i] = IF IsDuplicate(h[i - 1].filter, found[i]) THEN h[i - 1]
                              ELSE [filter |-> Remember(h[i - 1].filter, found[i]),
                                    unique |-> Append(h[i - 1].unique, found[i])]
  BY <1>1, PassUnfolds
<1> HIDE DEF h
<1>4. 0 \in T
  <2>1. IsInjective(<< >>) /\ ToSet(<< >>) = {}
    BY DEF IsInjective, ToSet
  <2>2. h[0] \in PassType /\ h[0].filter = f /\ h[0].unique = << >>
    BY <1>1, <1>2
  <2>3. D \union ToSet(h[0].unique) = D /\ ToSet(h[0].unique) \intersect D = {}
    BY <2>1, <2>2
  <2>4. Holds(h[0].filter, D \union ToSet(h[0].unique)) /\ IsInjective(h[0].unique)
    BY <2>1, <2>2, <2>3, Zenon
  <2>5. \A j \in 1..0 : Known(h[0].filter, D \union ToSet(h[0].unique), found[j])
    OBVIOUS
  <2>6. PassSound(f, D, found, h[0], 0)
    BY <2>2, <2>3, <2>4, <2>5, Zenon DEF PassSound
  <2> QED
    BY <1>1, <2>6
<1>5. ASSUME NEW i \in 0..(n - 1), i \in T PROVE i + 1 \in T
  <2>1. i + 1 \in 1..n /\ (i + 1) - 1 = i /\ PassSound(f, D, found, h[i], i)
    BY <1>1, <1>5
  <2> DEFINE u == h[i + 1]
  <2>2. u = IF IsDuplicate(h[i].filter, found[i + 1]) THEN h[i]
            ELSE [filter |-> Remember(h[i].filter, found[i + 1]),
                  unique |-> Append(h[i].unique, found[i + 1])]
    BY <1>3, <2>1
  <2>3. PassSound(f, D, found, u, i + 1)
    <3> HIDE DEF u
    <3> QED
      BY <2>1, <2>2, PassStep
  <2> QED
    BY <1>1, <2>1, <2>3
<1>6. n \in T
  <2> HIDE DEF T
  <2>1. 0..n \subseteq T
    BY <1>1, <1>4, <1>5, InductionUpTo
  <2> QED
    BY <1>1, <2>1
<1> QED
  BY <1>6 DEF FilterPass, h

------------------------------------------------------------------------------
\* What all parsers of a search found, as a list and as a set.
LEMMA GatheredUnfolds ==
    ASSUME NEW s \in Searches, page[s] \in [Parsers -> Seq(Keys)]
    PROVE  LET n == Len(ParserOrder) IN
           /\ Gathered(s) \in [0..n -> Seq(Keys)]
           /\ Gathered(s)[0] = << >>
           /\ \A i \in 1..n : Gathered(s)[i] = Gathered(s)[i - 1] \o page[s][ParserOrder[i]]
<1> DEFINE n == Len(ParserOrder)
           S == Seq(Keys)
           pageAt(i) == page[s][ParserOrder[i]]
           step == [i \in 1..n |-> [x \in S |-> x \o pageAt(i)]]
           base == << >>
<1>1. n \in Nat /\ base \in S
  BY SearchAssumption
<1>2. \A i \in 1..n : pageAt(i) \in S
  BY SearchAssumption
<1>3. \A x, y \in S : x \o y \in S
  OBVIOUS
<1> HIDE DEF n, S, pageAt, base
<1>4. step \in Steps(S, n) /\ \A i \in 1..n, x \in S : step[i][x] = x \o pageAt(i)
  BY <1>2, <1>3 DEF Steps
<1> HIDE DEF step
<1>5. PICK g : IsRun(g, S, base, n, step)
  BY <1>1, <1>4, Recursion
<1>6. g \in [0..n -> S] /\ g[0] = base
  BY <1>5 DEF IsRun
<1>7. ASSUME NEW i \in 1..n PROVE i - 1 \in 0..n /\ g[i] = g[i - 1] \o pageAt(i)
  <2>1. i - 1 \in 0..n
    BY <1>1
  <2> QED
    BY <1>4, <1>5, <1>6, <2>1 DEF IsRun
<1>8. g = [i \in 0..n |-> IF i = 0 THEN base ELSE g[i - 1] \o pageAt(i)]
  <2>1. \A i \in 0..n : g[i] = IF i = 0 THEN base ELSE g[i - 1] \o pageAt(i)
    BY <1>1, <1>6, <1>7, SMTT(30)
  <2> QED
    BY <1>6, <2>1
<1> DEFINE h == Gathered(s)
<1>9. h = [i \in 0..n |-> IF i = 0 THEN base ELSE h[i - 1] \o pageAt(i)]
  BY <1>8, Zenon DEF Gathered, base, n, pageAt
<1> HIDE DEF h
<1>10. h[0] = base /\ \A i \in 1..n : h[i] = h[i - 1] \o pageAt(i)
  <2>1. 0 \in 0..n /\ \A i \in 1..n : i \in 0..n /\ i # 0
    BY <1>1
  <2>2. \A i \in 0..n : h[i] = IF i = 0 THEN base ELSE h[i - 1] \o pageAt(i)
    BY <1>9, Zenon
  <2> QED
    BY <2>1, <2>2, Zenon
<1>11. h \in [0..n -> S]
  <2> DEFINE T == {i \in 0..n : h[i] \in S}
  <2>1. 0 \in T
    BY <1>1, <1>10
  <2>2. ASSUME NEW i \in 0..(n - 1), i \in T PROVE i + 1 \in T
    <3>1. i + 1 \in 1..n /\ (i + 1) - 1 = i /\ h[i] \in S
      BY <1>1, <2>2
    <3>2. h[i + 1] = h[i] \o pageAt(i + 1) /\ pageAt(i + 1) \in S
      BY <1>2, <1>10, <3>1
    <3>3. h[i + 1] \in S
      BY <1>3, <3>1, <3>2, Zenon
    <3> QED
      BY <1>1, <3>1, <3>3
  <2>3. 0..n \subseteq T
    <3> HIDE DEF T
    <3> QED
      BY <1>1, <2>1, <2>2, InductionUpTo
  <2>4. h = [i \in 0..n |-> h[i]]
    BY <1>9
  <2> QED
    BY <2>3, <2>4
<1> QED
  BY <1>10, <1>11 DEF h, n, S, base, pageAt

LEMMA AllFoundContents ==
    ASSUME NEW s \in Searches, page[s] \in [Parsers -> Seq(Keys)]
    PROVE  AllFound(s) \in Seq(Keys) /\ ToSet(AllFound(s)) = FoundBy(s)
<1> DEFINE n == Len(ParserOrder)
           S == Seq(Keys)
           h == Gathered(s)
           pageAt(i) == page[s][ParserOrder[i]]
           T == {i \in 0..n : ToSet(h[i]) = UNION {ToSet(pageAt(j)) : j \in 1..i}}
<1>1. n \in Nat /\ \A i \in 1..n : pageAt(i) \in S
  <2>1. n \in Nat /\ \A i \in 1..n : ParserOrder[i] \in Parsers
    BY SearchAssumption
  <2> HIDE DEF n, S
  <2> USE DEF S
  <2> QED
    BY <2>1
<1>2. /\ h \in [0..n -> S] /\ h[0] = << >>
      /\ \A i \in 1..n : h[i] = h[i - 1] \o pageAt(i)
  BY GatheredUnfolds
<1>3. \A x, y \in S : ToSet(x \o y) = ToSet(x) \union ToSet(y)
  BY ConcatContents
<1> HIDE DEF n, h, S, pageAt
<1>4. 0 \in T
  BY <1>1, <1>2 DEF ToSet
<1>5. ASSUME NEW i \in 0..(n - 1), i \in T PROVE i + 1 \in T
  <2>1. i + 1 \in 1..n /\ (i + 1) - 1 = i /\ i \in 0..n /\ h[i] \in S
    BY <1>1, <1>2
  <2>2. ToSet(h[i + 1]) = ToSet(h[i]) \union ToSet(pageAt(i + 1))
    BY <1>1, <1>2, <1>3, <2>1, ZenonT(30)
  <2>3. 1..(i + 1) = (1..i) \union {i + 1}
    BY <2>1
  <2>4. ToSet(h[i + 1]) = UNION {ToSet(pageAt(j)) : j \in 1..(i + 1)}
    BY <1>5, <2>2, <2>3
  <2> QED
    BY <1>1, <2>1, <2>4
<1>6. n \in T
  <2> HIDE DEF T
  <2>1. 0..n \subseteq T
    BY <1>1, <1>4, <1>5, InductionUpTo
  <2> QED
    BY <1>1, <2>1
<1>7. ToSet(h[n]) = UNION {ToSet(pageAt(j)) : j \in 1..n}
  BY <1>6
<1>8. FoundBy(s) = UNION {ToSet(pageAt(j)) : j \in 1..n}
  <2>1. \A p \in Parsers : \E j \in 1..n : ParserOrder[j] = p
    BY SearchAssumption DEF n
  <2>2. \A j \in 1..n : ParserOrder[j] \in Parsers
    BY SearchAssumption DEF n
  <2> QED
    BY <2>1, <2>2 DEF FoundBy, pageAt
<1> QED
  BY <1>1, <1>2, <1>7, <1>8 DEF AllFound, h, n, S

------------------------------------------------------------------------------
\* The types and, with them, what the filter holds: it is the filter of a service
\* that has delivered what the finished searches returned.
Undelivered == \A s \in Searches : phase[s] # "finished" => returned[s] = << >>

DInv ==
    /\ IInv /\ TypeOK
    /\ Holds(filter, ReturnedBy(Searches))
    /\ Undelivered /\ DeliveredOnce /\ FoundIsDelivered

LEMMA InitDInv == Init => DInv
<1> SUFFICES ASSUME Init PROVE DInv
  OBVIOUS
<1>1. IInv /\ TasksType
  BY InitIInv DEF IInv
<1>2. ToSet(<< >>) = {} /\ IsInjective(<< >>) /\ BitsOf({}) = {}
  BY DEF ToSet, IsInjective, BitsOf
<1>3. NewFilter \in FilterType
  BY FilterAssumption DEF NewFilter, FilterType
<1>4. TypeOK
  BY <1>1, <1>3 DEF Init, TypeOK, TasksType
<1>5. ReturnedBy(Searches) = {}
  BY <1>2 DEF Init, ReturnedBy
<1>6. Holds(filter, ReturnedBy(Searches))
  BY <1>2, <1>3, <1>5 DEF Init, Holds, NewFilter
<1>7. Undelivered /\ DeliveredOnce /\ FoundIsDelivered
  BY <1>2 DEF Init, Undelivered, DeliveredOnce, FoundIsDelivered, ReturnedBy
<1> QED
  BY <1>1, <1>4, <1>6, <1>7 DEF DInv

\* FoundIsDelivered in terms of what the filter knows.
LEMMA FoundIsKnown ==
    FoundIsDelivered <=> \A s \in Searches : phase[s] = "finished" =>
                             \A k \in FoundBy(s) : Known(filter, ReturnedBy(Searches), k)
  BY DEF FoundIsDelivered, Known

\* A step that delivers nothing and changes the pages of unfinished searches only.
LEMMA NothingDelivered ==
    ASSUME DInv, IInv', TypeOK', UNCHANGED <<filter, returned>>,
           \A s \in Searches : /\ phase'[s] = "finished" <=> phase[s] = "finished"
                               /\ phase[s] = "finished" => page'[s] = page[s]
    PROVE  DInv'
<1>1. ReturnedBy(Searches)' = ReturnedBy(Searches) /\ DeliveredOnce'
  BY DEF DInv, ReturnedBy, DeliveredOnce
<1>0. /\ filter' = filter /\ returned' = returned
      /\ Undelivered /\ Holds(filter, ReturnedBy(Searches)) /\ FoundIsDelivered
      /\ \A s \in Searches : /\ phase'[s] = "finished" <=> phase[s] = "finished"
                             /\ phase[s] = "finished" => page'[s] = page[s]
  BY DEF DInv
<1>2. Undelivered'
  BY <1>0 DEF Undelivered
<1>3. Holds(filter, ReturnedBy(Searches))'
  BY <1>1 DEF DInv, Holds
<1>4. FoundIsDelivered'
  <2>1. \A s \in Searches : phase'[s] = "finished" =>
            phase[s] = "finished" /\ FoundBy(s)' = FoundBy(s)
    BY <1>0 DEF FoundBy
  <2>2. \A s \in Searches : phase'[s] = "finished" =>
            \A k \in FoundBy(s)' : Known(filter', ReturnedBy(Searches)', k)
    BY <1>0, <1>1, <2>1, FoundIsKnown
  <2> QED
    BY <2>2 DEF FoundIsDelivered, Known
<1> QED
  BY <1>1, <1>2, <1>3, <1>4 DEF DInv

LEMMA FinishDelivers ==
    ASSUME DInv, NEW s \in Searches, Finish(s), IInv'
    PROVE  DInv'
<1> DEFINE D == ReturnedBy(Searches)
           pass == FilterPass(filter, AllFound(s))
           new == ToSet(pass.unique)
<1>1. TypeOK /\ Holds(filter, D) /\ Undelivered /\ DeliveredOnce /\ FoundIsDelivered
  BY DEF DInv
<1>2. /\ phase[s] = "gathered" /\ phase' = [phase EXCEPT ![s] = "finished"]
      /\ filter' = pass.filter /\ returned' = [returned EXCEPT ![s] = pass.unique]
      /\ UNCHANGED <<breakers, task, page>>
  BY DEF Finish
<1>3. AllFound(s) \in Seq(Keys) /\ ToSet(AllFound(s)) = FoundBy(s)
  <2>1. page[s] \in [Parsers -> Pages \union {<< >>}]
    BY <1>1 DEF TypeOK
  <2>2. Pages \in SUBSET Seq(Keys) /\ << >> \in Seq(Keys)
    BY SearchAssumption
  <2> DEFINE S == Seq(Keys)
             T == Pages \union {<< >>}
  <2> HIDE DEF S, T
  <2>3. page[s] \in [Parsers -> S]
    BY <2>1, <2>2 DEF S, T
  <2> QED
    BY <2>3, AllFoundContents DEF S
<1>4. PassSound(filter, D, AllFound(s), pass, Len(AllFound(s)))
  BY <1>1, <1>3, PassDelivers
<1> HIDE DEF pass
<1>5. pass.filter \in FilterType /\ pass.unique \in Seq(Keys)
  BY <1>4 DEF PassSound, PassType
<1>6. TypeOK'
  BY <1>1, <1>2, <1>5 DEF TypeOK, Phase
<1>7. /\ returned'[s] = pass.unique /\ returned[s] = << >>
      /\ \A t \in Searches : t # s => returned'[t] = returned[t]
  BY <1>1, <1>2 DEF TypeOK, Undelivered
<1>8. ReturnedBy(Searches)' = D \union new
  <2>1. ToSet(<< >>) = {}
    BY DEF ToSet
  <2> QED
    BY <1>7, <2>1 DEF ReturnedBy
<1>9. Holds(filter, ReturnedBy(Searches))'
  BY <1>2, <1>4, <1>8 DEF PassSound
<1>10. Undelivered'
  BY <1>1, <1>2, <1>7 DEF Undelivered, TypeOK
<1>11. DeliveredOnce'
  <2>1. IsInjective(returned'[s]) /\ new \intersect D = {}
    BY <1>4, <1>7 DEF PassSound
  <2>2. \A t \in Searches : t # s => IsInjective(returned'[t])
    BY <1>1, <1>7 DEF DeliveredOnce
  <2>3. \A t \in Searches : t # s => ReturnedBy({t})' \subseteq D /\ ReturnedBy({t})' = ReturnedBy({t})
    BY <1>7 DEF ReturnedBy
  <2>4. ReturnedBy({s})' = new
    BY <1>7 DEF ReturnedBy
  <2>5. ASSUME NEW t \in Searches, NEW u \in Searches, t # u
        PROVE  ReturnedBy({t})' \intersect ReturnedBy({u})' = {}
    <3>1. CASE t = s
      BY <2>1, <2>3, <2>4, <2>5, <3>1
    <3>2. CASE u = s
      BY <2>1, <2>3, <2>4, <2>5, <3>2
    <3>3. CASE t # s /\ u # s
      BY <1>1, <2>3, <2>5, <3>3 DEF DeliveredOnce
    <3> QED
      BY <3>1, <3>2, <3>3
  <2> QED
    BY <2>1, <2>2, <2>5 DEF DeliveredOnce
<1>12. FoundIsDelivered'
  <2> DEFINE E == D \union new
  <2>1. ASSUME NEW k \in FoundBy(s) PROVE Known(pass.filter, E, k)
    <3>1. PICK j \in 1..Len(AllFound(s)) : k = AllFound(s)[j]
      BY <1>3 DEF ToSet
    <3> QED
      BY <1>4, <3>1 DEF PassSound
  <2>2. ASSUME NEW t \in Searches, phase[t] = "finished", NEW k \in FoundBy(t)
        PROVE  Known(pass.filter, E, k)
    <3>1. Known(filter, D, k)
      BY <1>1, <2>2, FoundIsKnown
    <3>2. ~filter.has_exact => ~pass.filter.has_exact
      BY <1>4 DEF PassSound
    <3> QED
      BY <3>1, <3>2, KnownStays
  <2>3. \A t \in Searches : FoundBy(t)' = FoundBy(t)
    BY <1>2 DEF FoundBy
  <2>4. \A t \in Searches : phase'[t] = "finished" => t = s \/ phase[t] = "finished"
    BY <1>1, <1>2 DEF TypeOK
  <2>5. \A t \in Searches : phase'[t] = "finished" =>
            \A k \in FoundBy(t)' : Known(filter', ReturnedBy(Searches)', k)
    BY <1>2, <1>8, <2>1, <2>2, <2>3, <2>4
  <2> QED
    BY <2>5 DEF FoundIsDelivered, Known
<1> QED
  BY <1>6, <1>9, <1>10, <1>11, <1>12 DEF DInv

LEMMA StepDInv == DInv /\ [Next]_vars => DInv'
<1> SUFFICES ASSUME DInv, [Next]_vars PROVE DInv'
  OBVIOUS
<1>1. TypeOK /\ IInv' /\ TasksType'
  BY StepIInv DEF DInv, IInv
<1>2. ASSUME NEW s \in Searches, Start(s) \/ Gather(s) PROVE DInv'
  <2>1. /\ UNCHANGED <<filter, page, returned>> /\ phase[s] # "finished"
        /\ \E at \in {"parsing", "gathered"} : phase' = [phase EXCEPT ![s] = at]
    BY <1>2 DEF Start, Gather
  <2>2. \A t \in Searches : phase'[t] = "finished" <=> phase[t] = "finished"
    BY <1>1, <2>1 DEF TypeOK
  <2>3. TypeOK'
    BY <1>1, <2>1 DEF TypeOK, TasksType
  <2> QED
    BY <1>1, <2>1, <2>2, <2>3, NothingDelivered
<1>3. ASSUME NEW s \in Searches, OverallTimeout(s) PROVE DInv'
  <2>1. /\ UNCHANGED <<filter, returned>> /\ phase[s] = "parsing"
        /\ phase' = [phase EXCEPT ![s] = "gathered"]
        /\ page' = [page EXCEPT ![s] = [p \in Parsers |-> << >>]]
    BY <1>3 DEF OverallTimeout
  <2>2. \A t \in Searches : /\ phase'[t] = "finished" <=> phase[t] = "finished"
                            /\ phase[t] = "finished" => page'[t] = page[t]
    BY <1>1, <2>1 DEF TypeOK
  <2>3. TypeOK'
    BY <1>1, <2>1 DEF TypeOK, TasksType
  <2> QED
    BY <1>1, <2>1, <2>2, <2>3, NothingDelivered
<1>4. ASSUME NEW s \in Searches, NEW p \in Parsers, StartTask(s, p) PROVE DInv'
  <2>1. UNCHANGED <<filter, phase, page, returned>>
    BY <1>4 DEF StartTask
  <2>2. TypeOK'
    BY <1>1, <2>1 DEF TypeOK, TasksType
  <2> QED
    BY <1>1, <2>1, <2>2, NothingDelivered
<1>5. ASSUME NEW s \in Searches, NEW p \in Parsers, EndsTask(s, p) PROVE DInv'
  <2>1. /\ UNCHANGED <<filter, phase, returned>> /\ phase[s] = "parsing"
        /\ \E found \in Pages \union {<< >>} : page' = [page EXCEPT ![s][p] = found]
    BY <1>5 DEF EndsTask, TaskReturns, TaskRaises, TaskTimesOut, EndTask
  <2>2. \A t \in Searches : phase[t] = "finished" => page'[t] = page[t]
    BY <1>1, <2>1 DEF TypeOK
  <2>3. TypeOK'
    BY <1>1, <2>1 DEF TypeOK, TasksType
  <2> QED
    BY <1>1, <2>1, <2>2, <2>3, NothingDelivered
<1>6. ASSUME NEW s \in Searches, Finish(s) PROVE DInv'
  BY <1>1, <1>6, FinishDelivers
<1>7. CASE UNCHANGED vars
  <2>1. UNCHANGED <<breakers, filter, phase, task, page, returned>>
    BY <1>7 DEF vars
  <2>2. TypeOK'
    BY <1>1, <2>1 DEF TypeOK
  <2> QED
    BY <1>1, <2>1, <2>2, NothingDelivered
<1> QED
  BY <1>2, <1>3, <1>4, <1>5, <1>6, <1>7 DEF Next, Done

LEMMA DInvHolds == Spec => []DInv
  BY InitDInv, StepDInv, PTL DEF Spec

\* Type correctness of the searches, their breakers and their filter.
THEOREM TypeCorrect == Spec => []TypeOK
<1>1. DInv => TypeOK
  BY DEF DInv
<1> QED
  BY <1>1, DInvHolds, PTL

\* No listing is delivered twice, by one search or by two, whatever the parsers find,
\* however the searches interleave and wherever the filter leaves its exact set.
THEOREM ListingsDeliveredOnce == Spec => []DeliveredOnce
<1>1. DInv => DeliveredOnce
  BY DEF DInv
<1> QED
  BY <1>1, DInvHolds, PTL

\* No listing is lost except to a collision of hashes.
THEOREM NoListingLost == Spec => []FoundIsDelivered
<1>1. DInv => FoundIsDelivered
  BY DEF DInv
<1> QED
  BY <1>1, DInvHolds, PTL
==============================================================================
