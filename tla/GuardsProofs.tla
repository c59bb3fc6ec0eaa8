----------------------------- MODULE GuardsProofs -----------------------------
(***************************************************************************)
(* Theorems about what calls and requests have to pass, for every value of *)
(* the constants of MCGuards: CircuitBreaker, and the rate limiters.  Each *)
(* limiter keeps a list of times and forgets what is old.  That its counts *)
(* are true rests on one idea: as far as the window reaches, the list and  *)
(* the history of what was admitted agree (Agree), whatever was cleaned up *)
(* and recorded in between.                                                *)
(***************************************************************************)
EXTENDS MCGuards, CommonLemmas, FiniteSetTheorems, SequenceTheorems, TLAPS

\* The invariant TypeOK holds at first and is kept by every step.
LEMMA InitType == Init => TypeOK
  BY BreakerTypes DEF Init, TypeOK, CallState, Time, NewBreaker, BreakerType, CircuitState

LEMMA TypeStep == TypeOK /\ [Next]_vars => TypeOK'
<1> SUFFICES ASSUME TypeOK, [Next]_vars PROVE TypeOK'
  OBVIOUS
<1> USE DEF TypeOK, CallState
<1>1. CASE Tick
  BY <1>1 DEF Tick, Time
<1>2. CASE ResetAll
  BY <1>2, BreakerTypes DEF ResetAll
<1>3. ASSUME NEW c \in Callers, Call(c) PROVE TypeOK'
  <2>1. breaker' \in BreakerType
    BY <1>3, BreakerTypes DEF Call
  <2>2. calls' \in [Callers -> CallState]
    BY <1>3 DEF Call
  <2> QED
    BY <1>3, <2>1, <2>2 DEF Call
<1>4. ASSUME NEW c \in Callers, Succeed(c) PROVE TypeOK'
  BY <1>4, BreakerTypes DEF Succeed
<1>5. ASSUME NEW c \in Callers, Fail(c) PROVE TypeOK'
  <2>1. breaker' \in BreakerType
    BY <1>5, BreakerTypes DEF Fail
  <2>2. outcomes' \in Seq({"ok", "fail"}) /\ calls' \in [Callers -> CallState]
    BY <1>5 DEF Fail
  <2> QED
    BY <1>5, <2>1, <2>2 DEF Fail
<1>6. ASSUME NEW c \in Callers, Cancel(c) PROVE TypeOK'
  BY <1>6 DEF Cancel
<1>7. CASE UNCHANGED vars
  BY <1>7 DEF vars
<1> QED
  BY <1>1, <1>2, <1>3, <1>4, <1>5, <1>6, <1>7 DEF Next

\* Type correctness of the breaker and of its callers.
THEOREM TypeCorrect == Spec => []TypeOK
  BY InitType, TypeStep, PTL DEF Spec
------------------------------------------------------------------------------
\* What each operation does to the fields the invariants read.
LEMMA CallFacts ==
    ASSUME NEW b \in BreakerType
    PROVE  /\ RejectCall(b).state = b.state
           /\ RejectCall(b).consecutive_failures = b.consecutive_failures
           /\ RejectCall(b).consecutive_successes = b.consecutive_successes
           /\ AdmitCall(b).state = IF b.state = "open" THEN "half_open" ELSE b.state
           /\ AdmitCall(b).consecutive_failures = b.consecutive_failures
           /\ AdmitCall(b).consecutive_successes = b.consecutive_successes
  BY DEF RejectCall, AdmitCall, CountCall, TransitionTo, BreakerType, CircuitState

LEMMA SuccessFacts ==
    ASSUME NEW b \in BreakerType
    PROVE  /\ OnSuccess(b).state =
                IF b.state = "half_open" /\ b.consecutive_successes + 1 >= SuccessThreshold
                THEN "closed" ELSE b.state
           /\ OnSuccess(b).consecutive_failures = 0
           /\ OnSuccess(b).consecutive_successes = b.consecutive_successes + 1
  BY DEF OnSuccess, CountSuccess, EnoughSuccesses, TransitionTo, BreakerType, CircuitState

LEMMA FailureFacts ==
    ASSUME NEW b \in BreakerType, NEW t \in Time
    PROVE  /\ OnFailure(b, t).state =
                IF \/ b.state = "half_open"
                   \/ b.state = "closed" /\ b.consecutive_failures + 1 >= FailureThreshold
                THEN "open" ELSE b.state
           /\ OnFailure(b, t).consecutive_failures = b.consecutive_failures + 1
           /\ OnFailure(b, t).consecutive_successes = 0
  BY DEF OnFailure, CountFailure, EnoughFailures, TransitionTo, BreakerType, CircuitState

LEMMA ResetFacts ==
    ASSUME NEW b \in BreakerType
    PROVE  /\ ResetBreaker(b).state = "closed"
           /\ ResetBreaker(b).consecutive_failures = 0
           /\ ResetBreaker(b).consecutive_successes = 0
  BY DEF ResetBreaker, BreakerType

\* One more outcome of a kind extends the run of that kind.
LEMMA RunExtends ==
    ASSUME NEW S, NEW s \in Seq(S), NEW o \in S, NEW n \in Nat, IsTrailingRun(s, o, n)
    PROVE  IsTrailingRun(Append(s, o), o, n + 1)
<1> DEFINE t == Append(s, o)
<1>1. Len(t) = Len(s) + 1 /\ t[Len(s) + 1] = o /\ \A i \in 1..Len(s) : t[i] = s[i]
  OBVIOUS
<1>2. Len(s) \in Nat
  OBVIOUS
<1> HIDE DEF t
<1>3. \A i \in 1..Len(t) : i > Len(t) - (n + 1) => t[i] = o
  BY <1>1, <1>2 DEF IsTrailingRun
<1>4. n + 1 < Len(t) => t[Len(t) - (n + 1)] # o
  BY <1>1, <1>2 DEF IsTrailingRun
<1>5. n + 1 <= Len(t)
  BY <1>1, <1>2 DEF IsTrailingRun
<1> QED
  BY <1>3, <1>4, <1>5 DEF IsTrailingRun, t

\* The length of the current run decides whether the last k outcomes agree.
LEMMA RunDecides ==
    ASSUME NEW S, NEW s \in Seq(S), NEW o, NEW n \in Nat, NEW k \in Nat,
           IsTrailingRun(s, o, n)
    PROVE  Protocol!EndsWith(s, o, k) <=> k <= n
<1>1. Len(s) \in Nat
  OBVIOUS
<1>2. ASSUME k <= n PROVE Protocol!EndsWith(s, o, k)
  BY <1>1, <1>2 DEF IsTrailingRun, Protocol!EndsWith
<1>3. ASSUME ~(k <= n), Protocol!EndsWith(s, o, k) PROVE FALSE
  <2>1. Len(s) - n \in 1..Len(s) /\ Len(s) - n > Len(s) - k /\ n < Len(s)
    BY <1>1, <1>3 DEF IsTrailingRun, Protocol!EndsWith
  <2> QED
    BY <1>3, <2>1 DEF IsTrailingRun, Protocol!EndsWith
<1> QED
  BY <1>2, <1>3
------------------------------------------------------------------------------
\* The inductive invariant: the counters mean what the outcomes say, and a
\* closed breaker is below its threshold.
IInv == TypeOK /\ StreaksMatchOutcomes /\ ClosedBelowThreshold

LEMMA InitIInv == Init => IInv
<1> SUFFICES ASSUME Init PROVE IInv
  OBVIOUS
<1>1. TypeOK
  BY InitType
<1>2. StreaksMatchOutcomes
  BY DEF Init, NewBreaker, StreaksMatchOutcomes, IsTrailingRun
<1>3. ClosedBelowThreshold
  BY BreakerAssumption DEF Init, NewBreaker, ClosedBelowThreshold
<1> QED
  BY <1>1, <1>2, <1>3 DEF IInv

LEMMA StepIInv == IInv /\ [Next]_vars => IInv'
<1> SUFFICES ASSUME IInv, [Next]_vars PROVE IInv'
  OBVIOUS
<1> USE DEF IInv, TypeOK, StreaksMatchOutcomes, ClosedBelowThreshold
<1>1. TypeOK'
  BY TypeStep
<1>2. CASE Tick
  BY <1>1, <1>2 DEF Tick
<1>3. CASE ResetAll
  <2>1. StreaksMatchOutcomes'
    BY <1>3, ResetFacts DEF ResetAll, IsTrailingRun
  <2>2. ClosedBelowThreshold'
    BY <1>3, ResetFacts, BreakerAssumption DEF ResetAll
  <2> QED
    BY <1>1, <2>1, <2>2
<1>4. ASSUME NEW c \in Callers, Call(c) PROVE IInv'
  <2>1. /\ breaker'.consecutive_failures = breaker.consecutive_failures
        /\ breaker'.consecutive_successes = breaker.consecutive_successes
        /\ outcomes' = outcomes
        /\ breaker'.state = "closed" => breaker.state = "closed"
    BY <1>4, CallFacts DEF Call
  <2> QED
    BY <1>1, <2>1
<1>5. ASSUME NEW c \in Callers, Succeed(c) PROVE IInv'
  <2>1. /\ breaker'.consecutive_failures = 0
        /\ breaker'.consecutive_successes = breaker.consecutive_successes + 1
        /\ outcomes' = Append(outcomes, "ok")
    BY <1>5, SuccessFacts DEF Succeed
  <2>2. IsTrailingRun(Append(outcomes, "ok"), "ok", breaker.consecutive_successes + 1)
    BY RunExtends, FieldTypes
  <2>3. IsTrailingRun(Append(outcomes, "ok"), "fail", 0)
    BY DEF IsTrailingRun
  <2> QED
    BY <1>1, <2>1, <2>2, <2>3, BreakerAssumption
<1>6. ASSUME NEW c \in Callers, Fail(c) PROVE IInv'
  <2>1. /\ breaker'.consecutive_failures = breaker.consecutive_failures + 1
        /\ breaker'.consecutive_successes = 0
        /\ outcomes' = Append(outcomes, "fail")
    BY <1>6, FailureFacts DEF Fail
  <2>2. IsTrailingRun(Append(outcomes, "fail"), "fail", breaker.consecutive_failures + 1)
    BY RunExtends, FieldTypes
  <2>3. IsTrailingRun(Append(outcomes, "fail"), "ok", 0)
    BY DEF IsTrailingRun
  <2>4. breaker'.state = "closed" => breaker.consecutive_failures + 1 < FailureThreshold
    <3>1. breaker'.state = IF \/ breaker.state = "half_open"
                              \/ /\ breaker.state = "closed"
                                 /\ breaker.consecutive_failures + 1 >= FailureThreshold
                           THEN "open" ELSE breaker.state
      BY <1>6, FailureFacts DEF Fail
    <3> QED
      BY <3>1, FieldTypes, BreakerAssumption
  <2> QED
    BY <1>1, <2>1, <2>2, <2>3, <2>4
<1>7. ASSUME NEW c \in Callers, Cancel(c) PROVE IInv'
  BY <1>1, <1>7 DEF Cancel
<1>8. CASE UNCHANGED vars
  BY <1>8 DEF vars
<1> QED
  BY <1>2, <1>3, <1>4, <1>5, <1>6, <1>7, <1>8 DEF Next

\* The counters are the lengths of the current runs of outcomes, and a closed
\* breaker has failed fewer than FailureThreshold times in a row, whatever the
\* number of callers and the order in which their calls end.
THEOREM CountersAreRuns == Spec => []StreaksMatchOutcomes
<1>1. IInv => StreaksMatchOutcomes
  BY DEF IInv
<1> QED
  BY <1>1, InitIInv, StepIInv, PTL DEF Spec

\* A closed breaker is below its failure threshold.
THEOREM ClosedIsHealthy == Spec => []ClosedBelowThreshold
<1>1. IInv => ClosedBelowThreshold
  BY DEF IInv
<1> QED
  BY <1>1, InitIInv, StepIInv, PTL DEF Spec

LEMMA InFlightIsFinite ==
    IsFiniteSet(InFlight) /\ Cardinality(InFlight) \in Nat
<1>1. IsFiniteSet(InFlight)
  BY CallersAssumption, FS_Subset DEF InFlight
<1> QED
  BY <1>1, FS_CardinalityType

\* A caller that begins or ends a call changes the number in flight by one.
LEMMA InFlightChanges ==
    ASSUME NEW c \in Callers
    PROVE  /\ calls[c] = "idle" =>
                Cardinality(InFlight \union {c}) = Cardinality(InFlight) + 1
           /\ calls[c] # "idle" =>
                Cardinality(InFlight \ {c}) = Cardinality(InFlight) - 1
<1>1. IsFiniteSet(InFlight)
  BY InFlightIsFinite
<1>2. calls[c] = "idle" <=> c \notin InFlight
  BY DEF InFlight
<1> QED
  BY <1>1, <1>2, FS_AddElement, FS_RemoveElement

\* Every call is accounted for by the statistics or still owes its result.
THEOREM StatisticsAddUp == Spec => []CallsAccounted
<1>1. Init => CallsAccounted
  <2> SUFFICES ASSUME Init PROVE CallsAccounted
    OBVIOUS
  <2>1. InFlight = {}
    BY DEF Init, InFlight
  <2> QED
    BY <2>1, FS_EmptySet DEF Init, NewBreaker, CallsAccounted
<1>2. TypeOK /\ CallsAccounted /\ [Next]_vars => CallsAccounted'
  <2> SUFFICES ASSUME TypeOK, CallsAccounted, [Next]_vars PROVE CallsAccounted'
    OBVIOUS
  <2> USE DEF CallsAccounted
  <2>t. breaker \in BreakerType /\ now \in Time /\ calls \in [Callers -> CallState]
    BY DEF TypeOK
  <2>n. /\ breaker.successful_calls \in Nat /\ breaker.failed_calls \in Nat
        /\ breaker.rejected_calls \in Nat /\ breaker.total_calls \in Nat
        /\ Cardinality(InFlight) \in Nat
    BY <2>t, FieldTypes, InFlightIsFinite
  <2>1. CASE Tick
    BY <2>1 DEF Tick, InFlight
  <2>2. CASE ResetAll
    <3>1. InFlight' = InFlight
      BY <2>2 DEF ResetAll, InFlight
    <3> QED
      BY <2>2, <2>t, <3>1, StatFacts DEF ResetAll
  <2>3. ASSUME NEW c \in Callers, Call(c) PROVE CallsAccounted'
    <3>1. CASE MustReject(breaker, now)
      <4>1. breaker' = RejectCall(breaker) /\ InFlight' = InFlight
        BY <2>3, <3>1 DEF Call, InFlight
      <4>2. /\ breaker'.total_calls = breaker.total_calls + 1
            /\ breaker'.successful_calls = breaker.successful_calls
            /\ breaker'.failed_calls = breaker.failed_calls
            /\ breaker'.rejected_calls = breaker.rejected_calls + 1
        BY <2>t, <4>1, StatFacts
      <4> QED
        BY <2>n, <4>1, <4>2
    <3>2. CASE ~MustReject(breaker, now)
      <4>1. breaker' = AdmitCall(breaker) /\ InFlight' = InFlight \union {c}
        BY <2>3, <2>t, <3>2 DEF Call, InFlight
      <4>2. calls[c] = "idle"
        BY <2>3 DEF Call
      <4>3. /\ breaker'.total_calls = breaker.total_calls + 1
            /\ breaker'.successful_calls = breaker.successful_calls
            /\ breaker'.failed_calls = breaker.failed_calls
            /\ breaker'.rejected_calls = breaker.rejected_calls
        BY <2>t, <4>1, StatFacts
      <4>4. Cardinality(InFlight') = Cardinality(InFlight) + 1
        BY <4>1, <4>2, InFlightChanges
      <4> QED
        BY <2>n, <4>3, <4>4
    <3> QED
      BY <3>1, <3>2
  <2>4. ASSUME NEW c \in Callers, Succeed(c) PROVE CallsAccounted'
    <3>1. breaker' = OnSuccess(breaker) /\ InFlight' = InFlight \ {c} /\ calls[c] # "idle"
      BY <2>4, <2>t DEF Succeed, InFlight
    <3>2. /\ breaker'.total_calls = breaker.total_calls
          /\ breaker'.successful_calls = breaker.successful_calls + 1
          /\ breaker'.failed_calls = breaker.failed_calls
          /\ breaker'.rejected_calls = breaker.rejected_calls
      BY <2>t, <3>1, StatFacts
    <3>3. Cardinality(InFlight') = Cardinality(InFlight) - 1
      BY <3>1, InFlightChanges
    <3> QED
      BY <2>n, <3>2, <3>3
  <2>5. ASSUME NEW c \in Callers, Fail(c) PROVE CallsAccounted'
    <3>1. breaker' = OnFailure(breaker, now) /\ InFlight' = InFlight \ {c} /\ calls[c] # "idle"
      BY <2>5, <2>t DEF Fail, InFlight
    <3>2. /\ breaker'.total_calls = breaker.total_calls
          /\ breaker'.successful_calls = breaker.successful_calls
          /\ breaker'.failed_calls = breaker.failed_calls + 1
          /\ breaker'.rejected_calls = breaker.rejected_calls
      BY <2>t, <3>1, StatFacts
    <3>3. Cardinality(InFlight') = Cardinality(InFlight) - 1
      BY <3>1, InFlightChanges
    <3> QED
      BY <2>n, <3>2, <3>3
  <2>6. ASSUME NEW c \in Callers, Cancel(c) PROVE CallsAccounted'
    <3>1. breaker' = breaker /\ InFlight' = InFlight \ {c} /\ calls[c] # "idle"
      BY <2>6, <2>t DEF Cancel, InFlight
    <3>2. Cardinality(InFlight') = Cardinality(InFlight) - 1
      BY <3>1, InFlightChanges
    <3> QED
      BY <2>n, <3>1, <3>2
  <2>7. CASE UNCHANGED vars
    BY <2>7 DEF vars, InFlight
  <2> QED
    BY <2>1, <2>2, <2>3, <2>4, <2>5, <2>6, <2>7 DEF Next
<1> QED
  BY <1>1, <1>2, TypeCorrect, PTL DEF Spec

\* The breaker's counters implement the promise of BreakerProtocol.
THEOREM BreakerRefinesProtocol == Spec => ImplementsProtocol
<1>1. Init => Protocol!Init
  BY DEF Init, NewBreaker, Protocol!Init
<1>2. IInv /\ [Next]_vars => [Protocol!Next]_(Protocol!pvars)
  <2> SUFFICES ASSUME IInv, [Next]_vars PROVE [Protocol!Next]_(Protocol!pvars)
    OBVIOUS
  <2> USE DEF IInv, TypeOK, StreaksMatchOutcomes
  <2>1. CASE Tick
    BY <2>1 DEF Tick, Protocol!pvars
  <2>2. CASE ResetAll
    BY <2>2, ResetFacts DEF ResetAll, Protocol!Next, Protocol!Reset
  <2>3. ASSUME NEW c \in Callers, Call(c) PROVE [Protocol!Next]_(Protocol!pvars)
    <3>1. CASE breaker.state = "open" /\ breaker'.state = "half_open"
      BY <2>3, <3>1 DEF Call, Protocol!Next, Protocol!Probe
    <3>2. CASE breaker'.state = breaker.state
      BY <2>3, <3>2 DEF Call, Protocol!pvars
    <3> QED
      BY <2>3, <3>1, <3>2, CallFacts DEF Call
  <2>4. ASSUME NEW c \in Callers, Succeed(c) PROVE Protocol!Next
    <3>1. breaker' = OnSuccess(breaker) /\ outcomes' = Append(outcomes, "ok")
      BY <2>4 DEF Succeed
    <3>2. IsTrailingRun(outcomes', "ok", breaker.consecutive_successes + 1)
      BY <3>1, RunExtends, FieldTypes
    <3>3. Protocol!EndsWith(outcomes', "ok", SuccessThreshold)
            <=> SuccessThreshold <= breaker.consecutive_successes + 1
      <4>1. outcomes' \in Seq({"ok", "fail"})
        BY <3>1
      <4> QED
        BY <3>2, <4>1, RunDecides, FieldTypes, BreakerAssumption
    <3>4. breaker'.state = IF /\ breaker.state = "half_open"
                              /\ breaker.consecutive_successes + 1 >= SuccessThreshold
                           THEN "closed" ELSE breaker.state
      BY <3>1, SuccessFacts
    <3>5. CASE breaker.state = "half_open" /\ Protocol!EndsWith(outcomes', "ok", SuccessThreshold)
      BY <3>1, <3>3, <3>4, <3>5, FieldTypes, BreakerAssumption
         DEF Protocol!Next, Protocol!Closes, Protocol!Report
    <3>6. CASE ~(breaker.state = "half_open" /\ Protocol!EndsWith(outcomes', "ok", SuccessThreshold))
      BY <3>1, <3>3, <3>4, <3>6, FieldTypes, BreakerAssumption
         DEF Protocol!Next, Protocol!StaysOnSuccess, Protocol!Report
    <3> QED
      BY <3>5, <3>6
  <2>5. ASSUME NEW c \in Callers, Fail(c) PROVE Protocol!Next
    <3>1. breaker' = OnFailure(breaker, now) /\ outcomes' = Append(outcomes, "fail")
      BY <2>5 DEF Fail
    <3>2. IsTrailingRun(outcomes', "fail", breaker.consecutive_failures + 1)
      BY <3>1, RunExtends, FieldTypes
    <3>3. Protocol!EndsWith(outcomes', "fail", FailureThreshold)
            <=> FailureThreshold <= breaker.consecutive_failures + 1
      <4>1. outcomes' \in Seq({"ok", "fail"})
        BY <3>1
      <4> QED
        BY <3>2, <4>1, RunDecides, FieldTypes, BreakerAssumption
    <3> DEFINE opens == \/ breaker.state = "half_open"
                        \/ /\ breaker.state = "closed"
                           /\ Protocol!EndsWith(outcomes', "fail", FailureThreshold)
    <3>4. breaker'.state = IF opens THEN "open" ELSE breaker.state
      BY <3>1, <3>3, FailureFacts, FieldTypes, BreakerAssumption
    <3>5. CASE opens
      BY <3>1, <3>4, <3>5 DEF Protocol!Next, Protocol!Opens, Protocol!Report
    <3>6. CASE ~opens
      BY <3>1, <3>4, <3>6, FieldTypes
         DEF Protocol!Next, Protocol!StaysOnFailure, Protocol!Report, CircuitState
    <3> QED
      BY <3>5, <3>6
  <2>6. ASSUME NEW c \in Callers, Cancel(c) PROVE UNCHANGED Protocol!pvars
    BY <2>6 DEF Cancel, Protocol!pvars
  <2>7. CASE UNCHANGED vars
    BY <2>7 DEF vars, Protocol!pvars
  <2> QED
    BY <2>1, <2>2, <2>3, <2>4, <2>5, <2>6, <2>7 DEF Next
<1> QED
  BY <1>1, <1>2, InitIInv, StepIInv, PTL DEF Spec, ImplementsProtocol, Protocol!Spec
------------------------------------------------------------------------------
(***************************************************************************)
(* IPRateLimiter.                                                          *)
(***************************************************************************)
LEMMA IPSame ==
    /\ \A s, S : IP!Keep(s, S) = Keep(s, S)
    /\ \A S : IP!Cardinality(S) = Cardinality(S) /\ IP!ToSet(S) = ToSet(S)
    /\ \A S : IP!Min(S) = CHOOSE x \in S : \A y \in S : x <= y
  BY DEF IP!Keep, Keep, IP!Cardinality, Cardinality, IP!ToSet, ToSet, IP!Min

IPTime == 0..AddressTime

\* The two windows of an address.
IPWindow(limit) == IF limit = "burst" THEN BurstWindow * Second ELSE AddressWindow * Second
IPMost(limit) == IF limit = "burst" THEN BurstRequests ELSE AddressRequests

IPTyped ==
    /\ ipRequests \in Seq(IPTime) /\ ipAdmitted \in Seq(IPTime)
    /\ ipWhitelisted \in BOOLEAN
    /\ ipNow \in IPTime
    /\ told \in {None} \union [limit : {"burst", "main"}, until : Nat]

\* What is recent, by either window, has been counted and is within the limit.
IPCounted ==
    /\ Agree(ipRequests, ipAdmitted, IPTime, ipNow, IPWindow("main"))
    /\ Len(ipRequests) <= IPMost("main")
    /\ Len(Keep(ipRequests, Win(IPTime, ipNow, IPWindow("burst")))) <= IPMost("burst")
    /\ Limited(ipAdmitted, IPWindow("burst"), IPMost("burst"))
    /\ Limited(ipAdmitted, IPWindow("main"), IPMost("main"))

\* When the wait that was told is over there is room.
IPRoom ==
    told # None =>
        Len(Keep(ipRequests, Win(IPTime, told.until, IPWindow(told.limit)))) < IPMost(told.limit)

IPInv == IPTyped /\ IPCounted /\ IPRoom

LEMMA IPConstants ==
    /\ \A l \in {"burst", "main"} : IPWindow(l) \in Nat \ {0} /\ IPMost(l) \in Nat \ {0}
    /\ IPWindow("burst") <= IPWindow("main")
    /\ IPTime \in SUBSET Nat /\ AddressTime \in Nat /\ 0 \in IPTime
    /\ Second \in Nat \ {0} /\ None \notin [limit : {"burst", "main"}, until : Nat]
<1>1. /\ {AddressRequests, BurstRequests, AddressWindow, BurstWindow, Second} \subseteq Nat \ {0}
      /\ BurstWindow <= AddressWindow /\ AddressTime \in Nat
      /\ None \notin [limit : {"burst", "main"}, until : Nat]
  BY GuardsAssumption DEF IP!IPRateLimiterAssumption
<1>2. \A a, b, c \in Nat \ {0} : a * c \in Nat \ {0} /\ (a <= b => a * c <= b * c)
  OBVIOUS
<1>3. \A l \in {"burst", "main"} : IPWindow(l) \in Nat \ {0} /\ IPMost(l) \in Nat \ {0}
  BY <1>1, <1>2 DEF IPWindow, IPMost
<1>4. IPWindow("burst") <= IPWindow("main")
  BY <1>1, <1>2 DEF IPWindow
<1> QED
  BY <1>1, <1>3, <1>4 DEF IPTime

LEMMA IPFacts ==
    /\ IP!Recent(ipRequests, BurstWindow) = Keep(ipRequests, Win(IPTime, ipNow, IPWindow("burst")))
    /\ IP!Recent(ipRequests, AddressWindow) = Keep(ipRequests, Win(IPTime, ipNow, IPWindow("main")))
    /\ \A l \in {"burst", "main"} :
          IP!Full(l) <=> Len(Keep(ipRequests, Win(IPTime, ipNow, IPWindow(l)))) >= IPMost(l)
  BY IPSame DEF IP!Recent, IP!Time, IP!Full, IPTime, Win, IPWindow, IPMost

LEMMA IPInit == IP!Init => IPInv
<1> SUFFICES ASSUME IP!Init PROVE IPInv
  OBVIOUS
<1>1. /\ ipRequests = << >> /\ ipAdmitted = << >> /\ ipNow = 0 /\ told = None
      /\ ipWhitelisted = FALSE
  BY DEF IP!Init
<1>2. Len(ipRequests) = 0 /\ Keep(ipRequests, Win(IPTime, ipNow, IPWindow("burst"))) = << >>
  BY <1>1, KeepEmpty
<1>3. IPTyped
  BY <1>1, IPConstants, EmptyContents DEF IPTyped
<1>4. IPCounted
  BY <1>1, <1>2, IPConstants, EmptyAgree DEF IPCounted
<1> QED
  BY <1>1, <1>3, <1>4 DEF IPInv, IPRoom

\* Later, by either window, no more is recent.
LEMMA IPLater ==
    ASSUME NEW s \in Seq(IPTime), NEW at \in Nat, NEW later \in Nat, at <= later,
           NEW v \in Nat, NEW w \in Nat, v <= w
    PROVE  /\ Win(IPTime, later, v) \subseteq Win(IPTime, at, w)
           /\ Len(Keep(s, Win(IPTime, later, v))) <= Len(Keep(s, Win(IPTime, at, w)))
<1>1. \A r \in IPTime : later - r < v => at - r < w
  BY IPConstants
<1>2. Win(IPTime, later, v) \subseteq Win(IPTime, at, w)
  BY <1>1 DEF Win
<1> QED
  BY <1>2, KeepFewer

LEMMA IPTick == ASSUME IPInv, IP!Tick PROVE IPInv'
<1>1. /\ ipNow' = ipNow + 1 /\ ipNow < AddressTime
      /\ UNCHANGED <<ipRequests, ipWhitelisted, ipAdmitted, told>>
  BY DEF IP!Tick
<1>2. IPTyped'
  BY <1>1, IPConstants DEF IPInv, IPTyped, IPTime
<1>3. ipNow \in IPTime /\ ipNow' \in IPTime /\ ipNow <= ipNow' /\ ipNow \in Nat /\ ipNow' \in Nat
  BY <1>1, <1>2, IPConstants DEF IPInv, IPTyped, IPTime
<1>4. Agree(ipRequests, ipAdmitted, IPTime, ipNow', IPWindow("main"))
  BY <1>3, IPConstants, AgreementKept DEF IPInv, IPTyped, IPCounted
<1>5. Len(Keep(ipRequests, Win(IPTime, ipNow', IPWindow("burst")))) <= IPMost("burst")
  <2>1. Len(Keep(ipRequests, Win(IPTime, ipNow', IPWindow("burst"))))
            <= Len(Keep(ipRequests, Win(IPTime, ipNow, IPWindow("burst"))))
    <3>1. IPWindow("burst") \in Nat /\ IPWindow("burst") <= IPWindow("burst")
      BY IPConstants
    <3>2. ipRequests \in Seq(IPTime)
      BY DEF IPInv, IPTyped
    <3> QED
      BY <1>3, <3>1, <3>2, IPLater
  <2>2. \A t, u : Keep(ipRequests, Win(IPTime, t, u)) \in Seq(IPTime)
    BY KeepElements DEF IPInv, IPTyped
  <2> QED
    BY <2>1, <2>2, IPConstants DEF IPInv, IPCounted
<1>6. IPCounted'
  BY <1>1, <1>4, <1>5 DEF IPInv, IPCounted, IPWindow, IPMost
<1>7. IPRoom'
  BY <1>1 DEF IPInv, IPRoom, IPWindow, IPMost
<1> QED
  BY <1>2, <1>6, <1>7 DEF IPInv

\* A clean-up at the time of the main window.
LEMMA IPCleans ==
    ASSUME IPInv
    PROVE  LET kept == Keep(ipRequests, Win(IPTime, ipNow, IPWindow("main"))) IN
           /\ kept \in Seq(IPTime) /\ Len(kept) <= IPMost("main")
           /\ Agree(kept, ipAdmitted, IPTime, ipNow, IPWindow("main"))
           /\ Agree(Append(kept, ipNow), Append(ipAdmitted, ipNow), IPTime, ipNow, IPWindow("main"))
           /\ \A v : \A at \in Nat : Len(Keep(kept, Win(IPTime, at, v)))
                                    <= Len(Keep(ipRequests, Win(IPTime, at, v)))
           /\ \A at \in Nat, l \in {"burst", "main"} : ipNow <= at =>
                Keep(kept, Win(IPTime, at, IPWindow(l))) = Keep(ipRequests, Win(IPTime, at, IPWindow(l)))
<1> DEFINE W == Win(IPTime, ipNow, IPWindow("main"))
           kept == Keep(ipRequests, W)
<1>1. /\ ipRequests \in Seq(IPTime) /\ ipAdmitted \in Seq(IPTime) /\ ipNow \in IPTime
      /\ Agree(ipRequests, ipAdmitted, IPTime, ipNow, IPWindow("main"))
      /\ Len(ipRequests) <= IPMost("main") /\ IPMost("main") \in Nat
      /\ IPTime \in SUBSET Nat /\ IPWindow("main") \in Nat \ {0} /\ ipNow \in Nat
  BY IPConstants DEF IPInv, IPTyped, IPCounted
<1>2. /\ kept \in Seq(IPTime)
      /\ Agree(kept, ipAdmitted, IPTime, ipNow, IPWindow("main"))
      /\ Agree(Append(kept, ipNow), Append(ipAdmitted, ipNow), IPTime, ipNow, IPWindow("main"))
  BY <1>1, AgreementKept
<1>3. Len(kept) <= IPMost("main")
  <2>1. Len(kept) <= Len(ipRequests) /\ Len(kept) \in Nat /\ Len(ipRequests) \in Nat
    BY <1>1, <1>2, KeepElements
  <2> QED
    BY <1>1, <2>1
<1>4. ASSUME NEW at \in Nat, NEW v
      PROVE  Len(Keep(kept, Win(IPTime, at, v))) <= Len(Keep(ipRequests, Win(IPTime, at, v)))
  <2> DEFINE V == Win(IPTime, at, v)
  <2>1. Keep(kept, V) = Keep(ipRequests, W \intersect V)
    BY <1>1, KeepAgain
  <2> QED
    BY <1>1, <2>1, KeepFewer
<1>5. ASSUME NEW at \in Nat, NEW l \in {"burst", "main"}, ipNow <= at
      PROVE  Keep(kept, Win(IPTime, at, IPWindow(l))) = Keep(ipRequests, Win(IPTime, at, IPWindow(l)))
  <2> DEFINE V == Win(IPTime, at, IPWindow(l))
  <2>1. IPWindow(l) \in Nat /\ IPWindow(l) <= IPWindow("main")
    BY IPConstants
  <2>2. V \subseteq W
    BY <1>1, <1>5, <2>1, IPLater
  <2> QED
    BY <1>1, <2>2, KeepFewer
<1> QED
  BY <1>2, <1>3, <1>4, <1>5

\* A refusal names a time when the oldest request has left the window.
LEMMA IPRefuse ==
    ASSUME IPInv, NEW limit \in {"burst", "main"}, NEW window,
           window = IF limit = "burst" THEN BurstWindow ELSE AddressWindow,
           IP!Full(limit), IP!Refuse(limit, window)
    PROVE  IPInv'
<1> DEFINE kept == Keep(ipRequests, Win(IPTime, ipNow, IPWindow("main")))
           W == Win(IPTime, ipNow, IPWindow(limit))
           recent == Keep(ipRequests, W)
           until == ipNow + Second * IP!RetryAfter(recent, window)
<1>1. /\ ipRequests' = kept
      /\ UNCHANGED <<ipWhitelisted, ipNow, ipAdmitted>>
      /\ told' = IF told # None /\ told.limit = limit THEN told
                 ELSE [limit |-> limit, until |-> until]
  BY IPFacts DEF IP!Refuse
<1>2. /\ ipRequests \in Seq(IPTime) /\ ipNow \in Nat /\ recent \in Seq(IPTime)
      /\ Len(recent) >= IPMost(limit) /\ IPMost(limit) \in Nat \ {0}
      /\ IPWindow(limit) \in Nat \ {0} /\ Second \in Nat \ {0} /\ IPTime \subseteq Nat
      /\ IPWindow(limit) = window * Second
  <2>1. IPWindow(limit) = window * Second
    BY DEF IPWindow
  <2> QED
    BY <2>1, IPFacts, IPConstants, KeepElements DEF IPInv, IPTyped
<1> DEFINE oldest == CHOOSE x \in ToSet(recent) : \A y \in ToSet(recent) : x <= y
<1>3. oldest \in ToSet(recent) /\ oldest \in IPTime /\ oldest \in W /\ oldest \in ToSet(ipRequests)
  <2>1. Len(recent) > 0
    BY <1>2
  <2>2. ToSet(recent) # {} /\ ToSet(recent) \subseteq IPTime
    <3> HIDE DEF recent
    <3>1. recent[1] \in ToSet(recent)
      BY <1>2, <2>1 DEF ToSet
    <3>2. ToSet(recent) \subseteq IPTime
      BY <1>2 DEF ToSet
    <3> QED
      BY <3>1, <3>2
  <2>3. oldest \in ToSet(recent)
    <3>1. ToSet(recent) \subseteq Nat
      BY <1>2, <2>2
    <3> HIDE DEF recent
    <3> QED
      BY <2>2, <3>1, SmallestOf
  <2>4. ToSet(recent) = ToSet(ipRequests) \intersect W
    BY <1>2, KeepElements
  <2> QED
    BY <2>2, <2>3, <2>4
<1>4. until \in Nat /\ ipNow <= until /\ oldest + IPWindow(limit) <= until
  <2>1. IP!RetryAfter(recent, window) = (IPWindow(limit) - (ipNow - oldest) + Second) \div Second
    BY <1>2, IPSame DEF IP!RetryAfter
  <2>2. oldest \in Nat /\ ipNow - oldest < IPWindow(limit)
    BY <1>2, <1>3 DEF Win
  <2>3. \A w, n, o, sec \in Nat : sec > 0 /\ n - o < w =>
            /\ (w - (n - o) + sec) \div sec \in Nat
            /\ sec * ((w - (n - o) + sec) \div sec) \in Nat
            /\ o + w <= n + sec * ((w - (n - o) + sec) \div sec)
    <3> SUFFICES ASSUME NEW w \in Nat, NEW n \in Nat, NEW o \in Nat, NEW sec \in Nat, sec > 0,
                        n - o < w
                 PROVE  /\ (w - (n - o) + sec) \div sec \in Nat
                        /\ sec * ((w - (n - o) + sec) \div sec) \in Nat
                        /\ o + w <= n + sec * ((w - (n - o) + sec) \div sec)
      OBVIOUS
    <3> DEFINE a == w - (n - o)
               q == (a + sec) \div sec
    <3>1. a \in Nat /\ a + sec \in Nat
      OBVIOUS
    <3>2. q \in Nat /\ a + sec < sec * q + sec
      <4>1. \A x, y \in Nat : y > 0 => x \div y \in Nat /\ x < y * (x \div y) + y
        OBVIOUS
      <4> HIDE DEF a
      <4> QED
        BY <3>1, <4>1
    <3>3. \A x, y \in Nat : x * y \in Nat
      OBVIOUS
    <3>4. sec * q \in Nat
      BY <3>2, <3>3
    <3>5. a < sec * q
      <4> HIDE DEF q, a
      <4> QED
        BY <3>1, <3>2, <3>4
    <3> QED
      BY <3>2, <3>4, <3>5
  <2> DEFINE q == (IPWindow(limit) - (ipNow - oldest) + Second) \div Second
  <2>4. Second * q \in Nat /\ oldest + IPWindow(limit) <= ipNow + Second * q
    <3> HIDE DEF oldest
    <3>1. IPWindow(limit) \in Nat /\ Second \in Nat /\ Second > 0
      BY <1>2
    <3> QED
      BY <1>2, <2>2, <2>3, <3>1
  <2>5. until = ipNow + Second * q
    BY <2>1
  <2> HIDE DEF q, until, oldest
  <2> QED
    BY <1>2, <2>2, <2>4, <2>5
<1> HIDE DEF until, oldest
<1>5. IPTyped'
  <2>1. told' \in {None} \union [limit : {"burst", "main"}, until : Nat]
    BY <1>1, <1>4 DEF IPInv, IPTyped
  <2> QED
    BY <1>1, <2>1, IPCleans DEF IPInv, IPTyped
<1>6. IPCounted'
  <2>1. /\ Agree(kept, ipAdmitted, IPTime, ipNow, IPWindow("main"))
        /\ Len(kept) <= IPMost("main")
        /\ Keep(kept, Win(IPTime, ipNow, IPWindow("burst")))
             = Keep(ipRequests, Win(IPTime, ipNow, IPWindow("burst")))
    BY <1>2, IPCleans
  <2> QED
    BY <1>1, <2>1 DEF IPInv, IPCounted, IPWindow, IPMost
<1>7. IPRoom'
  <2>1. CASE told # None /\ told.limit = limit
    <3>1. told \in [limit : {"burst", "main"}, until : Nat]
      BY <2>1 DEF IPInv, IPTyped
    <3>2. Len(Keep(ipRequests, Win(IPTime, told.until, IPWindow(limit)))) < IPMost(limit)
      BY <2>1 DEF IPInv, IPRoom
    <3>3. Keep(kept, Win(IPTime, told.until, IPWindow(limit))) \in Seq(IPTime)
      BY <1>2, IPCleans, KeepElements
    <3>4. Keep(ipRequests, Win(IPTime, told.until, IPWindow(limit))) \in Seq(IPTime)
      BY <1>2, KeepElements
    <3>5. Len(Keep(kept, Win(IPTime, told.until, IPWindow(limit)))) < IPMost(limit)
      BY <1>2, <3>1, <3>2, <3>3, <3>4, IPCleans
    <3> QED
      BY <1>1, <2>1, <3>5 DEF IPRoom, IPWindow, IPMost
  <2>2. CASE ~(told # None /\ told.limit = limit)
    <3> DEFINE V == Win(IPTime, until, IPWindow(limit))
    <3>1. Keep(kept, V) = Keep(ipRequests, V)
      BY <1>4, IPCleans
    <3>2. V \subseteq W /\ Keep(recent, V) = Keep(ipRequests, V)
      <4>1. V \subseteq W
        <5>1. IPWindow(limit) \in Nat /\ IPWindow(limit) <= IPWindow(limit)
          BY <1>2
        <5> QED
          BY <1>2, <1>4, <5>1, IPLater
      <4> QED
        BY <1>2, <4>1, KeepFewer
    <3>3. oldest \notin V
      BY <1>2, <1>3, <1>4 DEF Win
    <3>4. Len(Keep(recent, V)) < Len(recent)
      BY <1>2, <1>3, <3>3, KeepLess
    <3>5. Len(recent) <= IPMost(limit)
      <4>1. CASE limit = "burst"
        BY <4>1 DEF IPInv, IPCounted
      <4>2. CASE limit = "main"
        <5>1. Len(kept) <= IPMost("main")
          BY IPCleans
        <5> QED
          BY <4>2, <5>1
      <4> QED
        BY <4>1, <4>2
    <3>6. Keep(recent, V) \in Seq(IPTime)
      BY <1>2, KeepElements
    <3>7. Len(Keep(kept, V)) < IPMost(limit)
      BY <1>2, <3>1, <3>2, <3>4, <3>5, <3>6
    <3> QED
      BY <1>1, <2>2, <3>7 DEF IPRoom, IPWindow, IPMost
  <2> QED
    BY <2>1, <2>2
<1> QED
  BY <1>5, <1>6, <1>7 DEF IPInv

LEMMA IPAdmit == ASSUME IPInv, IP!Admit PROVE IPInv'
<1> DEFINE kept == Keep(ipRequests, Win(IPTime, ipNow, IPWindow("main")))
<1>1. /\ ~IP!Full("burst") /\ ~IP!Full("main")
      /\ ipRequests' = Append(kept, ipNow) /\ ipAdmitted' = Append(ipAdmitted, ipNow)
      /\ told' = None /\ UNCHANGED <<ipWhitelisted, ipNow>>
  BY IPFacts DEF IP!Admit
<1>2. /\ ipRequests \in Seq(IPTime) /\ ipAdmitted \in Seq(IPTime) /\ ipNow \in IPTime /\ ipNow \in Nat
      /\ kept \in Seq(IPTime) /\ IPTime \in SUBSET Nat
  BY IPConstants, KeepElements DEF IPInv, IPTyped
<1>3. ASSUME NEW l \in {"burst", "main"}
      PROVE  /\ Limited(Append(ipAdmitted, ipNow), IPWindow(l), IPMost(l))
             /\ Len(Keep(Append(kept, ipNow), Win(IPTime, ipNow, IPWindow(l)))) <= IPMost(l)
  <2> DEFINE W == Win(IPTime, ipNow, IPWindow(l))
  <2>1. IPWindow(l) \in Nat \ {0} /\ IPMost(l) \in Nat \ {0} /\ IPWindow("main") \in Nat \ {0}
    BY IPConstants
  <2>2. Keep(ipRequests, W) \in Seq(IPTime) /\ Len(Keep(ipRequests, W)) < IPMost(l)
    <3>1. Keep(ipRequests, W) \in Seq(IPTime)
      BY <1>2, KeepElements
    <3>2. ~(Len(Keep(ipRequests, W)) >= IPMost(l))
      BY <1>1, IPFacts
    <3> QED
      BY <2>1, <3>1, <3>2
  <2>3. Keep(kept, W) = Keep(ipRequests, W)
    BY <1>2, IPCleans
  <2>4. Keep(ipRequests, W) = Keep(ipAdmitted, W)
    <3>1. IPWindow(l) <= IPWindow("main") /\ ipNow <= ipNow /\ IPWindow(l) \in Nat
      BY <1>2, <2>1, IPConstants
    <3>2. Agree(ipRequests, ipAdmitted, IPTime, ipNow, IPWindow(l))
      BY <1>2, <2>1, <3>1, AgreementKept DEF IPInv, IPCounted
    <3> QED
      BY <3>2 DEF Agree
  <2>5. Limited(Append(ipAdmitted, ipNow), IPWindow(l), IPMost(l))
    <3>1. Limited(ipAdmitted, IPWindow(l), IPMost(l))
      BY DEF IPInv, IPCounted
    <3>2. Len(Keep(ipAdmitted, W)) < IPMost(l)
      BY <2>2, <2>4
    <3> QED
      BY <1>2, <2>1, <3>1, <3>2, LimitKept
  <2>6. Keep(Append(kept, ipNow), W) = Append(Keep(kept, W), ipNow)
    <3>1. ipNow \in W
      BY <1>2, <2>1 DEF Win
    <3> QED
      BY <1>2, <3>1, KeepAppend
  <2>7. Len(Keep(Append(kept, ipNow), W)) <= IPMost(l)
    <3>1. Len(Append(Keep(ipRequests, W), ipNow)) = Len(Keep(ipRequests, W)) + 1
      BY <1>2, <2>2
    <3> QED
      BY <2>1, <2>2, <2>3, <2>6, <3>1
  <2> QED
    BY <2>5, <2>7
<1>4. IPTyped'
  BY <1>1, <1>2 DEF IPInv, IPTyped
<1>5. IPCounted'
  <2>1. Agree(Append(kept, ipNow), Append(ipAdmitted, ipNow), IPTime, ipNow, IPWindow("main"))
    BY IPCleans
  <2>2. Len(Append(kept, ipNow)) <= IPMost("main")
    <3>1. Keep(Append(kept, ipNow), Win(IPTime, ipNow, IPWindow("main"))) = Append(kept, ipNow)
      <4>1. ToSet(kept) \subseteq Win(IPTime, ipNow, IPWindow("main"))
        BY <1>2, KeepElements
      <4>2. ToSet(Append(kept, ipNow)) = ToSet(kept) \union {ipNow} /\ Append(kept, ipNow) \in Seq(IPTime)
        BY <1>2, AppendContents
      <4>3. ipNow \in Win(IPTime, ipNow, IPWindow("main"))
        BY <1>2, IPConstants DEF Win
      <4> QED
        BY <4>1, <4>2, <4>3, KeepAll
    <3> QED
      BY <1>3, <3>1
  <2> QED
    BY <1>1, <1>3, <2>1, <2>2 DEF IPCounted, IPWindow, IPMost
<1> QED
  BY <1>1, <1>4, <1>5 DEF IPInv, IPRoom

LEMMA IPReset == ASSUME IPInv, IP!Reset PROVE IPInv'
<1>1. /\ ipRequests' = << >> /\ ipAdmitted' = << >>
      /\ UNCHANGED <<ipWhitelisted, ipNow, told>>
  BY DEF IP!Reset
<1>2. \A S : Len(Keep(<< >>, S)) = 0 /\ Len(<< >>) = 0
  BY KeepEmpty
<1>3. IPTyped'
  BY <1>1, EmptyContents DEF IPInv, IPTyped
<1>4. IPCounted'
  BY <1>1, <1>2, IPConstants, EmptyAgree DEF IPCounted, IPWindow, IPMost
<1>5. IPRoom'
  <2>1. told # None => IPMost(told.limit) \in Nat \ {0}
    BY IPConstants DEF IPInv, IPTyped
  <2> QED
    BY <1>1, <1>2, <2>1 DEF IPRoom, IPWindow, IPMost
<1> QED
  BY <1>3, <1>4, <1>5 DEF IPInv

LEMMA IPNext == ASSUME IPInv, [IP!Next]_ipVars PROVE IPInv'
<1>1. CASE IP!Tick
  BY <1>1, IPTick
<1>2. CASE IP!RefuseBurst
  BY <1>2, IPRefuse DEF IP!RefuseBurst
<1>3. CASE IP!RefuseMain
  BY <1>3, IPRefuse DEF IP!RefuseMain
<1>4. CASE IP!Admit
  BY <1>4, IPAdmit
<1>5. CASE IP!Reset
  BY <1>5, IPReset
<1>6. ASSUME NEW listed \in BOOLEAN, IP!SetWhitelisted(listed) PROVE IPInv'
  BY <1>6 DEF IP!SetWhitelisted, IPInv, IPTyped, IPCounted, IPRoom, IPWindow, IPMost
<1>7. CASE UNCHANGED ipVars
  BY <1>7 DEF ipVars, IPInv, IPTyped, IPCounted, IPRoom, IPWindow, IPMost
<1> QED
  BY <1>1, <1>2, <1>3, <1>4, <1>5, <1>6, <1>7 DEF IP!Next

\* What the invariant says of the properties.
LEMMA IPShows ==
    ASSUME IPInv
    PROVE  IP!TypeOK /\ IP!WindowsRespected /\ IP!RetryAfterSuffices
<1>1. IP!TypeOK
  BY DEF IPInv, IPTyped, IPCounted, IPMost, IPTime, IP!TypeOK, IP!Time
<1>2. IP!WindowsRespected
  BY IPSame DEF IPInv, IPCounted, Limited, IPWindow, IPMost, IP!WindowsRespected, IP!InWindow
<1>3. IP!RetryAfterSuffices
  <2> SUFFICES ASSUME told # None, ipNow >= told.until PROVE ~IP!Full(told.limit)
    BY DEF IP!RetryAfterSuffices
  <2> DEFINE l == told.limit
             V == Win(IPTime, told.until, IPWindow(l))
             W == Win(IPTime, ipNow, IPWindow(l))
  <2>1. /\ told \in [limit : {"burst", "main"}, until : Nat] /\ l \in {"burst", "main"}
        /\ ipNow \in Nat /\ ipRequests \in Seq(IPTime)
        /\ Len(Keep(ipRequests, V)) < IPMost(l)
    BY IPConstants DEF IPInv, IPTyped, IPRoom
  <2>2. IPWindow(l) \in Nat /\ IPWindow(l) <= IPWindow(l) /\ IPMost(l) \in Nat /\ told.until \in Nat
    BY <2>1, IPConstants
  <2>3. Len(Keep(ipRequests, W)) <= Len(Keep(ipRequests, V))
    BY <2>1, <2>2, IPLater
  <2>4. Keep(ipRequests, W) \in Seq(IPTime) /\ Keep(ipRequests, V) \in Seq(IPTime)
    BY <2>1, KeepElements
  <2>5. ~(Len(Keep(ipRequests, W)) >= IPMost(l))
    BY <2>1, <2>2, <2>3, <2>4
  <2> QED
    BY <2>1, <2>5, IPFacts
<1> QED
  BY <1>1, <1>2, <1>3
------------------------------------------------------------------------------
(***************************************************************************)
(* AuthRateLimiter.                                                        *)
(***************************************************************************)
LEMMA AuthSame ==
    /\ \A s, S : Auth!Keep(s, S) = Keep(s, S)
    /\ \A S : Auth!Cardinality(S) = Cardinality(S) /\ Auth!ToSet(S) = ToSet(S)
  BY DEF Auth!Keep, Keep, Auth!Cardinality, Cardinality, Auth!ToSet, ToSet

AuTime == 0..AuthTime

AuthTyped ==
    /\ attempts \in [Kinds -> Seq(AuTime)] /\ auAdmitted \in [Kinds -> Seq(AuTime)]
    /\ auNow \in AuTime
    /\ bannedUntil \in {None} \union Nat
    /\ lastBan \in {None} \union [kind : Kinds, until : Nat]

\* The list of a kind holds its recent attempts, within the limit.
KindCounted(k) ==
    /\ Agree(attempts[k], auAdmitted[k], AuTime, auNow, AttemptWindows[k])
    /\ Len(attempts[k]) <= AttemptLimits[k]
    /\ Limited(auAdmitted[k], AttemptWindows[k], AttemptLimits[k])
    /\ \A r \in ToSet(attempts[k]) : r <= auNow

\* Nothing was admitted during the last ban, and what was before it is then too old.
LastBanClears ==
    lastBan # None =>
        /\ auNow < lastBan.until => bannedUntil = lastBan.until
        /\ \A r \in ToSet(attempts[lastBan.kind]) :
              r + AttemptWindows[lastBan.kind] <= lastBan.until \/ r >= lastBan.until

AuthInv == AuthTyped /\ (\A k \in Kinds : KindCounted(k)) /\ LastBanClears

LEMMA AuthConstants ==
    /\ \A k \in Kinds : /\ AttemptLimits[k] \in Nat \ {0} /\ AttemptWindows[k] \in Nat \ {0}
                        /\ Bans[k] \in Nat \ {0} /\ Bans[k] >= AttemptWindows[k]
    /\ AuTime \in SUBSET Nat /\ AuthTime \in Nat /\ 0 \in AuTime
    /\ None \notin Nat /\ None \notin [kind : Kinds, until : Nat]
<1>1. /\ \A f \in {AttemptLimits, AttemptWindows, Bans} : f \in [Kinds -> Nat \ {0}]
      /\ \A k \in Kinds : Bans[k] >= AttemptWindows[k]
      /\ AuthTime \in Nat /\ None \notin Nat /\ None \notin [kind : Kinds, until : Nat]
  BY GuardsAssumption DEF Auth!AuthAssumption
<1>2. /\ AttemptLimits \in [Kinds -> Nat \ {0}] /\ AttemptWindows \in [Kinds -> Nat \ {0}]
      /\ Bans \in [Kinds -> Nat \ {0}]
  BY <1>1
<1> QED
  BY <1>1, <1>2 DEF AuTime

\* The attempts of a kind that its window still holds.
Held(k) == Keep(attempts[k], Win(AuTime, auNow, AttemptWindows[k]))

LEMMA AuthFacts ==
    \A k \in Kinds : Auth!Recent(k) = Held(k) /\ (Auth!Full(k) <=> Len(Held(k)) >= AttemptLimits[k])
  BY AuthSame DEF Auth!Recent, Auth!Time, Auth!Full, AuTime, Win, Held

LEMMA AuthInit == Auth!Init => AuthInv
<1> SUFFICES ASSUME Auth!Init PROVE AuthInv
  OBVIOUS
<1>1. /\ attempts = [k \in Kinds |-> << >>] /\ auAdmitted = attempts
      /\ bannedUntil = None /\ lastBan = None /\ auNow = 0
  BY DEF Auth!Init
<1>2. AuthTyped
  BY <1>1, AuthConstants, EmptyContents DEF AuthTyped
<1>3. ASSUME NEW k \in Kinds PROVE KindCounted(k)
  BY <1>1, EmptyAgree, EmptyContents, AuthConstants DEF KindCounted
<1> QED
  BY <1>1, <1>2, <1>3 DEF AuthInv, LastBanClears

\* A clean-up of a kind's list, and an admission after it.
LEMMA HeldFacts ==
    ASSUME AuthInv, NEW k \in Kinds
    PROVE  /\ Held(k) \in Seq(AuTime) /\ Len(Held(k)) <= AttemptLimits[k]
           /\ \A r \in ToSet(Held(k)) : r <= auNow /\ r \in ToSet(attempts[k])
           /\ Agree(Held(k), auAdmitted[k], AuTime, auNow, AttemptWindows[k])
           /\ Agree(Append(Held(k), auNow), Append(auAdmitted[k], auNow), AuTime, auNow,
                    AttemptWindows[k])
           /\ ToSet(Append(Held(k), auNow)) = ToSet(Held(k)) \union {auNow}
           /\ Append(Held(k), auNow) \in Seq(AuTime)
           /\ Append(auAdmitted[k], auNow) \in Seq(AuTime)
           /\ Len(Held(k)) < AttemptLimits[k] =>
                /\ Len(Append(Held(k), auNow)) <= AttemptLimits[k]
                /\ Limited(Append(auAdmitted[k], auNow), AttemptWindows[k], AttemptLimits[k])
<1>1. /\ attempts[k] \in Seq(AuTime) /\ auAdmitted[k] \in Seq(AuTime) /\ auNow \in AuTime
      /\ Agree(attempts[k], auAdmitted[k], AuTime, auNow, AttemptWindows[k])
      /\ Len(attempts[k]) <= AttemptLimits[k] /\ AttemptLimits[k] \in Nat
      /\ Limited(auAdmitted[k], AttemptWindows[k], AttemptLimits[k])
      /\ AuTime \in SUBSET Nat /\ AttemptWindows[k] \in Nat \ {0}
      /\ \A r \in ToSet(attempts[k]) : r <= auNow
  BY AuthConstants DEF AuthInv, AuthTyped, KindCounted
<1>2. /\ Held(k) \in Seq(AuTime)
      /\ Agree(Held(k), auAdmitted[k], AuTime, auNow, AttemptWindows[k])
      /\ Agree(Append(Held(k), auNow), Append(auAdmitted[k], auNow), AuTime, auNow,
               AttemptWindows[k])
  BY <1>1, AgreementKept DEF Held
<1>3. Len(Held(k)) <= AttemptLimits[k]
  <2>1. Len(Held(k)) <= Len(attempts[k]) /\ Len(Held(k)) \in Nat /\ Len(attempts[k]) \in Nat
    BY <1>1, <1>2, KeepElements DEF Held
  <2> QED
    BY <1>1, <2>1
<1>4. \A r \in ToSet(Held(k)) : r <= auNow /\ r \in ToSet(attempts[k])
  <2>1. ToSet(Held(k)) \subseteq ToSet(attempts[k])
    BY <1>1, KeepElements DEF Held
  <2> QED
    BY <1>1, <2>1
<1>5. /\ ToSet(Append(Held(k), auNow)) = ToSet(Held(k)) \union {auNow}
      /\ Append(Held(k), auNow) \in Seq(AuTime) /\ Append(auAdmitted[k], auNow) \in Seq(AuTime)
      /\ Len(Append(Held(k), auNow)) = Len(Held(k)) + 1
  BY <1>1, <1>2, AppendContents
<1>6. ASSUME Len(Held(k)) < AttemptLimits[k]
      PROVE  /\ Len(Append(Held(k), auNow)) <= AttemptLimits[k]
             /\ Limited(Append(auAdmitted[k], auNow), AttemptWindows[k], AttemptLimits[k])
  <2>1. Len(Append(Held(k), auNow)) <= AttemptLimits[k]
    BY <1>1, <1>2, <1>5, <1>6
  <2>2. Held(k) = Keep(auAdmitted[k], Win(AuTime, auNow, AttemptWindows[k]))
    BY <1>1 DEF Agree, Held
  <2>3. Limited(Append(auAdmitted[k], auNow), AttemptWindows[k], AttemptLimits[k])
    BY <1>1, <1>6, <2>2, LimitKept
  <2> QED
    BY <2>1, <2>3
<1> QED
  BY <1>2, <1>3, <1>4, <1>5, <1>6

LEMMA AuthTick == ASSUME AuthInv, Auth!Tick PROVE AuthInv'
<1>1. /\ auNow' = auNow + 1 /\ auNow < AuthTime
      /\ UNCHANGED <<attempts, bannedUntil, auAdmitted, lastBan>>
  BY DEF Auth!Tick
<1>2. AuthTyped'
  BY <1>1, AuthConstants DEF AuthInv, AuthTyped, AuTime
<1>3. auNow \in AuTime /\ auNow' \in AuTime /\ auNow <= auNow' /\ auNow \in Nat /\ auNow' \in Nat
  BY <1>1, <1>2, AuthConstants DEF AuthInv, AuthTyped, AuTime
<1>4. ASSUME NEW k \in Kinds PROVE KindCounted(k)'
  <2>1. /\ KindCounted(k) /\ attempts[k] \in Seq(AuTime) /\ auAdmitted[k] \in Seq(AuTime)
        /\ AttemptWindows[k] \in Nat \ {0} /\ AuTime \in SUBSET Nat
    BY AuthConstants DEF AuthInv, AuthTyped
  <2>2. AttemptWindows[k] \in Nat /\ AttemptWindows[k] <= AttemptWindows[k]
    BY <2>1
  <2>3. Agree(attempts[k], auAdmitted[k], AuTime, auNow', AttemptWindows[k])
    BY <1>3, <2>1, <2>2, AgreementKept DEF KindCounted
  <2>4. \A r \in ToSet(attempts[k]) : r \in Nat
    BY <2>1 DEF ToSet
  <2>5. \A r \in ToSet(attempts[k]) : r <= auNow'
    BY <1>3, <2>1, <2>4 DEF KindCounted
  <2> QED
    BY <1>1, <2>1, <2>3, <2>5 DEF KindCounted
<1>5. LastBanClears'
  <2>1. lastBan # None => lastBan.until \in Nat
    BY DEF AuthInv, AuthTyped
  <2> QED
    BY <1>1, <1>3, <2>1 DEF AuthInv, LastBanClears
<1> QED
  BY <1>2, <1>4, <1>5 DEF AuthInv

LEMMA AuthBan == ASSUME AuthInv, NEW k \in Kinds, Auth!RefuseAndBan(k) PROVE AuthInv'
<1>1. /\ attempts' = [attempts EXCEPT ![k] = Held(k)]
      /\ bannedUntil' = auNow + Bans[k] /\ lastBan' = [kind |-> k, until |-> auNow + Bans[k]]
      /\ UNCHANGED <<auNow, auAdmitted>>
  BY AuthFacts DEF Auth!RefuseAndBan, Auth!BanEnd
<1>2. /\ attempts \in [Kinds -> Seq(AuTime)] /\ Held(k) \in Seq(AuTime) /\ auNow \in Nat
      /\ Bans[k] \in Nat /\ AttemptWindows[k] \in Nat /\ Bans[k] >= AttemptWindows[k]
  BY HeldFacts, AuthConstants DEF AuthInv, AuthTyped
<1>3. attempts'[k] = Held(k) /\ \A other \in Kinds \ {k} : attempts'[other] = attempts[other]
  BY <1>1, <1>2
<1>4. AuthTyped'
  BY <1>1, <1>2 DEF AuthInv, AuthTyped
<1>5. ASSUME NEW other \in Kinds PROVE KindCounted(other)'
  <2>1. CASE other = k
    BY <1>1, <1>3, <2>1, HeldFacts DEF AuthInv, KindCounted
  <2>2. CASE other # k
    BY <1>1, <1>3, <2>2 DEF AuthInv, KindCounted
  <2> QED
    BY <2>1, <2>2
<1>6. LastBanClears'
  <2>1. ASSUME NEW r \in ToSet(Held(k)) PROVE r + AttemptWindows[k] <= auNow + Bans[k]
    <3>1. r \in Nat
      BY <1>2, AuthConstants, ElementsIn
    <3>2. r <= auNow
      BY HeldFacts
    <3> QED
      BY <1>2, <3>1, <3>2
  <2> QED
    BY <1>1, <1>3, <2>1 DEF LastBanClears
<1> QED
  BY <1>4, <1>5, <1>6 DEF AuthInv

LEMMA AuthAdmit == ASSUME AuthInv, NEW k \in Kinds, Auth!Admit(k) PROVE AuthInv'
<1>1. /\ ~Auth!Banned /\ ~(Len(Held(k)) >= AttemptLimits[k])
      /\ attempts' = [attempts EXCEPT ![k] = Append(Held(k), auNow)]
      /\ bannedUntil' = None
      /\ auAdmitted' = [auAdmitted EXCEPT ![k] = Append(auAdmitted[k], auNow)]
      /\ UNCHANGED <<auNow, lastBan>>
  BY AuthFacts DEF Auth!Admit
<1>2. /\ attempts \in [Kinds -> Seq(AuTime)] /\ auAdmitted \in [Kinds -> Seq(AuTime)]
      /\ Held(k) \in Seq(AuTime) /\ auNow \in Nat /\ AttemptLimits[k] \in Nat
      /\ Len(Held(k)) < AttemptLimits[k]
  <2>1. Held(k) \in Seq(AuTime) /\ AttemptLimits[k] \in Nat
    BY HeldFacts, AuthConstants
  <2> QED
    BY <1>1, <2>1, AuthConstants DEF AuthInv, AuthTyped
<1>3. /\ attempts'[k] = Append(Held(k), auNow) /\ auAdmitted'[k] = Append(auAdmitted[k], auNow)
      /\ \A other \in Kinds \ {k} :
            attempts'[other] = attempts[other] /\ auAdmitted'[other] = auAdmitted[other]
  BY <1>1, <1>2
<1>4. AuthTyped'
  BY <1>1, <1>2, HeldFacts DEF AuthInv, AuthTyped
<1>5. ASSUME NEW other \in Kinds PROVE KindCounted(other)'
  <2>1. CASE other = k
    <3>1. \A r \in ToSet(Append(Held(k), auNow)) : r <= auNow
      BY <1>2, HeldFacts
    <3> QED
      BY <1>1, <1>2, <1>3, <2>1, <3>1, HeldFacts DEF KindCounted
  <2>2. CASE other # k
    BY <1>1, <1>3, <2>2 DEF AuthInv, KindCounted
  <2> QED
    BY <2>1, <2>2
<1>6. LastBanClears'
  <2> SUFFICES ASSUME lastBan # None
               PROVE  /\ ~(auNow < lastBan.until)
                      /\ \A r \in ToSet(attempts'[lastBan.kind]) :
                            r + AttemptWindows[lastBan.kind] <= lastBan.until \/ r >= lastBan.until
    BY <1>1 DEF LastBanClears
  <2>1. lastBan \in [kind : Kinds, until : Nat] /\ None \notin Nat /\ lastBan.until \in Nat
    BY AuthConstants DEF AuthInv, AuthTyped
  <2>2. ~(auNow < lastBan.until)
    BY <1>1, <2>1 DEF AuthInv, LastBanClears, Auth!Banned
  <2>3. ASSUME NEW r \in ToSet(attempts'[lastBan.kind])
        PROVE  r \in ToSet(attempts[lastBan.kind]) \/ r = auNow
    <3>1. CASE lastBan.kind = k
      <4>1. attempts'[lastBan.kind] = Append(Held(k), auNow)
        BY <1>3, <3>1
      <4>2. r \in ToSet(Held(k)) \union {auNow}
        BY <2>3, <4>1, HeldFacts
      <4>3. r \in ToSet(Held(k)) => r \in ToSet(attempts[k])
        BY HeldFacts
      <4> QED
        BY <3>1, <4>2, <4>3
    <3>2. CASE lastBan.kind # k
      BY <1>3, <2>1, <2>3, <3>2
    <3> QED
      BY <3>1, <3>2
  <2>4. auNow >= lastBan.until
    BY <1>2, <2>1, <2>2
  <2> QED
    BY <2>2, <2>3, <2>4 DEF AuthInv, LastBanClears
<1> QED
  BY <1>4, <1>5, <1>6 DEF AuthInv

LEMMA AuthReset == ASSUME AuthInv, Auth!Reset PROVE AuthInv'
<1>1. /\ attempts' = [k \in Kinds |-> << >>] /\ auAdmitted' = attempts'
      /\ bannedUntil' = None /\ lastBan' = None /\ UNCHANGED auNow
  BY DEF Auth!Reset
<1>2. AuthTyped'
  BY <1>1, EmptyContents DEF AuthInv, AuthTyped
<1>3. ASSUME NEW k \in Kinds PROVE KindCounted(k)'
  BY <1>1, EmptyAgree, EmptyContents, AuthConstants DEF KindCounted
<1> QED
  BY <1>1, <1>2, <1>3 DEF AuthInv, LastBanClears

LEMMA AuthStays == ASSUME AuthInv, UNCHANGED authVars PROVE AuthInv'
  BY DEF authVars, AuthInv, AuthTyped, KindCounted, LastBanClears

LEMMA AuthNext == ASSUME AuthInv, [Auth!Next]_authVars PROVE AuthInv'
<1>1. CASE Auth!Tick
  BY <1>1, AuthTick
<1>2. CASE Auth!Reset
  BY <1>2, AuthReset
<1>3. ASSUME NEW k \in Kinds, Auth!RefuseAndBan(k) PROVE AuthInv'
  BY <1>3, AuthBan
<1>4. ASSUME NEW k \in Kinds, Auth!Admit(k) PROVE AuthInv'
  BY <1>4, AuthAdmit
<1>5. ASSUME NEW k \in Kinds, Auth!RefuseBanned(k) PROVE AuthInv'
  BY <1>5, AuthStays DEF Auth!RefuseBanned, Auth!vars, authVars
<1>6. CASE UNCHANGED authVars
  BY <1>6, AuthStays
<1> QED
  BY <1>1, <1>2, <1>3, <1>4, <1>5, <1>6 DEF Auth!Next

LEMMA AuthShows ==
    ASSUME AuthInv
    PROVE  Auth!TypeOK /\ Auth!AttemptsLimited /\ Auth!FreshAfterBan
<1>1. Auth!TypeOK
  BY DEF AuthInv, AuthTyped, KindCounted, AuTime, Auth!TypeOK, Auth!Time
<1>2. Auth!AttemptsLimited
  BY AuthSame DEF AuthInv, KindCounted, Limited, Auth!AttemptsLimited
<1>3. Auth!FreshAfterBan
  <2> SUFFICES ASSUME lastBan # None, auNow >= lastBan.until,
                      NEW r \in ToSet(attempts[lastBan.kind])
               PROVE  r >= lastBan.until \/ auNow - r >= AttemptWindows[lastBan.kind]
    BY AuthSame DEF Auth!FreshAfterBan
  <2>1. lastBan \in [kind : Kinds, until : Nat] /\ lastBan.until \in Nat /\ lastBan.kind \in Kinds
    BY DEF AuthInv, AuthTyped
  <2>2. attempts[lastBan.kind] \in Seq(AuTime) /\ AuTime \subseteq Nat /\ auNow \in Nat
    BY <2>1, AuthConstants DEF AuthInv, AuthTyped
  <2>3. r \in Nat /\ AttemptWindows[lastBan.kind] \in Nat
    BY <2>1, <2>2, AuthConstants, ElementsIn
  <2>4. r + AttemptWindows[lastBan.kind] <= lastBan.until \/ r >= lastBan.until
    BY DEF AuthInv, LastBanClears
  <2> QED
    BY <2>1, <2>2, <2>3, <2>4
<1> QED
  BY <1>1, <1>2, <1>3

\* A step leaves a ban that lasts as it is, or is a reset.
LEMMA BanStep ==
    ASSUME [Auth!Next]_authVars, bannedUntil # None, auNow < bannedUntil
    PROVE  bannedUntil' = bannedUntil \/ Auth!Reset
<1>1. Auth!Banned
  BY DEF Auth!Banned
<1>2. CASE Auth!Tick
  BY <1>2 DEF Auth!Tick
<1>3. ASSUME NEW k \in Kinds, Auth!RefuseAndBan(k) \/ Auth!Admit(k) PROVE FALSE
  BY <1>1, <1>3 DEF Auth!RefuseAndBan, Auth!Admit
<1>4. ASSUME NEW k \in Kinds, Auth!RefuseBanned(k) PROVE bannedUntil' = bannedUntil
  BY <1>4 DEF Auth!RefuseBanned, Auth!vars
<1>5. CASE UNCHANGED authVars
  BY <1>5 DEF authVars
<1> QED
  BY <1>2, <1>3, <1>4, <1>5 DEF Auth!Next
------------------------------------------------------------------------------
(***************************************************************************)
(* TierRateLimiter.                                                        *)
(***************************************************************************)
LEMMA TierSame ==
    /\ \A s, S : Tier!Keep(s, S) = Keep(s, S)
    /\ \A S : Tier!Cardinality(S) = Cardinality(S)
  BY DEF Tier!Keep, Keep, Tier!Cardinality, Cardinality

TiTime == 0..TierTime
DateOf(time) == time \div Day

\* The times of the day of a time.
DayOf(at) == {r \in TiTime : DateOf(r) = DateOf(at)}
Today(t) == Len(Keep(tierAdmitted[t], DayOf(tierNow)))

TierTyped ==
    /\ tierRequests \in [Tiers -> Seq(TiTime)] /\ tierAdmitted \in [Tiers -> Seq(TiTime)]
    /\ daily \in [Tiers -> {None} \union [date : 0..DateOf(TierTime), count : Nat]]
    /\ tierWhitelisted \in BOOLEAN
    /\ tierNow \in TiTime

\* The list of a tier holds its recent requests, within both limits.
TierCounted(t) ==
    /\ Agree(tierRequests[t], tierAdmitted[t], TiTime, tierNow, TierWindow)
    /\ Len(tierRequests[t]) <= TierRequests[t]
    /\ Limited(tierAdmitted[t], TierBurstWindow, TierBursts[t])
    /\ Limited(tierAdmitted[t], TierWindow, TierRequests[t])

DayLimited(s, most) ==
    \A i \in DOMAIN s : Cardinality({j \in 1..i : DateOf(s[j]) = DateOf(s[i])}) <= most

\* The counter counts today's requests; it is of today or an earlier day.
DayCounted(t) ==
    /\ DailyLimit[t] = None => daily[t] = None
    /\ \A r \in ToSet(tierAdmitted[t]) : r <= tierNow
    /\ DailyLimit[t] # None =>
        /\ Tier!Count(t) = Today(t)
        /\ daily[t] # None => daily[t].date <= DateOf(tierNow)
        /\ DayLimited(tierAdmitted[t], DailyLimit[t])

TierInv == TierTyped /\ \A t \in Tiers : TierCounted(t) /\ DayCounted(t)

LEMMA TierConstants ==
    /\ \A t \in Tiers : /\ TierRequests[t] \in Nat \ {0} /\ TierBursts[t] \in Nat \ {0}
                        /\ DailyLimit[t] \in Nat \union {None}
    /\ TierWindow \in Nat \ {0} /\ TierBurstWindow \in Nat \ {0} /\ Day \in Nat \ {0}
    /\ TierBurstWindow <= TierWindow
    /\ TiTime \in SUBSET Nat /\ TierTime \in Nat /\ 0 \in TiTime
    /\ None \notin Nat /\ None \notin [date : Nat, count : Nat]
<1>1. /\ {TierRequests, TierBursts} \subseteq [Tiers -> Nat \ {0}]
      /\ DailyLimit \in [Tiers -> Nat \union {None}]
      /\ {TierWindow, TierBurstWindow, Day} \subseteq Nat \ {0}
      /\ TierBurstWindow <= TierWindow /\ TierTime \in Nat
      /\ None \notin Nat /\ None \notin [date : Nat, count : Nat]
  BY GuardsAssumption DEF Tier!TierAssumption
<1>2. TierRequests \in [Tiers -> Nat \ {0}] /\ TierBursts \in [Tiers -> Nat \ {0}]
  BY <1>1
<1> QED
  BY <1>1, <1>2 DEF TiTime

LEMMA Dates ==
    /\ \A x, y \in Nat : x <= y => DateOf(x) <= DateOf(y)
    /\ \A x \in Nat : DateOf(x) \in Nat
  BY TierConstants DEF DateOf

LEMMA TierFacts ==
    \A t \in Tiers :
       /\ Tier!Recent(t, TierWindow) = Keep(tierRequests[t], Win(TiTime, tierNow, TierWindow))
       /\ Tier!Recent(t, TierBurstWindow) = Keep(tierRequests[t], Win(TiTime, tierNow, TierBurstWindow))
       /\ Tier!Date(tierNow) = DateOf(tierNow)
  BY TierSame DEF Tier!Recent, Tier!Time, Tier!Date, DateOf, TiTime, Win

LEMMA TierInit == Tier!Init => TierInv
<1> SUFFICES ASSUME Tier!Init PROVE TierInv
  OBVIOUS
<1>1. /\ tierRequests = [t \in Tiers |-> << >>] /\ tierAdmitted = tierRequests
      /\ daily = [t \in Tiers |-> None] /\ tierWhitelisted = FALSE /\ tierNow = 0
  BY DEF Tier!Init
<1>2. TierTyped
  BY <1>1, TierConstants, EmptyContents DEF TierTyped
<1>3. ASSUME NEW t \in Tiers PROVE TierCounted(t) /\ DayCounted(t)
  <2>1. tierRequests[t] = << >> /\ tierAdmitted[t] = << >> /\ daily[t] = None
    BY <1>1
  <2>2. TierCounted(t)
    BY <2>1, EmptyAgree, EmptyContents, TierConstants, SMTT(30) DEF TierCounted
  <2>3. Today(t) = 0 /\ Tier!Count(t) = 0
    BY <2>1, KeepEmpty, EmptyContents DEF Today, Tier!Count
  <2>4. DayLimited(tierAdmitted[t], DailyLimit[t])
    BY <2>1 DEF DayLimited
  <2> QED
    BY <2>1, <2>2, <2>3, <2>4, EmptyContents DEF DayCounted
<1> QED
  BY <1>2, <1>3 DEF TierInv

LEMMA TierCleans ==
    ASSUME TierInv, NEW t \in Tiers
    PROVE  LET kept == Keep(tierRequests[t], Win(TiTime, tierNow, TierWindow))
               burst == Keep(tierRequests[t], Win(TiTime, tierNow, TierBurstWindow)) IN
           /\ kept \in Seq(TiTime) /\ Len(kept) <= TierRequests[t]
           /\ Append(kept, tierNow) \in Seq(TiTime) /\ Append(tierAdmitted[t], tierNow) \in Seq(TiTime)
           /\ Agree(kept, tierAdmitted[t], TiTime, tierNow, TierWindow)
           /\ Agree(Append(kept, tierNow), Append(tierAdmitted[t], tierNow), TiTime, tierNow, TierWindow)
           /\ Len(kept) < TierRequests[t] =>
                /\ Len(Append(kept, tierNow)) <= TierRequests[t]
                /\ Limited(Append(tierAdmitted[t], tierNow), TierWindow, TierRequests[t])
           /\ ~(Len(burst) >= TierBursts[t]) =>
                Limited(Append(tierAdmitted[t], tierNow), TierBurstWindow, TierBursts[t])
<1> DEFINE kept == Keep(tierRequests[t], Win(TiTime, tierNow, TierWindow))
           burst == Keep(tierRequests[t], Win(TiTime, tierNow, TierBurstWindow))
<1>1. /\ tierRequests[t] \in Seq(TiTime) /\ tierAdmitted[t] \in Seq(TiTime) /\ tierNow \in TiTime
      /\ Agree(tierRequests[t], tierAdmitted[t], TiTime, tierNow, TierWindow)
      /\ Len(tierRequests[t]) <= TierRequests[t] /\ TierRequests[t] \in Nat /\ TierBursts[t] \in Nat
      /\ Limited(tierAdmitted[t], TierWindow, TierRequests[t])
      /\ Limited(tierAdmitted[t], TierBurstWindow, TierBursts[t])
      /\ TiTime \in SUBSET Nat /\ TierWindow \in Nat \ {0} /\ TierBurstWindow \in Nat \ {0}
      /\ TierBurstWindow <= TierWindow
  BY TierConstants DEF TierInv, TierTyped, TierCounted
<1>2. /\ kept \in Seq(TiTime)
      /\ Agree(kept, tierAdmitted[t], TiTime, tierNow, TierWindow)
      /\ Agree(Append(kept, tierNow), Append(tierAdmitted[t], tierNow), TiTime, tierNow, TierWindow)
  BY <1>1, AgreementKept
<1>3. Len(kept) <= TierRequests[t] /\ Len(kept) \in Nat
  <2>1. Len(kept) <= Len(tierRequests[t]) /\ Len(kept) \in Nat /\ Len(tierRequests[t]) \in Nat
    BY <1>1, <1>2, KeepElements
  <2> QED
    BY <1>1, <2>1
<1>4. /\ Append(kept, tierNow) \in Seq(TiTime) /\ Append(tierAdmitted[t], tierNow) \in Seq(TiTime)
      /\ Len(Append(kept, tierNow)) = Len(kept) + 1
  BY <1>1, <1>2, AppendContents
<1>5. ASSUME Len(kept) < TierRequests[t]
      PROVE  /\ Len(Append(kept, tierNow)) <= TierRequests[t]
             /\ Limited(Append(tierAdmitted[t], tierNow), TierWindow, TierRequests[t])
  <2>1. Len(Append(kept, tierNow)) <= TierRequests[t]
    <3> HIDE DEF kept
    <3> QED
      BY <1>1, <1>3, <1>4, <1>5
  <2>2. kept = Keep(tierAdmitted[t], Win(TiTime, tierNow, TierWindow))
    BY <1>1 DEF Agree
  <2>3. Limited(Append(tierAdmitted[t], tierNow), TierWindow, TierRequests[t])
    BY <1>1, <1>5, <2>2, LimitKept
  <2> QED
    BY <2>1, <2>3
<1>6. ASSUME ~(Len(burst) >= TierBursts[t])
      PROVE  Limited(Append(tierAdmitted[t], tierNow), TierBurstWindow, TierBursts[t])
  <2>1. TierBurstWindow \in Nat /\ tierNow <= tierNow
    BY <1>1
  <2>2. Agree(tierRequests[t], tierAdmitted[t], TiTime, tierNow, TierBurstWindow)
    BY <1>1, <2>1, AgreementKept
  <2>3. burst = Keep(tierAdmitted[t], Win(TiTime, tierNow, TierBurstWindow))
    BY <2>2 DEF Agree
  <2>4. Len(burst) < TierBursts[t]
    <3>1. Len(burst) \in Nat
      BY <1>1, KeepElements
    <3> QED
      BY <1>1, <1>6, <3>1
  <2> QED
    BY <1>1, <2>3, <2>4, LimitKept
<1> QED
  BY <1>2, <1>3, <1>4, <1>5, <1>6

\* One more request today, or none yet on a new day.
LEMMA OneMoreToday ==
    ASSUME TierInv, NEW t \in Tiers
    PROVE  /\ Len(Keep(Append(tierAdmitted[t], tierNow), DayOf(tierNow))) = Today(t) + 1
           /\ Today(t) \in Nat
           /\ \A most \in Nat : DayLimited(tierAdmitted[t], most) /\ Today(t) < most =>
                 DayLimited(Append(tierAdmitted[t], tierNow), most)
<1>1. tierAdmitted[t] \in Seq(TiTime) /\ tierNow \in TiTime /\ tierNow \in DayOf(tierNow)
  BY DEF TierInv, TierTyped, DayOf
<1>2. Keep(tierAdmitted[t], DayOf(tierNow)) \in Seq(TiTime)
  BY <1>1, KeepElements
<1>3. Len(Keep(Append(tierAdmitted[t], tierNow), DayOf(tierNow))) = Today(t) + 1 /\ Today(t) \in Nat
  BY <1>1, <1>2, KeepAppend, AppendContents DEF Today
<1>4. ASSUME NEW most \in Nat, DayLimited(tierAdmitted[t], most), Today(t) < most
      PROVE  DayLimited(Append(tierAdmitted[t], tierNow), most)
  <2> DEFINE near == [a \in TiTime |-> DayOf(a)]
             g == Append(tierAdmitted[t], tierNow)
  <2>1. ASSUME NEW s \in Seq(TiTime), NEW i \in DOMAIN s
        PROVE  NearTo(i, s, near) = {j \in 1..i : DateOf(s[j]) = DateOf(s[i])}
    <3>1. \A j \in 1..i : s[j] \in TiTime /\ s[i] \in TiTime
      OBVIOUS
    <3>2. \A j \in 1..i : s[j] \in near[s[i]] <=> DateOf(s[j]) = DateOf(s[i])
      BY <3>1 DEF DayOf
    <3> QED
      BY <3>2 DEF NearTo
  <2>2. tierNow \in near[tierNow] /\ near[tierNow] = DayOf(tierNow)
    BY <1>1
  <2>3. \A i \in DOMAIN tierAdmitted[t] :
            Cardinality(NearTo(i, tierAdmitted[t], near)) <= most
    BY <1>1, <1>4, <2>1 DEF DayLimited
  <2>4. g \in Seq(TiTime)
    BY <1>1
  <2>5. Len(Keep(tierAdmitted[t], near[tierNow])) < most
    BY <1>4, <2>2 DEF Today
  <2>6. tierAdmitted[t] \in Seq(TiTime) /\ tierNow \in TiTime /\ tierNow \in near[tierNow]
    BY <1>1, <2>2
  <2> HIDE DEF near
  <2>7. \A i \in DOMAIN g : Cardinality(NearTo(i, g, near)) <= most
    BY <2>3, <2>5, <2>6, NearLimitKept
  <2> HIDE DEF g
  <2>8. DayLimited(g, most)
    BY <2>1, <2>4, <2>7 DEF DayLimited
  <2> QED
    BY <2>8 DEF g
<1> QED
  BY <1>3, <1>4

LEMMA TierTick == ASSUME TierInv, Tier!Tick PROVE TierInv'
<1>1. /\ tierNow' = tierNow + 1 /\ tierNow < TierTime
      /\ UNCHANGED <<tierRequests, daily, tierWhitelisted, tierAdmitted>>
  BY DEF Tier!Tick
<1>2. TierTyped'
  BY <1>1, TierConstants DEF TierInv, TierTyped, TiTime
<1>3. /\ tierNow \in TiTime /\ tierNow' \in TiTime /\ tierNow <= tierNow'
      /\ tierNow \in Nat /\ tierNow' \in Nat
  BY <1>1, <1>2, TierConstants DEF TierInv, TierTyped, TiTime
<1>4. ASSUME NEW t \in Tiers PROVE TierCounted(t)'
  <2>1. /\ TierCounted(t) /\ tierRequests[t] \in Seq(TiTime) /\ tierAdmitted[t] \in Seq(TiTime)
        /\ TierWindow \in Nat \ {0} /\ TiTime \in SUBSET Nat
        /\ TierWindow \in Nat /\ TierWindow <= TierWindow
    BY TierConstants DEF TierInv, TierTyped
  <2>2. Agree(tierRequests[t], tierAdmitted[t], TiTime, tierNow', TierWindow)
    BY <1>3, <2>1, AgreementKept DEF TierCounted
  <2> QED
    BY <1>1, <2>1, <2>2 DEF TierCounted
<1>5. ASSUME NEW t \in Tiers PROVE DayCounted(t)'
  <2>1. /\ DayCounted(t) /\ tierAdmitted[t] \in Seq(TiTime) /\ TiTime \subseteq Nat
        /\ daily[t] \in {None} \union [date : 0..DateOf(TierTime), count : Nat]
    BY TierConstants DEF TierInv, TierTyped
  <2>2. \A r \in ToSet(tierAdmitted[t]) : r \in Nat /\ r <= tierNow /\ r <= tierNow'
    <3>1. ToSet(tierAdmitted[t]) \subseteq TiTime
      BY <2>1, ElementsIn
    <3>2. \A r \in ToSet(tierAdmitted[t]) : r \in Nat /\ r <= tierNow
      BY <2>1, <3>1 DEF DayCounted
    <3> QED
      BY <1>3, <3>2
  <2>3. ASSUME DailyLimit[t] # None
        PROVE  /\ Tier!Count(t)' = Len(Keep(tierAdmitted[t], DayOf(tierNow')))
               /\ daily[t] # None => daily[t].date <= DateOf(tierNow')
    <3>1. /\ DateOf(tierNow) <= DateOf(tierNow') /\ DateOf(tierNow) \in Nat /\ DateOf(tierNow') \in Nat
          /\ \A r \in ToSet(tierAdmitted[t]) : DateOf(r) <= DateOf(tierNow) /\ DateOf(r) \in Nat
      BY <1>3, <2>2, Dates
    <3>2. daily[t] # None => daily[t].date <= DateOf(tierNow) /\ daily[t].date \in Nat
      BY <2>1, <2>3, Dates, TierConstants DEF DayCounted
    <3>3. Tier!Count(t) = IF daily[t] = None \/ daily[t].date # DateOf(tierNow) THEN 0
                          ELSE daily[t].count
      BY DEF Tier!Count, Tier!Date, DateOf
    <3>4. Tier!Count(t)' = IF daily[t] = None \/ daily[t].date # DateOf(tierNow') THEN 0
                           ELSE daily[t].count
      BY <1>1 DEF Tier!Count, Tier!Date, DateOf
    <3>5. CASE DateOf(tierNow') = DateOf(tierNow)
      <4>1. DayOf(tierNow') = DayOf(tierNow)
        BY <3>5 DEF DayOf
      <4> QED
        BY <2>1, <2>3, <3>2, <3>3, <3>4, <3>5, <4>1 DEF DayCounted, Today
    <3>6. CASE DateOf(tierNow') # DateOf(tierNow)
      <4>1. DateOf(tierNow) < DateOf(tierNow')
        BY <3>1, <3>6
      <4>2. Tier!Count(t)' = 0
        BY <3>1, <3>2, <3>4, <4>1
      <4>3. \A x \in ToSet(tierAdmitted[t]) : x \in DayOf(tierNow') <=> x \in {}
        BY <3>1, <4>1 DEF DayOf
      <4>4. Keep(tierAdmitted[t], DayOf(tierNow')) = Keep(tierAdmitted[t], {})
        BY <2>1, <4>3, KeepSame
      <4>5. Len(Keep(tierAdmitted[t], {})) = 0
        <5>1. ToSet(Keep(tierAdmitted[t], {})) = {} /\ Keep(tierAdmitted[t], {}) \in Seq(TiTime)
          BY <2>1, KeepElements
        <5> DEFINE k == Keep(tierAdmitted[t], {})
        <5> HIDE DEF k
        <5>2. k \in Seq(TiTime) /\ ToSet(k) = {}
          BY <5>1 DEF k
        <5>3. Len(k) > 0 => k[1] \in ToSet(k)
          BY <5>2 DEF ToSet
        <5>4. Len(k) = 0
          BY <5>2, <5>3
        <5> QED
          BY <5>4 DEF k
      <4> QED
        BY <3>1, <3>2, <4>2, <4>4, <4>5
    <3> QED
      BY <3>5, <3>6
  <2> QED
    BY <1>1, <2>1, <2>2, <2>3 DEF DayCounted, Today
<1> QED
  BY <1>2, <1>4, <1>5 DEF TierInv

LEMMA TierRefuse == ASSUME TierInv, NEW t \in Tiers, Tier!Refuse(t) PROVE TierInv'
<1> DEFINE kept == Keep(tierRequests[t], Win(TiTime, tierNow, TierWindow))
<1>1. /\ tierRequests' = [tierRequests EXCEPT ![t] = kept]
      /\ UNCHANGED <<daily, tierWhitelisted, tierNow, tierAdmitted>>
  BY TierFacts DEF Tier!Refuse
<1>2. tierRequests \in [Tiers -> Seq(TiTime)] /\ kept \in Seq(TiTime)
  BY TierCleans DEF TierInv, TierTyped
<1>3. tierRequests'[t] = kept /\ \A u \in Tiers \ {t} : tierRequests'[u] = tierRequests[u]
  BY <1>1, <1>2
<1>4. TierTyped'
  BY <1>1, <1>2 DEF TierInv, TierTyped
<1>5. ASSUME NEW u \in Tiers PROVE TierCounted(u)'
  <2>1. CASE u = t
    BY <1>1, <1>3, <2>1, TierCleans DEF TierInv, TierCounted
  <2>2. CASE u # t
    BY <1>1, <1>3, <2>2 DEF TierInv, TierCounted
  <2> QED
    BY <2>1, <2>2
<1>6. ASSUME NEW u \in Tiers PROVE DayCounted(u)'
  BY <1>1 DEF TierInv, DayCounted, Today, Tier!Count, Tier!Date
<1> QED
  BY <1>4, <1>5, <1>6 DEF TierInv

LEMMA TierAdmit == ASSUME TierInv, NEW t \in Tiers, Tier!Admit(t) PROVE TierInv'
<1> DEFINE kept == Keep(tierRequests[t], Win(TiTime, tierNow, TierWindow))
           burst == Keep(tierRequests[t], Win(TiTime, tierNow, TierBurstWindow))
           counted == [date |-> DateOf(tierNow), count |-> Tier!Count(t) + 1]
<1>1. /\ ~(Len(burst) >= TierBursts[t]) /\ ~(Len(kept) >= TierRequests[t])
      /\ ~(DailyLimit[t] # None /\ Tier!Count(t) >= DailyLimit[t])
      /\ tierRequests' = [tierRequests EXCEPT ![t] = Append(kept, tierNow)]
      /\ daily' = IF DailyLimit[t] = None THEN daily ELSE [daily EXCEPT ![t] = counted]
      /\ tierAdmitted' = [tierAdmitted EXCEPT ![t] = Append(tierAdmitted[t], tierNow)]
      /\ UNCHANGED <<tierWhitelisted, tierNow>>
  BY TierFacts DEF Tier!Admit, Tier!BurstFull, Tier!Full, Tier!DayFull
<1>2. /\ tierRequests \in [Tiers -> Seq(TiTime)] /\ tierAdmitted \in [Tiers -> Seq(TiTime)]
      /\ daily \in [Tiers -> {None} \union [date : 0..DateOf(TierTime), count : Nat]]
      /\ tierNow \in TiTime /\ tierNow \in Nat /\ tierNow <= TierTime
  BY TierConstants DEF TierInv, TierTyped, TiTime
<1>3. /\ tierRequests'[t] = Append(kept, tierNow)
      /\ tierAdmitted'[t] = Append(tierAdmitted[t], tierNow)
      /\ \A u \in Tiers \ {t} : /\ tierRequests'[u] = tierRequests[u]
                                /\ tierAdmitted'[u] = tierAdmitted[u] /\ daily'[u] = daily[u]
      /\ daily'[t] = IF DailyLimit[t] = None THEN daily[t] ELSE counted
  BY <1>1, <1>2
<1>4. /\ DateOf(tierNow) \in 0..DateOf(TierTime) /\ Tier!Count(t) \in Nat
      /\ DateOf(tierNow) \in Nat
  <2>1. DateOf(tierNow) <= DateOf(TierTime) /\ DateOf(tierNow) \in Nat /\ DateOf(TierTime) \in Nat
    BY <1>2, Dates, TierConstants
  <2>2. Tier!Count(t) \in Nat
    BY <1>2 DEF Tier!Count
  <2> QED
    BY <2>1, <2>2
<1> HIDE DEF kept, burst
<1>5. TierTyped'
  <2>1. tierRequests' \in [Tiers -> Seq(TiTime)] /\ tierAdmitted' \in [Tiers -> Seq(TiTime)]
    BY <1>1, <1>2, TierCleans DEF kept
  <2>2. daily' \in [Tiers -> {None} \union [date : 0..DateOf(TierTime), count : Nat]]
    <3>1. counted \in [date : 0..DateOf(TierTime), count : Nat]
      BY <1>4
    <3> QED
      BY <1>1, <1>2, <3>1
  <2> QED
    BY <1>1, <2>1, <2>2 DEF TierInv, TierTyped
<1>6. ASSUME NEW u \in Tiers PROVE TierCounted(u)'
  <2>1. CASE u = t
    <3>1. Len(kept) < TierRequests[t]
      <4>1. Len(kept) \in Nat /\ TierRequests[t] \in Nat
        BY TierCleans, TierConstants DEF kept
      <4> QED
        BY <1>1, <4>1
    <3>2. /\ Agree(Append(kept, tierNow), Append(tierAdmitted[t], tierNow), TiTime, tierNow, TierWindow)
          /\ Len(Append(kept, tierNow)) <= TierRequests[t]
          /\ Limited(Append(tierAdmitted[t], tierNow), TierWindow, TierRequests[t])
          /\ Limited(Append(tierAdmitted[t], tierNow), TierBurstWindow, TierBursts[t])
      BY <1>1, <3>1, TierCleans DEF kept, burst
    <3> QED
      BY <1>1, <1>3, <2>1, <3>2 DEF TierCounted
  <2>2. CASE u # t
    BY <1>1, <1>3, <2>2 DEF TierInv, TierCounted
  <2> QED
    BY <2>1, <2>2
<1>7. ASSUME NEW u \in Tiers PROVE DayCounted(u)'
  <2>1. CASE u = t
    <3>1. \A r \in ToSet(tierAdmitted'[t]) : r <= tierNow'
      <4>1. ToSet(tierAdmitted'[t]) = ToSet(tierAdmitted[t]) \union {tierNow}
        BY <1>2, <1>3, AppendContents
      <4> QED
        BY <1>1, <1>2, <4>1 DEF TierInv, DayCounted
    <3>2. DailyLimit[t] = None => daily'[t] = None
      BY <1>3 DEF TierInv, DayCounted
    <3>3. ASSUME DailyLimit[t] # None
          PROVE  /\ Tier!Count(t)' = Len(Keep(tierAdmitted'[t], DayOf(tierNow')))
                 /\ daily'[t].date <= DateOf(tierNow')
                 /\ DayLimited(tierAdmitted'[t], DailyLimit[t])
      <4>1. daily'[t] = counted /\ counted # None /\ counted.date = DateOf(tierNow)
        BY <1>3, <1>4, <3>3, TierConstants
      <4>2. Tier!Count(t)' = Tier!Count(t) + 1
        BY <1>1, <4>1 DEF Tier!Count, Tier!Date, DateOf
      <4>3. Tier!Count(t) = Today(t) /\ DayLimited(tierAdmitted[t], DailyLimit[t])
        BY <3>3 DEF TierInv, DayCounted
      <4>4. Today(t) < DailyLimit[t] /\ DailyLimit[t] \in Nat
        <5>1. DailyLimit[t] \in Nat
          BY <3>3, TierConstants
        <5> QED
          BY <1>1, <1>4, <3>3, <4>3, <5>1
      <4>5. DayLimited(tierAdmitted'[t], DailyLimit[t])
        BY <1>3, <4>3, <4>4, OneMoreToday
      <4> QED
        BY <1>1, <1>3, <1>4, <4>1, <4>2, <4>3, <4>5, OneMoreToday
    <3> QED
      BY <1>1, <2>1, <3>1, <3>2, <3>3 DEF DayCounted, Today
  <2>2. CASE u # t
    BY <1>1, <1>3, <2>2 DEF TierInv, DayCounted, Today, Tier!Count, Tier!Date
  <2> QED
    BY <2>1, <2>2
<1> QED
  BY <1>5, <1>6, <1>7 DEF TierInv

LEMMA TierStays ==
    ASSUME TierInv, UNCHANGED <<tierRequests, daily, tierNow, tierAdmitted>>,
           tierWhitelisted' \in BOOLEAN
    PROVE  TierInv'
  BY DEF TierInv, TierTyped, TierCounted, DayCounted, Today, Tier!Count, Tier!Date

LEMMA TierNext == ASSUME TierInv, [Tier!Next]_tierVars PROVE TierInv'
<1>0. tierWhitelisted \in BOOLEAN
  BY DEF TierInv, TierTyped
<1>1. CASE Tier!Tick
  BY <1>1, TierTick
<1>2. CASE Tier!Pass
  BY <1>0, <1>2, TierStays DEF Tier!Pass, Tier!vars
<1>3. ASSUME NEW t \in Tiers, Tier!Refuse(t) PROVE TierInv'
  BY <1>3, TierRefuse
<1>4. ASSUME NEW t \in Tiers, Tier!Admit(t) PROVE TierInv'
  BY <1>4, TierAdmit
<1>5. ASSUME NEW listed \in BOOLEAN, Tier!SetWhitelisted(listed) PROVE TierInv'
  BY <1>5, TierStays DEF Tier!SetWhitelisted
<1>6. CASE UNCHANGED tierVars
  BY <1>0, <1>6, TierStays DEF tierVars
<1> QED
  BY <1>1, <1>2, <1>3, <1>4, <1>5, <1>6 DEF Tier!Next

LEMMA TierShows ==
    ASSUME TierInv
    PROVE  Tier!TypeOK /\ Tier!TierLimitsRespected /\ Tier!RefusalsCostNothing
<1>1. Tier!TypeOK
  BY DEF TierInv, TierTyped, TierCounted, DayCounted, TiTime, DateOf, Tier!TypeOK, Tier!Time, Tier!Date
<1>2. Tier!TierLimitsRespected
  BY TierSame DEF TierInv, TierCounted, DayCounted, Limited, DayLimited, DateOf,
         Tier!TierLimitsRespected, Tier!InWindow, Tier!Date
<1>3. Tier!RefusalsCostNothing
  <2> SUFFICES ASSUME NEW t \in Tiers, DailyLimit[t] # None
               PROVE  Tier!Count(t) = Cardinality({j \in DOMAIN tierAdmitted[t] :
                                                     DateOf(tierAdmitted[t][j]) = DateOf(tierNow)})
    BY TierSame DEF Tier!RefusalsCostNothing, Tier!Date, DateOf
  <2> DEFINE h == tierAdmitted[t]
  <2>1. h \in Seq(TiTime) /\ Tier!Count(t) = Len(Keep(h, DayOf(tierNow)))
    BY DEF TierInv, TierTyped, DayCounted, Today
  <2>2. Len(Keep(h, DayOf(tierNow))) = Cardinality({j \in 1..Len(h) : h[j] \in DayOf(tierNow)})
    BY <2>1, KeepLen, Zenon
  <2>3. {j \in 1..Len(h) : h[j] \in DayOf(tierNow)}
          = {j \in DOMAIN h : DateOf(h[j]) = DateOf(tierNow)}
    <3>1. DOMAIN h = 1..Len(h) /\ \A j \in 1..Len(h) : h[j] \in TiTime
      BY <2>1
    <3> QED
      BY <3>1 DEF DayOf
  <2> QED
    BY <2>1, <2>2, <2>3
<1> QED
  BY <1>1, <1>2, <1>3
------------------------------------------------------------------------------
(***************************************************************************)
(* RoleRateLimiter.                                                        *)
(***************************************************************************)
LEMMA RoleSame ==
    /\ \A s, S : Role!Keep(s, S) = Keep(s, S)
    /\ \A S : Role!Cardinality(S) = Cardinality(S)
  BY DEF Role!Keep, Keep, Role!Cardinality, Cardinality

RoTime == 0..RoleTime
RoAdmission == [at : RoTime, most : Nat]

\* When the admitted requests came.
RoleAt == [a \in RoAdmission |-> a.at]
RoleTimes == Mapped(roleAdmitted, RoleAt)

RoleTyped ==
    /\ roleRequests \in Seq(RoTime)
    /\ roleNow \in RoTime
    /\ roleAdmitted \in Seq(RoAdmission)

\* The list holds the recent requests, no more than the most that a role is allowed.
RoleCounted ==
    /\ \E r \in Roles : Len(roleRequests) <= RoleRequests[r]
    /\ Agree(roleRequests, RoleTimes, RoTime, roleNow, RoleWindow)
    /\ \A i \in DOMAIN roleAdmitted :
        Cardinality({j \in 1..i : RoleTimes[i] - RoleTimes[j] < RoleWindow})
            <= roleAdmitted[i].most

RoleInv == RoleTyped /\ RoleCounted

LEMMA RoleConstants ==
    /\ Roles # {} /\ \A r \in Roles : RoleRequests[r] \in Nat \ {0}
    /\ \A e \in Endpoints : /\ EndpointRequests[e] \in Nat \union {None}
                            /\ EndpointRequests[e] # None =>
                                  EndpointWindow[e] \in Nat /\ EndpointWindow[e] >= RoleWindow
    /\ RoleWindow \in Nat \ {0} /\ RoTime \in SUBSET Nat /\ RoleTime \in Nat /\ 0 \in RoTime
    /\ None \notin Nat
  BY GuardsAssumption DEF Role!RoleAssumption, RoTime

\* The recent requests; every window is the roles' window.
RoleHeld == Keep(roleRequests, Win(RoTime, roleNow, RoleWindow))

LEMMA RoleFacts ==
    /\ Role!Recent(RoleWindow) = RoleHeld
    /\ \A e \in Endpoints : Role!Window(e) = RoleWindow
<1>1. Role!Recent(RoleWindow) = RoleHeld
  BY RoleSame DEF Role!Recent, Role!Time, RoTime, Win, RoleHeld
<1>2. ASSUME NEW e \in Endpoints PROVE Role!Window(e) = RoleWindow
  BY RoleConstants DEF Role!Window, Role!Smaller
<1> QED
  BY <1>1, <1>2

\* A request that is below its limit is below its role's and its endpoint's.
LEMMA StrictestIsLimit ==
    ASSUME NEW r \in Roles, NEW e \in Endpoints
    PROVE  /\ Role!Strictest(r, e) = Role!Limit(r, e) /\ Role!Limit(r, e) \in Nat
           /\ Role!Limit(r, e) <= RoleRequests[r]
<1> DEFINE S == {RoleRequests[r], EndpointRequests[e]} \ {None}
           m == CHOOSE most \in S : \A other \in S : most <= other
<1>1. /\ RoleRequests[r] \in Nat /\ EndpointRequests[e] \in Nat \union {None} /\ None \notin Nat
  BY RoleConstants
<1>2. Role!Limit(r, e) \in S /\ Role!Limit(r, e) \in Nat /\ Role!Limit(r, e) <= RoleRequests[r]
  BY <1>1 DEF Role!Limit, Role!Smaller
<1>3. \A other \in S : Role!Limit(r, e) <= other
  BY <1>1 DEF Role!Limit, Role!Smaller
<1>4. m \in S /\ \A other \in S : m <= other
  BY <1>2, <1>3
<1>5. m <= Role!Limit(r, e) /\ Role!Limit(r, e) <= m /\ m \in Nat
  BY <1>1, <1>2, <1>3, <1>4
<1>6. m = Role!Limit(r, e)
  <2> HIDE DEF m
  <2> QED
    BY <1>2, <1>5
<1> QED
  BY <1>2, <1>6 DEF Role!Strictest

LEMMA RoleTimesType ==
    ASSUME roleAdmitted \in Seq(RoAdmission)
    PROVE  /\ RoleTimes \in Seq(RoTime) /\ Len(RoleTimes) = Len(roleAdmitted)
           /\ DOMAIN RoleTimes = 1..Len(roleAdmitted)
           /\ \A i \in 1..Len(roleAdmitted) : RoleTimes[i] = roleAdmitted[i].at
           /\ \A a \in RoAdmission : roleAdmitted' = Append(roleAdmitted, a) =>
                 RoleTimes' = Append(RoleTimes, a.at)
<1>1. IsField(RoleAt, RoAdmission, RoTime) /\ \A a \in RoAdmission : RoleAt[a] = a.at
  BY DEF RoleAt, RoAdmission, IsField
<1>2. /\ RoleTimes \in Seq(RoTime) /\ Len(RoleTimes) = Len(roleAdmitted)
      /\ DOMAIN RoleTimes = 1..Len(roleAdmitted)
      /\ \A i \in 1..Len(roleAdmitted) :
            roleAdmitted[i] \in RoAdmission /\ RoleTimes[i] = RoleAt[roleAdmitted[i]]
  <2>1. FieldOf(roleAdmitted, RoleAt, RoAdmission, RoTime)
    BY <1>1, MappedFacts
  <2> QED
    BY <2>1 DEF FieldOf, RoleTimes
<1>3. ASSUME NEW a \in RoAdmission, roleAdmitted' = Append(roleAdmitted, a)
      PROVE  RoleTimes' = Append(RoleTimes, a.at)
  <2>1. Mapped(Append(roleAdmitted, a), RoleAt) = Append(RoleTimes, RoleAt[a])
    <3>1. FieldOf(roleAdmitted, RoleAt, RoAdmission, RoTime)
      BY <1>1, MappedFacts
    <3> QED
      BY <3>1 DEF FieldOf, RoleTimes
  <2>2. RoleTimes' = Mapped(roleAdmitted', RoleAt)
    BY DEF RoleTimes
  <2> QED
    BY <1>1, <1>3, <2>1, <2>2
<1> QED
  BY <1>1, <1>2, <1>3

LEMMA RoleInit == Role!Init => RoleInv
<1> SUFFICES ASSUME Role!Init PROVE RoleInv
  OBVIOUS
<1>1. roleRequests = << >> /\ roleNow = 0 /\ roleAdmitted = << >>
  BY DEF Role!Init
<1>2. RoleTyped
  BY <1>1, RoleConstants, EmptyContents DEF RoleTyped
<1>3. RoleTimes = << >>
  BY <1>1 DEF RoleTimes, Mapped
<1>4. RoleCounted
  BY <1>1, <1>3, RoleConstants, EmptyAgree, EmptyContents DEF RoleCounted
<1> QED
  BY <1>2, <1>4 DEF RoleInv

LEMMA RoleHeldFacts ==
    ASSUME RoleInv
    PROVE  /\ RoleHeld \in Seq(RoTime) /\ Append(RoleHeld, roleNow) \in Seq(RoTime)
           /\ Len(Append(RoleHeld, roleNow)) = Len(RoleHeld) + 1 /\ Len(RoleHeld) \in Nat
           /\ \E r \in Roles : Len(RoleHeld) <= RoleRequests[r]
           /\ Agree(RoleHeld, RoleTimes, RoTime, roleNow, RoleWindow)
           /\ Agree(Append(RoleHeld, roleNow), Append(RoleTimes, roleNow), RoTime, roleNow, RoleWindow)
<1>1. /\ roleRequests \in Seq(RoTime) /\ RoleTimes \in Seq(RoTime) /\ roleNow \in RoTime
      /\ Agree(roleRequests, RoleTimes, RoTime, roleNow, RoleWindow)
      /\ RoTime \in SUBSET Nat /\ RoleWindow \in Nat \ {0}
  BY RoleConstants, RoleTimesType DEF RoleInv, RoleTyped, RoleCounted
<1>2. /\ RoleHeld \in Seq(RoTime)
      /\ Agree(RoleHeld, RoleTimes, RoTime, roleNow, RoleWindow)
      /\ Agree(Append(RoleHeld, roleNow), Append(RoleTimes, roleNow), RoTime, roleNow, RoleWindow)
  BY <1>1, AgreementKept DEF RoleHeld
<1>3. Append(RoleHeld, roleNow) \in Seq(RoTime) /\ Len(Append(RoleHeld, roleNow)) = Len(RoleHeld) + 1
  BY <1>1, <1>2, AppendContents
<1>4. \E r \in Roles : Len(RoleHeld) <= RoleRequests[r]
  <2>1. PICK r \in Roles : Len(roleRequests) <= RoleRequests[r]
    BY DEF RoleInv, RoleCounted
  <2>2. Len(RoleHeld) <= Len(roleRequests) /\ Len(roleRequests) \in Nat /\ Len(RoleHeld) \in Nat
    BY <1>1, <1>2, KeepElements DEF RoleHeld
  <2>3. Len(RoleHeld) <= RoleRequests[r]
    BY <2>1, <2>2, RoleConstants
  <2> QED
    BY <2>3
<1> QED
  BY <1>2, <1>3, <1>4

LEMMA RoleTick == ASSUME RoleInv, Role!Tick PROVE RoleInv'
<1>1. roleNow' = roleNow + 1 /\ roleNow < RoleTime /\ UNCHANGED <<roleRequests, roleAdmitted>>
  BY DEF Role!Tick
<1>2. RoleTyped' /\ RoleTimes' = RoleTimes
  BY <1>1, RoleConstants DEF RoleInv, RoleTyped, RoTime, RoleTimes
<1>3. /\ roleNow \in RoTime /\ roleNow' \in RoTime /\ roleNow <= roleNow'
      /\ RoleTimes \in Seq(RoTime) /\ roleRequests \in Seq(RoTime) /\ RoTime \in SUBSET Nat
      /\ RoleWindow \in Nat \ {0} /\ RoleWindow \in Nat /\ RoleWindow <= RoleWindow
  <2>1. /\ roleNow \in RoTime /\ roleNow' \in RoTime /\ roleRequests \in Seq(RoTime)
        /\ RoleTimes \in Seq(RoTime)
    BY <1>2, RoleTimesType DEF RoleInv, RoleTyped
  <2>2. /\ RoTime \in SUBSET Nat /\ RoleWindow \in Nat \ {0} /\ RoleWindow \in Nat
        /\ RoleWindow <= RoleWindow
    BY RoleConstants
  <2> QED
    BY <1>1, <2>1, <2>2
<1>4. Agree(roleRequests, RoleTimes, RoTime, roleNow', RoleWindow)
  BY <1>3, AgreementKept DEF RoleInv, RoleCounted
<1> QED
  BY <1>1, <1>2, <1>4 DEF RoleInv, RoleCounted

LEMMA RoleClean ==
    ASSUME RoleInv, roleRequests' = RoleHeld, UNCHANGED <<roleNow, roleAdmitted>>
    PROVE  RoleInv'
<1>1. RoleTimes' = RoleTimes
  BY DEF RoleTimes
<1>2. RoleTyped'
  BY RoleHeldFacts DEF RoleInv, RoleTyped
<1>3. /\ \E r \in Roles : Len(roleRequests') <= RoleRequests[r]
      /\ Agree(roleRequests', RoleTimes', RoTime, roleNow', RoleWindow)
  BY <1>1, RoleHeldFacts
<1> QED
  BY <1>1, <1>2, <1>3 DEF RoleInv, RoleCounted

LEMMA RoleAdmit ==
    ASSUME RoleInv, NEW r \in Roles, NEW e \in Endpoints, Role!Admit(r, e)
    PROVE  RoleInv'
<1> DEFINE most == Role!Strictest(r, e)
           a == [at |-> roleNow, most |-> most]
           n == Len(roleAdmitted)
           near == [t \in RoTime |-> Win(RoTime, t, RoleWindow)]
<1>1. /\ Len(RoleHeld) < most /\ most \in Nat /\ most <= RoleRequests[r]
      /\ roleRequests' = Append(RoleHeld, roleNow) /\ roleAdmitted' = Append(roleAdmitted, a)
      /\ roleNow' = roleNow
  BY RoleFacts, StrictestIsLimit DEF Role!Admit
<1> HIDE DEF most
<1>2. /\ roleNow \in RoTime /\ a \in RoAdmission /\ roleAdmitted \in Seq(RoAdmission)
      /\ RoTime \in SUBSET Nat /\ RoleWindow \in Nat \ {0}
  BY <1>1, RoleConstants DEF RoleInv, RoleTyped, RoAdmission
<1>3. /\ RoleTimes \in Seq(RoTime) /\ Len(RoleTimes) = n /\ DOMAIN roleAdmitted = 1..n /\ n \in Nat
      /\ DOMAIN RoleTimes = 1..n
      /\ RoleTimes' = Append(RoleTimes, roleNow) /\ RoleTimes' \in Seq(RoTime)
      /\ DOMAIN roleAdmitted' = 1..(n + 1) /\ roleAdmitted'[n + 1].most = most
      /\ \A i \in 1..n : roleAdmitted'[i] = roleAdmitted[i]
      /\ DOMAIN RoleTimes' = 1..(n + 1)
  <2>1. /\ RoleTimes \in Seq(RoTime) /\ Len(RoleTimes) = n /\ DOMAIN RoleTimes = 1..n
        /\ RoleTimes' = Append(RoleTimes, roleNow)
    BY <1>1, <1>2, RoleTimesType
  <2> QED
    BY <1>1, <1>2, <2>1
<1>4. RoleTyped'
  <2>1. roleAdmitted' \in Seq(RoAdmission)
    BY <1>1, <1>2
  <2> QED
    BY <1>1, <2>1, RoleHeldFacts DEF RoleInv, RoleTyped
<1>5. ASSUME NEW s \in Seq(RoTime), NEW i \in DOMAIN s
      PROVE  NearTo(i, s, near) = {j \in 1..i : s[i] - s[j] < RoleWindow}
  <2>1. \A j \in 1..i : s[j] \in RoTime /\ s[i] \in RoTime
    OBVIOUS
  <2>2. \A j \in 1..i : s[j] \in near[s[i]] <=> s[i] - s[j] < RoleWindow
    BY <2>1 DEF Win
  <2> QED
    BY <2>2 DEF NearTo
<1>6. roleNow \in near[roleNow] /\ near[roleNow] = Win(RoTime, roleNow, RoleWindow)
  BY <1>2 DEF Win
<1> HIDE DEF near, n
<1>7. /\ \A i \in DOMAIN RoleTimes : NearTo(i, RoleTimes', near) = NearTo(i, RoleTimes, near)
      /\ Cardinality(NearTo(n + 1, RoleTimes', near)) = Len(Keep(RoleTimes, near[roleNow])) + 1
  BY <1>2, <1>3, <1>6, PlacesNear
<1>8. Keep(RoleTimes, near[roleNow]) = RoleHeld
  BY <1>6 DEF RoleInv, RoleCounted, Agree, RoleHeld
<1>9. ASSUME NEW i \in DOMAIN roleAdmitted'
      PROVE  Cardinality({j \in 1..i : RoleTimes'[i] - RoleTimes'[j] < RoleWindow})
                 <= roleAdmitted'[i].most
  <2>1. {j \in 1..i : RoleTimes'[i] - RoleTimes'[j] < RoleWindow} = NearTo(i, RoleTimes', near)
    BY <1>3, <1>5
  <2>2. CASE i \in 1..n
    <3>1. NearTo(i, RoleTimes', near) = {j \in 1..i : RoleTimes[i] - RoleTimes[j] < RoleWindow}
      BY <1>3, <1>5, <1>7, <2>2
    <3>2. Cardinality({j \in 1..i : RoleTimes[i] - RoleTimes[j] < RoleWindow}) <= roleAdmitted[i].most
      BY <1>3, <2>2 DEF RoleInv, RoleCounted
    <3> QED
      BY <1>3, <2>1, <2>2, <3>1, <3>2
  <2>3. CASE i = n + 1
    <3>1. Cardinality(NearTo(n + 1, RoleTimes', near)) = Len(RoleHeld) + 1
      BY <1>7, <1>8
    <3>2. Len(RoleHeld) + 1 <= most
      BY <1>1, RoleHeldFacts
    <3> QED
      BY <1>3, <2>1, <2>3, <3>1, <3>2
  <2>4. i \in 1..n \/ i = n + 1
    BY <1>3
  <2> QED
    BY <2>2, <2>3, <2>4
<1>10. /\ \E role \in Roles : Len(roleRequests') <= RoleRequests[role]
       /\ Agree(roleRequests', RoleTimes', RoTime, roleNow', RoleWindow)
  <2>1. Len(roleRequests') <= RoleRequests[r]
    BY <1>1, RoleHeldFacts, RoleConstants
  <2> QED
    BY <1>1, <1>3, <2>1, RoleHeldFacts
<1> QED
  BY <1>4, <1>9, <1>10 DEF RoleInv, RoleCounted

LEMMA RoleReset == ASSUME RoleInv, Role!ResetAll PROVE RoleInv'
<1>1. roleRequests' = << >> /\ roleAdmitted' = << >> /\ roleNow' = roleNow
  BY DEF Role!ResetAll
<1>2. RoleTimes' = << >>
  BY <1>1 DEF RoleTimes, Mapped
<1>3. RoleTyped'
  BY <1>1, EmptyContents DEF RoleInv, RoleTyped
<1>4. RoleCounted'
  BY <1>1, <1>2, RoleConstants, EmptyAgree, EmptyContents DEF RoleCounted
<1> QED
  BY <1>3, <1>4 DEF RoleInv

LEMMA RoleStays == ASSUME RoleInv, UNCHANGED roleVars PROVE RoleInv'
  BY DEF roleVars, RoleInv, RoleTyped, RoleCounted, RoleTimes

LEMMA RoleNext == ASSUME RoleInv, [Role!Next]_roleVars PROVE RoleInv'
<1>1. CASE Role!Tick
  BY <1>1, RoleTick
<1>2. ASSUME NEW r \in Roles, NEW e \in Endpoints, Role!Refuse(r, e) PROVE RoleInv'
  BY <1>2, RoleClean, RoleFacts DEF Role!Refuse
<1>3. ASSUME NEW r \in Roles, NEW e \in Endpoints, Role!Admit(r, e) PROVE RoleInv'
  BY <1>3, RoleAdmit
<1>4. CASE Role!GetUsageStats
  BY <1>4, RoleClean, RoleFacts DEF Role!GetUsageStats
<1>5. CASE Role!ResetAll
  BY <1>5, RoleReset
<1>6. CASE Role!ResetUser
  BY <1>6, RoleStays DEF Role!ResetUser, Role!vars, roleVars
<1>7. CASE UNCHANGED roleVars
  BY <1>7, RoleStays
<1> QED
  BY <1>1, <1>2, <1>3, <1>4, <1>5, <1>6, <1>7 DEF Role!Next

LEMMA RoleShows ==
    ASSUME RoleInv
    PROVE  Role!TypeOK /\ Role!StrictestLimitRespected /\ Role!NothingRecentForgotten
<1>1. Role!TypeOK
  BY DEF RoleInv, RoleTyped, RoleCounted, RoTime, RoAdmission, Role!TypeOK, Role!Time
<1> DEFINE n == Len(roleAdmitted)
<1>2. /\ RoleTimes \in Seq(RoTime) /\ Len(RoleTimes) = n /\ DOMAIN roleAdmitted = 1..n
      /\ \A i \in 1..n : RoleTimes[i] = roleAdmitted[i].at
  BY RoleTimesType DEF RoleInv, RoleTyped
<1>3. Role!StrictestLimitRespected
  <2> SUFFICES ASSUME NEW i \in DOMAIN roleAdmitted
               PROVE  Cardinality({j \in 1..i : roleAdmitted[i].at - roleAdmitted[j].at < RoleWindow})
                         <= roleAdmitted[i].most
    BY RoleSame DEF Role!StrictestLimitRespected
  <2>1. {j \in 1..i : roleAdmitted[i].at - roleAdmitted[j].at < RoleWindow}
          = {j \in 1..i : RoleTimes[i] - RoleTimes[j] < RoleWindow}
    BY <1>2
  <2> QED
    BY <2>1 DEF RoleInv, RoleCounted
<1>4. Role!NothingRecentForgotten
  <2> DEFINE W == Win(RoTime, roleNow, RoleWindow)
  <2>1. Role!Recent(RoleWindow) = Keep(RoleTimes, W)
    BY RoleFacts DEF RoleInv, RoleCounted, Agree, RoleHeld
  <2>2. Len(Keep(RoleTimes, W)) = Cardinality({i \in 1..Len(RoleTimes) : RoleTimes[i] \in W})
    <3>1. RoleTimes \in Seq(RoTime)
      BY <1>2
    <3> QED
      BY <3>1, KeepLen, Zenon
  <2>3. {i \in 1..Len(RoleTimes) : RoleTimes[i] \in W}
          = {i \in DOMAIN roleAdmitted : roleNow - roleAdmitted[i].at < RoleWindow}
    <3>1. \A i \in 1..n : RoleTimes[i] \in RoTime
      BY <1>2
    <3> QED
      BY <1>2, <3>1 DEF Win
  <2> QED
    BY <2>1, <2>2, <2>3, RoleSame DEF Role!NothingRecentForgotten
<1> QED
  BY <1>1, <1>3, <1>4
------------------------------------------------------------------------------
(***************************************************************************)
(* AdaptiveRateLimiter.                                                    *)
(***************************************************************************)
LEMMA AdaptiveSame == \A s, S : Adaptive!Keep(s, S) = Keep(s, S)
  BY DEF Adaptive!Keep, Keep

AdTime == 0..(AdaptiveTime + MaxDelay)
AdDelays == MinDelay..MaxDelay
AdEntry == [task : AdaptiveTasks, for : {"acquire", "limited", "error", "ok", "other"}]
AdSleep == [slept : AdDelays, until : AdTime]
AdReturn == [at : AdTime, slept : AdDelays]

StatsTyped ==
    /\ delay \in AdDelays
    /\ state \in {"normal", "cautious", "throttled"}
    /\ successes \in 0..(AdaptiveSuccesses - 1)
    /\ raised \in BOOLEAN

LockTyped ==
    /\ queue \in Seq(AdEntry)
    /\ sleep \in {None} \union AdSleep
    /\ sending \in SUBSET AdaptiveTasks
    /\ adNow \in 0..AdaptiveTime
    /\ returns \in Seq(AdReturn)

\* Who sleeps holds the lock, so that nobody moves the delay.
SleeperHolds ==
    sleep # None => /\ queue # << >> /\ queue[1].for = "acquire"
                    /\ sleep.slept = delay

\* The last return is not in the future, and the delay from the end of the sleep.
LastReturn ==
    returns # << >> =>
        /\ returns[Len(returns)].at <= adNow
        /\ sleep # None => returns[Len(returns)].at + sleep.slept <= sleep.until

ReturnsSpaced ==
    \A i \in 1..(Len(returns) - 1) : returns[i + 1].at - returns[i].at >= returns[i + 1].slept

LockInv == LockTyped /\ SleeperHolds /\ LastReturn /\ ReturnsSpaced

AdaptiveInv == StatsTyped /\ Adaptive!StateTellsDelay /\ LockInv

LEMMA AdaptiveConstants ==
    /\ MinDelay \in Nat \ {0} /\ BaseDelay \in Nat \ {0} /\ MaxDelay \in Nat \ {0}
    /\ AdaptiveSuccesses \in Nat \ {0} /\ AdaptiveTime \in Nat
    /\ MinDelay <= BaseDelay /\ 2 * BaseDelay < MaxDelay
    /\ None \notin AdSleep
  BY GuardsAssumption DEF Adaptive!AdaptiveAssumption, AdSleep, AdTime, AdDelays, Adaptive!Delays,
     Adaptive!Time

LEMMA AdaptiveInit == Adaptive!Init => AdaptiveInv
<1> SUFFICES ASSUME Adaptive!Init PROVE AdaptiveInv
  OBVIOUS
<1>1. /\ delay = BaseDelay /\ state = "normal" /\ successes = 0 /\ queue = << >> /\ sleep = None
      /\ sending = {} /\ adNow = 0 /\ returns = << >> /\ raised = FALSE
  BY DEF Adaptive!Init
<1>2. StatsTyped /\ Adaptive!StateTellsDelay
  <2>1. BaseDelay \in AdDelays /\ 0 \in 0..(AdaptiveSuccesses - 1) /\ ~(BaseDelay > BaseDelay)
    BY AdaptiveConstants DEF AdDelays
  <2> QED
    BY <1>1, <2>1 DEF StatsTyped, Adaptive!StateTellsDelay
<1>3. LockTyped
  BY <1>1, AdaptiveConstants, EmptyContents DEF LockTyped
<1>4. SleeperHolds /\ LastReturn /\ ReturnsSpaced
  BY <1>1 DEF SleeperHolds, LastReturn, ReturnsSpaced
<1> QED
  BY <1>2, <1>3, <1>4 DEF AdaptiveInv, LockInv

\* The statistics: a delay that is moved, and a state that follows it.
LEMMA StatsMove ==
    ASSUME StatsTyped, Adaptive!StateTellsDelay
    PROVE  /\ \A t : Adaptive!OnRateLimit(t) => StatsTyped' /\ Adaptive!StateTellsDelay'
           /\ \A t : Adaptive!OnServerError(t) => StatsTyped' /\ Adaptive!StateTellsDelay'
           /\ \A t : Adaptive!OnSuccess(t) => StatsTyped' /\ Adaptive!StateTellsDelay'
           /\ Adaptive!Reset => StatsTyped' /\ Adaptive!StateTellsDelay'
<1>0. /\ delay \in AdDelays /\ state \in {"normal", "cautious", "throttled"} /\ raised \in BOOLEAN
      /\ successes \in 0..(AdaptiveSuccesses - 1) /\ 0 \in 0..(AdaptiveSuccesses - 1)
      /\ state # "normal" => delay > BaseDelay
      /\ state = "normal" /\ delay > BaseDelay => raised
  BY AdaptiveConstants DEF StatsTyped, Adaptive!StateTellsDelay
<1>1. ASSUME NEW t, Adaptive!OnRateLimit(t) PROVE StatsTyped' /\ Adaptive!StateTellsDelay'
  <2>1. delay' = IF 2 * delay < MaxDelay THEN 2 * delay ELSE MaxDelay
    BY <1>1 DEF Adaptive!OnRateLimit, Adaptive!AtMost
  <2>2. /\ state' = IF 2 * delay' >= MaxDelay THEN "throttled"
                    ELSE IF delay' > BaseDelay THEN "cautious" ELSE state
        /\ successes' = 0 /\ raised' = FALSE
    BY <1>1 DEF Adaptive!OnRateLimit
  <2>3. delay' \in AdDelays /\ delay' >= delay
    BY <1>0, <2>1, AdaptiveConstants DEF AdDelays
  <2>4. state' # "normal" => delay' > BaseDelay
    <3>1. /\ delay' \in Nat /\ delay \in Nat /\ BaseDelay \in Nat /\ MaxDelay \in Nat
          /\ 2 * BaseDelay < MaxDelay
      BY <1>0, <2>3, AdaptiveConstants DEF AdDelays
    <3>2. 2 * delay' >= MaxDelay => delay' > BaseDelay
      <4>1. \A a, b, c \in Nat : 2 * b < c /\ 2 * a >= c => a > b
        OBVIOUS
      <4> QED
        BY <3>1, <4>1
    <3>3. delay > BaseDelay => delay' > BaseDelay
      BY <2>3, <3>1
    <3> QED
      BY <1>0, <2>2, <3>2, <3>3
  <2>5. ~(state' = "normal" /\ delay' > BaseDelay)
    BY <2>2
  <2> QED
    BY <1>0, <2>2, <2>3, <2>4, <2>5 DEF StatsTyped, Adaptive!StateTellsDelay
<1>2. ASSUME NEW t, Adaptive!OnServerError(t) PROVE StatsTyped' /\ Adaptive!StateTellsDelay'
  <2>1. delay' = IF (3 * delay) \div 2 < MaxDelay THEN (3 * delay) \div 2 ELSE MaxDelay
    BY <1>2 DEF Adaptive!OnServerError, Adaptive!AtMost, Adaptive!ServerErrorDelay
  <2>2. state' = state /\ successes' = 0 /\ raised' = TRUE
    BY <1>2 DEF Adaptive!OnServerError
  <2>3. delay' \in AdDelays /\ delay' >= delay
    BY <1>0, <2>1, AdaptiveConstants DEF AdDelays
  <2>4. state' # "normal" => delay' > BaseDelay
    BY <1>0, <2>2, <2>3, AdaptiveConstants DEF AdDelays
  <2> QED
    BY <1>0, <2>2, <2>3, <2>4 DEF StatsTyped, Adaptive!StateTellsDelay
<1>3. ASSUME NEW t, Adaptive!OnSuccess(t) PROVE StatsTyped' /\ Adaptive!StateTellsDelay'
  <2>1. CASE successes + 1 < AdaptiveSuccesses
    <3>1. successes' = successes + 1 /\ delay' = delay /\ state' = state /\ raised' = raised
      BY <1>3, <2>1 DEF Adaptive!OnSuccess
    <3>2. successes + 1 \in 0..(AdaptiveSuccesses - 1)
      BY <1>0, <2>1, AdaptiveConstants
    <3> QED
      BY <1>0, <3>1, <3>2 DEF StatsTyped, Adaptive!StateTellsDelay
  <2>2. CASE ~(successes + 1 < AdaptiveSuccesses)
    <3>1. delay' = IF (9 * delay) \div 10 > MinDelay THEN (9 * delay) \div 10 ELSE MinDelay
      BY <1>3, <2>2 DEF Adaptive!OnSuccess, Adaptive!AtLeast
    <3>2. /\ state' = IF delay' <= BaseDelay THEN "normal"
                      ELSE IF delay' < 2 * BaseDelay THEN "cautious" ELSE state
          /\ successes' = 0 /\ raised' = (raised /\ delay' >= 2 * BaseDelay)
      BY <1>3, <2>2 DEF Adaptive!OnSuccess, Adaptive!StateAfterSuccess
    <3>3. delay' \in AdDelays /\ delay' <= delay
      BY <1>0, <3>1, AdaptiveConstants DEF AdDelays
    <3>4. state' \in {"normal", "cautious", "throttled"} /\ (state' # "normal" => delay' > BaseDelay)
      BY <1>0, <3>2, <3>3, AdaptiveConstants DEF AdDelays
    <3>5. state' = "normal" /\ delay' > BaseDelay => delay' >= 2 * BaseDelay /\ delay > BaseDelay
                                                      /\ state = "normal"
      BY <1>0, <3>2, <3>3, AdaptiveConstants DEF AdDelays
    <3>6. raised' \in BOOLEAN
      BY <3>2
    <3>7. state' = "normal" /\ delay' > BaseDelay => raised'
      BY <1>0, <3>2, <3>5, Zenon
    <3> QED
      BY <1>0, <3>2, <3>3, <3>4, <3>6, <3>7 DEF StatsTyped, Adaptive!StateTellsDelay
  <2> QED
    BY <2>1, <2>2
<1>4. ASSUME Adaptive!Reset PROVE StatsTyped' /\ Adaptive!StateTellsDelay'
  <2>1. delay' = BaseDelay /\ state' = "normal" /\ successes' = 0 /\ raised' = FALSE
    BY <1>4 DEF Adaptive!Reset
  <2>2. BaseDelay \in AdDelays /\ ~(BaseDelay > BaseDelay)
    BY AdaptiveConstants DEF AdDelays
  <2> QED
    BY <1>0, <2>1, <2>2 DEF StatsTyped, Adaptive!StateTellsDelay
<1> QED
  BY <1>1, <1>2, <1>3, <1>4

\* The steps that leave the statistics alone.
LEMMA StatsStay ==
    ASSUME StatsTyped, Adaptive!StateTellsDelay, UNCHANGED <<delay, state, successes, raised>>
    PROVE  StatsTyped' /\ Adaptive!StateTellsDelay'
  BY DEF StatsTyped, Adaptive!StateTellsDelay

\* The lock.
LEMMA HeadFacts ==
    ASSUME LockInv, NEW t, NEW kinds, Adaptive!Holds(t, kinds)
    PROVE  /\ queue # << >> /\ Len(queue) \in Nat \ {0} /\ queue[1].task = t /\ queue[1].for \in kinds
           /\ Tail(queue) \in Seq(AdEntry)
           /\ "acquire" \notin kinds => sleep = None
<1>1. queue # << >> /\ queue[1].task = t /\ queue[1].for \in kinds /\ queue \in Seq(AdEntry)
  BY DEF Adaptive!Holds, LockInv, LockTyped
<1>2. Tail(queue) \in Seq(AdEntry) /\ Len(queue) \in Nat \ {0}
  BY <1>1
<1>3. "acquire" \notin kinds => sleep = None
  BY <1>1 DEF LockInv, SleeperHolds
<1> QED
  BY <1>1, <1>2, <1>3

\* Who joins the queue does not come first, unless there is nobody.
LEMMA QueueGrows ==
    ASSUME LockInv, NEW e \in AdEntry, queue' = Append(queue, e), sending' \in SUBSET AdaptiveTasks,
           UNCHANGED <<delay, sleep, adNow, returns>>
    PROVE  LockInv'
<1>1. queue' \in Seq(AdEntry) /\ (queue # << >> => queue' # << >> /\ queue'[1] = queue[1])
  <2>1. queue \in Seq(AdEntry)
    BY DEF LockInv, LockTyped
  <2> QED
    BY <2>1
<1> QED
  BY <1>1 DEF LockInv, LockTyped, SleeperHolds, LastReturn, ReturnsSpaced

\* A status is recorded, by a holder who does not sleep.
LEMMA LockRecord ==
    ASSUME LockInv, NEW t, NEW status, status # "acquire", Adaptive!RecordAs(t, status)
    PROVE  LockInv'
<1>1. /\ Adaptive!Holds(t, {status}) /\ queue' = Tail(queue)
      /\ UNCHANGED <<sleep, sending, adNow, returns>>
  BY DEF Adaptive!RecordAs
<1>2. sleep = None /\ queue' \in Seq(AdEntry)
  <2>1. "acquire" \notin {status}
    OBVIOUS
  <2> QED
    BY <1>1, <2>1, HeadFacts
<1> QED
  BY <1>1, <1>2 DEF LockInv, LockTyped, SleeperHolds, LastReturn, ReturnsSpaced

LEMMA LockFallAsleep ==
    ASSUME StatsTyped, LockInv, NEW t, Adaptive!FallAsleep(t)
    PROVE  LockInv'
<1>1. /\ Adaptive!Holds(t, {"acquire"}) /\ sleep = None
      /\ sleep' = [slept |-> delay, until |-> adNow + delay]
      /\ UNCHANGED <<delay, queue, sending, adNow, returns>>
  BY DEF Adaptive!FallAsleep, Adaptive!SleepUntil, Adaptive!stats
<1>2. queue # << >> /\ queue[1].for = "acquire"
  BY <1>1, HeadFacts
<1>3. delay \in AdDelays /\ delay \in Nat /\ adNow \in Nat /\ adNow + delay \in AdTime
  BY AdaptiveConstants DEF StatsTyped, LockInv, LockTyped, AdDelays, AdTime
<1>4. sleep' \in AdSleep
  BY <1>1, <1>3 DEF AdSleep
<1>5. LastReturn'
  <2> SUFFICES ASSUME returns # << >>
               PROVE  /\ returns[Len(returns)].at <= adNow
                      /\ returns[Len(returns)].at + delay <= adNow + delay
    BY <1>1 DEF LastReturn
  <2>1. returns[Len(returns)] \in AdReturn
    BY DEF LockInv, LockTyped
  <2>2. returns[Len(returns)].at \in Nat
    BY <2>1, AdaptiveConstants DEF AdReturn, AdTime
  <2> QED
    BY <1>3, <2>2 DEF LockInv, LastReturn
<1> QED
  BY <1>1, <1>2, <1>4, <1>5 DEF LockInv, LockTyped, SleeperHolds, ReturnsSpaced

LEMMA LockWakeUp ==
    ASSUME StatsTyped, LockInv, NEW t \in AdaptiveTasks, Adaptive!WakeUp(t)
    PROVE  LockInv'
<1> DEFINE r == [at |-> adNow, slept |-> sleep.slept]
           n == Len(returns)
<1>1. /\ Adaptive!Holds(t, {"acquire"}) /\ sleep # None /\ sleep.until <= adNow
      /\ returns' = Append(returns, r) /\ sleep' = None /\ queue' = Tail(queue)
      /\ sending' = sending \union {t} /\ UNCHANGED <<delay, adNow>>
  BY DEF Adaptive!WakeUp, Adaptive!stats
<1>2. sleep \in AdSleep /\ returns \in Seq(AdReturn) /\ n \in Nat /\ queue' \in Seq(AdEntry)
  BY <1>1, HeadFacts DEF LockInv, LockTyped
<1>3. /\ sleep.slept \in AdDelays /\ sleep.slept \in Nat /\ sleep.until \in Nat /\ adNow \in AdTime
      /\ adNow \in Nat
  BY <1>2, AdaptiveConstants DEF AdSleep, AdDelays, AdTime, LockInv, LockTyped
<1>4. r \in AdReturn
  BY <1>3 DEF AdReturn
<1>5. /\ returns' \in Seq(AdReturn) /\ Len(returns') = n + 1 /\ returns'[n + 1] = r
      /\ \A i \in 1..n : returns'[i] = returns[i]
  BY <1>1, <1>2, <1>4
<1>6. ReturnsSpaced'
  <2> SUFFICES ASSUME NEW i \in 1..n
               PROVE  returns'[i + 1].at - returns'[i].at >= returns'[i + 1].slept
    BY <1>2, <1>5 DEF ReturnsSpaced
  <2>1. CASE i = n
    <3>1. returns[n] \in AdReturn /\ returns # << >>
      BY <1>2, <2>1
    <3>2. returns[n].at \in Nat /\ returns[n].at + sleep.slept <= sleep.until
      BY <1>1, <3>1, AdaptiveConstants DEF AdReturn, AdTime, LockInv, LastReturn
    <3>3. adNow - returns[n].at >= sleep.slept
      BY <1>1, <1>3, <3>2
    <3> QED
      BY <1>5, <2>1, <3>3
  <2>2. CASE i # n
    <3>1. i \in 1..(n - 1) /\ i + 1 \in 1..n
      BY <1>2, <2>2
    <3> QED
      BY <1>5, <3>1 DEF LockInv, ReturnsSpaced
  <2> QED
    BY <2>1, <2>2
<1>7. LastReturn'
  <2>1. adNow <= adNow
    BY <1>3
  <2> QED
    BY <1>1, <1>5, <2>1 DEF LastReturn
<1> QED
  BY <1>1, <1>2, <1>5, <1>6, <1>7 DEF LockInv, LockTyped, SleeperHolds

\* A task that gives up its place takes its sleep along, and nobody else's.
LEMMA LockCancel ==
    ASSUME LockInv, NEW t, Adaptive!Cancel(t)
    PROVE  LockInv'
<1> DEFINE others == {e \in AdEntry : e.task # t}
<1>1. /\ sleep' = IF queue[1].task = t THEN None ELSE sleep
      /\ queue' = Keep(queue, others) /\ UNCHANGED <<delay, sending, adNow, returns>>
  BY AdaptiveSame DEF Adaptive!Cancel, Adaptive!stats, Adaptive!Entry, Adaptive!Statuses, AdEntry
<1>2. queue \in Seq(AdEntry) /\ queue' \in Seq(AdEntry)
  BY <1>1, KeepElements DEF LockInv, LockTyped
<1>3. ASSUME sleep' # None
      PROVE  sleep' = sleep /\ queue' # << >> /\ queue'[1] = queue[1]
  <2>1. sleep' = sleep /\ queue[1].task # t /\ queue # << >>
    BY <1>1, <1>3 DEF LockInv, SleeperHolds
  <2>2. queue[1] \in others
    BY <1>2, <2>1
  <2> QED
    BY <1>1, <1>2, <2>1, <2>2, KeepHead
<1>4. sleep' \in {None} \union AdSleep
  BY <1>1 DEF LockInv, LockTyped
<1> QED
  BY <1>1, <1>2, <1>3, <1>4 DEF LockInv, LockTyped, SleeperHolds, LastReturn, ReturnsSpaced

LEMMA LockTick == ASSUME LockInv, Adaptive!Tick PROVE LockInv'
<1>1. /\ adNow' = adNow + 1 /\ adNow < AdaptiveTime
      /\ UNCHANGED <<delay, queue, sleep, sending, returns>>
  BY DEF Adaptive!Tick
<1>2. LockTyped'
  BY <1>1, AdaptiveConstants DEF LockInv, LockTyped
<1>3. LastReturn'
  <2> SUFFICES ASSUME returns # << >> PROVE returns[Len(returns)].at <= adNow + 1
    BY <1>1 DEF LockInv, LastReturn
  <2>1. returns[Len(returns)] \in AdReturn
    BY DEF LockInv, LockTyped
  <2>2. returns[Len(returns)].at \in Nat /\ adNow \in Nat
    BY <2>1, AdaptiveConstants DEF AdReturn, AdTime, LockInv, LockTyped
  <2> QED
    BY <2>2 DEF LockInv, LastReturn
<1> QED
  BY <1>1, <1>2, <1>3 DEF LockInv, SleeperHolds, ReturnsSpaced

LEMMA LockReset == ASSUME LockInv, Adaptive!Reset PROVE LockInv'
<1>1. sleep = None /\ returns' = << >> /\ UNCHANGED <<queue, sleep, sending, adNow>>
  BY DEF Adaptive!Reset
<1>2. LockTyped'
  BY <1>1, EmptyContents DEF LockInv, LockTyped
<1> QED
  BY <1>1, <1>2 DEF LockInv, SleeperHolds, LastReturn, ReturnsSpaced

LEMMA AdaptiveNext == ASSUME AdaptiveInv, [Adaptive!Next]_adaptiveVars PROVE AdaptiveInv'
<1> USE DEF AdaptiveInv
<1>1. CASE Adaptive!Tick
  BY <1>1, LockTick, StatsStay DEF Adaptive!Tick
<1>2. CASE Adaptive!Reset
  BY <1>2, LockReset, StatsMove
<1>3. ASSUME NEW t \in AdaptiveTasks, Adaptive!Acquire(t) PROVE AdaptiveInv'
  <2>1. [task |-> t, for |-> "acquire"] \in AdEntry
    BY DEF AdEntry
  <2>2. sending \in SUBSET AdaptiveTasks
    BY DEF LockInv, LockTyped
  <2> QED
    BY <1>3, <2>1, <2>2, QueueGrows, StatsStay DEF Adaptive!Acquire, Adaptive!stats
<1>4. ASSUME NEW t \in AdaptiveTasks, Adaptive!FallAsleep(t) PROVE AdaptiveInv'
  BY <1>4, LockFallAsleep, StatsStay DEF Adaptive!FallAsleep, Adaptive!stats
<1>5. ASSUME NEW t \in AdaptiveTasks, Adaptive!WakeUp(t) PROVE AdaptiveInv'
  BY <1>5, LockWakeUp, StatsStay DEF Adaptive!WakeUp, Adaptive!stats
<1>6. ASSUME NEW t \in AdaptiveTasks, Adaptive!Cancel(t) PROVE AdaptiveInv'
  BY <1>6, LockCancel, StatsStay DEF Adaptive!Cancel, Adaptive!stats
<1>7. ASSUME NEW t \in AdaptiveTasks, NEW status \in Adaptive!Statuses, Adaptive!Answer(t, status)
      PROVE  AdaptiveInv'
  <2>1. [task |-> t, for |-> status] \in AdEntry
    BY DEF AdEntry, Adaptive!Statuses
  <2>2. sending \ {t} \in SUBSET AdaptiveTasks
    BY DEF LockInv, LockTyped
  <2> QED
    BY <1>7, <2>1, <2>2, QueueGrows, StatsStay DEF Adaptive!Answer, Adaptive!stats
<1>8. ASSUME NEW t \in AdaptiveTasks, Adaptive!NoAnswer(t) PROVE AdaptiveInv'
  <2>1. LockInv'
    BY <1>8 DEF Adaptive!NoAnswer, Adaptive!stats, LockInv, LockTyped, SleeperHolds, LastReturn,
                ReturnsSpaced
  <2> QED
    BY <1>8, <2>1, StatsStay DEF Adaptive!NoAnswer, Adaptive!stats
<1>9. ASSUME NEW t \in AdaptiveTasks, Adaptive!OnRateLimit(t) PROVE AdaptiveInv'
  <2>1. LockInv'
    BY <1>9, LockRecord DEF Adaptive!OnRateLimit
  <2> QED
    BY <1>9, <2>1, StatsMove
<1>10. ASSUME NEW t \in AdaptiveTasks, Adaptive!OnServerError(t) PROVE AdaptiveInv'
  <2>1. LockInv'
    BY <1>10, LockRecord DEF Adaptive!OnServerError
  <2> QED
    BY <1>10, <2>1, StatsMove
<1>11. ASSUME NEW t \in AdaptiveTasks, Adaptive!OnSuccess(t) PROVE AdaptiveInv'
  <2>1. LockInv'
    BY <1>11, LockRecord DEF Adaptive!OnSuccess
  <2> QED
    BY <1>11, <2>1, StatsMove
<1>12. ASSUME NEW t \in AdaptiveTasks, Adaptive!OnOther(t) PROVE AdaptiveInv'
  <2>1. LockInv'
    BY <1>12, LockRecord DEF Adaptive!OnOther
  <2> QED
    BY <1>12, <2>1, StatsStay DEF Adaptive!OnOther
<1>13. CASE UNCHANGED adaptiveVars
  <2>1. LockInv'
    BY <1>13 DEF adaptiveVars, LockInv, LockTyped, SleeperHolds, LastReturn, ReturnsSpaced
  <2> QED
    BY <1>13, <2>1, StatsStay DEF adaptiveVars
<1> QED
  BY <1>1, <1>2, <1>3, <1>4, <1>5, <1>6, <1>7, <1>8, <1>9, <1>10, <1>11, <1>12, <1>13
     DEF Adaptive!Next

LEMMA AdaptiveShows ==
    ASSUME AdaptiveInv
    PROVE  Adaptive!TypeOK /\ Adaptive!RequestsSpaced /\ Adaptive!StateTellsDelay
<1>1. Adaptive!TypeOK
  BY DEF AdaptiveInv, StatsTyped, LockInv, LockTyped, AdEntry, AdSleep, AdReturn, AdDelays, AdTime,
         Adaptive!TypeOK, Adaptive!Entry, Adaptive!Statuses, Adaptive!Delays, Adaptive!Time
<1>2. Adaptive!RequestsSpaced
  BY DEF AdaptiveInv, LockInv, SleeperHolds, ReturnsSpaced, Adaptive!RequestsSpaced
<1> QED
  BY <1>1, <1>2 DEF AdaptiveInv
------------------------------------------------------------------------------
(***************************************************************************)
(* RateLimiter, whose sleepers record the time at which they came.         *)
(***************************************************************************)
LEMMA KeySame ==
    /\ \A s, S : Key!Keep(s, S) = Keep(s, S)
    /\ \A S : Key!Cardinality(S) = Cardinality(S) /\ Key!ToSet(S) = ToSet(S)
    /\ \A S : Key!Min(S) = CHOOSE x \in S : \A y \in S : x <= y
  BY DEF Key!Keep, Keep, Key!Cardinality, Cardinality, Key!ToSet, ToSet, Key!Min

KyTime == 0..KeyTime
KySleep == [arrived : KyTime, until : 0..(KeyTime + KeyWindow)]
KyAcquire == [arrived : KyTime, at : KyTime]

\* When the acquires that returned had arrived.
KyArrived == [a \in KyAcquire |-> a.arrived]
Arrivals == Mapped(released, KyArrived)

Waits(t) == t \in KeyTasks \ excused /\ Key!Asleep(t)

KeyTyped ==
    /\ requests \in Seq(KyTime)
    /\ sleeper \in [KeyTasks -> KySleep]
    /\ keyNow \in KyTime
    /\ released \in Seq(KyAcquire)
    /\ excused \in SUBSET KeyTasks

\* Nothing comes from the future, a sleep lasts, and no longer than the window.
KeyTimes ==
    /\ \A r \in ToSet(requests) : r <= keyNow
    /\ \A i \in DOMAIN released : released[i].arrived <= released[i].at /\ released[i].at <= keyNow
    /\ \A t \in KeyTasks : Key!Asleep(t) =>
          /\ sleeper[t].arrived <= keyNow /\ sleeper[t].arrived < sleeper[t].until
          /\ sleeper[t].until <= sleeper[t].arrived + KeyWindow
    /\ \A t \in excused : Key!Asleep(t)

\* The list holds what arrived in the window, whatever sleepers recorded when.
KeyCounted ==
    /\ Agree(requests, Arrivals, KyTime, keyNow, KeyWindow)
    /\ Key!DirectRespectsWindow

\* The requests that do not leave the window before a time.
Until(end) == {r \in KyTime : r + KeyWindow >= end}

\* While a task waits the window stays full of requests that leave it no earlier.
KeyFull ==
    \A t \in KeyTasks : Waits(t) /\ keyNow < sleeper[t].until =>
        Len(Keep(requests, Until(sleeper[t].until))) >= KeyRequests

\* A request that leaves the window earlier was recorded belatedly.
KeyAge ==
    \A t \in KeyTasks : Waits(t) =>
        Key!Belated(t) \/ \A r \in ToSet(requests) : r + KeyWindow >= sleeper[t].until

\* Who fell asleep later sleeps longer, unless somebody was let through belatedly.
KeyOrder ==
    \A t, u \in KeyTasks :
        Waits(t) /\ Key!Asleep(u) /\ sleeper[t].arrived < sleeper[u].arrived =>
            u \notin excused /\ (Key!Belated(t) \/ sleeper[t].until <= sleeper[u].until)

KeyInv ==
    KeyTyped /\ KeyTimes /\ KeyCounted /\ KeyFull /\ KeyAge /\ KeyOrder /\ Key!NoOvertaking

LEMMA KeyConstants ==
    /\ KeyRequests \in Nat \ {0} /\ KeyWindow \in Nat \ {0} /\ KeyTime \in Nat
    /\ KyTime \in SUBSET Nat /\ 0 \in KyTime
  BY GuardsAssumption DEF Key!RateLimiterAssumption, KyTime

Recently == Keep(requests, Win(KyTime, keyNow, KeyWindow))

LEMMA KeyFacts ==
    /\ \A at : Key!Recent(requests, at) = Keep(requests, Win(KyTime, at, KeyWindow))
    /\ \A s : Key!Full(s) <=> Len(s) >= KeyRequests
    /\ \A t : Key!Asleep(t) <=> sleeper[t] # [arrived |-> 0, until |-> 0]
  BY KeySame DEF Key!Recent, Key!Time, Key!Full, Key!Asleep, Key!Awake, KyTime, Win

LEMMA ArrivalFacts ==
    ASSUME released \in Seq(KyAcquire)
    PROVE  /\ Arrivals \in Seq(KyTime) /\ Len(Arrivals) = Len(released)
           /\ DOMAIN Arrivals = 1..Len(released) /\ DOMAIN released = 1..Len(released)
           /\ \A i \in 1..Len(released) : Arrivals[i] = released[i].arrived
           /\ \A a \in KyAcquire : released' = Append(released, a) =>
                 Arrivals' = Append(Arrivals, a.arrived)
<1>1. IsField(KyArrived, KyAcquire, KyTime) /\ \A a \in KyAcquire : KyArrived[a] = a.arrived
  BY DEF KyArrived, KyAcquire, IsField
<1>2. /\ Arrivals \in Seq(KyTime) /\ Len(Arrivals) = Len(released)
      /\ DOMAIN Arrivals = 1..Len(released) /\ DOMAIN released = 1..Len(released)
      /\ \A i \in 1..Len(released) :
            released[i] \in KyAcquire /\ Arrivals[i] = KyArrived[released[i]]
  <2>1. FieldOf(released, KyArrived, KyAcquire, KyTime)
    BY <1>1, MappedFacts
  <2> QED
    BY <2>1 DEF FieldOf, Arrivals
<1>3. ASSUME NEW a \in KyAcquire, released' = Append(released, a)
      PROVE  Arrivals' = Append(Arrivals, a.arrived)
  <2>1. Mapped(Append(released, a), KyArrived) = Append(Arrivals, KyArrived[a])
    <3>1. FieldOf(released, KyArrived, KyAcquire, KyTime)
      BY <1>1, MappedFacts
    <3> QED
      BY <3>1 DEF FieldOf, Arrivals
  <2>2. Arrivals' = Mapped(released', KyArrived)
    BY DEF Arrivals
  <2> QED
    BY <1>1, <1>3, <2>1, <2>2
<1> QED
  BY <1>1, <1>2, <1>3

LEMMA KeyInit == Key!Init => KeyInv
<1> SUFFICES ASSUME Key!Init PROVE KeyInv
  OBVIOUS
<1>1. /\ requests = << >> /\ sleeper = [t \in KeyTasks |-> [arrived |-> 0, until |-> 0]]
      /\ keyNow = 0 /\ released = << >> /\ excused = {}
  BY DEF Key!Init, Key!Awake
<1>2. \A t \in KeyTasks : ~Key!Asleep(t)
  BY <1>1 DEF Key!Asleep, Key!Awake
<1>3. KeyTyped
  <2>1. [arrived |-> 0, until |-> 0] \in KySleep
    BY KeyConstants DEF KySleep
  <2> QED
    BY <1>1, <2>1, KeyConstants, EmptyContents DEF KeyTyped
<1>4. Arrivals = << >>
  BY <1>1 DEF Arrivals, Mapped
<1>5. KeyCounted
  BY <1>1, <1>4, EmptyAgree DEF KeyCounted, Key!DirectRespectsWindow
<1>6. KeyTimes
  BY <1>1, <1>2, EmptyContents DEF KeyTimes
<1> QED
  BY <1>1, <1>2, <1>3, <1>5, <1>6
     DEF KeyInv, KeyFull, KeyAge, KeyOrder, Waits, Key!NoOvertaking

\* What leaves the window no earlier than a time to come is in the window now.
LEMMA UntilIsRecent ==
    ASSUME NEW at \in KyTime, NEW late \in KyTime, at <= late, NEW end \in Nat, late < end
    PROVE  Until(end) \subseteq Win(KyTime, at, KeyWindow)
<1>1. at \in Nat /\ late \in Nat /\ KeyWindow \in Nat /\ KyTime \subseteq Nat
  BY KeyConstants
<1>2. \A r \in Nat : r + KeyWindow >= end => at - r < KeyWindow
  BY <1>1
<1> QED
  BY <1>1, <1>2 DEF Until, Win

\* A clean-up, by this time or an earlier one, leaves what tasks wait for.
LEMMA FullKept ==
    ASSUME NEW s \in Seq(KyTime), NEW at \in KyTime, NEW late \in KyTime, at <= late,
           NEW end \in Nat, late < end, NEW x \in KyTime,
           Len(Keep(s, Until(end))) >= KeyRequests
    PROVE  LET k == Keep(s, Win(KyTime, at, KeyWindow)) IN
           /\ Len(Keep(k, Until(end))) >= KeyRequests
           /\ Len(Keep(Append(k, x), Until(end))) >= KeyRequests
<1> DEFINE W == Win(KyTime, at, KeyWindow)
           k == Keep(s, W)
           U == Until(end)
<1>1. U \subseteq W
  BY UntilIsRecent
<1>2. Keep(k, U) = Keep(s, U) /\ k \in Seq(KyTime)
  BY <1>1, KeepFewer, KeepElements
<1>3. Keep(Append(k, x), U) = IF x \in U THEN Append(Keep(k, U), x) ELSE Keep(k, U)
  BY <1>2, KeepAppend
<1>4. Keep(k, U) \in Seq(KyTime)
  BY <1>2, KeepElements
<1>5. Len(Append(Keep(k, U), x)) = Len(Keep(k, U)) + 1 /\ Len(Keep(k, U)) \in Nat
  BY <1>4
<1>6. KeyRequests \in Nat /\ Len(Keep(s, U)) >= KeyRequests
  BY KeyConstants
<1> HIDE DEF k, U
<1>7. Len(Keep(Append(k, x), U)) >= KeyRequests
  BY <1>2, <1>3, <1>5, <1>6
<1> QED
  BY <1>2, <1>7 DEF k, U

\* One more acquire returned.
LEMMA ReleasedGrows ==
    ASSUME KeyTyped, NEW e \in KyAcquire, released' = Append(released, e)
    PROVE  /\ released' \in Seq(KyAcquire) /\ DOMAIN released = 1..Len(released)
           /\ DOMAIN released' = 1..(Len(released) + 1) /\ released'[Len(released) + 1] = e
           /\ \A i \in 1..Len(released) : released'[i] = released[i]
           /\ \A i \in DOMAIN released' : i \in DOMAIN released \/ i = Len(released) + 1
           /\ Len(released) \in Nat /\ Len(released) + 1 \in DOMAIN released'
           /\ Arrivals \in Seq(KyTime) /\ Arrivals' = Append(Arrivals, e.arrived)
<1>1. released \in Seq(KyAcquire)
  BY DEF KeyTyped
<1>2. Arrivals \in Seq(KyTime) /\ Arrivals' = Append(Arrivals, e.arrived)
  BY <1>1, ArrivalFacts
<1>3. /\ released' \in Seq(KyAcquire) /\ DOMAIN released = 1..Len(released)
      /\ DOMAIN released' = 1..(Len(released) + 1) /\ released'[Len(released) + 1] = e
      /\ \A i \in 1..Len(released) : released'[i] = released[i]
      /\ Len(released) \in Nat
  BY <1>1
<1> QED
  BY <1>2, <1>3

LEMMA BelatedGrows ==
    ASSUME KeyTyped, NEW e \in KyAcquire, released' = Append(released, e),
           NEW t, sleeper'[t] = sleeper[t]
    PROVE  /\ Key!Belated(t) => Key!Belated(t)'
           /\ e.arrived + KeyWindow < sleeper[t].until /\ e.at >= sleeper[t].arrived =>
                Key!Belated(t)'
<1>1. ASSUME Key!Belated(t) PROVE Key!Belated(t)'
  <2>1. PICK i \in DOMAIN released : /\ released[i].arrived + KeyWindow < sleeper[t].until
                                     /\ released[i].at >= sleeper[t].arrived
    BY <1>1 DEF Key!Belated
  <2>2. i \in DOMAIN released' /\ released'[i] = released[i]
    BY <2>1, ReleasedGrows
  <2> QED
    BY <2>1, <2>2 DEF Key!Belated
<1>2. ASSUME e.arrived + KeyWindow < sleeper[t].until, e.at >= sleeper[t].arrived
      PROVE  Key!Belated(t)'
  <2>1. Len(released) + 1 \in DOMAIN released' /\ released'[Len(released) + 1] = e
    BY ReleasedGrows
  <2> QED
    BY <1>2, <2>1 DEF Key!Belated
<1> QED
  BY <1>1, <1>2

LEMMA DirectGrows ==
    ASSUME KeyTyped, Key!DirectRespectsWindow, NEW e \in KyAcquire, released' = Append(released, e),
           e.arrived = e.at => Len(Keep(Arrivals, Win(KyTime, e.at, KeyWindow))) < KeyRequests
    PROVE  Key!DirectRespectsWindow'
<1> DEFINE n == Len(released)
           before(i, at) == {j \in 1..(i - 1) : at - released[j].arrived < KeyWindow}
<1>1. /\ DOMAIN released = 1..n /\ DOMAIN released' = 1..(n + 1) /\ released'[n + 1] = e
      /\ \A i \in 1..n : released'[i] = released[i]
      /\ n \in Nat /\ Arrivals \in Seq(KyTime)
  BY ReleasedGrows
<1>2. Len(Arrivals) = n /\ \A i \in 1..n : Arrivals[i] = released[i].arrived
  BY ArrivalFacts DEF KeyTyped
<1> SUFFICES ASSUME NEW i \in 1..(n + 1), released'[i].arrived = released'[i].at
             PROVE  Cardinality({j \in 1..(i - 1) : released'[i].at - released'[j].arrived < KeyWindow})
                        < KeyRequests
  BY <1>1, KeySame DEF Key!DirectRespectsWindow
<1>3. {j \in 1..(i - 1) : released'[i].at - released'[j].arrived < KeyWindow}
        = before(i, released'[i].at)
  <2>1. \A j \in 1..(i - 1) : released'[j] = released[j]
    BY <1>1
  <2> QED
    BY <2>1
<1>4. CASE i \in 1..n
  BY <1>1, <1>3, <1>4, KeySame DEF Key!DirectRespectsWindow
<1>5. CASE i = n + 1
  <2> DEFINE W == Win(KyTime, e.at, KeyWindow)
  <2>1. Len(Keep(Arrivals, W)) = Cardinality({j \in 1..Len(Arrivals) : Arrivals[j] \in W})
    BY <1>1, KeepLen, Zenon
  <2>2. {j \in 1..Len(Arrivals) : Arrivals[j] \in W} = before(i, e.at)
    <3>1. 1..Len(Arrivals) = 1..(i - 1) /\ \A j \in 1..(i - 1) : Arrivals[j] \in KyTime
      BY <1>1, <1>2, <1>5
    <3>2. \A j \in 1..(i - 1) : Arrivals[j] \in W <=> e.at - released[j].arrived < KeyWindow
      BY <1>1, <1>2, <1>5, <3>1 DEF Win
    <3> QED
      BY <3>1, <3>2
  <2> QED
    BY <1>1, <1>3, <1>5, <2>1, <2>2
<1>6. i \in 1..n \/ i = n + 1
  BY <1>1
<1> QED
  BY <1>4, <1>5, <1>6

\* An acquire that returns changes neither who waits nor for how long.
LEMMA OrderKept ==
    ASSUME KeyTyped, KeyOrder, NEW e \in KyAcquire, released' = Append(released, e),
           \A t \in KeyTasks : /\ Waits(t)' => Waits(t)
                               /\ Key!Asleep(t)' => Key!Asleep(t) /\ sleeper'[t] = sleeper[t],
           excused' \subseteq excused
    PROVE  KeyOrder'
<1> SUFFICES ASSUME NEW t \in KeyTasks, NEW u \in KeyTasks, Waits(t)', Key!Asleep(u)',
                    sleeper'[t].arrived < sleeper'[u].arrived
             PROVE  u \notin excused' /\ (Key!Belated(t)' \/ sleeper'[t].until <= sleeper'[u].until)
  BY DEF KeyOrder
<1>1. Waits(t) /\ Key!Asleep(u) /\ sleeper'[t] = sleeper[t] /\ sleeper'[u] = sleeper[u]
  BY DEF Waits
<1>2. u \notin excused /\ (Key!Belated(t) \/ sleeper[t].until <= sleeper[u].until)
  BY <1>1 DEF KeyOrder
<1> QED
  BY <1>1, <1>2, BelatedGrows

\* Nobody is overtaken by an acquire that returns.
LEMMA OvertakingGrows ==
    ASSUME KeyTyped, Key!NoOvertaking, NEW e \in KyAcquire, released' = Append(released, e),
           \A t \in KeyTasks : Waits(t)' => Waits(t) /\ sleeper'[t] = sleeper[t],
           \A t \in KeyTasks : Waits(t)' /\ sleeper[t].arrived < e.arrived /\ e.at < sleeper[t].until
                                 => e.arrived < e.at /\ Key!Belated(t)
    PROVE  Key!NoOvertaking'
<1> SUFFICES ASSUME NEW t \in KeyTasks, t \notin excused', Key!Asleep(t)', NEW i \in DOMAIN released',
                    sleeper'[t].arrived < released'[i].arrived, released'[i].at < sleeper'[t].until
             PROVE  released'[i].arrived < released'[i].at /\ Key!Belated(t)'
  BY DEF Key!NoOvertaking
<1>1. Waits(t)' /\ Waits(t) /\ sleeper'[t] = sleeper[t]
  BY DEF Waits
<1>2. CASE i \in DOMAIN released
  <2>1. released'[i] = released[i]
    BY <1>2, ReleasedGrows
  <2>2. released[i].arrived < released[i].at /\ Key!Belated(t)
    BY <1>1, <1>2, <2>1 DEF Waits, Key!NoOvertaking
  <2> QED
    BY <1>1, <2>1, <2>2, BelatedGrows
<1>3. CASE i = Len(released) + 1
  <2>1. released'[i] = e
    BY <1>3, ReleasedGrows
  <2> QED
    BY <1>1, <2>1, BelatedGrows
<1> QED
  BY <1>2, <1>3, ReleasedGrows

LEMMA KeyAtOnce == ASSUME KeyInv, NEW t \in KeyTasks, Key!AcquireAtOnce(t) PROVE KeyInv'
<1> DEFINE e == [arrived |-> keyNow, at |-> keyNow]
<1>1. /\ ~(Len(Recently) >= KeyRequests)
      /\ requests' = Append(Recently, keyNow) /\ released' = Append(released, e)
      /\ UNCHANGED <<sleeper, keyNow, excused>>
  BY KeyFacts DEF Key!AcquireAtOnce, Recently
<1>2. /\ KeyTyped /\ requests \in Seq(KyTime) /\ keyNow \in KyTime /\ keyNow \in Nat
      /\ sleeper \in [KeyTasks -> KySleep] /\ KyTime \in SUBSET Nat /\ e \in KyAcquire
      /\ KeyWindow \in Nat \ {0} /\ KeyRequests \in Nat /\ released \in Seq(KyAcquire)
  BY KeyConstants DEF KeyInv, KeyTyped, KyAcquire
<1>3. Recently \in Seq(KyTime) /\ ToSet(Recently) \subseteq ToSet(requests)
  BY <1>2, KeepElements DEF Recently
<1>4. /\ requests' \in Seq(KyTime) /\ ToSet(requests') = ToSet(Recently) \union {keyNow}
      /\ released' \in Seq(KyAcquire)
  BY <1>1, <1>2, <1>3, AppendContents
<1>5. \A u \in KeyTasks : /\ Key!Asleep(u)' <=> Key!Asleep(u)
                          /\ Waits(u)' <=> Waits(u)
                          /\ sleeper'[u] = sleeper[u]
  BY <1>1 DEF Waits, Key!Asleep
<1>6. \A u \in KeyTasks : Key!Asleep(u) =>
          /\ sleeper[u].arrived \in Nat /\ sleeper[u].until \in Nat /\ sleeper[u].arrived <= keyNow
          /\ sleeper[u].until <= sleeper[u].arrived + KeyWindow
  BY <1>2, KeyConstants DEF KySleep, KeyInv, KeyTimes
<1>7. KeyTyped'
  BY <1>1, <1>2, <1>4 DEF KeyTyped
<1>8. KeyTimes'
  <2>1. \A r \in ToSet(requests') : r <= keyNow
    BY <1>2, <1>3, <1>4 DEF KeyInv, KeyTimes
  <2>2. ASSUME NEW i \in DOMAIN released'
        PROVE  released'[i].arrived <= released'[i].at /\ released'[i].at <= keyNow
    <3>1. CASE i \in DOMAIN released
      <4>1. released'[i] = released[i]
        BY <1>1, <1>2, <3>1, ReleasedGrows
      <4> QED
        BY <3>1, <4>1 DEF KeyInv, KeyTimes
    <3>2. CASE i = Len(released) + 1
      <4>1. released'[i] = e
        BY <1>1, <1>2, <3>2, ReleasedGrows
      <4> QED
        BY <1>2, <4>1
    <3> QED
      BY <1>1, <1>2, <3>1, <3>2, ReleasedGrows
  <2>3. \A u \in excused : u \in KeyTasks /\ Key!Asleep(u)
    BY <1>2 DEF KeyInv, KeyTimes, KeyTyped
  <2> QED
    BY <1>1, <1>5, <2>1, <2>2, <2>3 DEF KeyInv, KeyTimes
<1>9. KeyCounted'
  <2>1. Arrivals' = Append(Arrivals, keyNow) /\ Arrivals \in Seq(KyTime)
    BY <1>1, <1>2, ReleasedGrows
  <2>2. Agree(requests', Arrivals', KyTime, keyNow, KeyWindow)
    BY <1>1, <1>2, <2>1, AgreementKept DEF Recently, KeyInv, KeyCounted
  <2>3. Len(Keep(Arrivals, Win(KyTime, keyNow, KeyWindow))) < KeyRequests
    <3>1. Keep(Arrivals, Win(KyTime, keyNow, KeyWindow)) = Recently
      BY DEF KeyInv, KeyCounted, Agree, Recently
    <3> QED
      BY <1>1, <1>2, <1>3, <3>1
  <2>4. Key!DirectRespectsWindow'
    BY <1>1, <1>2, <2>3, DirectGrows DEF KeyInv, KeyCounted
  <2> QED
    BY <1>1, <2>2, <2>4 DEF KeyCounted
<1>10. ASSUME NEW u \in KeyTasks, Waits(u), keyNow < sleeper[u].until
       PROVE  /\ Len(Keep(requests', Until(sleeper[u].until))) >= KeyRequests
              /\ FALSE
  <2> DEFINE end == sleeper[u].until
  <2>1. end \in Nat /\ Len(Keep(requests, Until(end))) >= KeyRequests /\ keyNow <= keyNow
    BY <1>2, <1>6, <1>10 DEF KeyInv, KeyFull, Waits
  <2>2. Len(Keep(requests', Until(end))) >= KeyRequests
    BY <1>1, <1>2, <1>10, <2>1, FullKept DEF Recently
  <2>3. Len(Keep(Recently, Until(end))) >= KeyRequests
    BY <1>2, <1>10, <2>1, FullKept DEF Recently
  <2>4. Len(Keep(Recently, Until(end))) <= Len(Recently) /\ Len(Recently) \in Nat
        /\ Len(Keep(Recently, Until(end))) \in Nat
    BY <1>3, KeepElements
  <2>5. FALSE
    BY <1>1, <1>2, <2>3, <2>4
  <2> QED
    BY <2>2, <2>5
<1>11. KeyFull'
  BY <1>1, <1>5, <1>10 DEF KeyFull
<1>12. KeyAge'
  <2> SUFFICES ASSUME NEW u \in KeyTasks, Waits(u), ~Key!Belated(u)', NEW r \in ToSet(requests')
               PROVE  r + KeyWindow >= sleeper[u].until
    BY <1>5 DEF KeyAge
  <2>1. ~Key!Belated(u)
    BY <1>1, <1>2, <1>5, BelatedGrows
  <2>2. CASE r \in ToSet(requests)
    BY <2>1, <2>2 DEF KeyInv, KeyAge
  <2>3. CASE r = keyNow
    BY <1>2, <1>6, <2>3 DEF Waits
  <2> QED
    BY <1>3, <1>4, <2>2, <2>3
<1>13. KeyOrder'
  BY <1>1, <1>2, <1>5, OrderKept DEF KeyInv
<1>14. Key!NoOvertaking'
  BY <1>1, <1>2, <1>5, <1>10, OvertakingGrows DEF KeyInv
<1> QED
  BY <1>7, <1>8, <1>9, <1>11, <1>12, <1>13, <1>14 DEF KeyInv

\* Nothing but the time moved since, or less: what holds of the releases goes on.
LEMMA BelatedStays ==
    \A t : UNCHANGED <<sleeper[t], released>> => (Key!Belated(t)' <=> Key!Belated(t))
  BY DEF Key!Belated

LEMMA KeySleeps == ASSUME KeyInv, NEW t \in KeyTasks, Key!FallAsleep(t) PROVE KeyInv'
<1> DEFINE oldest == CHOOSE x \in ToSet(Recently) : \A y \in ToSet(Recently) : x <= y
           end == oldest + KeyWindow
           new == [arrived |-> keyNow, until |-> end]
<1>1. /\ ~Key!Asleep(t) /\ Len(Recently) >= KeyRequests /\ requests' = Recently
      /\ sleeper' = [sleeper EXCEPT ![t] = new]
      /\ UNCHANGED <<keyNow, released, excused>>
  <2>1. /\ ~Key!Asleep(t) /\ Len(Recently) >= KeyRequests /\ requests' = Recently
        /\ UNCHANGED <<keyNow, released, excused>>
    BY KeyFacts DEF Key!FallAsleep, Key!CanAcquire, Recently
  <2>2. Key!SleepEnd(requests') = end
    BY <2>1, KeySame DEF Key!SleepEnd
  <2>3. sleeper' = [sleeper EXCEPT ![t] = [arrived |-> keyNow, until |-> Key!SleepEnd(requests')]]
    BY DEF Key!FallAsleep
  <2> QED
    BY <2>1, <2>2, <2>3
<1>2. /\ KeyTyped /\ requests \in Seq(KyTime) /\ keyNow \in KyTime /\ keyNow \in Nat
      /\ sleeper \in [KeyTasks -> KySleep] /\ KyTime \in SUBSET Nat
      /\ KeyWindow \in Nat \ {0} /\ KeyRequests \in Nat \ {0} /\ released \in Seq(KyAcquire)
  BY KeyConstants DEF KeyInv, KeyTyped
<1>3. /\ Recently \in Seq(KyTime)
      /\ ToSet(Recently) = ToSet(requests) \intersect Win(KyTime, keyNow, KeyWindow)
  BY <1>2, KeepElements DEF Recently
<1>4. /\ oldest \in ToSet(Recently) /\ oldest \in KyTime /\ oldest \in Nat
      /\ oldest <= keyNow /\ keyNow - oldest < KeyWindow
      /\ \A r \in ToSet(Recently) : r \in Nat /\ oldest <= r
  <2>1. ToSet(Recently) # {} /\ ToSet(Recently) \subseteq KyTime
    <3>1. Len(Recently) \in Nat /\ Len(Recently) >= 1 /\ DOMAIN Recently = 1..Len(Recently)
      BY <1>1, <1>2, <1>3
    <3>2. 1 \in DOMAIN Recently
      BY <3>1
    <3> QED
      BY <1>3, <3>2, ElementsIn DEF ToSet
  <2>2. ToSet(Recently) \subseteq Nat
    BY <1>2, <2>1
  <2>3. oldest \in ToSet(Recently) /\ \A r \in ToSet(Recently) : oldest <= r
    BY <2>1, <2>2, SmallestOf, Zenon
  <2> HIDE DEF oldest
  <2>4. oldest <= keyNow /\ keyNow - oldest < KeyWindow
    BY <1>3, <2>3 DEF KeyInv, KeyTimes, Win
  <2> QED
    BY <1>2, <2>1, <2>2, <2>3, <2>4
<1> HIDE DEF oldest
<1>5. /\ end \in Nat /\ keyNow < end /\ end <= keyNow + KeyWindow /\ new \in KySleep
      /\ new # [arrived |-> 0, until |-> 0]
  <2>1. end \in Nat /\ keyNow < end /\ end <= keyNow + KeyWindow
    BY <1>2, <1>4
  <2>2. end \in 0..(KeyTime + KeyWindow)
    BY <1>2, <2>1, KeyConstants DEF KyTime
  <2> QED
    BY <1>2, <2>1, <2>2 DEF KySleep
<1> HIDE DEF end
<1>6. /\ sleeper'[t] = new /\ t \notin excused
      /\ \A u \in KeyTasks : u # t => /\ sleeper'[u] = sleeper[u]
                                      /\ Key!Asleep(u)' <=> Key!Asleep(u)
                                      /\ Waits(u)' <=> Waits(u)
  BY <1>1, <1>2 DEF KeyInv, KeyTimes, Waits, Key!Asleep
<1>7. KeyTyped'
  BY <1>1, <1>2, <1>3, <1>5 DEF KeyTyped
<1>8. KeyTimes'
  <2>1. \A r \in ToSet(requests') : r <= keyNow
    BY <1>1, <1>3 DEF KeyInv, KeyTimes
  <2>2. \A u \in KeyTasks : Key!Asleep(u)' =>
          /\ sleeper'[u].arrived <= keyNow /\ sleeper'[u].arrived < sleeper'[u].until
          /\ sleeper'[u].until <= sleeper'[u].arrived + KeyWindow
    <3>1. keyNow <= keyNow
      BY <1>2
    <3> QED
      BY <1>5, <1>6, <3>1 DEF KeyInv, KeyTimes
  <2>3. \A u \in excused : Key!Asleep(u)'
    BY <1>2, <1>6 DEF KeyInv, KeyTimes, KeyTyped
  <2> QED
    BY <1>1, <2>1, <2>2, <2>3 DEF KeyInv, KeyTimes
<1>9. KeyCounted'
  <2>1. Arrivals' = Arrivals /\ Arrivals \in Seq(KyTime)
    BY <1>1, <1>2, ArrivalFacts DEF Arrivals
  <2>2. Agree(requests', Arrivals', KyTime, keyNow, KeyWindow)
    BY <1>1, <1>2, <2>1, AgreementKept DEF Recently, KeyInv, KeyCounted
  <2> QED
    BY <1>1, <2>2 DEF KeyInv, KeyCounted, Key!DirectRespectsWindow
<1>10. KeyFull'
  <2> SUFFICES ASSUME NEW u \in KeyTasks, Waits(u)', keyNow < sleeper'[u].until
               PROVE  Len(Keep(Recently, Until(sleeper'[u].until))) >= KeyRequests
    BY <1>1 DEF KeyFull
  <2>1. CASE u = t
    <3>1. ToSet(Recently) \subseteq Until(end)
      BY <1>2, <1>3, <1>4 DEF Until, end, Win
    <3>2. Keep(Recently, Until(end)) = Recently
      BY <1>3, <3>1, KeepAll
    <3> QED
      BY <1>1, <1>6, <2>1, <3>2
  <2>2. CASE u # t
    <3> DEFINE E == sleeper[u].until
    <3>1. E \in Nat /\ Len(Keep(requests, Until(E))) >= KeyRequests /\ keyNow < E /\ keyNow <= keyNow
      BY <1>2, <1>6, <2>2, KeyConstants DEF KeyInv, KeyFull, KySleep
    <3>2. Len(Keep(Recently, Until(E))) >= KeyRequests
      BY <1>2, <3>1, FullKept DEF Recently
    <3> QED
      BY <1>6, <2>2, <3>2
  <2> QED
    BY <2>1, <2>2
<1>11. KeyAge'
  <2> SUFFICES ASSUME NEW u \in KeyTasks, Waits(u)', ~Key!Belated(u)', NEW r \in ToSet(Recently)
               PROVE  r + KeyWindow >= sleeper'[u].until
    BY <1>1 DEF KeyAge
  <2>1. CASE u = t
    <3>1. sleeper'[u].until = oldest + KeyWindow /\ oldest <= r /\ r \in Nat
      BY <1>1, <1>4, <1>6, <2>1 DEF end
    <3> QED
      BY <1>2, <1>4, <3>1
  <2>2. CASE u # t
    BY <1>1, <1>3, <1>6, <2>2, BelatedStays DEF KeyInv, KeyAge
  <2> QED
    BY <2>1, <2>2
<1>12. KeyOrder'
  <2> SUFFICES ASSUME NEW v \in KeyTasks, NEW u \in KeyTasks, Waits(v)', Key!Asleep(u)',
                      sleeper'[v].arrived < sleeper'[u].arrived
               PROVE  u \notin excused' /\ (Key!Belated(v)' \/ sleeper'[v].until <= sleeper'[u].until)
    BY DEF KeyOrder
  <2>1. v # t
    <3> SUFFICES ASSUME v = t PROVE FALSE
      OBVIOUS
    <3>1. sleeper'[u].arrived <= keyNow /\ sleeper'[u].arrived \in Nat
      BY <1>1, <1>2, <1>7, <1>8 DEF KeyTimes, KeyTyped, KySleep
    <3> QED
      BY <1>2, <1>6, <3>1
  <2>2. CASE u # t
    <3>1. u \notin excused /\ (Key!Belated(v) \/ sleeper[v].until <= sleeper[u].until)
      BY <1>6, <2>1, <2>2 DEF KeyInv, KeyOrder
    <3> QED
      BY <1>1, <1>6, <2>1, <2>2, <3>1, BelatedStays
  <2>3. CASE u = t
    <3>1. Key!Belated(v) \/ sleeper[v].until <= end
      BY <1>3, <1>4, <1>6, <2>1 DEF KeyInv, KeyAge, end
    <3> QED
      BY <1>1, <1>6, <2>1, <2>3, <3>1, BelatedStays
  <2> QED
    BY <2>2, <2>3
<1>13. Key!NoOvertaking'
  <2> SUFFICES ASSUME NEW u \in KeyTasks, u \notin excused', Key!Asleep(u)',
                      NEW i \in DOMAIN released', sleeper'[u].arrived < released'[i].arrived,
                      released'[i].at < sleeper'[u].until
               PROVE  released'[i].arrived < released'[i].at /\ Key!Belated(u)'
    BY DEF Key!NoOvertaking
  <2>1. u # t
    <3>1. /\ released[i].arrived \in Nat /\ released[i].at \in Nat
          /\ released[i].arrived <= released[i].at /\ released[i].at <= keyNow
      <4>1. i \in DOMAIN released /\ DOMAIN released = 1..Len(released)
        BY <1>1, <1>2
      <4>2. released[i] \in KyAcquire
        BY <1>2, <4>1
      <4> QED
        BY <1>2, <4>1, <4>2 DEF KeyInv, KeyTimes, KyAcquire
    <3> QED
      BY <1>1, <1>2, <1>6, <3>1
  <2>2. released[i].arrived < released[i].at /\ Key!Belated(u)
    BY <1>1, <1>6, <2>1 DEF KeyInv, Key!NoOvertaking
  <2> QED
    BY <1>1, <1>6, <2>1, <2>2, BelatedStays
<1> QED
  BY <1>7, <1>8, <1>9, <1>10, <1>11, <1>12, <1>13 DEF KeyInv

\* The list agrees also after a request was recorded for an earlier time.
LEMMA LateAgreement ==
    ASSUME NEW T \in SUBSET Nat, NEW s \in Seq(T), NEW h \in Seq(T), NEW at \in T,
           NEW early \in T, early <= at, NEW w \in Nat \ {0}, Agree(s, h, T, at, w)
    PROVE  LET k == Keep(s, Win(T, early, w)) IN
           k \in Seq(T) /\ Agree(Append(k, early), Append(h, early), T, at, w)
<1> DEFINE W == Win(T, at, w)
           k == Keep(s, Win(T, early, w))
<1>1. W \subseteq Win(T, early, w)
  <2>1. \A r \in T : at - r < w => early - r < w
    OBVIOUS
  <2> QED
    BY <2>1 DEF Win
<1>2. k \in Seq(T) /\ Keep(k, W) = Keep(h, W)
  BY <1>1, KeepElements, KeepFewer DEF Agree
<1>3. /\ Keep(Append(k, early), W) = IF early \in W THEN Append(Keep(k, W), early) ELSE Keep(k, W)
      /\ Keep(Append(h, early), W) = IF early \in W THEN Append(Keep(h, W), early) ELSE Keep(h, W)
  BY <1>2, KeepAppend
<1> QED
  BY <1>2, <1>3 DEF Agree

LEMMA KeyWakes == ASSUME KeyInv, NEW t \in KeyTasks, Key!WakeUp(t) PROVE KeyInv'
<1> DEFINE arr == sleeper[t].arrived
           e == [arrived |-> arr, at |-> keyNow]
           kept == Keep(requests, Win(KyTime, arr, KeyWindow))
           awake == [arrived |-> 0, until |-> 0]
<1>1. /\ Key!Asleep(t) /\ keyNow >= sleeper[t].until
      /\ requests' = Append(kept, arr) /\ released' = Append(released, e)
      /\ sleeper' = [sleeper EXCEPT ![t] = awake] /\ excused' = excused \ {t}
      /\ keyNow' = keyNow
  BY KeyFacts DEF Key!WakeUp, Key!Awake
<1>2. /\ KeyTyped /\ requests \in Seq(KyTime) /\ keyNow \in KyTime /\ keyNow \in Nat
      /\ sleeper \in [KeyTasks -> KySleep] /\ KyTime \in SUBSET Nat
      /\ KeyWindow \in Nat \ {0} /\ KeyRequests \in Nat \ {0} /\ released \in Seq(KyAcquire)
      /\ excused \subseteq KeyTasks
  BY KeyConstants DEF KeyInv, KeyTyped
<1>3. \A u \in KeyTasks : Key!Asleep(u) =>
          /\ sleeper[u].arrived \in KyTime /\ sleeper[u].arrived \in Nat /\ sleeper[u].until \in Nat
          /\ sleeper[u].arrived <= keyNow /\ sleeper[u].arrived < sleeper[u].until
          /\ sleeper[u].until <= sleeper[u].arrived + KeyWindow
  <2>1. \A u \in KeyTasks : /\ sleeper[u].arrived \in KyTime /\ sleeper[u].arrived \in Nat
                            /\ sleeper[u].until \in Nat
    <3>1. \A n \in Nat : 0..n \subseteq Nat
      OBVIOUS
    <3>2. 0..(KeyTime + KeyWindow) \subseteq Nat
      BY <3>1, KeyConstants
    <3>3. \A u \in KeyTasks : /\ sleeper[u].arrived \in KyTime
                              /\ sleeper[u].until \in 0..(KeyTime + KeyWindow)
      BY <1>2 DEF KySleep
    <3> QED
      BY <1>2, <3>2, <3>3
  <2> QED
    BY <2>1 DEF KeyInv, KeyTimes
<1>4. arr \in KyTime /\ arr \in Nat /\ arr < keyNow /\ e \in KyAcquire
  BY <1>1, <1>2, <1>3 DEF KyAcquire
<1>5. kept \in Seq(KyTime) /\ ToSet(kept) \subseteq ToSet(requests)
  BY <1>2, KeepElements
<1>6. requests' \in Seq(KyTime) /\ ToSet(requests') = ToSet(kept) \union {arr}
  BY <1>1, <1>4, <1>5, AppendContents
<1>7. /\ sleeper'[t] = awake /\ ~Key!Asleep(t)' /\ ~Waits(t)'
      /\ \A u \in KeyTasks : u # t => /\ sleeper'[u] = sleeper[u]
                                      /\ Key!Asleep(u)' <=> Key!Asleep(u)
                                      /\ Waits(u)' <=> Waits(u)
  BY <1>1, <1>2 DEF Waits, Key!Asleep, Key!Awake
<1> HIDE DEF kept
<1>8. KeyTyped'
  <2>1. awake \in KySleep
    BY KeyConstants DEF KySleep
  <2>2. released' \in Seq(KyAcquire)
    BY <1>1, <1>2, <1>4
  <2> QED
    BY <1>1, <1>2, <1>6, <2>1, <2>2 DEF KeyTyped
<1>9. KeyTimes'
  <2>1. \A r \in ToSet(requests') : r <= keyNow
    BY <1>2, <1>4, <1>5, <1>6 DEF KeyInv, KeyTimes
  <2>2. ASSUME NEW i \in DOMAIN released'
        PROVE  released'[i].arrived <= released'[i].at /\ released'[i].at <= keyNow
    <3>1. CASE i \in DOMAIN released
      <4>1. released'[i] = released[i]
        BY <1>1, <1>2, <1>4, <3>1, ReleasedGrows
      <4> QED
        BY <3>1, <4>1 DEF KeyInv, KeyTimes
    <3>2. CASE i = Len(released) + 1
      <4>1. released'[i] = e
        BY <1>1, <1>2, <1>4, <3>2, ReleasedGrows
      <4> QED
        BY <1>2, <1>4, <4>1
    <3> QED
      BY <1>1, <1>2, <1>4, <3>1, <3>2, ReleasedGrows
  <2>3. \A u \in excused' : Key!Asleep(u)'
    BY <1>1, <1>2, <1>7 DEF KeyInv, KeyTimes
  <2> QED
    BY <1>1, <1>3, <1>7, <2>1, <2>2, <2>3 DEF KeyTimes
<1>10. KeyCounted'
  <2>1. Arrivals' = Append(Arrivals, arr) /\ Arrivals \in Seq(KyTime)
    BY <1>1, <1>2, <1>4, ReleasedGrows
  <2>2. arr <= keyNow
    BY <1>2, <1>4
  <2>3. Agree(requests', Arrivals', KyTime, keyNow, KeyWindow)
    BY <1>1, <1>2, <1>4, <2>1, <2>2, LateAgreement DEF kept, KeyInv, KeyCounted
  <2>4. e.arrived # e.at
    BY <1>2, <1>4
  <2>5. Key!DirectRespectsWindow'
    BY <1>1, <1>2, <1>4, <2>4, DirectGrows DEF KeyInv, KeyCounted
  <2> QED
    BY <1>1, <2>3, <2>5 DEF KeyCounted
<1>11. KeyFull'
  <2> SUFFICES ASSUME NEW u \in KeyTasks, Waits(u)', keyNow < sleeper'[u].until
               PROVE  Len(Keep(requests', Until(sleeper'[u].until))) >= KeyRequests
    BY <1>1 DEF KeyFull
  <2> DEFINE E == sleeper[u].until
  <2>1. u # t
    BY <1>7
  <2>2. E \in Nat /\ Len(Keep(requests, Until(E))) >= KeyRequests /\ keyNow < E
    BY <1>3, <1>7, <2>1 DEF KeyInv, KeyFull, Waits
  <2>3. arr <= keyNow
    BY <1>2, <1>4
  <2>4. Len(Keep(Append(kept, arr), Until(E))) >= KeyRequests
    BY <1>2, <1>4, <2>2, <2>3, FullKept DEF kept
  <2> QED
    BY <1>1, <1>7, <2>1, <2>4
<1>12. KeyAge'
  <2> SUFFICES ASSUME NEW u \in KeyTasks, Waits(u)', ~Key!Belated(u)', NEW r \in ToSet(requests')
               PROVE  r + KeyWindow >= sleeper'[u].until
    BY DEF KeyAge
  <2>1. u # t /\ sleeper'[u] = sleeper[u] /\ Waits(u)
    BY <1>7
  <2>2. ~Key!Belated(u) /\ ~(arr + KeyWindow < sleeper[u].until /\ keyNow >= sleeper[u].arrived)
    BY <1>1, <1>2, <1>4, <2>1, BelatedGrows
  <2>3. CASE r \in ToSet(requests)
    BY <2>1, <2>2, <2>3 DEF KeyInv, KeyAge
  <2>4. CASE r = arr
    BY <1>2, <1>3, <1>4, <2>1, <2>2, <2>4 DEF Waits
  <2> QED
    BY <1>5, <1>6, <2>3, <2>4
<1>13. KeyOrder'
  <2>1. \A u \in KeyTasks : /\ Waits(u)' => Waits(u)
                            /\ Key!Asleep(u)' => Key!Asleep(u) /\ sleeper'[u] = sleeper[u]
    BY <1>7
  <2>2. excused' \subseteq excused
    BY <1>1
  <2> QED
    BY <1>1, <1>2, <1>4, <2>1, <2>2, OrderKept DEF KeyInv
<1>14. Key!NoOvertaking'
  <2>1. \A u \in KeyTasks : Waits(u)' => Waits(u) /\ sleeper'[u] = sleeper[u]
    BY <1>7
  <2>2. ASSUME NEW u \in KeyTasks, Waits(u)', sleeper[u].arrived < e.arrived, e.at < sleeper[u].until
        PROVE  e.arrived < e.at /\ Key!Belated(u)
    <3>1. Waits(u) /\ sleeper[u].until \in Nat /\ sleeper[t].until \in Nat
      BY <1>1, <1>3, <2>1, <2>2 DEF Waits
    <3>2. Key!Belated(u) \/ sleeper[u].until <= sleeper[t].until
      BY <1>1, <2>2, <3>1 DEF KeyInv, KeyOrder
    <3>3. ~(sleeper[u].until <= sleeper[t].until)
      BY <1>1, <1>2, <2>2, <3>1
    <3> QED
      BY <1>4, <3>2, <3>3
  <2> QED
    BY <1>1, <1>2, <1>4, <2>1, <2>2, OvertakingGrows DEF KeyInv
<1> QED
  BY <1>8, <1>9, <1>10, <1>11, <1>12, <1>13, <1>14 DEF KeyInv

LEMMA KeyTicks == ASSUME KeyInv, Key!Tick PROVE KeyInv'
<1>1. /\ keyNow' = keyNow + 1 /\ keyNow < KeyTime
      /\ UNCHANGED <<requests, sleeper, released, excused>>
  BY DEF Key!Tick
<1>2. /\ KeyTyped /\ requests \in Seq(KyTime) /\ keyNow \in KyTime /\ keyNow \in Nat
      /\ KyTime \in SUBSET Nat /\ KeyWindow \in Nat \ {0} /\ released \in Seq(KyAcquire)
      /\ sleeper \in [KeyTasks -> KySleep] /\ keyNow' \in KyTime /\ keyNow' \in Nat
      /\ excused \subseteq KeyTasks
  BY <1>1, KeyConstants DEF KeyInv, KeyTyped, KyTime
<1>3. KeyTyped'
  BY <1>1, <1>2 DEF KeyTyped
<1>4. /\ \A u : (Key!Asleep(u)' <=> Key!Asleep(u)) /\ (Waits(u)' <=> Waits(u))
      /\ \A u : Key!Belated(u)' <=> Key!Belated(u)
  BY <1>1 DEF Key!Asleep, Waits, Key!Belated
<1>5. KeyTimes'
  <2>1. \A x \in Nat : x <= keyNow => x <= keyNow'
    BY <1>1, <1>2
  <2>2. \A r \in ToSet(requests) : r \in Nat /\ r <= keyNow
    BY <1>2, ElementsIn DEF KeyInv, KeyTimes
  <2>3. \A i \in DOMAIN released : released[i].at \in Nat
    <3>1. DOMAIN released = 1..Len(released) /\ \A i \in 1..Len(released) : released[i] \in KyAcquire
      BY <1>2
    <3> QED
      BY <1>2, <3>1 DEF KyAcquire
  <2>4. \A u \in KeyTasks : sleeper[u].arrived \in Nat
    BY <1>2 DEF KySleep
  <2> QED
    BY <1>1, <1>4, <2>1, <2>2, <2>3, <2>4 DEF KeyInv, KeyTimes
<1>6. KeyCounted'
  <2>1. Arrivals' = Arrivals /\ Arrivals \in Seq(KyTime)
    BY <1>1, <1>2, ArrivalFacts DEF Arrivals
  <2>2. keyNow <= keyNow' /\ KeyWindow \in Nat /\ KeyWindow <= KeyWindow
    BY <1>1, <1>2
  <2>3. Agree(requests, Arrivals, KyTime, keyNow', KeyWindow)
    BY <1>2, <2>1, <2>2, AgreementKept DEF KeyInv, KeyCounted
  <2> QED
    BY <1>1, <2>1, <2>3 DEF KeyInv, KeyCounted, Key!DirectRespectsWindow
<1>7. KeyFull'
  <2> SUFFICES ASSUME NEW u \in KeyTasks, Waits(u), keyNow' < sleeper[u].until
               PROVE  Len(Keep(requests, Until(sleeper[u].until))) >= KeyRequests
    BY <1>1, <1>4 DEF KeyFull
  <2>1. keyNow < sleeper[u].until
    BY <1>1, <1>2, KeyConstants DEF KySleep
  <2> QED
    BY <2>1 DEF KeyInv, KeyFull
<1>8. KeyAge'
  BY <1>1, <1>4 DEF KeyInv, KeyAge
<1>9. KeyOrder'
  BY <1>1, <1>4 DEF KeyInv, KeyOrder
<1>10. Key!NoOvertaking'
  BY <1>1, <1>4 DEF KeyInv, Key!NoOvertaking
<1> QED
  BY <1>3, <1>5, <1>6, <1>7, <1>8, <1>9, <1>10 DEF KeyInv

LEMMA KeyResets == ASSUME KeyInv, Key!Reset PROVE KeyInv'
<1>1. /\ requests' = << >> /\ released' = << >> /\ excused' = {u \in KeyTasks : Key!Asleep(u)}
      /\ UNCHANGED <<sleeper, keyNow>>
  BY DEF Key!Reset
<1>2. \A u \in KeyTasks : (Key!Asleep(u)' <=> Key!Asleep(u)) /\ ~Waits(u)'
  BY <1>1 DEF Key!Asleep, Waits
<1>3. KeyTyped'
  BY <1>1, EmptyContents DEF KeyInv, KeyTyped
<1>4. KeyTimes'
  BY <1>1, <1>2, EmptyContents DEF KeyInv, KeyTimes
<1>5. KeyCounted'
  <2>1. Arrivals' = << >>
    BY <1>1 DEF Arrivals, Mapped
  <2> QED
    BY <1>1, <2>1, EmptyAgree DEF KeyCounted, Key!DirectRespectsWindow
<1> QED
  BY <1>1, <1>2, <1>3, <1>4, <1>5
     DEF KeyInv, KeyFull, KeyAge, KeyOrder, Key!NoOvertaking

LEMMA KeyStays == ASSUME KeyInv, UNCHANGED keyVars PROVE KeyInv'
<1>1. UNCHANGED <<requests, sleeper, keyNow, released, excused>>
  BY DEF keyVars
<1>2. /\ \A u : (Key!Asleep(u)' <=> Key!Asleep(u)) /\ (Waits(u)' <=> Waits(u))
      /\ \A u : Key!Belated(u)' <=> Key!Belated(u)
  BY <1>1 DEF Key!Asleep, Waits, Key!Belated
<1>3. KeyTyped' /\ KeyTimes' /\ Arrivals' = Arrivals
  BY <1>1, <1>2 DEF KeyInv, KeyTyped, KeyTimes, Arrivals
<1>4. KeyCounted'
  BY <1>1, <1>3 DEF KeyInv, KeyCounted, Key!DirectRespectsWindow
<1>5. KeyFull' /\ KeyAge' /\ KeyOrder' /\ Key!NoOvertaking'
  BY <1>1, <1>2 DEF KeyInv, KeyFull, KeyAge, KeyOrder, Key!NoOvertaking
<1> QED
  BY <1>3, <1>4, <1>5 DEF KeyInv

LEMMA KeyNext == ASSUME KeyInv, [Key!Next]_keyVars PROVE KeyInv'
<1>1. CASE Key!Tick
  BY <1>1, KeyTicks
<1>2. CASE Key!Reset
  BY <1>2, KeyResets
<1>3. ASSUME NEW t \in KeyTasks, Key!AcquireAtOnce(t) PROVE KeyInv'
  BY <1>3, KeyAtOnce
<1>4. ASSUME NEW t \in KeyTasks, Key!FallAsleep(t) PROVE KeyInv'
  BY <1>4, KeySleeps
<1>5. ASSUME NEW t \in KeyTasks, Key!WakeUp(t) PROVE KeyInv'
  BY <1>5, KeyWakes
<1>6. CASE UNCHANGED keyVars
  BY <1>6, KeyStays
<1> QED
  BY <1>1, <1>2, <1>3, <1>4, <1>5, <1>6 DEF Key!Next

LEMMA KeyShows ==
    ASSUME KeyInv
    PROVE  Key!TypeOK /\ Key!DirectRespectsWindow /\ Key!NoOvertaking
  BY DEF KeyInv, KeyTyped, KeyCounted, KySleep, KyAcquire, KyTime, Key!TypeOK, Key!Time
------------------------------------------------------------------------------
(***************************************************************************)
(* The invariants of all parts, and what they show.                        *)
(***************************************************************************)
\* A step of the composition moves each part, or leaves it as it is.
LEMMA Moves ==
    [MCNext]_MCvars =>
        /\ [Key!Next]_keyVars /\ [IP!Next]_ipVars /\ [Adaptive!Next]_adaptiveVars
        /\ [Auth!Next]_authVars /\ [Tier!Next]_tierVars /\ [Role!Next]_roleVars
  BY DEF MCNext, MCvars

LEMMA IPInvariance == MCSpec => []IPInv
<1>1. MCInit => IPInv
  BY IPInit DEF MCInit
<1>2. IPInv /\ [MCNext]_MCvars => IPInv'
  BY IPNext, Moves
<1> QED
  BY <1>1, <1>2, PTL DEF MCSpec

LEMMA AuthInvariance == MCSpec => []AuthInv
<1>1. MCInit => AuthInv
  BY AuthInit DEF MCInit
<1>2. AuthInv /\ [MCNext]_MCvars => AuthInv'
  BY AuthNext, Moves
<1> QED
  BY <1>1, <1>2, PTL DEF MCSpec

LEMMA TierInvariance == MCSpec => []TierInv
<1>1. MCInit => TierInv
  BY TierInit DEF MCInit
<1>2. TierInv /\ [MCNext]_MCvars => TierInv'
  BY TierNext, Moves
<1> QED
  BY <1>1, <1>2, PTL DEF MCSpec

LEMMA RoleInvariance == MCSpec => []RoleInv
<1>1. MCInit => RoleInv
  BY RoleInit DEF MCInit
<1>2. RoleInv /\ [MCNext]_MCvars => RoleInv'
  BY RoleNext, Moves
<1> QED
  BY <1>1, <1>2, PTL DEF MCSpec

LEMMA AdaptiveInvariance == MCSpec => []AdaptiveInv
<1>1. MCInit => AdaptiveInv
  BY AdaptiveInit DEF MCInit
<1>2. AdaptiveInv /\ [MCNext]_MCvars => AdaptiveInv'
  BY AdaptiveNext, Moves
<1> QED
  BY <1>1, <1>2, PTL DEF MCSpec

LEMMA KeyInvariance == MCSpec => []KeyInv
<1>1. MCInit => KeyInv
  BY KeyInit DEF MCInit
<1>2. KeyInv /\ [MCNext]_MCvars => KeyInv'
  BY KeyNext, Moves
<1> QED
  BY <1>1, <1>2, PTL DEF MCSpec

\* Type correctness of all limiters; no list of requests outgrows its limit.
THEOREM LimitersAreWellTyped == MCSpec => []LimitersTypeOK
<1>1. IPInv /\ AuthInv /\ TierInv /\ RoleInv /\ AdaptiveInv /\ KeyInv => LimitersTypeOK
  BY IPShows, AuthShows, TierShows, RoleShows, AdaptiveShows, KeyShows DEF LimitersTypeOK
<1> QED
  BY <1>1, IPInvariance, AuthInvariance, TierInvariance, RoleInvariance, AdaptiveInvariance,
     KeyInvariance, PTL

\* However requests of all kinds, clean-ups, resets and the clock interleave: wherever a
\* limiter's window is laid, no more was admitted in it than the limit.
THEOREM NoWindowIsExceeded == MCSpec => []LimitsRespected
<1>1. IPInv /\ AuthInv /\ TierInv /\ RoleInv /\ KeyInv => LimitsRespected
  BY IPShows, AuthShows, TierShows, RoleShows, KeyShows DEF LimitsRespected
<1> QED
  BY <1>1, IPInvariance, AuthInvariance, TierInvariance, RoleInvariance, KeyInvariance, PTL

\* What counts against a limit is what was admitted: refusals cost nothing of the day,
\* inquiries forget nothing, and who sat out a ban starts afresh.
THEOREM CountsAreTrue == MCSpec => []CountsWhatWasAdmitted
<1>1. AuthInv /\ TierInv /\ RoleInv => CountsWhatWasAdmitted
  BY AuthShows, TierShows, RoleShows DEF CountsWhatWasAdmitted
<1> QED
  BY <1>1, AuthInvariance, TierInvariance, RoleInvariance, PTL

\* While a task sleeps in RateLimiter.acquire nobody who came later goes first, except
\* after a shorter sleep that it owes to somebody who was let through belatedly.
THEOREM NobodyIsOvertaken == MCSpec => []NoOvertaking
<1>1. KeyInv => NoOvertaking
  BY KeyShows DEF NoOvertaking
<1> QED
  BY <1>1, KeyInvariance, PTL

\* Who waits for as long as it was told is admitted: retry_after of an address reaches to
\* where its limit has room, and the adaptive delay is between any two requests.
THEOREM WaitingIsEnough == MCSpec => []WaitingSuffices
<1>1. IPInv /\ AdaptiveInv => WaitingSuffices
  BY IPShows, AdaptiveShows DEF WaitingSuffices
<1> QED
  BY <1>1, IPInvariance, AdaptiveInvariance, PTL

\* No attempt of any kind ends, prolongs or replaces a ban; only reset and time do.
THEOREM BansStand == MCSpec => BanStands
<1>1. [MCNext]_MCvars =>
          [bannedUntil # None /\ auNow < bannedUntil
             => bannedUntil' = bannedUntil \/ Auth!Reset]_(Auth!vars)
  BY Moves, BanStep
<1> QED
  BY <1>1, PTL DEF MCSpec, BanStands, Auth!BanStands
==============================================================================
