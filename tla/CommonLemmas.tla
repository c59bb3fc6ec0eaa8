------------------------------ MODULE CommonLemmas ------------------------------
(***************************************************************************)
(* What the proofs about limiters, breakers and searches share: induction  *)
(* over the natural numbers and over lists, and functions defined by       *)
(* recursion over 0..n.  The induction theorems of the library take an     *)
(* operator; the lemmas here take sets and functions, which every backend  *)
(* instantiates: they follow from the library's WFMin, that a set of       *)
(* numbers has a least one.  Then what they give about Filtering's Keep    *)
(* and about windows over lists of times; and at the end what the          *)
(* operations of Breaker preserve and change.                              *)
(***************************************************************************)
EXTENDS Breaker, Filtering, SequencesExt, FiniteSetTheorems, SequenceTheorems,
        WellFoundedInduction, TLAPS

Below == OpToRel(<, Nat)

LEMMA BelowIsLess == \A m, n \in Nat : <<m, n>> \in Below <=> m < n
  BY DEF Below, OpToRel

\* A set of natural numbers has a least one.
LEMMA LeastNumber ==
    ASSUME NEW T, T \subseteq Nat, T # {}
    PROVE  \E n \in T : \A m \in T : n <= m
<1>1. IsWellFoundedOn(Below, Nat)
  BY NatLessThanWellFounded DEF Below
<1>2. PICK n \in T : \A m \in T : ~(<<m, n>> \in Below)
  BY <1>1, WFMin
<1>3. ASSUME NEW m \in T PROVE n <= m
  <2>1. m \in Nat /\ n \in Nat
    OBVIOUS
  <2>2. ~(m < n)
    BY <1>2, <2>1, BelowIsLess
  <2> QED
    BY <2>1, <2>2
<1> QED
  BY <1>3

\* Min takes the smallest.
LEMMA SmallestOf ==
    ASSUME NEW S, S \subseteq Nat, S # {}
    PROVE  LET m == CHOOSE x \in S : \A y \in S : x <= y IN m \in S /\ \A y \in S : m <= y
  BY LeastNumber

\* Induction: the set of the numbers that have a property.
LEMMA Induction ==
    ASSUME NEW T, 0 \in T, \A n \in Nat : n \in T => n + 1 \in T
    PROVE  Nat \subseteq T
<1> SUFFICES ASSUME Nat \ T # {} PROVE FALSE
  OBVIOUS
<1>1. PICK n \in Nat \ T : \A m \in Nat \ T : n <= m
  BY LeastNumber
<1>2. n - 1 \in Nat /\ n - 1 \in T
  BY <1>1
<1> QED
  BY <1>1, <1>2

\* The same up to a bound.
LEMMA InductionUpTo ==
    ASSUME NEW n \in Nat, NEW T, 0 \in T, \A i \in 0..(n - 1) : i \in T => i + 1 \in T
    PROVE  0..n \subseteq T
<1> DEFINE U == {m \in Nat : m <= n => m \in T}
<1>1. 0 \in U
  OBVIOUS
<1>2. ASSUME NEW m \in Nat, m \in U PROVE m + 1 \in U
  BY <1>2
<1>3. Nat \subseteq U
  <2> HIDE DEF U
  <2> QED
    BY <1>1, <1>2, Induction
<1> QED
  BY <1>3

\* Induction over sequences: the set of the sequences that have a property.
LEMMA SeqInduction ==
    ASSUME NEW R, NEW P, << >> \in P,
           \A s \in Seq(R), x \in R : s \in P => Append(s, x) \in P
    PROVE  Seq(R) \subseteq P
<1> DEFINE T == {n \in Nat : \A s \in Seq(R) : Len(s) = n => s \in P}
<1>1. 0 \in T
  OBVIOUS
<1>2. ASSUME NEW n \in Nat, n \in T PROVE n + 1 \in T
  <2> SUFFICES ASSUME NEW s \in Seq(R), Len(s) = n + 1 PROVE s \in P
    OBVIOUS
  <2> DEFINE front == [i \in 1..n |-> s[i]]
  <2>1. front \in Seq(R) /\ Len(front) = n /\ s[n + 1] \in R
    OBVIOUS
  <2>2. s = Append(front, s[n + 1])
    OBVIOUS
  <2>3. front \in P
    BY <1>2, <2>1
  <2> HIDE DEF front
  <2> QED
    BY <2>1, <2>2, <2>3
<1>3. Nat \subseteq T
  <2> HIDE DEF T
  <2> QED
    BY <1>1, <1>2, Induction
<1> QED
  BY <1>3
------------------------------------------------------------------------------
\* step[i] makes the value at i from the one before it.
Steps(S, n) == [1..n -> [S -> S]]

IsRun(g, S, base, n, step) ==
    /\ g \in [0..n -> S]
    /\ g[0] = base
    /\ \A i \in 1..n : g[i] = step[i][g[i - 1]]

\* A recursion over 0..n has a solution.
LEMMA Recursion ==
    ASSUME NEW S, NEW base \in S, NEW n \in Nat, NEW step \in Steps(S, n)
    PROVE  \E g : IsRun(g, S, base, n, step)
<1> DEFINE T == {m \in 0..n : \E g : IsRun(g, S, base, m, step)}
<1>1. 0 \in T
  <2>1. IsRun([i \in 0..0 |-> base], S, base, 0, step)
    BY DEF IsRun
  <2> QED
    BY <2>1
<1>2. ASSUME NEW m \in 0..(n - 1), m \in T PROVE m + 1 \in T
  <2>1. PICK g : IsRun(g, S, base, m, step)
    BY <1>2
  <2> DEFINE h == [i \in 0..(m + 1) |-> IF i = m + 1 THEN step[m + 1][g[m]] ELSE g[i]]
  <2>2. h \in [0..(m + 1) -> S]
    BY <2>1 DEF IsRun, Steps
  <2>3. h[0] = base
    BY <2>1 DEF IsRun
  <2>4. ASSUME NEW i \in 1..(m + 1) PROVE h[i] = step[i][h[i - 1]]
    <3>1. CASE i = m + 1
      BY <3>1
    <3>2. CASE i # m + 1
      <4>1. i \in 1..m /\ i - 1 \in 0..m /\ i - 1 # m + 1
        BY <3>2
      <4> QED
        BY <2>1, <4>1 DEF IsRun
    <3> QED
      BY <3>1, <3>2
  <2> HIDE DEF h
  <2>5. IsRun(h, S, base, m + 1, step)
    BY <2>2, <2>3, <2>4 DEF IsRun
  <2> QED
    BY <2>5
<1>3. n \in T
  <2> HIDE DEF T
  <2> QED
    BY <1>1, <1>2, InductionUpTo
<1> QED
  BY <1>3
------------------------------------------------------------------------------
(***************************************************************************)
(* Keep, the clean-up of a list, by induction over the list.               *)
(***************************************************************************)
KeptBy(g, s, S, R) ==
    /\ g \in [0..Len(s) -> Seq(R)]
    /\ g[0] = << >>
    /\ \A i \in 1..Len(s) : g[i] = IF s[i] \in S THEN Append(g[i - 1], s[i]) ELSE g[i - 1]

\* The recursion in Keep.
LEMMA KeepUnfolds ==
    ASSUME NEW R, NEW S, NEW s \in Seq(R)
    PROVE  \E g : KeptBy(g, s, S, R) /\ Keep(s, S) = g[Len(s)]
<1> DEFINE n == Len(s)
           Q == Seq(R)
           next(q, i) == IF s[i] \in S THEN Append(q, s[i]) ELSE q
           step == [i \in 1..n |-> [q \in Q |-> next(q, i)]]
           base == << >>
           h[i \in 0..n] == IF i = 0 THEN base ELSE IF s[i] \in S THEN Append(h[i - 1], s[i])
                                                     ELSE h[i - 1]
<1>1. n \in Nat /\ base \in Q
  OBVIOUS
<1>2. \A i \in 1..n, q \in Q : next(q, i) \in Q
  OBVIOUS
<1>3. Keep(s, S) = h[n]
  BY DEF Keep
<1> HIDE DEF n, Q, base, next
<1>4. step \in Steps(Q, n) /\ \A i \in 1..n, q \in Q : step[i][q] = next(q, i)
  BY <1>2 DEF Steps
<1> HIDE DEF step
<1>5. PICK g : IsRun(g, Q, base, n, step)
  BY <1>1, <1>4, Recursion
<1>6. g \in [0..n -> Q] /\ g[0] = base
  BY <1>5 DEF IsRun
<1>7. ASSUME NEW i \in 1..n PROVE i - 1 \in 0..n /\ g[i] = next(g[i - 1], i)
  <2>1. i - 1 \in 0..n
    BY <1>1
  <2> QED
    BY <1>4, <1>5, <1>6, <2>1 DEF IsRun
<1>8. g = [i \in 0..n |-> IF i = 0 THEN base
                          ELSE IF s[i] \in S THEN Append(g[i - 1], s[i]) ELSE g[i - 1]]
  <2>1. \A i \in 0..n : g[i] = IF i = 0 THEN base ELSE IF s[i] \in S THEN Append(g[i - 1], s[i])
                                                       ELSE g[i - 1]
    <3>1. \A i \in 0..n : i = 0 \/ i \in 1..n
      BY <1>1
    <3>2. \A i \in 1..n : i # 0
      BY <1>1
    <3> QED
      BY <1>6, <1>7, <3>1, <3>2, Zenon DEF next
  <2> QED
    BY <1>6, <2>1
<1>9. h = [i \in 0..n |-> IF i = 0 THEN base
                          ELSE IF s[i] \in S THEN Append(h[i - 1], s[i]) ELSE h[i - 1]]
  BY <1>8, Zenon
<1> HIDE DEF h
<1>10. h[0] = base /\ \A i \in 1..n : h[i] = next(h[i - 1], i)
  <2>1. 0 \in 0..n /\ \A i \in 1..n : i \in 0..n /\ i # 0
    BY <1>1
  <2>2. \A i \in 0..n : h[i] = IF i = 0 THEN base ELSE next(h[i - 1], i)
    BY <1>9, Zenon DEF next
  <2> QED
    BY <2>1, <2>2, Zenon
<1>11. h \in [0..n -> Q]
  <2> DEFINE T == {i \in 0..n : h[i] \in Q}
  <2>1. 0 \in T
    BY <1>1, <1>10
  <2>2. ASSUME NEW i \in 0..(n - 1), i \in T PROVE i + 1 \in T
    <3>1. i + 1 \in 1..n /\ (i + 1) - 1 = i /\ h[i] \in Q
      BY <1>1, <2>2
    <3> QED
      BY <1>1, <1>2, <1>10, <3>1
  <2>3. 0..n \subseteq T
    <3> HIDE DEF T
    <3> QED
      BY <1>1, <2>1, <2>2, InductionUpTo
  <2>4. h = [i \in 0..n |-> h[i]]
    BY <1>9
  <2> QED
    BY <2>3, <2>4
<1>12. KeptBy(h, s, S, R)
  BY <1>10, <1>11 DEF KeptBy, n, Q, base, next
<1> QED
  BY <1>3, <1>12 DEF n

LEMMA KeepEmpty == \A S : Keep(<< >>, S) = << >>
<1> TAKE S
<1>1. << >> \in Seq({}) /\ Len(<< >>) = 0
  OBVIOUS
<1>2. \E g : KeptBy(g, << >>, S, {}) /\ Keep(<< >>, S) = g[Len(<< >>)]
  BY <1>1, KeepUnfolds
<1> QED
  BY <1>1, <1>2 DEF KeptBy

LEMMA AppendContents ==
    ASSUME NEW R, NEW s \in Seq(R), NEW x \in R
    PROVE  /\ Append(s, x) \in Seq(R) /\ Len(Append(s, x)) = Len(s) + 1
           /\ ToSet(Append(s, x)) = ToSet(s) \union {x}
<1>1. /\ Len(s) \in Nat /\ Append(s, x) \in Seq(R) /\ Len(Append(s, x)) = Len(s) + 1
      /\ Append(s, x)[Len(s) + 1] = x /\ \A i \in 1..Len(s) : Append(s, x)[i] = s[i]
      /\ DOMAIN s = 1..Len(s) /\ DOMAIN Append(s, x) = 1..(Len(s) + 1)
  OBVIOUS
<1>2. \A i : i \in 1..(Len(s) + 1) <=> i \in 1..Len(s) \/ i = Len(s) + 1
  BY <1>1
<1> QED
  BY <1>1, <1>2 DEF ToSet

LEMMA EmptyContents == \A R : << >> \in Seq(R) /\ ToSet(<< >>) = {} /\ Len(<< >>) = 0
  BY DEF ToSet

LEMMA KeepAppend ==
    ASSUME NEW R, NEW S, NEW s \in Seq(R), NEW x \in R
    PROVE  Keep(Append(s, x), S) = IF x \in S THEN Append(Keep(s, S), x) ELSE Keep(s, S)
<1> DEFINE n == Len(s)
           t == Append(s, x)
<1>1. n \in Nat /\ t \in Seq(R) /\ Len(t) = n + 1 /\ t[n + 1] = x /\ \A i \in 1..n : t[i] = s[i]
  OBVIOUS
<1>2. PICK g : KeptBy(g, s, S, R) /\ Keep(s, S) = g[n]
  BY KeepUnfolds
<1> HIDE DEF t
<1>3. PICK h : KeptBy(h, t, S, R) /\ Keep(t, S) = h[n + 1]
  BY <1>1, KeepUnfolds
<1> DEFINE T == {i \in 0..n : g[i] = h[i]}
<1>4. 0 \in T
  BY <1>1, <1>2, <1>3 DEF KeptBy
<1>5. ASSUME NEW i \in 0..(n - 1), i \in T PROVE i + 1 \in T
  <2>1. i + 1 \in 1..n /\ i + 1 \in 1..(n + 1) /\ (i + 1) - 1 = i /\ t[i + 1] = s[i + 1]
    BY <1>1
  <2>2. g[i + 1] = (IF s[i + 1] \in S THEN Append(g[i], s[i + 1]) ELSE g[i])
    BY <1>2, <2>1 DEF KeptBy
  <2>3. h[i + 1] = (IF s[i + 1] \in S THEN Append(h[i], s[i + 1]) ELSE h[i])
    BY <1>1, <1>3, <2>1 DEF KeptBy
  <2> QED
    BY <1>1, <1>5, <2>1, <2>2, <2>3
<1>6. n \in T
  <2> HIDE DEF T, n
  <2>1. 0..n \subseteq T
    BY <1>1, <1>4, <1>5, InductionUpTo
  <2> QED
    BY <1>1, <2>1
<1>7. h[n + 1] = IF x \in S THEN Append(h[n], x) ELSE h[n]
  <2>1. n + 1 \in 1..(n + 1) /\ (n + 1) - 1 = n
    BY <1>1
  <2> QED
    BY <1>1, <1>3, <2>1 DEF KeptBy
<1> QED
  BY <1>2, <1>3, <1>6, <1>7 DEF t

\* What is kept is some of the elements, all that are in the set.
LEMMA KeepElements ==
    ASSUME NEW R, NEW S, NEW s \in Seq(R)
    PROVE  /\ Keep(s, S) \in Seq(R) /\ Len(Keep(s, S)) <= Len(s)
           /\ ToSet(Keep(s, S)) = ToSet(s) \intersect S
<1> DEFINE P == {q \in Seq(R) : /\ Keep(q, S) \in Seq(R) /\ Len(Keep(q, S)) <= Len(q)
                                /\ ToSet(Keep(q, S)) = ToSet(q) \intersect S}
<1>1. << >> \in P
  <2>1. Keep(<< >>, S) = << >> /\ << >> \in Seq(R) /\ ToSet(<< >>) = {} /\ Len(<< >>) = 0
    BY KeepEmpty, EmptyContents
  <2>2. /\ Keep(<< >>, S) \in Seq(R) /\ Len(Keep(<< >>, S)) <= Len(<< >>)
        /\ ToSet(Keep(<< >>, S)) = ToSet(<< >>) \intersect S
    <3>1. Keep(<< >>, S) \in Seq(R)
      BY <2>1, Zenon
    <3>2. Len(Keep(<< >>, S)) = Len(<< >>) /\ Len(<< >>) \in Nat
      BY <2>1
    <3>3. ToSet(Keep(<< >>, S)) = {} /\ ToSet(<< >>) \intersect S = {}
      BY <2>1
    <3> QED
      BY <3>1, <3>2, <3>3
  <2> QED
    BY <2>1, <2>2
<1>2. ASSUME NEW q \in Seq(R), NEW x \in R, q \in P PROVE Append(q, x) \in P
  <2>1. \A r \in Seq(R) : /\ Append(r, x) \in Seq(R) /\ Len(Append(r, x)) = Len(r) + 1
                          /\ ToSet(Append(r, x)) = ToSet(r) \union {x}
    BY AppendContents
  <2>2. Keep(Append(q, x), S) = IF x \in S THEN Append(Keep(q, S), x) ELSE Keep(q, S)
    BY KeepAppend
  <2>3. /\ Keep(q, S) \in Seq(R) /\ Len(Keep(q, S)) \in Nat /\ Len(q) \in Nat
        /\ Len(Keep(q, S)) <= Len(q) /\ ToSet(Keep(q, S)) = ToSet(q) \intersect S
    BY <1>2
  <2>4. CASE x \in S
    <3>1. /\ Keep(Append(q, x), S) \in Seq(R)
          /\ Len(Keep(Append(q, x), S)) = Len(Keep(q, S)) + 1
          /\ ToSet(Keep(Append(q, x), S)) = ToSet(Keep(q, S)) \union {x}
      BY <2>1, <2>2, <2>3, <2>4
    <3>2. ToSet(Keep(Append(q, x), S)) = ToSet(Append(q, x)) \intersect S
      BY <2>1, <2>3, <2>4, <3>1
    <3> QED
      BY <2>1, <2>3, <3>1, <3>2
  <2>5. CASE x \notin S
    <3>1. ToSet(Keep(q, S)) = ToSet(Append(q, x)) \intersect S
      BY <2>1, <2>3, <2>5
    <3> QED
      BY <2>1, <2>2, <2>3, <2>5, <3>1
  <2> QED
    BY <2>4, <2>5
<1>3. s \in P
  <2> HIDE DEF P
  <2> QED
    BY <1>1, <1>2, SeqInduction
<1> QED
  BY <1>3

LEMMA KeepAgain ==
    ASSUME NEW R, NEW A, NEW B, NEW s \in Seq(R)
    PROVE  Keep(Keep(s, A), B) = Keep(s, A \intersect B)
<1> DEFINE P == {q \in Seq(R) : Keep(Keep(q, A), B) = Keep(q, A \intersect B)}
<1>1. << >> \in P
  <2>1. << >> \in Seq(R)
    OBVIOUS
  <2> QED
    BY <2>1, KeepEmpty
<1>2. ASSUME NEW q \in Seq(R), NEW x \in R, q \in P PROVE Append(q, x) \in P
  <2>1. Append(q, x) \in Seq(R) /\ Keep(q, A) \in Seq(R)
    BY KeepElements
  <2>2. /\ Keep(Append(q, x), A) = IF x \in A THEN Append(Keep(q, A), x) ELSE Keep(q, A)
        /\ Keep(Append(Keep(q, A), x), B) = (IF x \in B THEN Append(Keep(Keep(q, A), B), x)
                                             ELSE Keep(Keep(q, A), B))
        /\ Keep(Append(q, x), A \intersect B) =
               IF x \in A \intersect B THEN Append(Keep(q, A \intersect B), x)
               ELSE Keep(q, A \intersect B)
    BY <2>1, KeepAppend
  <2>3. Keep(Keep(q, A), B) = Keep(q, A \intersect B)
    BY <1>2
  <2>4. CASE x \in A
    <3>1. Keep(Append(q, x), A) = Append(Keep(q, A), x)
      BY <2>2, <2>4
    <3>2. x \in B <=> x \in A \intersect B
      BY <2>4
    <3> QED
      BY <2>1, <2>2, <2>3, <3>1, <3>2
  <2>5. CASE x \notin A
    <3>1. Keep(Append(q, x), A) = Keep(q, A) /\ x \notin A \intersect B
      BY <2>2, <2>5
    <3> QED
      BY <2>1, <2>2, <2>3, <3>1
  <2> QED
    BY <2>4, <2>5
<1>3. s \in P
  <2> HIDE DEF P
  <2> QED
    BY <1>1, <1>2, SeqInduction
<1> QED
  BY <1>3

LEMMA KeepAll ==
    ASSUME NEW R, NEW S, NEW s \in Seq(R), ToSet(s) \subseteq S
    PROVE  Keep(s, S) = s
<1> DEFINE P == {q \in Seq(R) : ToSet(q) \subseteq S => Keep(q, S) = q}
<1>1. << >> \in P
  <2>1. << >> \in Seq(R)
    OBVIOUS
  <2> QED
    BY <2>1, KeepEmpty
<1>2. ASSUME NEW q \in Seq(R), NEW x \in R, q \in P PROVE Append(q, x) \in P
  <2>1. Append(q, x) \in Seq(R) /\ ToSet(Append(q, x)) = ToSet(q) \union {x}
    BY AppendContents
  <2>2. Keep(Append(q, x), S) = IF x \in S THEN Append(Keep(q, S), x) ELSE Keep(q, S)
    BY KeepAppend
  <2> QED
    BY <1>2, <2>1, <2>2
<1>3. s \in P
  <2> HIDE DEF P
  <2> QED
    BY <1>1, <1>2, SeqInduction
<1> QED
  BY <1>3

\* Sets that differ by no element of the sequence keep the same of it.
LEMMA KeepSame ==
    ASSUME NEW R, NEW A, NEW B, NEW s \in Seq(R), \A x \in ToSet(s) : x \in A <=> x \in B
    PROVE  Keep(s, A) = Keep(s, B)
<1>1. Keep(s, ToSet(s)) = s
  BY KeepAll
<1>2. ToSet(s) \intersect A = ToSet(s) \intersect B
  OBVIOUS
<1>3. /\ Keep(Keep(s, ToSet(s)), A) = Keep(s, ToSet(s) \intersect A)
      /\ Keep(Keep(s, ToSet(s)), B) = Keep(s, ToSet(s) \intersect B)
  BY KeepAgain
<1> QED
  BY <1>1, <1>2, <1>3

LEMMA KeepFewer ==
    ASSUME NEW R, NEW A, NEW B, NEW s \in Seq(R), A \subseteq B
    PROVE  /\ Keep(Keep(s, B), A) = Keep(s, A)
           /\ Len(Keep(s, A)) <= Len(Keep(s, B))
<1>1. Keep(s, B) \in Seq(R) /\ B \intersect A = A
  BY KeepElements
<1>2. Keep(Keep(s, B), A) = Keep(s, A)
  BY <1>1, KeepAgain
<1>3. Len(Keep(Keep(s, B), A)) <= Len(Keep(s, B))
  BY <1>1, KeepElements
<1> QED
  BY <1>2, <1>3

LEMMA KeepLen ==
    ASSUME NEW R, NEW S, NEW s \in Seq(R)
    PROVE  LET places == {i \in 1..Len(s) : s[i] \in S} IN
           IsFiniteSet(places) /\ Len(Keep(s, S)) = Cardinality(places)
<1> DEFINE places(q) == {i \in 1..Len(q) : q[i] \in S}
           P == {q \in Seq(R) : /\ IsFiniteSet(places(q))
                                /\ Len(Keep(q, S)) = Cardinality(places(q))}
<1>1. << >> \in P
  <2>1. << >> \in Seq(R) /\ Len(<< >>) = 0 /\ places(<< >>) = {}
    OBVIOUS
  <2> QED
    BY <2>1, KeepEmpty, FS_EmptySet
<1>2. ASSUME NEW q \in Seq(R), NEW x \in R, q \in P PROVE Append(q, x) \in P
  <2> DEFINE n == Len(q)
  <2>1. /\ n \in Nat /\ Append(q, x) \in Seq(R) /\ Len(Append(q, x)) = n + 1
        /\ Append(q, x)[n + 1] = x /\ \A i \in 1..n : Append(q, x)[i] = q[i]
    OBVIOUS
  <2>2. Keep(Append(q, x), S) = IF x \in S THEN Append(Keep(q, S), x) ELSE Keep(q, S)
    BY KeepAppend
  <2>3. /\ IsFiniteSet(places(q)) /\ Len(Keep(q, S)) = Cardinality(places(q))
        /\ Keep(q, S) \in Seq(R) /\ n + 1 \notin places(q)
    BY <1>2, <2>1, KeepElements
  <2>4. CASE x \in S
    <3>1. places(Append(q, x)) = places(q) \union {n + 1}
      BY <2>1, <2>4
    <3>2. Len(Append(Keep(q, S), x)) = Len(Keep(q, S)) + 1
      BY <2>3
    <3> HIDE DEF places
    <3>3. /\ IsFiniteSet(places(q) \union {n + 1})
          /\ Cardinality(places(q) \union {n + 1}) = Cardinality(places(q)) + 1
      BY <2>3, FS_AddElement
    <3> QED
      BY <2>1, <2>2, <2>3, <2>4, <3>1, <3>2, <3>3
  <2>5. CASE x \notin S
    <3>1. places(Append(q, x)) = places(q)
      BY <2>1, <2>5
    <3> HIDE DEF places
    <3> QED
      BY <2>1, <2>2, <2>3, <2>5, <3>1
  <2> QED
    BY <2>4, <2>5
<1>3. s \in P
  <2> HIDE DEF P
  <2> QED
    BY <1>1, <1>2, SeqInduction
<1> QED
  BY <1>3

\* A set without one of the elements keeps less.
LEMMA KeepLess ==
    ASSUME NEW R, NEW A, NEW s \in Seq(R), NEW x \in ToSet(s), x \notin A
    PROVE  Len(Keep(s, A)) < Len(s)
<1> DEFINE places == {i \in 1..Len(s) : s[i] \in A}
<1>1. IsFiniteSet(places) /\ Len(Keep(s, A)) = Cardinality(places)
  BY KeepLen
<1>2. Len(s) \in Nat /\ IsFiniteSet(1..Len(s)) /\ Cardinality(1..Len(s)) = Len(s)
  <2>1. Len(s) \in Int /\ 1 \in Int /\ Len(s) >= 0
    OBVIOUS
  <2>2. IsFiniteSet(1..Len(s)) /\ Cardinality(1..Len(s)) = IF 1 > Len(s) THEN 0 ELSE Len(s) - 1 + 1
    BY <2>1, FS_Interval
  <2> QED
    BY <2>1, <2>2
<1>3. PICK i \in 1..Len(s) : s[i] = x
  BY DEF ToSet
<1>4. places \subseteq 1..Len(s) /\ places # 1..Len(s)
  BY <1>3
<1> HIDE DEF places
<1>5. /\ Cardinality(places) <= Cardinality(1..Len(s))
      /\ Cardinality(places) # Cardinality(1..Len(s))
  BY <1>2, <1>4, FS_Subset
<1>6. Cardinality(places) \in Nat
  BY <1>1, FS_CardinalityType
<1> QED
  BY <1>1, <1>2, <1>5, <1>6

LEMMA KeepHead ==
    ASSUME NEW R, NEW S, NEW s \in Seq(R), s # << >>, s[1] \in S
    PROVE  Keep(s, S) # << >> /\ Keep(s, S)[1] = s[1]
<1> DEFINE P == {q \in Seq(R) : q # << >> /\ q[1] \in S =>
                                    Keep(q, S) # << >> /\ Keep(q, S)[1] = q[1]}
<1>1. << >> \in P
  OBVIOUS
<1>2. ASSUME NEW q \in Seq(R), NEW x \in R, q \in P PROVE Append(q, x) \in P
  <2>1. Keep(Append(q, x), S) = IF x \in S THEN Append(Keep(q, S), x) ELSE Keep(q, S)
    BY KeepAppend
  <2>2. Append(q, x) \in Seq(R) /\ Keep(q, S) \in Seq(R)
    BY KeepElements
  <2>3. CASE q = << >>
    <3>1. Keep(q, S) = << >>
      BY <2>3, KeepEmpty
    <3>2. Append(<< >>, x)[1] = x /\ Append(<< >>, x) # << >>
      OBVIOUS
    <3> QED
      BY <2>1, <2>2, <2>3, <3>1, <3>2
  <2>4. CASE q # << >>
    <3>1. \A r \in Seq(R) : r # << >> => Append(r, x) # << >> /\ Append(r, x)[1] = r[1]
      OBVIOUS
    <3>2. Append(q, x)[1] = q[1]
      BY <2>4, <3>1
    <3>3. q[1] \in S => Keep(q, S) # << >> /\ Keep(q, S)[1] = q[1]
      BY <1>2, <2>4
    <3> HIDE DEF P
    <3>4. q[1] \in S => /\ Keep(Append(q, x), S) # << >>
                        /\ Keep(Append(q, x), S)[1] = q[1]
      <4>1. CASE x \in S
        BY <2>1, <2>2, <3>1, <3>3, <4>1
      <4>2. CASE x \notin S
        BY <2>1, <3>3, <4>2
      <4> QED
        BY <4>1, <4>2
    <3> QED
      BY <2>2, <3>2, <3>4 DEF P
  <2> QED
    BY <2>3, <2>4
<1>3. s \in P
  <2> HIDE DEF P
  <2> QED
    BY <1>1, <1>2, SeqInduction
<1> QED
  BY <1>3
------------------------------------------------------------------------------
(***************************************************************************)
(* Lists of times, the windows laid over them, and the history they agree  *)
(* with.                                                                   *)
(***************************************************************************)
\* Of the times T those less than w before `at'.
Win(T, at, w) == {r \in T : at - r < w}

\* The list that is counted agrees with the history as far as the window reaches.
Agree(s, h, T, at, w) == Keep(s, Win(T, at, w)) = Keep(h, Win(T, at, w))

\* A window that ends at an element of s holds no more than `most' of them.
Limited(s, w, most) ==
    \A i \in DOMAIN s : Cardinality({j \in 1..i : s[i] - s[j] < w}) <= most

LEMMA ElementsIn == \A R : \A s \in Seq(R) : ToSet(s) \subseteq R
  BY DEF ToSet

\* A clean-up, an admission and the passing of time keep the agreement.
LEMMA AgreementKept ==
    ASSUME NEW T \in SUBSET Nat, NEW s \in Seq(T), NEW h \in Seq(T), NEW at \in T,
           NEW w \in Nat \ {0}, Agree(s, h, T, at, w)
    PROVE  /\ Keep(s, Win(T, at, w)) \in Seq(T)
           /\ Agree(Keep(s, Win(T, at, w)), h, T, at, w)
           /\ Agree(Append(Keep(s, Win(T, at, w)), at), Append(h, at), T, at, w)
           /\ \A later \in T, v \in Nat : at <= later /\ v <= w => Agree(s, h, T, later, v)
<1> DEFINE W == Win(T, at, w)
           k == Keep(s, W)
<1>1. k \in Seq(T)
  BY KeepElements
<1>2. Keep(k, W) = k
  <2>1. Keep(k, W) = Keep(s, W \intersect W)
    BY KeepAgain
  <2>2. W \intersect W = W
    OBVIOUS
  <2> QED
    BY <2>1, <2>2
<1>3. k = Keep(h, W)
  BY DEF Agree
<1>4. at \in W
  BY DEF Win
<1>5. Keep(Append(k, at), W) = Append(Keep(k, W), at)
  BY <1>1, <1>4, KeepAppend
<1>6. Keep(Append(h, at), W) = Append(Keep(h, W), at)
  BY <1>4, KeepAppend
<1>7. ASSUME NEW later \in T, NEW v \in Nat, at <= later, v <= w PROVE Agree(s, h, T, later, v)
  <2> DEFINE V == Win(T, later, v)
  <2>1. V \subseteq W
    <3>1. \A r \in T : later - r < v => at - r < w
      BY <1>7
    <3> QED
      BY <3>1 DEF Win
  <2>2. Keep(Keep(s, W), V) = Keep(s, V) /\ Keep(Keep(h, W), V) = Keep(h, V)
    BY <2>1, KeepFewer
  <2> QED
    BY <2>2, <1>3 DEF Agree
<1> QED
  BY <1>1, <1>2, <1>3, <1>5, <1>6, <1>7 DEF Agree

\* Empty lists agree and are limited.
LEMMA EmptyAgree ==
    \A T, at, w, most : Agree(<< >>, << >>, T, at, w) /\ Limited(<< >>, w, most)
  BY DEF Agree, Limited

\* The places up to i of the elements that are near the one at i.
NearTo(i, s, near) == {j \in 1..i : s[j] \in near[s[i]]}

\* How many elements up to one are near it, when an element is appended.
LEMMA PlacesNear ==
    ASSUME NEW T, NEW near, NEW h \in Seq(T), NEW at \in T, at \in near[at]
    PROVE  /\ \A i \in DOMAIN h : NearTo(i, Append(h, at), near) = NearTo(i, h, near)
           /\ Len(Keep(h, near[at])) \in Nat
           /\ Cardinality(NearTo(Len(h) + 1, Append(h, at), near)) = Len(Keep(h, near[at])) + 1
<1> DEFINE W == near[at]
           g == Append(h, at)
           n == Len(h)
<1>1. /\ g \in Seq(T) /\ Len(g) = n + 1 /\ n \in Nat
      /\ DOMAIN h = 1..n /\ g[n + 1] = at /\ \A i \in 1..n : g[i] = h[i]
  OBVIOUS
<1>2. \A i \in DOMAIN h : NearTo(i, g, near) = NearTo(i, h, near)
  BY <1>1 DEF NearTo
<1>3. Keep(g, W) = Append(Keep(h, W), at)
  BY KeepAppend
<1>4. Keep(h, W) \in Seq(T)
  BY KeepElements
<1>5. Len(Keep(g, W)) = Len(Keep(h, W)) + 1 /\ Len(Keep(h, W)) \in Nat
  BY <1>3, <1>4, AppendContents
<1>6. Len(Keep(g, W)) = Cardinality({j \in 1..Len(g) : g[j] \in W})
  <2>1. g \in Seq(T)
    BY <1>1
  <2> HIDE DEF g, W
  <2> QED
    BY <2>1, KeepLen, Zenon
<1>7. {j \in 1..Len(g) : g[j] \in W} = NearTo(n + 1, g, near)
  BY <1>1 DEF NearTo
<1> QED
  BY <1>2, <1>5, <1>6, <1>7

\* An element that finds fewer than `most' elements near it keeps to the limit.
LEMMA NearLimitKept ==
    ASSUME NEW T, NEW near, NEW h \in Seq(T), NEW at \in T, NEW most \in Nat,
           at \in near[at], Len(Keep(h, near[at])) < most,
           \A i \in DOMAIN h : Cardinality(NearTo(i, h, near)) <= most
    PROVE  \A i \in DOMAIN Append(h, at) : Cardinality(NearTo(i, Append(h, at), near)) <= most
<1>1. /\ \A i \in DOMAIN h : NearTo(i, Append(h, at), near) = NearTo(i, h, near)
      /\ Len(Keep(h, near[at])) \in Nat
      /\ Cardinality(NearTo(Len(h) + 1, Append(h, at), near)) = Len(Keep(h, near[at])) + 1
  BY PlacesNear
<1>2. Cardinality(NearTo(Len(h) + 1, Append(h, at), near)) <= most
  BY <1>1
<1>3. \A i \in DOMAIN Append(h, at) : i \in DOMAIN h \/ i = Len(h) + 1
  OBVIOUS
<1> QED
  BY <1>1, <1>2, <1>3

LEMMA LimitKept ==
    ASSUME NEW T \in SUBSET Nat, NEW h \in Seq(T), NEW at \in T, NEW w \in Nat \ {0},
           NEW most \in Nat, Limited(h, w, most), Len(Keep(h, Win(T, at, w))) < most
    PROVE  Limited(Append(h, at), w, most)
<1> DEFINE near == [a \in T |-> Win(T, a, w)]
           g == Append(h, at)
<1>1. ASSUME NEW s \in Seq(T), NEW i \in DOMAIN s
      PROVE  NearTo(i, s, near) = {j \in 1..i : s[i] - s[j] < w}
  <2>1. \A j \in 1..i : s[j] \in T /\ s[i] \in T
    OBVIOUS
  <2>2. \A j \in 1..i : s[j] \in near[s[i]] <=> s[i] - s[j] < w
    BY <2>1 DEF Win
  <2> QED
    BY <2>2 DEF NearTo
<1>2. at \in near[at] /\ near[at] = Win(T, at, w)
  BY DEF Win
<1>3. \A i \in DOMAIN h : Cardinality(NearTo(i, h, near)) <= most
  BY <1>1 DEF Limited
<1> HIDE DEF near
<1>4. \A i \in DOMAIN g : Cardinality(NearTo(i, g, near)) <= most
  BY <1>2, <1>3, NearLimitKept
<1>5. g \in Seq(T)
  OBVIOUS
<1> QED
  BY <1>1, <1>4, <1>5 DEF Limited

\* One field, say, of each element of a list.
Mapped(s, f) == [i \in DOMAIN s |-> f[s[i]]]

IsField(f, R, T) == f \in [R -> T]

FieldOf(s, f, R, T) ==
    /\ Mapped(s, f) \in Seq(T) /\ Len(Mapped(s, f)) = Len(s)
    /\ DOMAIN Mapped(s, f) = 1..Len(s) /\ DOMAIN s = 1..Len(s)
    /\ \A i \in 1..Len(s) : s[i] \in R /\ Mapped(s, f)[i] = f[s[i]]
    /\ \A x \in R : Mapped(Append(s, x), f) = Append(Mapped(s, f), f[x])

LEMMA MappedFacts ==
    ASSUME NEW R, NEW T, NEW f, NEW s \in Seq(R), IsField(f, R, T)
    PROVE  FieldOf(s, f, R, T)
<1> DEFINE n == Len(s)
           m == Mapped(s, f)
<1>1. DOMAIN s = 1..n /\ n \in Nat /\ \A i \in 1..n : s[i] \in R /\ f[s[i]] \in T
  BY DEF IsField
<1>2. m = [i \in 1..n |-> f[s[i]]]
  BY <1>1 DEF Mapped
<1>3. m \in [1..n -> T]
  BY <1>1, <1>2
<1> HIDE DEF n, m
<1>4. m \in Seq(T) /\ Len(m) = n /\ DOMAIN m = 1..n
  BY <1>1, <1>2, <1>3
<1>5. ASSUME NEW x \in R PROVE Mapped(Append(s, x), f) = Append(m, f[x])
  <2> DEFINE q == Append(s, x)
             g == [i \in 1..(n + 1) |-> f[q[i]]]
             h == Append(m, f[x])
  <2>1. DOMAIN q = 1..(n + 1) /\ q[n + 1] = x /\ \A i \in 1..n : q[i] = s[i]
    BY DEF n
  <2>2. Mapped(q, f) = g
    BY <2>1 DEF Mapped
  <2>3. DOMAIN h = 1..(n + 1) /\ h[n + 1] = f[x] /\ \A i \in 1..n : h[i] = m[i]
    BY <1>4
  <2>4. \A i \in 1..n : g[i] = h[i]
    BY <1>1, <1>2, <2>1, <2>3
  <2>5. g[n + 1] = h[n + 1]
    BY <1>1, <2>1, <2>3
  <2>6. \A i \in 1..(n + 1) : i \in 1..n \/ i = n + 1
    BY <1>1
  <2>7. \A i \in 1..(n + 1) : g[i] = h[i]
    <3> HIDE DEF g, h
    <3> QED
      BY <2>4, <2>5, <2>6
  <2>8. h = [i \in 1..(n + 1) |-> h[i]]
    BY <1>4, <2>3
  <2>9. g = h
    BY <2>7, <2>8
  <2> QED
    BY <2>2, <2>9
<1> QED
  BY <1>1, <1>2, <1>4, <1>5 DEF m, n, FieldOf

------------------------------------------------------------------------------
(* Breaker *)

\* A record with one field replaced by a value of that field's type is still a
\* breaker; an update of several fields is a chain of these.
LEMMA FieldUpdates ==
    ASSUME NEW b \in BreakerType
    PROVE  /\ \A s \in CircuitState : [b EXCEPT !.state = s] \in BreakerType
           /\ \A n \in Nat :
                /\ [b EXCEPT !.total_calls = n] \in BreakerType
                /\ [b EXCEPT !.successful_calls = n] \in BreakerType
                /\ [b EXCEPT !.failed_calls = n] \in BreakerType
                /\ [b EXCEPT !.rejected_calls = n] \in BreakerType
                /\ [b EXCEPT !.state_changes = n] \in BreakerType
                /\ [b EXCEPT !.consecutive_failures = n] \in BreakerType
                /\ [b EXCEPT !.consecutive_successes = n] \in BreakerType
                /\ [b EXCEPT !.half_open_calls = n] \in BreakerType
           /\ \A t \in Time : [b EXCEPT !.last_failure_time = t] \in BreakerType
  BY SMT DEF BreakerType

\* The counters of a breaker are natural numbers, and so are their successors.
LEMMA FieldTypes ==
    ASSUME NEW b \in BreakerType
    PROVE  /\ b.state \in CircuitState
           /\ b.total_calls \in Nat /\ b.total_calls + 1 \in Nat
           /\ b.successful_calls \in Nat /\ b.successful_calls + 1 \in Nat
           /\ b.failed_calls \in Nat /\ b.failed_calls + 1 \in Nat
           /\ b.rejected_calls \in Nat /\ b.rejected_calls + 1 \in Nat
           /\ b.state_changes \in Nat /\ b.state_changes + 1 \in Nat
           /\ b.consecutive_failures \in Nat /\ b.consecutive_failures + 1 \in Nat
           /\ b.consecutive_successes \in Nat /\ b.consecutive_successes + 1 \in Nat
           /\ b.half_open_calls \in Nat /\ b.half_open_calls + 1 \in Nat
  BY DEF BreakerType

\* A change of state keeps a breaker a breaker.
LEMMA TransitionType ==
    ASSUME NEW b \in BreakerType, NEW s \in CircuitState
    PROVE  TransitionTo(b, s) \in BreakerType
<1> DEFINE b1 == [b EXCEPT !.state = s]
<1>1. b1 \in BreakerType
  BY FieldUpdates
<1>2. [b EXCEPT !.state = s, !.state_changes = @ + 1]
        = [b1 EXCEPT !.state_changes = b.state_changes + 1]
  BY DEF BreakerType
<1>3. [b1 EXCEPT !.state_changes = b.state_changes + 1] \in BreakerType
  BY <1>1, FieldTypes, FieldUpdates
<1> QED
  BY <1>2, <1>3 DEF TransitionTo

\* Counting a success or a failure keeps a breaker a breaker.
LEMMA CountTypes ==
    ASSUME NEW b \in BreakerType, NEW t \in Time
    PROVE  /\ CountCall(b) \in BreakerType
           /\ CountSuccess(b) \in BreakerType
           /\ CountFailure(b, t) \in BreakerType
<1> USE FieldTypes, FieldUpdates
<1>1. CountCall(b) \in BreakerType
  BY FieldUpdates DEF CountCall
<1>2. CountSuccess(b) \in BreakerType
  <2> DEFINE h  == IF b.state = "half_open" THEN b.half_open_calls + 1
                                            ELSE b.half_open_calls
             b1 == [b  EXCEPT !.successful_calls = b.successful_calls + 1]
             b2 == [b1 EXCEPT !.consecutive_failures = 0]
             b3 == [b2 EXCEPT !.consecutive_successes = b.consecutive_successes + 1]
             b4 == [b3 EXCEPT !.half_open_calls = h]
  <2>1. h \in Nat
    OBVIOUS
  <2>2. b1 \in BreakerType
    BY FieldUpdates
  <2>3. b2 \in BreakerType
    BY <2>2, FieldUpdates
  <2>4. b3 \in BreakerType
    BY <2>3, FieldUpdates
  <2>5. b4 \in BreakerType
    BY <2>1, <2>4, FieldUpdates
  <2>6. CountSuccess(b) = b4
    BY DEF CountSuccess, BreakerType
  <2> QED
    BY <2>5, <2>6
<1>3. CountFailure(b, t) \in BreakerType
  <2> DEFINE b1 == [b  EXCEPT !.failed_calls = b.failed_calls + 1]
             b2 == [b1 EXCEPT !.last_failure_time = t]
             b3 == [b2 EXCEPT !.consecutive_successes = 0]
             b4 == [b3 EXCEPT !.consecutive_failures = b.consecutive_failures + 1]
  <2>1. b1 \in BreakerType
    BY FieldUpdates
  <2>2. b2 \in BreakerType
    BY <2>1, FieldUpdates
  <2>3. b3 \in BreakerType
    BY <2>2, FieldUpdates
  <2>4. b4 \in BreakerType
    BY <2>3, FieldUpdates
  <2>5. CountFailure(b, t) = b4
    BY DEF CountFailure, BreakerType
  <2> QED
    BY <2>4, <2>5
<1> QED
  BY <1>1, <1>2, <1>3

\* The operations of Breaker keep a breaker a breaker: no counter becomes
\* negative and the state stays one of the three.
LEMMA BreakerTypes ==
    ASSUME NEW b \in BreakerType, NEW t \in Time
    PROVE  /\ NewBreaker \in BreakerType
           /\ RejectCall(b) \in BreakerType
           /\ AdmitCall(b) \in BreakerType
           /\ OnSuccess(b) \in BreakerType
           /\ OnFailure(b, t) \in BreakerType
           /\ ResetBreaker(b) \in BreakerType
<1> USE FieldTypes, FieldUpdates
<1>1. NewBreaker \in BreakerType
  BY DEF NewBreaker, BreakerType, CircuitState
<1>2. RejectCall(b) \in BreakerType
  <2> DEFINE b1 == [b EXCEPT !.total_calls = b.total_calls + 1]
             b2 == [b1 EXCEPT !.rejected_calls = b.rejected_calls + 1]
  <2>1. b1 \in BreakerType
    BY FieldUpdates
  <2>2. b2 \in BreakerType
    BY <2>1, FieldUpdates
  <2>3. RejectCall(b) = b2
    BY DEF RejectCall, BreakerType
  <2> QED
    BY <2>2, <2>3
<1>3. AdmitCall(b) \in BreakerType
  <2> DEFINE opened == TransitionTo(CountCall(b), "half_open")
  <2>1. opened \in BreakerType
    BY CountTypes, TransitionType DEF CircuitState
  <2> HIDE DEF opened
  <2>2. [opened EXCEPT !.half_open_calls = 0] \in BreakerType
    BY <2>1, FieldUpdates
  <2> QED
    BY <2>2, CountTypes DEF AdmitCall, opened
<1>4. OnSuccess(b) \in BreakerType
  BY CountTypes, TransitionType DEF OnSuccess, CircuitState
<1>5. OnFailure(b, t) \in BreakerType
  BY CountTypes, TransitionType DEF OnFailure, CircuitState
<1>6. ResetBreaker(b) \in BreakerType
  <2> DEFINE b1 == [b  EXCEPT !.state = "closed"]
             b2 == [b1 EXCEPT !.consecutive_failures = 0]
             b3 == [b2 EXCEPT !.consecutive_successes = 0]
             b4 == [b3 EXCEPT !.state_changes = b.state_changes + 1]
  <2>1. b1 \in BreakerType
    BY FieldUpdates DEF CircuitState
  <2>2. b2 \in BreakerType
    BY <2>1, FieldUpdates
  <2>3. b3 \in BreakerType
    BY <2>2, FieldUpdates
  <2>4. b4 \in BreakerType
    BY <2>3, FieldUpdates
  <2>5. ResetBreaker(b) = b4
    BY DEF ResetBreaker, BreakerType
  <2> QED
    BY <2>4, <2>5
<1> QED
  BY <1>1, <1>2, <1>3, <1>4, <1>5, <1>6

\* What each operation does to the statistics of ended and begun calls.
LEMMA StatFacts ==
    ASSUME NEW b \in BreakerType, NEW t \in Time
    PROVE  /\ RejectCall(b).total_calls = b.total_calls + 1
           /\ RejectCall(b).rejected_calls = b.rejected_calls + 1
           /\ AdmitCall(b).total_calls = b.total_calls + 1
           /\ AdmitCall(b).rejected_calls = b.rejected_calls
           /\ OnSuccess(b).successful_calls = b.successful_calls + 1
           /\ OnFailure(b, t).failed_calls = b.failed_calls + 1
           /\ \A r \in {RejectCall(b), AdmitCall(b)} :
                /\ r.successful_calls = b.successful_calls
                /\ r.failed_calls = b.failed_calls
           /\ \A r \in {OnSuccess(b), ResetBreaker(b)} : r.failed_calls = b.failed_calls
           /\ \A r \in {OnFailure(b, t), ResetBreaker(b)} :
                r.successful_calls = b.successful_calls
           /\ \A r \in {OnSuccess(b), OnFailure(b, t), ResetBreaker(b)} :
                /\ r.total_calls = b.total_calls
                /\ r.rejected_calls = b.rejected_calls
<1> USE DEF BreakerType, TransitionTo
<1>1. /\ RejectCall(b).total_calls = b.total_calls + 1
      /\ RejectCall(b).rejected_calls = b.rejected_calls + 1
      /\ RejectCall(b).successful_calls = b.successful_calls
      /\ RejectCall(b).failed_calls = b.failed_calls
  BY DEF RejectCall
<1>2. /\ AdmitCall(b).total_calls = b.total_calls + 1
      /\ AdmitCall(b).rejected_calls = b.rejected_calls
      /\ AdmitCall(b).successful_calls = b.successful_calls
      /\ AdmitCall(b).failed_calls = b.failed_calls
  BY DEF AdmitCall, CountCall
<1>3. /\ OnSuccess(b).successful_calls = b.successful_calls + 1
      /\ OnSuccess(b).failed_calls = b.failed_calls
      /\ OnSuccess(b).total_calls = b.total_calls
      /\ OnSuccess(b).rejected_calls = b.rejected_calls
  BY DEF OnSuccess, CountSuccess
<1>4. /\ OnFailure(b, t).failed_calls = b.failed_calls + 1
      /\ OnFailure(b, t).successful_calls = b.successful_calls
      /\ OnFailure(b, t).total_calls = b.total_calls
      /\ OnFailure(b, t).rejected_calls = b.rejected_calls
  BY DEF OnFailure, CountFailure
<1>5. /\ ResetBreaker(b).successful_calls = b.successful_calls
      /\ ResetBreaker(b).failed_calls = b.failed_calls
      /\ ResetBreaker(b).total_calls = b.total_calls
      /\ ResetBreaker(b).rejected_calls = b.rejected_calls
  BY DEF ResetBreaker
<1> QED
  BY <1>1, <1>2, <1>3, <1>4, <1>5
==============================================================================
