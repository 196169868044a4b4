------------------------------- MODULE Induction -------------------------------
(***************************************************************************)
(* Induction along an interval of integers, and the recursive functions    *)
(* that it gives: what is defined by recursion in the other modules is     *)
(* shown to exist by Recursion, and what holds of its values by            *)
(* IntervalInduction.  A set takes the place of the formula that is shown, *)
(* and a function that of the step of the recursion.                       *)
(***************************************************************************)
EXTENDS Integers, FiniteSetTheorems, TLAPS

\* Every set of natural numbers has a least element: the intervals below its members
\* are finite sets, and inclusion of those is well-founded.
LEMMA LeastNat ==
  ASSUME NEW S \in SUBSET Nat, S # {}
  PROVE  \E m \in S : \A n \in S : m <= n
<1> DEFINE T == {0..n : n \in S}
<1>1. T \subseteq FiniteSubsetsOf(Nat)
  <2>1. \A n \in S : IsFiniteSet(0..n) /\ 0..n \in SUBSET Nat
    BY FS_Interval
  <2> QED
    BY <2>1 DEF FiniteSubsetsOf
<1>2. PICK t \in T : \A u \in T : ~ (<<u, t>> \in StrictSubsetOrdering(Nat))
  <2>1. T # {}
    OBVIOUS
  <2> HIDE DEF T
  <2> QED
    BY <1>1, <2>1, WFMin, FS_StrictSubsetOrderingWellFounded
<1>3. PICK m \in S : t = 0..m
  BY <1>2
<1>4. ASSUME NEW n \in S PROVE m <= n
  <2>1. 0..n \in T
    OBVIOUS
  <2>2. ~(0..n \subseteq 0..m /\ 0..n # 0..m)
    <3>1. <<0..n, 0..m>> \notin StrictSubsetOrdering(Nat)
      BY <1>2, <1>3, <2>1
    <3>2. 0..n \in SUBSET Nat /\ 0..m \in SUBSET Nat
      OBVIOUS
    <3> HIDE DEF T
    <3>3. QED
      BY <3>1, <3>2 DEF StrictSubsetOrdering
  <2>3. n < m => 0..n \subseteq 0..m /\ m \in 0..m /\ m \notin 0..n
    OBVIOUS
  <2> QED
    BY <2>2, <2>3
<1> QED
  BY <1>4

\* A set that has a and, up to b, the successors of its numbers.
Reaches(S, a, b) ==
  a \in S /\ \A n \in a + 1..b : n - 1 \in S => n \in S

\* Induction along an interval.
LEMMA IntervalInduction ==
  ASSUME NEW a \in Int, NEW b \in Int, NEW S, Reaches(S, a, b)
  PROVE  \A n \in a..b : n \in S
<1> DEFINE Missing == {n \in Nat : a + n <= b /\ a + n \notin S}
<1>1. CASE Missing = {}
  <2>1. ASSUME NEW n \in a..b PROVE n \in S
    <3> DEFINE m == n - a
    <3>1. m \in Nat /\ a + m = n /\ a + m <= b
      OBVIOUS
    <3>2. m \notin Missing
      BY <1>1
    <3> HIDE DEF m
    <3>3. QED
      BY <3>1, <3>2
  <2>2. QED
    BY <2>1
<1>2. CASE Missing # {}
  <2>1. PICK m \in Missing : \A n \in Missing : m <= n
    <3> HIDE DEF Missing
    <3>1. Missing \in SUBSET Nat
      BY DEF Missing
    <3>2. QED
      BY <1>2, <3>1, LeastNat
  <2>2. m # 0
    BY <2>1 DEF Reaches
  <2>3. a + (m - 1) \in S
    BY <2>1, <2>2
  <2>4. a + m \in a + 1..b /\ (a + m) - 1 = a + (m - 1)
    BY <2>1, <2>2
  <2>5. a + m \in S
    BY <2>3, <2>4 DEF Reaches
  <2>6. QED
    BY <2>1, <2>5
<1>3. QED
  BY <1>1, <1>2

\* From z on, step n of a recursion from a up to b leads from W[n - 1] to W[n].
StaysIn(W, a, b, z, g) ==
  z \in W[a] /\ \A n \in a + 1..b : \A v \in W[n - 1] : g[n][v] \in W[n]

\* A function that is defined by recursion along an interval exists.
LEMMA Recursion ==
  ASSUME NEW a \in Int, NEW b \in Int, a <= b, NEW z, NEW g, NEW W, StaysIn(W, a, b, z, g)
  PROVE  \E h : /\ h = [n \in a..b |-> IF n = a THEN z ELSE g[n][h[n - 1]]]
                /\ \A n \in a..b : h[n] \in W[n]
<1>0. z \in W[a] /\ \A n \in a + 1..b : \A v \in W[n - 1] : g[n][v] \in W[n]
  BY DEF StaysIn
<1> DEFINE Upto(h, c) == /\ h = [n \in a..c |-> IF n = a THEN z ELSE g[n][h[n - 1]]]
                         /\ \A n \in a..c : h[n] \in W[n]
<1> DEFINE S == {c \in a..b : \E h : Upto(h, c)}
<1>1. a \in S
  <2>1. Upto([n \in a..a |-> z], a)
    BY <1>0
  <2> HIDE DEF Upto
  <2>2. QED
    BY <2>1
<1>2. ASSUME NEW c \in a + 1..b, c - 1 \in S PROVE c \in S
  <2>1. PICK h : Upto(h, c - 1)
    BY <1>2
  <2> DEFINE k == [n \in a..c |-> IF n = c THEN g[c][h[c - 1]] ELSE h[n]]
  <2>2. h[c - 1] \in W[c - 1]
    BY <2>1
  <2>3. \A n \in a..c : n # a => n - 1 \in a..c - 1 /\ k[n - 1] = h[n - 1]
    OBVIOUS
  <2>4. \A n \in a..c : k[n] = IF n = a THEN z ELSE g[n][k[n - 1]]
    <3> SUFFICES ASSUME NEW n \in a..c PROVE k[n] = IF n = a THEN z ELSE g[n][k[n - 1]]
      OBVIOUS
    <3>1. CASE n = c
      BY <3>1, <2>3
    <3>2. CASE n # c
      <4>1. n \in a..c - 1 /\ k[n] = h[n]
        BY <3>2
      <4>2. h[n] = IF n = a THEN z ELSE g[n][h[n - 1]]
        BY <2>1, <4>1
      <4>3. QED
        BY <4>1, <4>2, <2>3
    <3>3. QED
      BY <3>1, <3>2
  <2>5. k = [n \in a..c |-> IF n = a THEN z ELSE g[n][k[n - 1]]]
    <3> DEFINE r == [n \in a..c |-> IF n = a THEN z ELSE g[n][k[n - 1]]]
    <3>1. \A n \in a..c : k[n] = r[n]
      BY <2>4
    <3>2. QED
      BY <3>1
  <2>6. \A n \in a..c : k[n] \in W[n]
    <3> SUFFICES ASSUME NEW n \in a..c PROVE k[n] \in W[n]
      OBVIOUS
    <3>1. CASE n = c
      BY <3>1, <2>2, <1>0
    <3>2. CASE n # c
      BY <3>2, <2>1
    <3>3. QED
      BY <3>1, <3>2
  <2>7. Upto(k, c)
    BY <2>5, <2>6
  <2> HIDE DEF k, Upto
  <2>8. QED
    BY <2>7
<1>3. b \in S
  <2> HIDE DEF S
  <2>1. b \in a..b
    OBVIOUS
  <2>2. Reaches(S, a, b)
    BY <1>1, <1>2 DEF Reaches
  <2>3. QED
    BY <2>1, <2>2, IntervalInduction
<1>4. QED
  BY <1>3

==============================================================================
