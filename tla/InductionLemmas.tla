----------------------------- MODULE InductionLemmas -----------------------------
(***************************************************************************)
(* Induction, stated of sets and functions: a formula is proved for all n  *)
(* by proving that the set of numbers it holds for is all of Nat, and a    *)
(* recursive definition is used through the one function that satisfies    *)
(* its equations.  No fact takes an operator as a parameter.               *)
(***************************************************************************)
EXTENDS Integers, WellFoundedInduction, TLAPS

(* A set of numbers with 0 and the successors of its members is Nat: the   *)
(* smallest number outside it would have a predecessor inside.             *)
LEMMA NatSetInduction ==
  ASSUME NEW S \in SUBSET Nat, 0 \in S, \A n \in S : n + 1 \in S
  PROVE  S = Nat
<1>. DEFINE R == {ss \in Nat \X Nat : ss[1] < ss[2]}
            T == Nat \ S
<1>1. SUFFICES ASSUME T # {} PROVE FALSE
  OBVIOUS
<1>2. IsWellFoundedOn(R, Nat)
  BY NatLessThanWellFounded DEF OpToRel
<1>3. \A x, y \in Nat : x < y => << x, y >> \in R
  OBVIOUS
<1>. HIDE DEF R
<1>4. PICK x \in T : \A y \in T : ~(<< y, x >> \in R)
  BY <1>1, <1>2, WFMin
<1>5. x \in Nat /\ x # 0
  OBVIOUS
<1>6. x - 1 \in Nat /\ x - 1 < x
  BY <1>5
<1>7. x - 1 \in S
  BY <1>3, <1>4, <1>5, <1>6
<1>. QED
  BY <1>5, <1>7

(* The same up to n: what holds of 1 and, below n, of the successor of     *)
(* what it holds of, holds up to n.                                        *)
LEMMA UpToInduction ==
  ASSUME NEW n \in Nat, NEW S, 1 \in S \/ n = 0, \A i \in 1 .. n : i \in S /\ i < n => i + 1 \in S
  PROVE  1 .. n \subseteq S
<1>. DEFINE T == {i \in Nat : i = 0 \/ i > n \/ i \in S}
<1>1. 0 \in T
  OBVIOUS
<1>2. ASSUME NEW i \in T PROVE i + 1 \in T
  <2>1. CASE i = 0
    BY <2>1
  <2>2. CASE i > n
    BY <2>2
  <2>3. CASE i # 0 /\ ~(i > n)
    <3>1. i \in 1 .. n /\ i \in S
      BY <2>3
    <3>. QED
      BY <3>1
  <2>. QED
    BY <2>1, <2>2, <2>3
<1>3. T = Nat
  <2>. HIDE DEF T
  <2>1. T \in SUBSET Nat
    BY DEF T
  <2>. QED
    BY <1>1, <1>2, <2>1, NatSetInduction
<1>4. \A i \in 1 .. n : i \in T
  <2>. HIDE DEF T
  <2>. QED
    BY <1>3
<1>. QED
  BY <1>4

-----------------------------------------------------------------------------
(* Recursion.                                                              *)

\* The step g[i] stays in V.
StepsWithin(g, n, V) == \A i \in 1 .. n : \A x \in V : g[i][x] \in V

(* There is a function that starts at b and takes the step g[i] from its   *)
(* value at i to the next.                                                 *)
LEMMA RecursionExists ==
  ASSUME NEW n \in Nat, NEW V, NEW b \in V, NEW g, StepsWithin(g, n, V)
  PROVE  \E w \in [1 .. n + 1 -> V] : w[1] = b /\ \A i \in 1 .. n : w[i + 1] = g[i][w[i]]
<1>. DEFINE Reaches(m) == \E w \in [1 .. m + 1 -> V] :
                            w[1] = b /\ \A i \in 1 .. m : w[i + 1] = g[i][w[i]]
            S == {m \in Nat : m > n \/ Reaches(m)}
<1>1. 0 \in S
  <2>1. PICK w : w = [i \in 1 .. 0 + 1 |-> b]
    OBVIOUS
  <2>2. w \in [1 .. 0 + 1 -> V] /\ w[1] = b /\ \A i \in 1 .. 0 : w[i + 1] = g[i][w[i]]
    BY <2>1
  <2>3. Reaches(0)
    BY <2>2, Zenon
  <2>. HIDE DEF Reaches
  <2>. QED
    BY <2>3
<1>2. ASSUME NEW m \in S PROVE m + 1 \in S
  <2>a. m \in Nat
    OBVIOUS
  <2>1. CASE m >= n
    <3>. HIDE DEF Reaches
    <3>. QED
      BY <2>a, <2>1
  <2>2. CASE m < n
    <3>1. m \in Nat /\ Reaches(m)
      <4>. HIDE DEF Reaches
      <4>1. m \in Nat /\ (m > n \/ Reaches(m))
        BY Zenon
      <4>. QED
        BY <2>2, <4>1
    <3>2. PICK w \in [1 .. m + 1 -> V] :
            w[1] = b /\ \A i \in 1 .. m : w[i + 1] = g[i][w[i]]
      BY <3>1
    <3>3. PICK last : last = g[m + 1][w[m + 1]]
      OBVIOUS
    <3>4. PICK v : v = [i \in 1 .. m + 1 + 1 |-> IF i = m + 1 + 1 THEN last ELSE w[i]]
      OBVIOUS
    <3>5. last \in V
      <4>1. m + 1 \in 1 .. n /\ w[m + 1] \in V
        BY <2>2, <3>1
      <4>. QED
        BY <3>3, <4>1 DEF StepsWithin
    <3>6. v \in [1 .. m + 1 + 1 -> V] /\ v[1] = b
      BY <3>1, <3>2, <3>4, <3>5
    <3>7. ASSUME NEW i \in 1 .. m + 1 PROVE v[i + 1] = g[i][v[i]]
      <4>1. v[i] = w[i]
        BY <3>1, <3>4
      <4>2. CASE i = m + 1
        <5>1. v[m + 1 + 1] = last
          BY <3>1, <3>4
        <5>. QED
          BY <3>3, <4>1, <4>2, <5>1
      <4>3. CASE i # m + 1
        <5>1. i \in 1 .. m /\ i + 1 \in 1 .. m + 1 + 1 /\ i + 1 # m + 1 + 1
          BY <3>1, <4>3
        <5>2. v[i + 1] = w[i + 1]
          BY <3>4, <5>1
        <5>. QED
          BY <3>2, <4>1, <5>1, <5>2
      <4>. QED
        BY <4>2, <4>3
    <3>8. Reaches(m + 1)
      BY <3>6, <3>7, Zenon
    <3>. HIDE DEF Reaches
    <3>. QED
      BY <3>1, <3>8
  <2>. HIDE DEF S
  <2>. QED
    BY <2>a, <2>1, <2>2
<1>. HIDE DEF Reaches
<1>3. S = Nat
  <2>1. S \in SUBSET Nat
    OBVIOUS
  <2>. HIDE DEF S
  <2>. QED
    BY <1>1, <1>2, <2>1, NatSetInduction
<1>4. Reaches(n)
  BY <1>3
<1>. QED
  BY <1>4 DEF Reaches

(* And only one: functions that start alike and take the same steps are    *)
(* the same.                                                               *)
LEMMA RecursionUnique ==
  ASSUME NEW n \in Nat, NEW v, NEW w, v[1] = w[1],
         \A i \in 1 .. n : v[i] = w[i] => v[i + 1] = w[i + 1]
  PROVE  \A i \in 1 .. n + 1 : v[i] = w[i]
<1>. DEFINE S == {i \in 1 .. n + 1 : v[i] = w[i]}
<1>1. 1 \in S \/ n + 1 = 0
  OBVIOUS
<1>2. \A i \in 1 .. n + 1 : i \in S /\ i < n + 1 => i + 1 \in S
  OBVIOUS
<1>3. n + 1 \in Nat
  OBVIOUS
<1>4. 1 .. n + 1 \subseteq S
  <2>. HIDE DEF S
  <2>. QED
    BY <1>1, <1>2, <1>3, UpToInduction
<1>. QED
  BY <1>4
=================================================================================
