------------------------------ MODULE Induction ------------------------------
(***************************************************************************)
(* Induction over the natural numbers, over sets instead of predicates:    *)
(* what is to be shown of every number is that it is in a set.             *)
(***************************************************************************)
EXTENDS Integers, FiniteSetTheorems, TLAPS

(* A non-empty set of natural numbers has a least member: of the intervals *)
(* that end in it, one is the smallest.                                    *)
LEMMA LeastExists ==
    ASSUME NEW S \in SUBSET Nat, S # {}
    PROVE  \E i \in S : \A j \in S : i <= j
<1> DEFINE R == StrictSubsetOrdering(Nat)
           T == {1 .. i : i \in S}
<1>1. T \subseteq FiniteSubsetsOf(Nat)
  <2>1. \A i \in S : IsFiniteSet(1 .. i) /\ 1 .. i \subseteq Nat
    BY FS_Interval
  <2> QED
    BY <2>1 DEF FiniteSubsetsOf
<1>2. \E x \in T : \A y \in T : ~(<<y, x>> \in R)
  <2>1. T # {}
    OBVIOUS
  <2>2. IsWellFoundedOn(R, FiniteSubsetsOf(Nat))
    BY FS_StrictSubsetOrderingWellFounded
  <2> HIDE DEF R, T
  <2> QED
    BY <2>1, <2>2, <1>1, WFMin
<1>3. PICK i \in S : \A j \in S : ~(<<1 .. j, 1 .. i>> \in R)
  BY <1>2
<1>4. ASSUME NEW j \in S, j < i PROVE FALSE
  <2>1. 1 .. j \subseteq 1 .. i /\ i \in 1 .. i /\ i \notin 1 .. j
    BY <1>4
  <2>2. <<1 .. j, 1 .. i>> \in R
    BY <2>1 DEF StrictSubsetOrdering
  <2> QED
    BY <2>2, <1>3
<1>5. \A j \in S : i <= j
  BY <1>4
<1> QED
  BY <1>5

(* A set that holds a number whenever it holds all smaller ones holds all. *)
LEMMA EveryNumber ==
    ASSUME NEW S, \A n \in Nat : (\A m \in 0 .. n - 1 : m \in S) => n \in S
    PROVE  Nat \subseteq S
<1> DEFINE T == Nat \ S
<1> SUFFICES ASSUME T # {} PROVE FALSE
  OBVIOUS
<1>1. PICK n \in T : \A m \in T : n <= m
  <2>1. T \in SUBSET Nat
    OBVIOUS
  <2> HIDE DEF T
  <2> QED
    BY <2>1, LeastExists
<1>2. \A m \in 0 .. n - 1 : m \in S
  BY <1>1
<1> QED
  BY <1>1, <1>2

(* The same, one number after the other.                                   *)
LEMMA NumberAfterNumber ==
    ASSUME NEW S, 0 \in S, \A n \in Nat : n \in S => n + 1 \in S
    PROVE  Nat \subseteq S
<1>1. ASSUME NEW n \in Nat, \A m \in 0 .. n - 1 : m \in S PROVE n \in S
  <2>1. CASE n = 0
    BY <2>1
  <2>2. CASE n # 0
    <3>1. n - 1 \in 0 .. n - 1 /\ n - 1 \in Nat /\ (n - 1) + 1 = n
      BY <2>2
    <3> QED
      BY <1>1, <3>1
  <2> QED
    BY <2>1, <2>2
<1> QED
  BY <1>1, EveryNumber

(* Of finitely many integers one is the largest.                           *)
LEMMA LargestExists ==
    ASSUME NEW n \in Nat, n > 0, NEW f \in [1 .. n -> Int]
    PROVE  \E k \in 1 .. n : \A j \in 1 .. n : f[j] <= f[k]
<1> DEFINE S == {m \in Nat : m + 1 <= n => \E k \in 1 .. m + 1 : \A j \in 1 .. m + 1 : f[j] <= f[k]}
<1>1. 0 \in S
  OBVIOUS
<1>2. ASSUME NEW m \in Nat, m \in S PROVE m + 1 \in S
  <2> SUFFICES ASSUME m + 2 <= n
               PROVE  \E k \in 1 .. m + 2 : \A j \in 1 .. m + 2 : f[j] <= f[k]
    OBVIOUS
  <2>1. PICK k \in 1 .. m + 1 : \A j \in 1 .. m + 1 : f[j] <= f[k]
    BY <1>2
  <2>2. \A j \in 1 .. m + 2 : f[j] \in Int /\ (j \in 1 .. m + 1 \/ j = m + 2)
    OBVIOUS
  <2>3. CASE f[k] <= f[m + 2]
    <3>1. \A j \in 1 .. m + 2 : f[j] <= f[m + 2]
      BY <2>1, <2>2, <2>3
    <3> QED
      BY <3>1
  <2>4. CASE f[m + 2] < f[k]
    <3>1. \A j \in 1 .. m + 2 : f[j] <= f[k]
      BY <2>1, <2>2, <2>4
    <3> QED
      BY <3>1
  <2> QED
    BY <2>2, <2>3, <2>4
<1>3. n - 1 \in S
  <2> HIDE DEF S
  <2>1. n - 1 \in Nat
    OBVIOUS
  <2> QED
    BY <1>1, <1>2, <2>1, NumberAfterNumber
<1> QED
  BY <1>3
=============================================================================
