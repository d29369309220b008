---------------------------- MODULE FiniteRecursion ----------------------------
(***************************************************************************)
(* Functions on 0 .. N that are defined by recursion exist, and what they  *)
(* are follows step by step.  The theorems of the library say so of        *)
(* operators; here the step is a function and the predicate a set.         *)
(***************************************************************************)
EXTENDS Integers, WellFoundedInduction, TLAPS

(* A non-empty set of natural numbers has a least element.                 *)
LEMMA Least ==
  ASSUME NEW T, T \subseteq Nat, T # {}
  PROVE  \E x \in T : \A y \in T : x <= y
<1> DEFINE R == OpToRel(<, Nat)
<1>1. \E x \in T : \A y \in T : ~(<<y, x>> \in R)
  BY WFMin, NatLessThanWellFounded
<1>2. \A x, y \in Nat : y < x => <<y, x>> \in R
  BY DEF OpToRel
<1> HIDE DEF R
<1>3. PICK x \in T : \A y \in T : ~(<<y, x>> \in R)
  BY <1>1
<1>4. \A y \in T : ~(y < x)
  BY <1>2, <1>3
<1> QED BY <1>3, <1>4

(* The function that starts with a, and goes on by the n-th step of g.     *)
Recurs(f, S, a, N, g) ==
  /\ f \in [0 .. N -> S]
  /\ f[0] = a
  /\ \A n \in 1 .. N : f[n] = g[n][f[n - 1]]

LEMMA Recursion ==
  ASSUME NEW S, NEW a \in S, NEW N \in Nat, NEW g,
         \A n \in 1 .. N : \A x \in S : g[n][x] \in S
  PROVE  \E f : Recurs(f, S, a, N, g)
<1> DEFINE Upto(m) == \E f : Recurs(f, S, a, m, g)
           T == {m \in 0 .. N : ~Upto(m)}
<1>1. SUFFICES ASSUME T # {} PROVE FALSE
  OBVIOUS
<1>2. PICK m \in T : \A u \in T : m <= u
  <2>1. T \subseteq Nat
    OBVIOUS
  <2> HIDE DEF T
  <2> QED BY <1>1, <2>1, Least
<1>3. m # 0
  <2>1. Upto(0)
    <3> DEFINE f == [n \in 0 .. 0 |-> a]
    <3>1. f \in [0 .. 0 -> S] /\ f[0] = a
      OBVIOUS
    <3>2. \A n \in 1 .. 0 : f[n] = g[n][f[n - 1]]
      OBVIOUS
    <3> HIDE DEF f
    <3> QED BY <3>1, <3>2 DEF Recurs
  <2> HIDE DEF Upto
  <2> QED BY <2>1
<1>4. m - 1 \in 0 .. N /\ m - 1 \notin T /\ m \in 1 .. N
  <2> HIDE DEF Upto
  <2> QED BY <1>2, <1>3
<1>5. PICK f : Recurs(f, S, a, m - 1, g)
  BY <1>4
<1> DEFINE h == [n \in 0 .. m |-> IF n = m THEN g[m][f[m - 1]] ELSE f[n]]
<1>6. g[m][f[m - 1]] \in S
  BY <1>4, <1>5 DEF Recurs
<1>7. h \in [0 .. m -> S]
  BY <1>4, <1>5, <1>6 DEF Recurs
<1>8. h[0] = a
  BY <1>4, <1>5 DEF Recurs
<1>9. ASSUME NEW n \in 1 .. m PROVE h[n] = g[n][h[n - 1]]
  <2>1. CASE n = m
    BY <1>4, <2>1
  <2>2. CASE n # m
    BY <1>4, <1>5, <2>2 DEF Recurs
  <2> QED BY <2>1, <2>2
<1>10. Upto(m)
  <2> HIDE DEF h
  <2> QED BY <1>7, <1>8, <1>9 DEF Recurs
<1> HIDE DEF Upto
<1> QED BY <1>2, <1>10

(* A set that holds 0, and of each number up to N its successor.           *)
LEMMA Induct ==
  ASSUME NEW N \in Nat, NEW T, 0 \in T,
         \A n \in 0 .. N - 1 : n \in T => n + 1 \in T
  PROVE  \A n \in 0 .. N : n \in T
<1> DEFINE U == {n \in 0 .. N : n \notin T}
<1>1. SUFFICES ASSUME U # {} PROVE FALSE
  OBVIOUS
<1>2. U \subseteq Nat
  OBVIOUS
<1>3. PICK m \in U : \A u \in U : m <= u
  <2> HIDE DEF U
  <2> QED BY <1>1, <1>2, Least
<1>4. m # 0
  BY <1>3
<1>5. m - 1 \in 0 .. N - 1 /\ m - 1 \notin U
  BY <1>3, <1>4
<1>6. m - 1 \in T /\ (m - 1) + 1 = m
  BY <1>5
<1> QED BY <1>3, <1>5, <1>6
================================================================================
