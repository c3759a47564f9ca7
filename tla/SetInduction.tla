---------------------------- MODULE SetInduction ----------------------------
(***************************************************************************)
(* Induction over an initial segment of the natural numbers, stated of     *)
(* sets: a set takes the place of the predicate, so that the facts can be  *)
(* cited like any other.  With them the walks and scans that the modules   *)
(* write as recursive functions are proved about.                          *)
(***************************************************************************)
EXTENDS Naturals, FiniteSetsExt, WellFoundedInduction, TLAPS

\* Every set of natural numbers that is not empty has a least element.
LEMMA LeastElement ==
  ASSUME NEW T, T \subseteq Nat, T # {}
  PROVE  \E x \in T : \A y \in T : x <= y
  <1> DEFINE R == {xy \in Nat \X Nat : xy[1] < xy[2]}
  <1>1. IsWellFoundedOn(R, Nat)
    BY NatLessThanWellFounded DEF OpToRel
  <1>2. \A x, y \in Nat : <<x, y>> \in R <=> x < y
    OBVIOUS
  <1> HIDE DEF R
  <1>3. PICK x \in T : \A y \in T : ~(<<y, x>> \in R)
    BY <1>1, WFMin
  <1>4. \A y \in T : ~(y < x)
    <2> TAKE y \in T
    <2>1. y \in Nat /\ x \in Nat
      OBVIOUS
    <2> QED BY <1>2, <1>3, <2>1
  <1> QED BY <1>4

LEMMA InductionTo ==
  ASSUME NEW n \in Nat, NEW T, 0 \in T, \A k \in 0 .. n : k < n /\ k \in T => k + 1 \in T
  PROVE  0 .. n \subseteq T
  <1> SUFFICES ASSUME (0 .. n) \ T # {} PROVE FALSE
    OBVIOUS
  <1>1. PICK x \in (0 .. n) \ T : \A y \in (0 .. n) \ T : x <= y
    <2>1. (0 .. n) \ T \subseteq Nat
      OBVIOUS
    <2> QED BY <2>1, LeastElement
  <1>2. x \in Nat /\ x <= n /\ x # 0
    BY <1>1
  <1>3. x - 1 \in 0 .. n /\ x - 1 < n /\ ~(x <= x - 1)
    BY <1>2
  <1>4. x - 1 \in T
    BY <1>1, <1>3
  <1>5. (x - 1) + 1 \in T
    BY <1>3, <1>4
  <1> QED BY <1>1, <1>2, <1>5

LEMMA MinIsLeast ==
  ASSUME NEW T, T \subseteq Nat, T # {}
  PROVE  Min(T) \in T /\ \A y \in T : Min(T) <= y
  BY LeastElement DEF Min

LEMMA LeastIsMin ==
  ASSUME NEW T, T \subseteq Nat, NEW i \in T, \A j \in T : i <= j
  PROVE  Min(T) = i
  <1>1. T # {}
    OBVIOUS
  <1>2. Min(T) \in T /\ \A y \in T : Min(T) <= y
    BY <1>1, MinIsLeast
  <1>3. Min(T) <= i /\ i <= Min(T) /\ i \in Nat /\ Min(T) \in Nat
    BY <1>2
  <1> QED BY <1>3

(* A recursion that never leaves a set defines a function into that set.   *)
Unfolds(f, n, S, a, G) ==
  f \in [0 .. n -> S] /\ f[0] = a /\ \A i \in 1 .. n : f[i] = G[<<i, f[i - 1]>>]

LEMMA Recursion ==
  ASSUME NEW n \in Nat, NEW S, NEW a \in S, NEW G \in [(1 .. n) \X S -> S]
  PROVE  \E f : Unfolds(f, n, S, a, G)
  <1> DEFINE Upto(k) == \E f \in [0 .. k -> S] :
                          f[0] = a /\ \A i \in 1 .. k : f[i] = G[<<i, f[i - 1]>>]
             T == {k \in 0 .. n : Upto(k)}
  <1>1. Upto(0)
    <2> DEFINE f == [i \in 0 .. 0 |-> a]
    <2>1. f \in [0 .. 0 -> S] /\ f[0] = a /\ \A i \in 1 .. 0 : FALSE
      OBVIOUS
    <2> QED BY <2>1
  <1>2. ASSUME NEW k \in 0 .. n, k < n, Upto(k)
        PROVE  Upto(k + 1)
    <2>1. PICK f \in [0 .. k -> S] :
            f[0] = a /\ \A i \in 1 .. k : f[i] = G[<<i, f[i - 1]>>]
      BY <1>2
    <2> DEFINE g == [i \in 0 .. k + 1 |-> IF i <= k THEN f[i] ELSE G[<<k + 1, f[k]>>]]
    <2>2. k \in Nat /\ k + 1 \in 1 .. n /\ k \in 0 .. k /\ f[k] \in S
      BY <1>2
    <2>3. G[<<k + 1, f[k]>>] \in S
      BY <2>2
    <2>4. g \in [0 .. k + 1 -> S]
      BY <2>2, <2>3
    <2>5. g[0] = a
      BY <2>1, <2>2
    <2>6. ASSUME NEW i \in 1 .. k + 1
          PROVE  g[i] = G[<<i, g[i - 1]>>]
      <3>1. i - 1 \in 0 .. k /\ g[i - 1] = f[i - 1] /\ i \in 0 .. k + 1
        BY <2>2
      <3>2. i \in 1 .. k \/ (i = k + 1 /\ i - 1 = k)
        BY <2>2
      <3>3. CASE i \in 1 .. k
        BY <2>1, <2>2, <3>1, <3>3
      <3>4. CASE i = k + 1 /\ i - 1 = k
        <4>1. ~(i <= k)
          BY <2>2, <3>4
        <4> QED BY <3>1, <3>4, <4>1
      <3> QED BY <3>2, <3>3, <3>4
    <2> HIDE DEF g
    <2> QED BY <2>4, <2>5, <2>6
  <1>3. 0 .. n \subseteq T
    <2> HIDE DEF Upto
    <2>1. 0 \in T
      BY <1>1
    <2>2. \A k \in 0 .. n : k < n /\ k \in T => k + 1 \in T
      BY <1>2
    <2> HIDE DEF T
    <2> QED BY <2>1, <2>2, InductionTo
  <1>4. Upto(n)
    <2> HIDE DEF Upto
    <2> QED BY <1>3
  <1> QED BY <1>4 DEF Unfolds
=============================================================================
