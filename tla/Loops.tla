------------------------------- MODULE Loops -------------------------------
(***************************************************************************)
(* Loops over integers, which the models write as recursive functions:     *)
(* such a function exists, and what every pass preserves holds at the end. *)
(* Both come from induction over the natural numbers, here for sets of     *)
(* numbers: a set has a least one, because intervals are ordered by        *)
(* inclusion, which is well-founded on finite sets.                        *)
(***************************************************************************)
EXTENDS Integers, FiniteSetTheorems, TLAPS

(* A set of numbers that is not empty has a least one.                     *)
LEMMA LeastNumber ==
    ASSUME NEW S \in SUBSET Nat, S # {}
    PROVE  \E m \in S : \A k \in S : m <= k
<1> DEFINE T == {0..n : n \in S}
<1>1. \A n \in Nat : IsFiniteSet(0..n)
  BY FS_Interval
<1>2. T \subseteq FiniteSubsetsOf(Nat) /\ T # {}
  <2>1. \A n \in S : 0..n \in FiniteSubsetsOf(Nat)
    BY <1>1 DEF FiniteSubsetsOf
  <2> QED BY <2>1
<1>3. PICK x \in T : \A y \in T : <<y, x>> \notin StrictSubsetOrdering(Nat)
  <2> HIDE DEF T
  <2> QED BY <1>2, FS_StrictSubsetOrderingWellFounded, WFMin
<1>4. PICK m \in S : x = 0..m
  BY <1>3
<1>5. ASSUME NEW k \in S, k < m PROVE FALSE
  <2>1. 0..k \subseteq 0..m /\ 0..k # 0..m
    BY <1>5
  <2>2. 0..k \in SUBSET Nat /\ 0..m \in SUBSET Nat
    OBVIOUS
  <2>3. <<0..k, 0..m>> \in StrictSubsetOrdering(Nat)
    BY <2>1, <2>2 DEF StrictSubsetOrdering
  <2> QED BY <1>3, <1>4, <2>3
<1> QED BY <1>5

(* Induction, over a set of numbers.                                       *)
LEMMA Induction ==
    ASSUME NEW S \in SUBSET Nat, 0 \in S, \A n \in S : n + 1 \in S
    PROVE  S = Nat
<1>1. SUFFICES ASSUME Nat \ S # {} PROVE FALSE
  OBVIOUS
<1>2. PICK m \in Nat \ S : \A k \in Nat \ S : m <= k
  BY <1>1, LeastNumber
<1>3. m - 1 \in S /\ m = (m - 1) + 1
  BY <1>2
<1> QED BY <1>2, <1>3

(* f is what a loop from m to n computes, step by step.                    *)
Follows(f, m, n, base, step) ==
    f[m] = base /\ \A i \in m + 1..n : f[i] = step[<<f[i - 1], i>>]

(* There is such a function: a recursive definition means what it says.    *)
THEOREM Recursion ==
    ASSUME NEW m \in Int, NEW n \in Int, m <= n,
           NEW S, NEW base \in S, NEW step \in [S \X Int -> S]
    PROVE  \E f \in [m..n -> S] : Follows(f, m, n, base, step)
<1> DEFINE Fits(f, k) == f \in [m..m + k -> S] /\ f[m] = base
                         /\ \A i \in m + 1..m + k : f[i] = step[<<f[i - 1], i>>]
           T == {k \in Nat : \E f : Fits(f, k)}
<1>1. 0 \in T
  <2>1. m..m + 0 = {m} /\ m + 1..m + 0 = {}
    OBVIOUS
  <2>2. [i \in {m} |-> base] \in [{m} -> S]
    OBVIOUS
  <2>3. Fits([i \in {m} |-> base], 0)
    BY <2>1, <2>2
  <2> QED BY <2>3
<1>2. ASSUME NEW k \in Nat, NEW f, Fits(f, k) PROVE \E g : Fits(g, k + 1)
  <2> HIDE DEF T
  <2>1. /\ f \in [m..m + k -> S] /\ f[m] = base
        /\ \A i \in m + 1..m + k : f[i] = step[<<f[i - 1], i>>]
    BY <1>2
  <2> HIDE DEF Fits
  <2> DEFINE g == [i \in m..m + (k + 1) |-> IF i = m + (k + 1) THEN step[<<f[m + k], i>>] ELSE f[i]]
  <2>2. \A i \in m..m + k : f[i] \in S /\ i \in m..m + (k + 1) /\ i # m + (k + 1)
    BY <2>1
  <2>3. m + k \in m..m + k /\ m \in m..m + k /\ m + (k + 1) \in m..m + (k + 1)
    OBVIOUS
  <2>4. \A v \in S, i \in Int : step[<<v, i>>] \in S
    OBVIOUS
  <2>5. g \in [m..m + (k + 1) -> S]
    BY <2>2, <2>3, <2>4
  <2>6. /\ \A i \in m..m + k : g[i] = f[i]
        /\ g[m + (k + 1)] = step[<<f[m + k], m + (k + 1)>>]
    BY <2>2, <2>3
  <2> HIDE DEF g
  <2>7. \A i \in m + 1..m + (k + 1) : g[i] = step[<<g[i - 1], i>>]
    <3> TAKE i \in m + 1..m + (k + 1)
    <3>1. CASE i = m + (k + 1)
      <4>1. i - 1 = m + k
        BY <3>1
      <4> QED BY <2>3, <2>6, <3>1, <4>1
    <3>2. CASE i # m + (k + 1)
      <4>1. i \in m + 1..m + k /\ i \in m..m + k /\ i - 1 \in m..m + k
        BY <3>2
      <4> QED BY <2>1, <2>6, <4>1
    <3> QED BY <3>1, <3>2
  <2>8. g[m] = base
    BY <2>1, <2>3, <2>6
  <2> QED BY <2>5, <2>7, <2>8 DEF Fits
<1>3. n - m \in T
  <2>1. \A k \in T : k + 1 \in T
    BY <1>2
  <2> HIDE DEF T
  <2>2. T \subseteq Nat
    BY DEF T
  <2> QED BY <1>1, <2>1, <2>2, Induction
<1>4. PICK f : Fits(f, n - m)
  BY <1>3
<1>5. f \in [m..n -> S] /\ f[m] = base /\ \A i \in m + 1..n : f[i] = step[<<f[i - 1], i>>]
  BY <1>4
<1> QED BY <1>5 DEF Follows

(* Induction from m to n.                                                  *)
LEMMA LoopInduction ==
    ASSUME NEW m \in Int, NEW n \in Int, m <= n, NEW Good,
           m \in Good, \A i \in m + 1..n : i - 1 \in Good => i \in Good
    PROVE  \A i \in m..n : i \in Good
<1> DEFINE T == {k \in Nat : m + k <= n => m + k \in Good}
<1>1. 0 \in T
  OBVIOUS
<1>2. ASSUME NEW k \in T PROVE k + 1 \in T
  <2>1. k \in Nat
    OBVIOUS
  <2> SUFFICES ASSUME m + (k + 1) <= n PROVE m + (k + 1) \in Good
    BY <2>1
  <2>2. PICK i \in Int : i = m + (k + 1)
    BY <2>1
  <2>3. i \in m + 1..n /\ i - 1 = m + k /\ m + k <= n
    BY <2>1, <2>2
  <2>4. i - 1 \in Good
    BY <2>3
  <2> HIDE DEF T
  <2> QED BY <2>2, <2>3, <2>4
<1>3. T = Nat
  <2>1. T \in SUBSET Nat
    OBVIOUS
  <2> HIDE DEF T
  <2> QED BY <1>1, <1>2, <2>1, Induction
<1>4. ASSUME NEW i \in m..n PROVE i \in Good
  <2>1. i - m \in T
    <3>1. i - m \in Nat
      OBVIOUS
    <3> HIDE DEF T
    <3> QED BY <1>3, <3>1
  <2>2. m + (i - m) = i /\ i <= n
    OBVIOUS
  <2> QED BY <2>1, <2>2
<1> QED BY <1>4
=============================================================================
