-------------------------- MODULE FiniteInduction --------------------------
(***************************************************************************)
(* Induction and recursion over 0 .. N, stated with sets and functions.    *)
(*                                                                         *)
(* The induction theorems of the library take operators, which the provers *)
(* cannot instantiate; a predicate is a set here, the step of a recursion a*)
(* function of pairs.  A loop over a list is a recursive function in the   *)
(* model: its steps are made a function, Recursion shows that the CHOOSE in*)
(* its definition is not empty, and IntervalInduction carries what holds of*)
(* the result.                                                             *)
(***************************************************************************)
EXTENDS Integers, Sequences, FiniteSetsExt, TLAPS, WellFoundedInduction

\* A set of natural numbers that is not empty has a least member.
LEMMA LeastNatural ==
  ASSUME NEW S, S \subseteq Nat, S # {}
  PROVE  \E m \in S : \A k \in S : m <= k
<1> DEFINE Less == {ss \in Nat \X Nat : ss[1] < ss[2]}
<1>1. IsWellFoundedOn(Less, Nat)
  BY NatLessThanWellFounded DEF OpToRel
<1>2. PICK m \in S : \A k \in S : <<k, m>> \notin Less
  <2> HIDE DEF Less
  <2> QED  BY <1>1, WFMin
<1>3. ASSUME NEW k \in S PROVE m <= k
  <2>1. <<k, m>> \notin Less BY <1>2
  <2>2. ~ (k < m) BY <2>1
  <2>3. k \in Nat /\ m \in Nat OBVIOUS
  <2> QED BY <2>2, <2>3
<1> QED
  BY <1>3

\* Induction up to a bound, over a set in the place of a predicate.
LEMMA IntervalInduction ==
  ASSUME NEW N \in Nat, NEW T, 0 \in T, \A n \in 1 .. N : n - 1 \in T => n \in T
  PROVE  0 .. N \subseteq T
<1> SUFFICES ASSUME (0 .. N) \ T # {} PROVE FALSE
  OBVIOUS
<1>1. PICK m \in (0 .. N) \ T : \A k \in (0 .. N) \ T : m <= k
  <2> DEFINE S == (0 .. N) \ T
  <2>1. S \subseteq Nat /\ S # {}
    OBVIOUS
  <2> HIDE DEF S
  <2>2. \E m \in S : \A k \in S : m <= k
    BY <2>1, LeastNatural
  <2> QED  BY <2>2 DEF S
<1>2. m # 0 /\ m - 1 \in 0 .. N /\ m \in 1 .. N
  OBVIOUS
<1>3. m - 1 \in T
  BY <1>1, <1>2
<1> QED
  BY <1>1, <1>2, <1>3

\* f takes the steps of a recursion from base on.
RecursiveOver(f, N, base, step) ==
    f[0] = base /\ \A n \in 1 .. N : f[n] = step[<<f[n - 1], n>>]

\* There is a function that takes the steps of a recursion over 0 .. N; a recursive
\* definition is a CHOOSE of one.
LEMMA Recursion ==
  ASSUME NEW N \in Nat, NEW D, NEW base \in D, NEW step \in [D \X (1 .. N) -> D]
  PROVE  \E f \in [0 .. N -> D] : RecursiveOver(f, N, base, step)
<1> DEFINE Good(m, f) == f[0] = base /\ \A n \in 1 .. m : f[n] = step[<<f[n - 1], n>>]
           T == {m \in 0 .. N : \E f \in [0 .. m -> D] : Good(m, f)}
<1>1. 0 \in T
  <2> DEFINE g == [n \in 0 .. 0 |-> base]
  <2>1. g \in [0 .. 0 -> D] /\ Good(0, g)
    OBVIOUS
  <2> HIDE DEF g, Good
  <2> QED  BY <2>1
<1>2. ASSUME NEW m \in 1 .. N, m - 1 \in T  PROVE m \in T
  <2>1. PICK f \in [0 .. m - 1 -> D] : Good(m - 1, f)
    BY <1>2
  <2> DEFINE v == step[<<f[m - 1], m>>]
             g == [n \in 0 .. m |-> IF n = m THEN v ELSE f[n]]
  <2>2. v \in D
    OBVIOUS
  <2>3. g \in [0 .. m -> D]
    BY <2>2
  <2>4. g[0] = base
    BY <2>1
  <2>5. ASSUME NEW n \in 1 .. m PROVE g[n] = step[<<g[n - 1], n>>]
    <3>1. CASE n = m
      <4>1. g[n - 1] = f[m - 1] BY <3>1
      <4> QED BY <3>1, <4>1
    <3>2. CASE n # m
      <4>1. n \in 1 .. m - 1 /\ g[n - 1] = f[n - 1] /\ g[n] = f[n] BY <3>2
      <4> QED BY <2>1, <4>1
    <3> QED BY <3>1, <3>2
  <2>6. Good(m, g) BY <2>4, <2>5
  <2> HIDE DEF g, Good
  <2> QED  BY <2>3, <2>6
<1>3. N \in T
  <2> HIDE DEF T
  <2>1. 0 .. N \subseteq T BY <1>1, <1>2, IntervalInduction
  <2> QED BY <2>1
<1> QED
  BY <1>3 DEF RecursiveOver

\* What begins in D, with steps that do not leave it, stays in D.
LEMMA StepsStay ==
  ASSUME NEW N \in Nat, NEW D, NEW f, f[0] \in D, \A n \in 1 .. N : f[n - 1] \in D => f[n] \in D
  PROVE  \A n \in 0 .. N : f[n] \in D
<1> DEFINE T == {n \in 0 .. N : f[n] \in D}
<1>1. 0 \in T
  OBVIOUS
<1>2. ASSUME NEW n \in 1 .. N, n - 1 \in T  PROVE n \in T
  BY <1>2
<1> HIDE DEF T
<1>3. 0 .. N \subseteq T
  BY <1>1, <1>2, IntervalInduction
<1> QED
  BY <1>3 DEF T

\* The greatest member of a set between two bounds.
LEMMA MaxOfSome ==
  ASSUME NEW a \in Int, NEW b \in Int, NEW S \in SUBSET (a .. b), S # {}
  PROVE  Max(S) \in S /\ \A k \in S : k <= Max(S)
<1> DEFINE T == {b - k : k \in S}
<1>1. T \subseteq Nat /\ T # {}
  <2>1. PICK x : x \in S
    OBVIOUS
  <2>2. b - x \in T
    BY <2>1
  <2> QED  BY <2>2
<1>2. PICK m \in T : \A k \in T : m <= k
  <2> HIDE DEF T
  <2> QED  BY <1>1, LeastNatural
<1>3. PICK x \in S : m = b - x
  OBVIOUS
<1>4. \A k \in S : x >= k
  <2>1. ASSUME NEW k \in S PROVE x >= k
    <3>1. b - k \in T OBVIOUS
    <3>2. b - x <= b - k BY <3>1, <1>2, <1>3
    <3>3. x \in Int /\ k \in Int OBVIOUS
    <3> QED BY <3>2, <3>3
  <2> QED BY <2>1
<1>5. \A k \in S : Max(S) >= k
  BY <1>4 DEF Max
<1>6. Max(S) \in S
  BY <1>4 DEF Max
<1> QED
  BY <1>5, <1>6

\* The least member of a set of integers above a bound.
LEMMA MinOfSome ==
  ASSUME NEW a \in Int, NEW S \in SUBSET Int, S # {}, \A k \in S : a <= k
  PROVE  Min(S) \in S /\ \A k \in S : Min(S) <= k
<1> DEFINE T == {k - a : k \in S}
<1>1. T \subseteq Nat /\ T # {}
  <2>1. PICK x : x \in S
    OBVIOUS
  <2>2. x - a \in T
    BY <2>1
  <2> QED  BY <2>2
<1>2. PICK m \in T : \A k \in T : m <= k
  <2> HIDE DEF T
  <2> QED  BY <1>1, LeastNatural
<1>3. PICK x \in S : m = x - a
  OBVIOUS
<1>4. \A k \in S : x <= k
  <2>1. ASSUME NEW k \in S PROVE x <= k
    <3>1. k - a \in T OBVIOUS
    <3>2. x - a <= k - a BY <3>1, <1>2, <1>3
    <3>3. x \in Int /\ k \in Int OBVIOUS
    <3> QED BY <3>2, <3>3
  <2> QED BY <2>1
<1>5. \A k \in S : Min(S) <= k
  BY <1>4 DEF Min
<1>6. Min(S) \in S
  BY <1>4 DEF Min
<1> QED
  BY <1>5, <1>6
=============================================================================
