----------------------------- MODULE Recursion ------------------------------
(***************************************************************************)
(* What the proofs about recursive functions of a sequence need: induction *)
(* over an interval of numbers, from the well-foundedness of the natural   *)
(* numbers, and that a function defined step by step exists.               *)
(***************************************************************************)
EXTENDS Integers, WellFoundedInduction, TLAPS

(* A nonempty set of numbers has a least one. *)
LEMMA LeastNumber ==
  ASSUME NEW T, T \subseteq Nat, T # {}
  PROVE  \E x \in T : \A y \in T : x <= y
<1> DEFINE R == {pair \in Nat \X Nat : pair[1] < pair[2]}
<1>1. IsWellFoundedOn(R, Nat)
  BY NatLessThanWellFounded DEF OpToRel
<1>2. PICK x \in T : \A y \in T : ~ (<<y, x>> \in R)
  <2> HIDE DEF R
  <2> QED BY <1>1, WFMin
<1>3. ASSUME NEW y \in T PROVE x <= y
  <2>1. ~ (<<y, x>> \in R)
    BY <1>2
  <2> QED BY <2>1
<1> QED BY <1>3

(* A set that has 0, and with every number up to n the next, has 0..n. *)
LEMMA Induction ==
  ASSUME NEW n \in Nat, NEW S, 0 \in S, \A i \in 1..n : i - 1 \in S => i \in S
  PROVE  \A i \in 0..n : i \in S
<1> SUFFICES ASSUME (0..n) \ S # {} PROVE FALSE
  OBVIOUS
<1> DEFINE T == (0..n) \ S
<1>1. PICK m \in T : \A y \in T : m <= y
  <2>1. T \subseteq Nat /\ T # {}
    OBVIOUS
  <2> HIDE DEF T
  <2> QED BY <2>1, LeastNumber
<1>2. m \in 1..n /\ m - 1 \in 0..n
  BY <1>1
<1>3. m - 1 \in S
  BY <1>1, <1>2
<1> QED BY <1>1, <1>2, <1>3

(* A function whose i-th value is made of the one before. *)
Stepwise(f, n, base, step, S) ==
  /\ f \in [0..n -> S]
  /\ f[0] = base
  /\ \A i \in 1..n : f[i] = step[i][f[i - 1]]

(* Functions defined step by step exist.                                   *)
LEMMA StepwiseExists ==
  ASSUME NEW n \in Nat, NEW base, NEW S, base \in S, NEW step \in [1..n -> [S -> S]]
  PROVE  \E f : Stepwise(f, n, base, step, S)
<1> DEFINE Good(f, k) == f[0] = base /\ \A i \in 1..k : f[i] = step[i][f[i - 1]]
           Reach == {k \in 0..n : \E f \in [0..k -> S] : Good(f, k)}
<1>1. 0 \in Reach
  <2> DEFINE f == [i \in 0..0 |-> base]
  <2>1. f \in [0..0 -> S] /\ f[0] = base
    OBVIOUS
  <2>2. Good(f, 0)
    BY <2>1
  <2>3. 0 \in 0..n
    OBVIOUS
  <2> HIDE DEF f, Good
  <2> QED BY <2>1, <2>2, <2>3
<1>2. ASSUME NEW k \in 1..n, k - 1 \in Reach PROVE k \in Reach
  <2>1. PICK f \in [0..(k - 1) -> S] : Good(f, k - 1)
    BY <1>2
  <2> DEFINE g == [i \in 0..k |-> IF i = k THEN step[k][f[k - 1]] ELSE f[i]]
  <2>2. step[k][f[k - 1]] \in S
    <3>1. step[k] \in [S -> S] /\ f[k - 1] \in S
      BY <2>1
    <3> QED BY <3>1
  <2>3. g \in [0..k -> S]
    BY <2>1, <2>2
  <2>4. g[0] = base
    BY <2>1
  <2>5. ASSUME NEW i \in 1..k PROVE g[i] = step[i][g[i - 1]]
    <3>1. CASE i = k
      BY <3>1
    <3>2. CASE i # k
      <4>1. i \in 1..(k - 1) /\ i - 1 \in 0..(k - 1) /\ i - 1 # k /\ i \in 0..k /\ i - 1 \in 0..k
        BY <3>2
      <4>2. g[i] = f[i] /\ g[i - 1] = f[i - 1]
        BY <4>1, <3>2
      <4> QED BY <2>1, <4>1, <4>2
    <3> QED BY <3>1, <3>2
  <2>6. Good(g, k)
    BY <2>4, <2>5
  <2>7. k \in 0..n
    OBVIOUS
  <2> HIDE DEF g, Good
  <2> QED BY <2>3, <2>6, <2>7
<1>3. n \in Reach
  <2> HIDE DEF Reach
  <2>1. \A i \in 1..n : i - 1 \in Reach => i \in Reach
    BY <1>2
  <2>2. \A i \in 0..n : i \in Reach
    BY <1>1, <2>1, Induction
  <2> QED BY <2>2
<1>4. PICK f \in [0..n -> S] : Good(f, n)
  BY <1>3
<1> QED BY <1>4 DEF Stepwise
=============================================================================
