----------------------------- MODULE Induction ------------------------------
(***************************************************************************)
(* Induction over the natural numbers for properties given as sets. The    *)
(* recursive functions of the models (build_index, the redaction of a      *)
(* request, the loading of a file) are loops of the code; what a loop      *)
(* computes for an input of any length is proved with these two lemmas.    *)
(* They rest on the library's theorem that < is well founded on Nat.       *)
(***************************************************************************)
EXTENDS Integers, WellFoundedInduction, TLAPS

\* A set of natural numbers that is not empty has a least element.
LEMMA LeastElement ==
    ASSUME NEW T \in SUBSET Nat, T # {}
    PROVE  \E n \in T : \A m \in T : n <= m
<1> DEFINE R == OpToRel(<, Nat)
<1>1. IsWellFoundedOn(R, Nat)
  BY NatLessThanWellFounded
<1>2. \A x, y \in Nat : x < y => <<x, y>> \in R
  BY DEF OpToRel
<1> HIDE DEF R
<1>3. PICK x \in T : \A y \in T : ~(<<y, x>> \in R)
  BY <1>1, WFMin
<1>4. \A y \in T : x <= y
  <2> TAKE y \in T
  <2>1. x \in Nat /\ y \in Nat
    OBVIOUS
  <2>2. ~(y < x)
    BY <1>2, <1>3, <2>1
  <2> QED
    BY <2>1, <2>2
<1> QED
  BY <1>4

\* A set that holds 0, and n + 1 with every n it holds, holds every number.
LEMMA NatSetInduction ==
    ASSUME NEW S, 0 \in S, \A n \in Nat : n \in S => n + 1 \in S
    PROVE  \A n \in Nat : n \in S
<1> DEFINE T == Nat \ S
<1>1. SUFFICES ASSUME T # {} PROVE FALSE
  OBVIOUS
<1>2. PICK n \in T : \A m \in T : n <= m
  BY <1>1, LeastElement
<1>3. n # 0 /\ n - 1 \in Nat /\ n - 1 \notin T
  BY <1>2
<1> QED
  BY <1>2, <1>3

\* A set of numbers up to n that is not empty has a greatest element.
LEMMA GreatestElement ==
    ASSUME NEW n \in Nat, NEW T \in SUBSET (1..n), T # {}
    PROVE  \E i \in T : \A k \in T : k <= i
<1> DEFINE U == {m \in Nat : \E i \in T : m = n - i}
<1>0. \A k \in T : n - k \in Nat /\ k \in 1..n
  OBVIOUS
<1>1. \A k \in T : n - k \in U
  BY <1>0
<1>2. U \in SUBSET Nat /\ U # {}
  BY <1>1
<1> HIDE DEF U
<1>3. PICK m \in U : \A l \in U : m <= l
  BY <1>2, LeastElement
<1>4. PICK i \in T : m = n - i
  BY <1>3 DEF U
<1>5. \A k \in T : k <= i
  BY <1>0, <1>1, <1>3, <1>4
<1> QED BY <1>5
============================================================================
