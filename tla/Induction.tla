----------------------------- MODULE Induction ------------------------------
(***************************************************************************)
(* Induction over the natural numbers in a form that the provers can use:   *)
(* about a set of numbers instead of a predicate.  It takes the place of    *)
(* NatInduction in what is proved about recursive functions.                *)
(***************************************************************************)
EXTENDS Naturals, WellFoundedInduction, TLAPS

(* The order of the natural numbers as a relation.                          *)
NatBelow == {p \in Nat \X Nat : p[1] < p[2]}

LEMMA NatBelowWellFounded == IsWellFoundedOn(NatBelow, Nat)
<1>1. NatBelow \cap (Nat \X Nat) \subseteq OpToRel(<, Nat)
  BY DEF NatBelow, OpToRel
<1> QED
  BY <1>1, NatLessThanWellFounded, IsWellFoundedOnSubrelation, Zenon

(* A set with 0 and the successor of each of its numbers has all of them:   *)
(* the least number outside would have a predecessor outside.               *)
LEMMA SetInduction ==
    ASSUME NEW S, 0 \in S, \A n \in Nat : n \in S => n + 1 \in S
    PROVE  \A n \in Nat : n \in S
<1> DEFINE T == Nat \ S
<1>1. SUFFICES ASSUME T # {} PROVE FALSE
  OBVIOUS
<1>2. PICK x \in T : \A y \in T : ~ (<<y, x>> \in NatBelow)
  <2>1. T \subseteq Nat
    OBVIOUS
  <2> HIDE DEF T
  <2> QED
    BY <1>1, <2>1, NatBelowWellFounded, WFMin, Zenon
<1>3. x \in Nat /\ x \notin S /\ x # 0
  BY <1>2
<1>4. x - 1 \in Nat /\ (x - 1) + 1 = x /\ x - 1 < x
  BY <1>3
<1>5. x - 1 \notin T
  <2>1. <<x - 1, x>> \in Nat \X Nat
    BY <1>3, <1>4
  <2>2. <<x - 1, x>> \in NatBelow
    BY <1>4, <2>1 DEF NatBelow
  <2> QED
    BY <1>2, <2>2
<1> QED
  BY <1>3, <1>4, <1>5
=============================================================================
