---------------------------- MODULE NatInduction ----------------------------
(***************************************************************************)
(* Induction over the natural numbers, stated with a set instead of an     *)
(* operator so that the provers can instantiate it.                        *)
(***************************************************************************)
EXTENDS Naturals, WellFoundedInduction, TLAPS

Less == {p \in Nat \X Nat : p[1] < p[2]}

\* The order of the natural numbers is well-founded.
LEMMA LessWellFounded == IsWellFoundedOn(Less, Nat)
  BY NatLessThanWellFounded DEF OpToRel, Less

\* A set of natural numbers that holds 0 and with each number its successor is Nat.
LEMMA NatBySuccessor ==
  ASSUME NEW T \in SUBSET Nat, 0 \in T, \A n \in T : n + 1 \in T
  PROVE  T = Nat
  <1> SUFFICES ASSUME T # Nat PROVE FALSE
    OBVIOUS
  <1>1. PICK x \in Nat \ T : \A y \in Nat \ T : <<y, x>> \notin Less
    BY LessWellFounded, WFMin
  <1>2. x # 0 /\ x - 1 \in Nat /\ <<x - 1, x>> \in Less
    BY DEF Less
  <1>3. x - 1 \in T
    BY <1>1, <1>2
  <1> QED
    BY <1>2, <1>3
=============================================================================
