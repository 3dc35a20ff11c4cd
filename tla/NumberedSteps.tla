---------------------------- MODULE NumberedSteps ----------------------------
(***************************************************************************)
(* Induction on numbered steps, as the provers can use it: a set of        *)
(* numbers has a least member, so one that holds 0, and n + 1 with n,      *)
(* holds them all.  The definitions that are computed step by step, the    *)
(* walk of the graph, the hashes of the log, the places of a fused list,   *)
(* are shown with it to exist and to be right at every step.               *)
(***************************************************************************)
EXTENDS Integers, WellFoundedInduction, TLAPS

LEMMA LeastNatural ==
  ASSUME NEW T \in SUBSET Nat, T # {}
  PROVE  \E n \in T : \A m \in T : n <= m
<1>1. PICK n \in T : \A m \in T : <<m, n>> \notin OpToRel(<, Nat)
  BY WFMin, NatLessThanWellFounded, Zenon
<1>2. \A m \in T : ~(m < n)
  BY <1>1, Zenon DEF OpToRel
<1> QED
  BY <1>2

\* Induction, for a set of numbers: what holds of 0, and of n + 1 with n.
LEMMA EveryNumber ==
  ASSUME NEW S, 0 \in S, \A n \in Nat : n \in S => n + 1 \in S
  PROVE  Nat \subseteq S
<1> SUFFICES ASSUME Nat \ S # {} PROVE FALSE
  OBVIOUS
<1>1. PICK n \in Nat \ S : \A m \in Nat \ S : n <= m
  BY LeastNatural
<1>2. n # 0 /\ n - 1 \in Nat /\ n - 1 < n /\ (n - 1) + 1 = n
  BY <1>1
<1>3. n - 1 \in S
  BY <1>1, <1>2
<1> QED
  BY <1>1, <1>2, <1>3
=============================================================================
