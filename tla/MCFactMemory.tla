---------------------------- MODULE MCFactMemory ----------------------------
(***************************************************************************)
(* Instances of FactMemory for TLC: one asset and one vulnerability, so    *)
(* every fact competes with every other, and a few interchangeable ids.    *)
(***************************************************************************)
EXTENDS FactRefinement, TLC

CONSTANTS web, cve  \* the two canonical keys

MCKindOf == (web :> "asset") @@ (cve :> "cve")

MCPartsOf == [c \in Content |-> 1]

Symmetry == Permutations(FactId)
=============================================================================
