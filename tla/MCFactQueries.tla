---------------------------- MODULE MCFactQueries ----------------------------
(***************************************************************************)
(* An instance of FactQueries for TLC: an identity that owns an asset with *)
(* a vulnerability, so the graph has two steps.                            *)
(***************************************************************************)
EXTENDS FactQueries, AuditChain, TLC

CONSTANTS bob, web, cve  \* canonical keys

MCKindOf == (bob :> "identity") @@ (web :> "asset") @@ (cve :> "cve")

MCPartsOf == [c \in Content |-> 1]

Symmetry == Permutations(FactId)
=============================================================================
