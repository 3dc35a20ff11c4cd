--------------------------- MODULE FactRefinement ---------------------------
(***************************************************************************)
(* FactMemory implements TrustLedger: the columns of the facts table alone *)
(* hold the ledger of standing decisions, and the status column always     *)
(* shows the facts that prevail in it.                                     *)
(***************************************************************************)
EXTENDS FactSafety

ClaimSet == [subject: Key, predicate: Predicate, object: Key]

ClosingPairs ==
  {ba \in ClaimSet \X ClaimSet :
     /\ ba[1].subject = ba[2].subject
     /\ ba[1].object = ba[2].object
     /\ ba[2].predicate \in ClosedBy(ba[1].predicate)}

DecisionOf(f) ==
  [rank |-> facts[f].decisionSeq, fact |-> f,
   verdict |-> IF facts[f].status = "rejected" THEN "reject" ELSE "grant"]

Decided == {f \in DOMAIN facts : facts[f].decisionSeq # Null}

TrustedFacts == {f \in DOMAIN facts : facts[f].status = "trusted"}

Ledger == INSTANCE TrustLedger WITH
  Claim <- ClaimSet,
  Closing <- ClosingPairs,
  claims <- [f \in DOMAIN facts |-> ClaimOf(facts[f])],
  ledger <- {DecisionOf(f) : f \in Decided},
  trusted <- TrustedFacts

\* Every write, review and rollback of the database is a step of the ledger,
\* or leaves it alone.  (facts.ts, review.ts)
ImplementsLedger == Ledger!TSpec
=============================================================================
