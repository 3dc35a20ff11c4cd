----------------------------- MODULE Predicates -----------------------------
(***************************************************************************)
(* The closed list of relationship types a fact may have, the shape each   *)
(* one requires, and the trust a write starts with: policy/predicates.ts   *)
(* and policy/trust.ts.  Everything here is a constant-level operator; the *)
(* modules that change state take their guards from it.                    *)
(***************************************************************************)
EXTENDS Naturals

EntityKind == {"asset", "cve", "tenable-plugin", "identity", "agent",
               "ioc-ip", "ioc-domain", "ioc-hash", "control", "ticket"}

Predicate == {"HAS_VULN", "REMEDIATED", "FALSE_POSITIVE", "ACCEPTED_RISK",
              "OWNS", "OBSERVED", "RELATED_TO"}

VulnKinds == {"cve", "tenable-plugin"}

\* The predicates that speak about a vulnerability on an asset.
VulnPredicate == {"HAS_VULN", "REMEDIATED", "FALSE_POSITIVE", "ACCEPTED_RISK"}

SubjectKinds(p) ==
  CASE p \in VulnPredicate -> {"asset"}
    [] p = "OWNS"          -> {"identity"}
    [] p = "OBSERVED"      -> {"agent", "identity"}
    [] OTHER               -> EntityKind

ObjectKinds(p) ==
  CASE p \in VulnPredicate -> VulnKinds
    [] p = "OWNS"          -> {"asset"}
    [] p = "OBSERVED"      -> {"asset", "ioc-ip", "ioc-domain", "ioc-hash"}
    [] OTHER               -> EntityKind

\* Only an accepted risk must carry an expiry and a reason.
RequiresValidTo(p) == p = "ACCEPTED_RISK"
RequiresReason(p)  == p = "ACCEPTED_RISK"

\* The other predicates a newly trusted p closes (the "closes" column).
OtherClosed(p) ==
  CASE p = "HAS_VULN"       -> {"REMEDIATED"}
    [] p = "REMEDIATED"     -> {"HAS_VULN", "ACCEPTED_RISK"}
    [] p = "FALSE_POSITIVE" -> {"HAS_VULN"}
    [] OTHER                -> {}

NotItself(p) == OtherClosed(p)  \* mutated ClosedBy: a predicate spares itself

\* predicatesClosedBy: a predicate always closes itself as well.
ClosedBy(p) == {p} \cup OtherClosed(p)

\* checkShape: hasValidTo and hasReason say whether the optional inputs were given.
ShapeOk(p, subjectKind, objectKind, hasValidTo, hasReason) ==
  /\ subjectKind \in SubjectKinds(p)
  /\ objectKind \in ObjectKinds(p)
  /\ RequiresValidTo(p) => hasValidTo
  /\ RequiresReason(p) => hasReason

FactOrigin == {"mcp", "allowlisted_source", "ai_suggestion"}

\* initialStatus: the only origin that starts trusted is an allowlisted source.
InitialStatus(origin) ==
  IF origin = "allowlisted_source" THEN "trusted" ELSE "proposed"
=============================================================================
