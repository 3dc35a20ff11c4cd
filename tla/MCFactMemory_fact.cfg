\* Three facts about one asset and vulnerability, reviews and rollbacks; the database
\* is also checked against the abstract ledger.  Of the three origins, mcp and
\* ai_suggestion both arrive as proposals, so one of them is here.
SPECIFICATION Spec
CONSTANTS
  FactId = {f1, f2, f3}
  NoFact = NoFact
  Content = {e1}
  Source = {scanner}
  Principal = {ann}
  Reviewer = {rita}
  Nobody = Nobody
  web = web
  cve = cve
  Key = {web, cve}
  Asserted = {"HAS_VULN", "REMEDIATED", "FALSE_POSITIVE"}
  Origin = {"mcp", "allowlisted_source"}
  ValidFrom = {}
  ValidTo = {}
  WritesPerMinute = 4
  Minute = 10
  MaxTime = 1
  MaxAudit = 6
  PartsOf <- MCPartsOf
  KindOf <- MCKindOf
SYMMETRY Symmetry
CHECK_DEADLOCK FALSE
INVARIANTS
  IInv
  ReferencesOK
  TrustFromLog
  NoContradiction
  OneOpenPerClaim
PROPERTIES
  RollbackRestores
  ImplementsLedger
