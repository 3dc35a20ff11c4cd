\* A walk of two steps while facts expire, are closed and are rolled back; three
\* facts fill every list past its limit.
SPECIFICATION Spec
CONSTANTS
  FactId = {f1, f2, f3}
  NoFact = NoFact
  Content = {e1}
  Source = {scanner}
  Principal = {ann}
  Reviewer = {rita}
  Nobody = Nobody
  bob = bob
  web = web
  cve = cve
  Key = {bob, web, cve}
  Asserted = {"OWNS", "HAS_VULN", "ACCEPTED_RISK"}
  Origin = {"mcp", "allowlisted_source"}
  ValidFrom = {}
  ValidTo = {3}
  WritesPerMinute = 2
  Minute = 2
  MaxTime = 3
  MaxAudit = 4
  DefaultListed = 1
  MaxListed = 2
  MaxGraphEdges = 2
  MaxEntityFacts = 2
  MaxVersions = 2
  PartsOf <- MCPartsOf
  KindOf <- MCKindOf
SYMMETRY Symmetry
CHECK_DEADLOCK FALSE
INVARIANTS
  OneTrustedPerClaim
  WriteBudget
  GraphIsWithinReach
  QueriesAgree
  HistoryAccounts
  TamperingShows
PROPERTIES
  PastIsStable
