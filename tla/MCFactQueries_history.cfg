\* Expected violation: a rolled back decision still ends the history.
SPECIFICATION Spec
CONSTANTS
  FactId = {f1}
  NoFact = NoFact
  Content = {e1}
  Source = {scanner}
  Principal = {ann}
  Reviewer = {rita}
  Nobody = Nobody
  bob = bob
  web = web
  cve = cve
  Key = {bob, web, cve}
  Asserted = {"OWNS", "HAS_VULN", "ACCEPTED_RISK"}
  Origin = {"mcp", "allowlisted_source"}
  ValidFrom = {}
  ValidTo = {3}
  WritesPerMinute = 2
  Minute = 2
  MaxTime = 3
  MaxAudit = 4
  DefaultListed = 1
  MaxListed = 2
  MaxGraphEdges = 2
  MaxEntityFacts = 2
  MaxVersions = 2
  PartsOf <- MCPartsOf
  KindOf <- MCKindOf
SYMMETRY Symmetry
CHECK_DEADLOCK FALSE
INVARIANTS
  HistoryExplains
