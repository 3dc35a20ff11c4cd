\* Expected violation: an allowlisted source grants trust without review.
SPECIFICATION Spec
CONSTANTS
  FactId = {f1}
  NoFact = NoFact
  Content = {e1}
  Source = {scanner}
  Principal = {ann}
  Reviewer = {rita}
  Nobody = Nobody
  web = web
  cve = cve
  Key = {web, cve}
  Asserted = {"HAS_VULN"}
  Origin = {"mcp", "allowlisted_source"}
  ValidFrom = {}
  ValidTo = {}
  WritesPerMinute = 4
  Minute = 10
  MaxTime = 1
  MaxAudit = 6
  PartsOf <- MCPartsOf
  KindOf <- MCKindOf
SYMMETRY Symmetry
CHECK_DEADLOCK FALSE
PROPERTIES
  TrustOnlyByReview
