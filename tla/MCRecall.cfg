SPECIFICATION Spec
CONSTANTS
  Fact <- MCFact
  Episode <- MCEpisode
  Entity <- MCEntity
  Evidence <- MCEvidence
  Primary <- MCPrimary
  Ends <- MCEnds
  ValidFrom <- MCValidFrom
  ValidTo <- MCValidTo
  Findable <- MCFindable
  Settled <- MCSettled
  RRF_K = 60
  PerLeg = 2
  MaxFused = 2
  MaxLookup = 1
  MaxFactIds = 2
  MaxKeys = 3
  MaxRelated = 2
  Limit = 2
  MaxNow = 1
  MaxWrites = 2
INVARIANT RecallInv
INVARIANT SettledAsAsked
INVARIANT FoundIsShown
INVARIANT BothOutrankOne
