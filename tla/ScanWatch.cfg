SPECIFICATION MCSpec
CONSTANTS
  RuleIds <- MCRuleIds
  Paths <- MCPaths
  Contents <- MCContents
  AppliesTo <- MCAppliesTo
  ScanPolicies <- MCScanPolicies
  ContentsOf <- MCContentsOf
  BatchSize = 1
  MaxEdits = 2
  MaxLosses = 1
  Roots <- MCRoots
  MaxEvents = 2
  MaxFailures = 1
INVARIANT
  ProblemsMirror
PROPERTIES
  GateIsSound
  ServedFromHolders
  CatchesUp
  InterruptEnds
  EditorCatchesUp
CHECK_DEADLOCK FALSE
