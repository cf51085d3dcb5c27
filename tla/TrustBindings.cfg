SPECIFICATION BindingsSpec
CONSTANTS
  Cap = 1
  Tasks = {"t1"}
  Dependencies <- MCNoDependencies
  UsedProfiles = {"quick"}
  Trees = {"a"}
  Unplanned <- MCNone
  Criteria = {"c"}
  Contracts <- MCNoneOrAll
  RefKinds = {"plan"}
  RefValues = {"missing", "v1"}
  Proofs = {"test"}
  Manual <- MCNone
  Contents <- MCOnePass
  ReviewSatisfied <- MCOnePass
  ReviewIn = "policy document"
  Configs = {"strict", "malformed"}
  ForceAllowed = TRUE
  DriftAssembles = TRUE
  MaxVerdicts = 1
  MaxBundles = 1
  GitStates = {TRUE, FALSE}
PROPERTIES ChangeMakesStale BookkeepingKeepsFresh
CHECK_DEADLOCK FALSE
