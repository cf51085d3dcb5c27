SPECIFICATION ProfilesSpec
CONSTANTS
  Cap = 2
  Tasks = {"t1", "t2"}
  Dependencies <- MCSecondNeedsFirst
  UsedProfiles = {"quick", "standard"}
  Trees = {"a"}
  Unplanned <- MCNone
  Criteria = {"c", "d"}
  Contracts <- MCOneOrAll
  RefKinds = {"plan"}
  RefValues = {"v1"}
  Proofs = {"test", "manual"}
  Manual = {"manual"}
  Contents <- MCNone
  ReviewSatisfied <- MCNone
  ReviewIn = "policy document"
  Configs = {"default"}
  ForceAllowed = TRUE
  DriftAssembles = TRUE
  MaxVerdicts = 0
  MaxBundles = 0
  GitStates = {TRUE}
INVARIANTS TypeOK FailureReworked DependenciesFirst
CHECK_DEADLOCK FALSE
