SPECIFICATION MCSpec
CONSTANTS
  Cap = 1
  Tasks = {"t1"}
  Dependencies <- MCNoDependencies
  UsedProfiles = {"quick"}
  Trees = {"a", "b", "c"}
  Unplanned = {"b"}
  Criteria = {"c"}
  Contracts <- MCOneContract
  RefKinds = {"intent", "spec", "plan"}
  RefValues = {"v1"}
  Proofs = {"test"}
  Manual <- MCNone
  Contents <- MCContents
  ReviewSatisfied <- MCSatisfied
  ReviewIn = "policy document"
  Configs = {"default", "strict", "malformed"}
  ForceAllowed = FALSE
  DriftAssembles = TRUE
  MaxVerdicts = 6
  MaxBundles = 7
  GitStates = {TRUE, FALSE}
  Paths = {"src"}
  ChangedIn <- MCChangedIn
  Reachable <- MCReachable
  UnplannedFiles = {"b", "c"}
  ExportAllowed = TRUE
INVARIANTS
  AcceptedIsCurrent
  HookImpliesGate
PROPERTIES
  AdviceCompletes
CHECK_DEADLOCK FALSE
