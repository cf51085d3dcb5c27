SPECIFICATION JudgmentsSpec
CONSTANTS
  Cap = 1
  Tasks = {"t1"}
  Dependencies <- MCNoDependencies
  UsedProfiles = {"quick"}
  Trees = {"a", "b"}
  Unplanned <- MCNone
  Criteria = {"c"}
  Contracts <- MCOneContract
  RefKinds <- MCNone
  RefValues <- MCNone
  Proofs = {"test"}
  Manual <- MCNone
  Contents <- MCFourJudgments
  ReviewSatisfied <- MCReviewed
  ReviewIn = "ackit.yml"
  Configs = {"strict", "malformed", "unresolved"}
  ForceAllowed = TRUE
  DriftAssembles = TRUE
  MaxVerdicts = 2
  MaxBundles = 1
  GitStates = {TRUE}
INVARIANTS ApprovedCompletion NoReplay
PROPERTIES KeepsLedger
CHECK_DEADLOCK FALSE
