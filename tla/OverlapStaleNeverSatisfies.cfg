SPECIFICATION Spec
CONSTANTS
  Cap = 2
  Procs = {p, q}
  Sources = {a, b}
  UsedProfiles = {"quick"}
  Targets = {"implement", "verify"}
  Required <- MCStrict
  Starts <- MCQuickAtVerify
  Judgments <- MCPassOrRework
  Crashes = FALSE
  MaxVerdicts = 2
PROPERTIES StaleNeverSatisfies
CHECK_DEADLOCK FALSE
