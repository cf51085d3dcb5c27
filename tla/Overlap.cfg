SPECIFICATION Spec
CONSTANTS
  Cap = 2
  Procs = {p, q}
  Sources = {a, b}
  UsedProfiles = {"quick"}
  Targets = {"implement", "verify"}
  Required <- MCStrict
  Starts <- MCQuickAtVerify
  Judgments <- MCPassOrRework
  Crashes = TRUE
  MaxVerdicts = 2
SYMMETRY MCSymmetry
INVARIANTS StateIsWalk NoGaps
PROPERTIES AloneIsSound
CHECK_DEADLOCK FALSE
