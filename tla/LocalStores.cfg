SPECIFICATION MCSpec
CONSTANTS
  Procs = {p, q}
  RotateLines = 2
  Starts <- MCNewOrFull
  MaxCheckpoints = 2
  MaxAppends = 4
  Titles = {x, y}
  Ledgers <- MCLedgers
  LastTask = 5
  MaxCommands = 4
SYMMETRY MCSymmetry
INVARIANT InOrder
PROPERTIES AloneIsNew AloneAppends AloneIsNewTask AloneStartsOne ArchiveKept
CHECK_DEADLOCK FALSE
