SPECIFICATION EditorSpec
CONSTANTS
  Roots <- MCRoots
  MaxEvents = 1
  MaxFailures = 0
INVARIANT EveryFolderScanned
CHECK_DEADLOCK FALSE
