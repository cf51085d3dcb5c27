SPECIFICATION MCSpec
CONSTANTS
  PolicyFiles <- MCPolicyFiles
  DefaultFile <- MCDefaultFile
  Documents <- MCDocuments
  Configurations <- MCConfigurations
  RuleIds <- MCRuleIds
  ReviewFindings <- MCReviewFindings
  PackFiles <- MCPackFiles
  Packs <- MCPacks
  PackEntries <- MCPackEntries
  BuiltinIds <- MCBuiltinIds
  Repositories <- MCRepositories
  Places <- MCPlaces
  PathOrder <- MCPathOrder
  Texts <- MCTexts
  Similar <- MCSimilar
  MaxNodes = 4
  MaxFiles = 3
  ReadProfiles <- MCReadProfiles
  Trees <- MCTrees
  LimitChoices <- MCLimitChoices
  BuiltinNames <- MCBuiltinNames
  UserExcludes <- MCUserExcludes
  PackPaths <- MCPackPaths
  WalkOrder <- MCWalkOrder
  StaticScore <- MCStaticScore
  PackContents <- MCPackContents
  PackRequests <- MCPackRequests
  TaskFiles <- MCTaskFiles
  TaskDocuments <- MCTaskDocuments
INVARIANTS
  BasesFirst
  LockedRulesHold
  ScopesConfine
  ReviewOnlyTightens
  PresenceOrAbsence
  ClosestLast
  UnreachableNeverApplies
  DuplicatesPointEarlier
  NothingMissedSilently
  BestThatFit
  CleanBillCompletes
CHECK_DEADLOCK FALSE
