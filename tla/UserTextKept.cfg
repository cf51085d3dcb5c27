SPECIFICATION MCSpec
CONSTANTS
  Surfaces <- MCSurfaces
  Skills <- MCSkills
  Pieces <- MCPieces
  MaxMarks = 5
  MaxPieces = 7
  MaxVersion = 2
INVARIANTS
  UserTextKept
