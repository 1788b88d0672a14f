CONSTANTS
  Trees <- MCTrees
  Paths <- MCPaths
  Moves <- MCMoves
  monday = monday
  tuesday = tuesday
  friday = friday
  Names <- MCNames
  MaxGeneration = 2
SYMMETRY SameNames
SPECIFICATION Spec
INVARIANTS IndexValid
PROPERTIES ImplementsStore RepackReclaims SignatureTracksArchive LinksLostOnlyByReplacement
CHECK_DEADLOCK FALSE
