CONSTANTS
  Trees <- MCTrees
  Paths <- MCPaths
  Moves <- MCMoves
  monday = monday
  tuesday = tuesday
  friday = friday
  Names <- MCNames
  MaxGeneration = 2
SYMMETRY SameNames
SPECIFICATION Spec
INVARIANTS LiveIsNewest
CHECK_DEADLOCK FALSE
