CONSTANTS
  w1 = w1
  w2 = w2
  k1 = k1
  k2 = k2
  k3 = k3
  k4 = k4
  k5 = k5
  Worker = {w1, w2}
  NumBlocks = 4
  Position <- MCPosition
  ByteBudget = 4
  Identity = {k1, k2, k3, k4, k5}
  BaseOrder <- MCBase
  Inputs <- MCInputs
  PayloadSize <- MCSizes
SPECIFICATION ChunkFairSpec
INVARIANTS BudgetRespected NoBlockLost NoSilentFailure RestoresInput SerialDirectory
PROPERTIES CallerReturns ImplementsSerialWriter
