CONSTANTS
  w1 = w1
  w2 = w2
  Worker = {w1, w2}
  NumBlocks = 4
  Size <- MCSize
  Plans <- MCPlans
  ByteBudget = 4
  MaxReads = 3
SPECIFICATION FairSpec
INVARIANTS CacheWithinBudget SpanStaysValid ReservationOwned DecodedOnce
PROPERTIES ReadReturns
