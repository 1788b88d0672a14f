CONSTANTS
  w1 = w1
  w2 = w2
  x = x
  y = y
  f = f
  g = g
  h = h
  Nil = Nil
  Worker = {w1, w2}
  BlockSize = 2
  MinGroup = 1
  SpoolLimit = 2
  Second = 2
  Slice <- MCSlice
  Cases <- MCCases
SPECIFICATION FairSpec
INVARIANTS EntriesRestore ChangeStaysVisible ProgressHonest
PROPERTIES ImplementsSerialWriter OperationEnds
