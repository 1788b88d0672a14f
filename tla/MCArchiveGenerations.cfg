CONSTANTS
  plain = plain
  archive = archive
  Item <- MCItem
  Nested <- MCNested
  Base = plain
  Parity = 1
  MaxHits = 2
  MaxOps = 2
SPECIFICATION Spec
INVARIANTS SurvivesPlainTail ReturnsTruthfully HistoryReachable SignatureVerifies
PROPERTIES PreviousKept
CHECK_DEADLOCK FALSE
