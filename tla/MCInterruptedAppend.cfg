CONSTANTS
  plain = plain
  archive = archive
  Item <- MCItem
  Nested <- MCNested
  Base = plain
  Parity = 1
  MaxHits = 2
  MaxOps = 1
SPECIFICATION Spec
INVARIANTS InterruptedAppendSurvives
CHECK_DEADLOCK FALSE
