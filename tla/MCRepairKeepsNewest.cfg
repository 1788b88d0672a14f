CONSTANTS
  plain = plain
  archive = archive
  Item <- MCItem
  Nested <- MCNested
  Base = plain
  Parity = 1
  MaxHits = 2
  MaxOps = 2
SPECIFICATION Spec
INVARIANTS RepairKeepsNewest
CHECK_DEADLOCK FALSE
