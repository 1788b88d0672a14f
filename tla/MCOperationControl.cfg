CONSTANTS
  p1 = p1
  p2 = p2
  Producer = {p1, p2}
  Samples <- MCSamples
  Total <- MCTotal
  Quantum = 1
  MaxReports = 3
  MaxPauses = 1
SPECIFICATION ControlSpec
INVARIANTS SnapshotCoherent HighWater CancelIsFinal
CHECK_DEADLOCK FALSE
