CONSTANTS
  p1 = p1
  p2 = p2
  Producer = {p1, p2}
  Samples <- MCSamples
  Total <- MCTotal
  Quantum = 1
  MaxReports = 1
  MaxPauses = 1
SPECIFICATION FairControl
PROPERTIES CancelReleases
CHECK_DEADLOCK FALSE
