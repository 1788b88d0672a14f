CONSTANTS
  one = one
  two = two
  more = more
  bad = bad
  Bad = bad
  StagingName = "axtmp"
  Root <- MCRoot
  Order <- MCOrder
  Sources <- MCSources
  Jobs <- MCJobs
  Rewritten <- MCRewritten
  MaxTime = 2
  MaxEdits = 2
  Cases <- MCCases
SPECIFICATION Spec
INVARIANTS WholeFilesOnly OthersUntouched DoneMeansRestored SyncRebuildsSource ApprovedIsExecuted TestForetells
