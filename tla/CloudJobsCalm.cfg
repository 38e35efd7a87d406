CONSTANTS
  Jobs = {j1, j2, j3}
  Workers = {w1, w2}
  NoJob = NoJob
  MaxDuplicates = 0
  MaxTerminations = 0
  MaxCrashes = 0
  MaxErrors = 0
SPECIFICATION FairSpec
PROPERTY KeepsLifecycle
CHECK_DEADLOCK FALSE
