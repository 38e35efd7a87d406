CONSTANTS
  Jobs = {j1}
  Workers = {w1}
  NoJob = NoJob
  MaxDuplicates = 0
  MaxTerminations = 1
  MaxCrashes = 0
  MaxErrors = 0
SPECIFICATION Spec
PROPERTY FinishedIsFinal
CHECK_DEADLOCK FALSE
