CONSTANTS
  Jobs = {j1, j2}
  Workers = {w1, w2}
  NoJob = NoJob
  MaxDuplicates = 2
  MaxTerminations = 0
  MaxCrashes = 0
  MaxErrors = 0
SPECIFICATION FairSpec
INVARIANT PayloadWhileRunnable
PROPERTY EveryAcceptedJobEnds
CHECK_DEADLOCK FALSE
