CONSTANTS
  Jobs = {j1, j2, j3}
  NoJob = NoJob
  MaxLifespans = 2
SPECIFICATION FairSpec
INVARIANTS OneAtATime InOrder QueueMatchesStore
PROPERTIES KeepsStages QueuedJobsEnd
CHECK_DEADLOCK FALSE
