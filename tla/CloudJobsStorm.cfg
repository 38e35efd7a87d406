CONSTANTS
  Jobs = {j1, j2}
  Workers = {w1, w2}
  NoJob = NoJob
  MaxDuplicates = 1
  MaxTerminations = 1
  MaxCrashes = 1
  MaxErrors = 2
SPECIFICATION Spec
INVARIANTS SlotHasOneHolder QueuedHasPush RunningHasRunner RunsBounded
SYMMETRY Symmetry
CHECK_DEADLOCK FALSE
