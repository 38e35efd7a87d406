CONSTANTS
  Job = {j1, j2, j3, j4}
  Worker = {w1}
  MaxAttempts = 10
  MinBackoff = 1
  MaxBackoff = 30
  MaxDoublings = 4
  MaxQueued = 10
  JobTime = 45
  LastSubmission = 0
  MaxTime = 500
SPECIFICATION Spec
CHECK_DEADLOCK FALSE
SYMMETRY Symmetry
INVARIANT WaitIsKept
