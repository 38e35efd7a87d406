CONSTANTS
  Beta = 3
  Weights <- MCWeights
SPECIFICATION Spec
INVARIANTS LargestRemainder EveryCandidateReachable RankKept StepsInvert EstimateIsMean
CHECK_DEADLOCK FALSE
