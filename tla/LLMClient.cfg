CONSTANTS
  Letter <- MCLetter
  Replies <- MCReplies
  NotANumber = NotANumber
  MaxCandidates = 2
  TextLimit = 2
  EowMark <- MCEowMark
  EowText <- MCEowText
  Tails <- MCTails
  Pieces = 3
  Garbled <- MCGarbled
  MaxFaults = 1
  MaxOutOfMemory = 1
SPECIFICATION ClientSpec
INVARIANTS PrefixFree EarliestKept HeardIsSaid AnswerIsModels StaleIsForgiven WordsCanEnd
CHECK_DEADLOCK FALSE
