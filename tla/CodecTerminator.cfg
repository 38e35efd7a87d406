CONSTANTS
  ByteBits = 2
  Beta = 2
  PhraseHistory = 2
  WordHistory = 2
  IsContentWord <- MCIsContentWord
  Char <- MCChar
  Beyond <- MCBeyond
  Styles = {"styled"}
  Context <- MCContext
  Openings <- MCOpenings
  Continuations <- MCContinuations
  EowText <- MCEowText
  MaxPartial = 4
  PreambleBuilt = {TRUE}
  Messages <- MCMessages
  Keys <- MCKeys
  Keystream <- MCKeystream
  Tables <- MCTables
  MaxSteps = 5
  MaxRecoveredBits = 32
SPECIFICATION Spec
CHECK_DEADLOCK FALSE
INVARIANT StopMeansWhole
