CONSTANTS
  ByteBits = 2
  Beta = 2
  PhraseHistory = 2
  WordHistory = 2
  IsContentWord <- MCIsContentWord
  Char <- MCChar
  Beyond <- MCBeyond
  Styles = {"styled", "none"}
  Context <- MCContext
  Openings <- MCOpenings
  Continuations <- MCContinuations
  EowText <- MCEowText
  MaxPartial = 4
  PreambleBuilt = {TRUE, FALSE}
  Messages <- MCMessages
  Keys <- MCKeys
  Keystream <- MCKeystream
  Tables <- MCTables
  MaxSteps = 6
  MaxRecoveredBits = 8
SPECIFICATION Spec
INVARIANTS TypeOK PromptLockstep KeystreamLockstep AlwaysRecognised RecoveredIsPrefix RoundTrip DigressionsAreIsolated
CHECK_DEADLOCK FALSE
