CONSTANTS
  Letter <- MCLetter
  Lower <- MCLower
  Vowels = {"a"}
  Digraphs <- MCDigraphs
  Dot = "."
  Calls <- MCCalls
  SyllableLimit = 4
SPECIFICATION Spec
INVARIANTS WordsRejoin TokensInOrder NucleusInEach DigraphsKept
CHECK_DEADLOCK FALSE
