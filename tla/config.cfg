SPECIFICATION Spec
CONSTANTS
  Version <- MCVersion
  Bytes <- MCBytes
  Given <- MCGiven
  Words <- MCWords
  Triggers <- MCTriggers
  Hver = 143
  Av = 0
  MaxAir = 2
INVARIANTS
  TypeOK
  VerifiedIsTrue
PROPERTIES
  OffsetsKept
  JobEnds
CHECK_DEADLOCK FALSE
