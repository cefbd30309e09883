SPECIFICATION Spec
CONSTANTS
  h1 = h1
  h2 = h2
  None = None
  Handle <- MCHandle
  Silent <- MCSilent
  MaxCalls = 3
  MaxAttempts = 2
INVARIANTS
  TypeOK
  EndsWithItsLink
  ForeignAnswersAreLate
PROPERTIES
  KeepsPromise
  AttemptIsReported
CHECK_DEADLOCK FALSE
