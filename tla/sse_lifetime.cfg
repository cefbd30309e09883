SPECIFICATION Spec
CONSTANTS
  None = None
  MaxBlocks = 3
  MaxClients = 2
  LogTrim = 1
  EventTrim = 2
  MaxEvents = 2
  MaxConns = 3
INVARIANT
  RecordOutlivesSession
CHECK_DEADLOCK FALSE
