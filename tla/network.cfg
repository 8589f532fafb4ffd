SPECIFICATION Spec
CONSTANTS
  NumSessions = 3
  MaxMessages = 4
INVARIANTS
  TypeOK
  StreamIntact
  OneWrite
PROPERTIES
  EventuallyWritten
CHECK_DEADLOCK FALSE
