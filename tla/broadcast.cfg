SPECIFICATION Spec
CONSTANTS
  NumSessions = 3
  MaxMessages = 4
PROPERTIES
  BroadcastReachesAll
CHECK_DEADLOCK FALSE
