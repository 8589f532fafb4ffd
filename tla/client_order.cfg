SPECIFICATION Spec
CONSTANTS
  Entities = {1, 2}
  MaxBatch = 2
  Own = 1
  MaxEvents = 2
INVARIANTS
  ShowsArea
CHECK_DEADLOCK FALSE
