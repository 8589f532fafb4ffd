SPECIFICATION TimersSpec
CONSTANTS
  SinglePeriod = 2
  NearPeriod = 2
  FarPeriod = 8
  Deltas = {1}
  MaxAge = 20
INVARIANTS
  AlwaysFresh
