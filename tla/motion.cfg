SPECIFICATION Spec
CONSTANTS
  WorldSize = 18
  NodeSize = 6
  SinglePeriod = 1
  NearPeriod = 1
  FarPeriod = 2
  Deltas = {1}
  MaxAge = 3
  Targets = {0, 2}
  Starts = {0}
  Speed = 2
  SNAP = 3
  SMOOTH_PATH = 2
  SMOOTH_SYNC = 1
  FrameTicks = {1}
  CorrectionTicks = 2
  MaxClicks = 2
  MaxCrossings = 1
  MaxWaiting = 2
INVARIANTS
  TypeOK
  BandFresh
PROPERTIES
  Settles
  ComesBack
