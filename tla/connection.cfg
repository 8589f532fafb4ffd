SPECIFICATION Spec
CONSTANTS
  NumMessages = 4
  Start <- MCStart
  HeaderSize = 2
  MaxBuffer = 6
  ReadChunk = 4
INVARIANTS
  TypeOK
  InOrder
  WithinBuffer
  NothingHeldBack
  NoRequestDropped
PROPERTIES
  NeverFull
  LagNeverShrinks
  AllGiven
CHECK_DEADLOCK FALSE
