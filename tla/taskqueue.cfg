SPECIFICATION Spec
CONSTANTS
  Tasks = {"click1", "click2", "info"}
  Addresses = {1, 2, 3}
  Delays = {0, 2}
  MaxTime = 3
  IntModulus = 64
INVARIANTS
  TypeOK
  ExactlyOnce
  NeverEarly
PROPERTIES
  EventuallyExecuted
