SPECIFICATION Spec
CONSTANTS
  WorldSize = 10
  NodeSize = 2
  Ends <- MCEnds
  MaxSearches = 2
INVARIANTS
  TypeOK
  ParentsLead
  ShortestPath
  PathFits
  CostsBounded
PROPERTIES
  SearchEnds
CHECK_DEADLOCK FALSE
