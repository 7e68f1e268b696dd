CONSTANTS
  RangeEnds <- ThreeRanges
  PrefetchSize = 2
  MaxTries = 2
  ReadsFail = TRUE
SPECIFICATION FairSpec
INVARIANTS
  InOrder
  NoEarlyEnd
  NoRowLeaked
PROPERTIES
  DestructorTerminates
  RowsDelivered
CHECK_DEADLOCK FALSE
