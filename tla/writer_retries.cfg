CONSTANTS
  Writers = {w1}
  Keys = {k1, k2}
  IOThreads = {t1, t2}
  Capacity = 1
  MaxCallbacks = 2
  MaxErrors = 1
  Timestamped = TRUE
  NoReq = NoReq
  MaxWrites = 3
  MaxFails = 2
SPECIFICATION Spec
SYMMETRY Symmetry
INVARIANTS
  CountedOnce
  DurableWhenFlushed
  PermitsConserved
  NoLostWakeup
  NoUseAfterDestruction
PROPERTIES
  ImplementsPipeline
  RowsAdvance
CHECK_DEADLOCK FALSE
