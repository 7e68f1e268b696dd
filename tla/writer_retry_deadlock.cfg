CONSTANTS
  Writers = {w1}
  Keys = {k1}
  IOThreads = {t1}
  Capacity = 1
  MaxCallbacks = 1
  MaxErrors = 10
  Timestamped = TRUE
  NoReq = NoReq
  MaxWrites = 2
  MaxFails = 1
SPECIFICATION FairSpec
PROPERTIES
  FlushTerminates
CHECK_DEADLOCK FALSE
