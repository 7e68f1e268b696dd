CONSTANTS
  Writers = {w1, w2}
  Keys = {k1}
  IOThreads = {t1, t2}
  Capacity = 2
  MaxCallbacks = 1
  MaxErrors = 1
  Timestamped = FALSE
  NoReq = NoReq
  MaxWrites = 2
  MaxFails = 0
SPECIFICATION FairSpec
PROPERTIES
  FlushTerminates
  ExitTerminates
