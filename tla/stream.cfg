SPECIFICATION Spec
CONSTANTS
  Bits <- Widths
  ZoneNow = 3600
  ZoneEpoch = 3600
  Producers = {p1}
  Consumers = {c1}
  Tables <- AllTables
  MaxFaults = 1
INVARIANTS StoredExact PolledExact EndAfterAll ReadYourSets
CHECK_DEADLOCK FALSE
