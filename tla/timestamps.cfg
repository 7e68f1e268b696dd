CONSTANTS
  Threads = {p, q}
  MaxClock = 2
  MaxCalls = 4
SPECIFICATION Spec
PROPERTIES
  LaterCallsLater
