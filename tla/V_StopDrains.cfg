\* Stop resets bRunning while Run is between two selects.
SPECIFICATION Spec
CONSTANTS
  Producers = {p1}
  Flushers = {f1}
  Writer = run
  QueueCap = 1
  MaxMessages = 1
  MaxFlushes = 1
INVARIANT
  StopDrains
CHECK_DEADLOCK FALSE
