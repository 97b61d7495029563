\* Used on its own, with I/O that may fail, and the liveness properties.
SPECIFICATION FairSpec
CONSTANTS
  Producers = {p1, p2}
  Flushers = {f1}
  Writer = run
  PendingCap = 1
  BufCap = 2
  Lengths <- Short
  Limit = 2
  FoundSizes = {1}
  TimeMode = FALSE
  IoMayFail = TRUE
  EntityLock = FALSE
  FlushStages <- StandAlone
  MaxLines = 2
  MaxFlushes = 1
  MaxAdmin = 0
INVARIANTS
  SizeIsLogical
  EveryLineAccounted
  NoLostWakeup
  BlockedOnlyWhenFull
PROPERTIES
  EventuallyDurable
  FlushReturns
  BlockedIsReleased
  UnInitCompletes
CHECK_DEADLOCK FALSE
