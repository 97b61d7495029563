SPECIFICATION Spec
CONSTANTS
  Producers = {p1, p2}
  Flushers = {f1}
  Writer = run
  PendingCap = 2
  BufCap = 2
  Lengths <- Mixed
  Limit = 2
  FoundSizes = {0, 3}
  TimeMode = TRUE
  IoMayFail = FALSE
  EntityLock = TRUE
  FlushStages <- FromMount
  MaxLines = 3
  MaxFlushes = 1
  MaxAdmin = 0
INVARIANTS
  SwapIsSequential
CHECK_DEADLOCK FALSE
