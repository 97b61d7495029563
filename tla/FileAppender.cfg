\* Through the logger: Flush and UnInit exclude each other, I/O succeeds.
SPECIFICATION Spec
CONSTANTS
  Producers = {p1, p2}
  Flushers = {f1, f2}
  Writer = run
  PendingCap = 2
  BufCap = 2
  Lengths <- Mixed
  Limit = 2
  FoundSizes = {0, 3}
  TimeMode = TRUE
  IoMayFail = FALSE
  EntityLock = TRUE
  FlushStages <- Steady
  MaxLines = 4
  MaxFlushes = 2
  MaxAdmin = 1
INVARIANTS
  TypeOK
  SwapIsSequential
  FileInOrder
  FlushVisible
  UnInitWritesEarlierLines
  GenerationBounded
PROPERTIES
  ImplementsDurableLog
CHECK_DEADLOCK FALSE
