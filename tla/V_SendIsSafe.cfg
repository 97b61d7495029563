\* A send between the snapshot of the queue pointer and the close of the queue.
SPECIFICATION Spec
CONSTANTS
  Producers = {p1}
  Flushers = {f1}
  Writer = run
  QueueCap = 1
  MaxMessages = 1
  MaxFlushes = 1
INVARIANT
  SendIsSafe
CHECK_DEADLOCK FALSE
