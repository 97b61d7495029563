\* Two senders and a flusher, queues that fill up.
SPECIFICATION FairSpec
CONSTANTS
  Producers = {p1, p2}
  Flushers = {f1}
  Writer = run
  QueueCap = 1
  MaxMessages = 2
  MaxFlushes = 2
INVARIANTS
  TypeOK
  NothingVanishes
  WrittenOnce
  HandshakeFlushes
  ClosedWithoutReceivers
PROPERTIES
  EventuallyWritten
  FlushReturns
  UnInitCompletes
CHECK_DEADLOCK FALSE
