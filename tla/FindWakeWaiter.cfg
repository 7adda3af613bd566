SPECIFICATION Spec
CONSTANTS
  allTREs <- TwoTREs
  Programs <- WakeWaiter
  Addr = {0, 1, 2}
  Queues = {}
  QueueDepth = 1
  MaxOutstanding = 2
  Atomic = FALSE
  Faulty = {}
  LossyMemory = FALSE
  WatchdogExpires = FALSE
  NULL = NULL
PROPERTY
  WakesSleepersOnly
