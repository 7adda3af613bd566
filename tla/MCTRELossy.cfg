SPECIFICATION FairSpec
CONSTANTS
  allTREs <- OneTRE
  Programs <- ShortPrograms
  Addr = {0, 1, 2}
  Queues = {}
  QueueDepth = 1
  MaxOutstanding = 2
  Atomic = FALSE
  Faulty = {2}
  LossyMemory = TRUE
  WatchdogExpires = FALSE
  NULL = NULL
INVARIANTS
  FailuresStop
PROPERTIES
  NeverHangs
