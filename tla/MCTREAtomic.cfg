SPECIFICATION FairSpec
CONSTANTS
  allTREs <- OneTRE
  Programs <- ShortPrograms
  Addr = {0, 1, 2}
  Queues = {}
  QueueDepth = 1
  MaxOutstanding = 2
  Atomic = TRUE
  Faulty = {2}
  LossyMemory = FALSE
  WatchdogExpires = FALSE
  NULL = NULL
PROPERTIES
  HaltsUnlessFailed
