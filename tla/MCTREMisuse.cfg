SPECIFICATION Spec
CONSTANTS
  allTREs <- ThreeTREs
  Programs <- MisusePrograms
  Addr = {0, 1, 2}
  Queues <- OneQueue
  QueueDepth = 1
  MaxOutstanding = 2
  Atomic = FALSE
  Faulty = {}
  LossyMemory = FALSE
  WatchdogExpires = TRUE
  NULL = NULL
INVARIANTS
  SafeUnlessWoken
  SurvivesWakes
