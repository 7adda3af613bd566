SPECIFICATION FairSpec
CONSTANTS
  allTREs <- ThreeTREs
  Programs <- MeetingPrograms
  Addr = {0, 1, 2, 3}
  Queues <- TwoQueues
  QueueDepth = 1
  MaxOutstanding = 1
  Atomic = FALSE
  Faulty = {}
  LossyMemory = FALSE
  WatchdogExpires = FALSE
  NULL = NULL
INVARIANTS
  TypeOK
  Placed
  QueuesReplayed
  MutualExclusion
  NoLostUnlock
  DoneMeansReplayed
PROPERTIES
  BarrierReleasesAll
  WakesSleepersOnly
  AllHalt
