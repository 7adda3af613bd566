SPECIFICATION FairSpec
CONSTANTS
  t1 = t1
  t2 = t2
  t3 = t3
  Threads <- MCThreads
  PEs = {0, 1}
  QueuePairs <- MCQueuePairs
  Depth = 2
  Data = {a, b}
  MaxOps = 2
  MaxInits = 2
  MaxWork <- MCMaxWork
  Apps <- MCApps
  Idle = Idle
  NoCore = NoCore
  NoData = NoData
INVARIANTS StallsPrecede
CHECK_DEADLOCK FALSE
