SPECIFICATION Spec
CONSTANTS
  allTREs <- OneTRE
  Programs <- AccessPrograms
  Addr = {0, 1, 2}
  Queues = {}
  QueueDepth = 1
  MaxOutstanding = 2
  Atomic = FALSE
  Faulty = {}
  LossyMemory = FALSE
  WatchdogExpires = FALSE
  NULL = NULL
INVARIANTS
  NeverForgotten
  EventAssertsHold
  BlockedHasCause
  WatchdogArmed
  InFlightAgrees
PROPERTIES
  IssueInOrder
  SentAsTraced
