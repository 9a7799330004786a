CONSTANTS
  RuleSets <- ManyRules
  Keys = {k1}
  NoKey = NoKey
  DEFAULT_TIMEOUT = 1
  MaxThreads = 20
  MaxStates = 24
  MaxInsts = 8
  MaxEvents = 5
  MaxInjected = 3
  MaxTime = 1
SPECIFICATION FairSpec
CHECK_DEADLOCK FALSE
INVARIANTS
  HeapLive
  EventCleanedUp
  QueueInOrder
PROPERTIES
  InjectReturns
  CutEndsSubtree
