CONSTANTS
  RuleSets <- CutRuleSets
  Keys = {}
  NoKey = NoKey
  DEFAULT_TIMEOUT = 1
  MaxThreads = 20
  MaxStates = 22
  MaxInsts = 8
  MaxEvents = 6
  MaxInjected = 4
  MaxTime = 0
SPECIFICATION Spec
CHECK_DEADLOCK FALSE
PROPERTIES
  CutEndsOnlySubtree
