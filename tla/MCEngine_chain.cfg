CONSTANTS
  RuleSets <- ChainRules
  Keys = {k1, k2}
  NoKey = NoKey
  DEFAULT_TIMEOUT = 1
  MaxThreads = 12
  MaxStates = 17
  MaxInsts = 8
  MaxEvents = 6
  MaxInjected = 4
  MaxTime = 1
SPECIFICATION Spec
CHECK_DEADLOCK FALSE
SYMMETRY KeySymmetry
INVARIANTS
  TypeOK
  ReferencesExact
  LocksConsistent
  TerminatedIsQuiet
PROPERTIES
  LockReleasedByOwner
