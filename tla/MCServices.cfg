SPECIFICATION Spec
CONSTANTS
  c1 = c1
  c2 = c2
  p1 = p1
  p2 = p2
  NoFile = NoFile
  Renderers <- MCRenderers
  Instances <- MCInstances
  PerSecond = 2
  FileLimit = 1
  Handles = {h1, h2}
  TimeoutNames = {n1, n2}
  TimeoutDelays = {0, 1}
  PollEvery = 2
  MaxBuilt = 2
  MaxTimeouts = 2
  MaxInputs = 2
  MaxActions = 3
  MaxClock = 3
  Rules = {r1, r2}
  VarNames = {x, y}
  MaxValues = 5
  MaxKeys = 4
  NoValue = NoValue
  None = None
  Configs <- MCConfigs
  VMods <- MCVMods
  Messages <- MCMessages
  Sources <- MCSources
  SizeOfLong = 4
  MaxModules = 8
  MaxMessages = 2
INVARIANTS InjectedOnce EventFaithful KeyTriggers HooksAsConfigured
  PagesSound InjectedOnceInOrder TimeoutsExpireOnce SharedIsPrivate
PROPERTIES PagesFresh
CHECK_DEADLOCK FALSE
SYMMETRY Interchangeable
