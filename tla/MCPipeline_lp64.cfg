SPECIFICATION PipeSpec
CONSTANTS
  None = None
  Configs <- MCConfigs
  VMods <- MCVMods
  Messages <- MCMessages
  Sources <- MCSources
  SizeOfLong = 8
  MaxModules = 8
  MaxMessages = 2
INVARIANT KeyTriggers
CHECK_DEADLOCK FALSE
