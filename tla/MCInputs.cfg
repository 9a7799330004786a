SPECIFICATION InputsSpec
CONSTANTS
  MAX_LINE_SZ = 2
  MaxReceived = 9
  c1 = c1
  c2 = c2
  t1 = t1
  Consoles <- MCConsoles
  Sources <- MCSources
  Listener = Listener
  Feedback = Feedback
  Free = Free
  Limit = 7
  MaxLosses = 1
  f1 = f1
  f2 = f2
  FileList <- MCFileList
  LineSizes <- MCLineSizes
  MaxPieces = 5
  PollPeriod = 1
  MaxLines = 2
  MaxTime = 2
  Directives <- MCDirectives
  Sections <- MCSections
  NamePrefixes <- MCNamePrefixes
  Globbed <- MCGlobbed
  MainFile = "main"
  MainLines = 4
  IncludedLines <- MCIncludedLines
  m1 = m1
  m2 = m2
  m3 = m3
  ra = ra
  rb = rb
  rc = rc
  other = other
  Default = Default
  NoFile = NoFile
  Monitors <- MCMonitors
  Config <- MCConfig
  CmdLines <- MCCmdLines
SYMMETRY Interchangeable
INVARIANTS
  BufferSound LinesPosted
  DescriptorsSound
  LinesReadFaithfully
  TreeAsWritten
  StartSound
PROPERTIES
  GivenUpWithReason
CHECK_DEADLOCK FALSE
