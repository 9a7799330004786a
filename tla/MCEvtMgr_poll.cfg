CONSTANTS
  Once = {o1}
  Pollers = {p1}
  Readers = {r1}
  Fds = {f1}
  Socks = {f1}
  Configs <- SocketsOnly
  Period = 2
  PollPeriods = {0}
  Delays = {1}
  MaxTime = 2
  MaxBacklog = 1
  Forever = Forever
  NoAction = NoAction
SPECIFICATION FairSpec
CHECK_DEADLOCK FALSE
PROPERTIES
  AlwaysReturnsToSelect
