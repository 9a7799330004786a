CONSTANTS
  Once = {o1}
  Pollers = {p1}
  Readers = {r1}
  Fds = {f1, f2}
  Socks = {f1}
  Configs <- AnyConfig
  Period = 2
  PollPeriods = {0, 2}
  Delays = {1, 3}
  MaxTime = 4
  MaxBacklog = 1
  Forever = Forever
  NoAction = NoAction
SPECIFICATION FairSpec
CHECK_DEADLOCK FALSE
INVARIANTS
  ListSound
  ReconnectScheduled
PROPERTIES
  NeverEarly
  RegisteredIsExecuted
  ReturnsToSelect
