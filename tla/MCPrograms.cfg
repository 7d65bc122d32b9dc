SPECIFICATION ProgramsSpec
CONSTANTS
  Injections = 5
  socketcall = 102
  SYS_RECV = 10
  SYS_ACCEPT = 5
  Words = {3, 5, 10, 102}
  Codes = {0, 1, 127, 255}
  Signals = {1, 5, 64}
  StopSignals = {5, 19, 133}
  Events = {0, 1, 6, 128}
  Ops = {0, 1, 12, 13}
  MAX_LINE_LEN = 3
  Descriptors = 3
  StackLimit = 6
  MaxSignals = 2
INVARIANTS
  RpcAllOrNothing
  VsyscallContract
  FputsTransparent
  FilterComposes
  PrintsWhatHappened
  ListsDifferences
  SilentIffEqual
  EveryEndReported
  ClocksEmulated
PROPERTIES
  ProgramsEnd
  MonitoredRunEnds
CHECK_DEADLOCK FALSE
