SPECIFICATION FairSpec
CONSTANTS
  MaxSyscalls = 7
  MaxSignals = 3
INVARIANTS
  AssertionHolds
  LabelsRight
  CallLogged
PROPERTY
  TracerEnds
CHECK_DEADLOCK FALSE
