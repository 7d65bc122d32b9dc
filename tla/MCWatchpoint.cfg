SPECIFICATION Spec
INVARIANTS
  ThreadCaught
  OtherAssertionsHold
PROPERTY
  AllEnd
CHECK_DEADLOCK FALSE
