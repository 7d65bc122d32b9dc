SPECIFICATION Spec
INVARIANT
  CloneReportedFirst
CHECK_DEADLOCK FALSE
