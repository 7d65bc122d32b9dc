SPECIFICATION Spec
CONSTANT io_ticks = 4
INVARIANT
  ObservedOncePerArm
PROPERTY
  ParentEnds
CHECK_DEADLOCK FALSE
