SPECIFICATION Spec
CONSTANT io_ticks = 2
INVARIANT
  SecondSigio
CHECK_DEADLOCK FALSE
