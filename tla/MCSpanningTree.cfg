SPECIFICATION Spec
CONSTANTS
  MaxBlocks = 2
  Limits = {100}
  Dags <- AllDags
INVARIANT
  SpanningTreeCovers
