SPECIFICATION FairSpec
CONSTANTS
  MaxBlocks = 4
  Limits = {2}
  Dags <- AllDags
INVARIANTS
  PhonyEdgesMarked
  ReplacedEdgesBare
  RegisterReady
  PathNumberLogged
PROPERTY
  PassEnds
