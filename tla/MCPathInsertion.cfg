SPECIFICATION InsSpec
CONSTANTS
  MaxBlocks = 4
  Limits = {2}
  PathBits = 8
  MaxRefused = 4
  Dags <- AllDags
INVARIANTS
  NoFault
  PathRecovered
PROPERTY
  InsertionEnds
