SPECIFICATION CountedFaultSpec
CONSTANTS
  Tasks = {t0, t1, t2}
  MainTask = t0
  Procs = {p0, p1}
  MainProc = p0
  Addr = {a0, a1}
  NULL = NULL
  Recs <- MCRecs
  PATH_RECORD_BUFFER_SIZE = 2
  DESTRUCTOR_ITERATIONS = 1
  MaxRetired = 2
  MaxHandlers = 0
  MaxTotal = 3
SYMMETRY Symmetry
INVARIANTS
  BufferOwnership
  OrderlyEndSavesAll
PROPERTIES
  NoOtherLeak
  LossyRefinement
CHECK_DEADLOCK FALSE
