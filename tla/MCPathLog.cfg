SPECIFICATION DifferentSpec
CONSTANTS
  Tasks = {t0, t1}
  MainTask = t0
  Procs = {p0, p1}
  MainProc = p0
  Addr = {a0, a1}
  NULL = NULL
  Recs <- MCRecs
  PATH_RECORD_BUFFER_SIZE = 2
  DESTRUCTOR_ITERATIONS = 2
  MaxRetired = 3
  MaxHandlers = 2
SYMMETRY Symmetry
INVARIANTS
  TypeOK
  BufferOwnership
  RoomForNext
  Conservation
  OrderlyEndSavesAll
PROPERTY TraceRefinement
CHECK_DEADLOCK FALSE
