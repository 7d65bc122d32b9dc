SPECIFICATION PathsSpec
CONSTANTS
  t1 = t1
  t2 = t2
  Tasks = {t0, t1, t2}
  MainTask = t0
  Order <- TwoThreads
  Procs = {p0}
  MainProc = p0
  Addr = {a0, a1, a2}
  NULL = NULL
  Recs <- PathRecs
  PATH_RECORD_BUFFER_SIZE = 3
  DESTRUCTOR_ITERATIONS = 4
  MaxRetired = 20
  MaxHandlers = 0
  NUM_ITS = 2
INVARIANT TraceComplete
PROPERTY Terminates
CHECK_DEADLOCK FALSE
