------------------------- MODULE PathLogFaultsProofs --------------------------
(***************************************************************************)
(* What the path-logging runtime still guarantees, for every number of     *)
(* threads and every buffer size, when writes and mmap may fail and when a *)
(* thread may fork while another is inside init_process.                   *)
(*                                                                         *)
(* The invariants of PathLogProofs also hold here: most steps are steps of *)
(* PathLog, and those of init_process touch only the handlers and the once *)
(* flag, in a process where no thread has a buffer yet.  That the trace    *)
(* loses no more than failed writes then follows from Conservation, which  *)
(* fixes the content of every buffer.                                      *)
(***************************************************************************)
EXTENDS PathLogFaults, PathLogProofs

FaultInv == TypeInv /\ BufferInv /\ EndInv /\ MainInv

(* A thread that has registered the exit handler in the first process, and *)
(* has not returned from pthread_once, has it ahead, too.                  *)
RegisteredAhead ==
  /\ once \in [Tasks -> Steps]
  /\ \A t \in Tasks :
       /\ once[t] = "registered" /\ phase[t] \in Live /\ proc[t] = MainProc => Ahead
       /\ phase[t] = "unborn" => once[t] = "out"

(* Registering the exit handler preserves the invariant.                   *)
LEMMA RegisterFaultInv ==
  ASSUME FaultInv, NEW t \in Tasks, RegisterHandler(t)
  PROVE  FaultInv'
<1>0. /\ TypeInv /\ BufferInv /\ EndInv /\ MainInv /\ TypeOK /\ FullHasBuffer
      /\ proc \in [Tasks -> Procs] /\ handlers \in [Procs -> Seq({"app", "hack"})]
  BY Zenon DEF FaultInv, TypeInv, TypeOK
<1>1. /\ handlers' = [handlers EXCEPT ![proc[t]] = Append(@, "hack")]
      /\ UNCHANGED <<phase, proc, round, full, init_process_once, record_buffer, specific,
                     mapped, recs, retired, saved, late>>
  BY Zenon DEF RegisterHandler, taskVars, bufVars
<1>2. Append(handlers[proc[t]], "hack") \in Seq({"app", "hack"})
  BY <1>0
<1>3. TypeInv'
  BY Zenon, <1>0, <1>1, <1>2 DEF TypeInv, TypeOK, FullHasBuffer
<1>4. BufferInv'
  BY Zenon, <1>0, <1>1, QuietBufferInv
<1>5. \A p \in Procs : HackGone(p)' => HackGone(p)
  <2> SUFFICES ASSUME NEW p \in Procs, HackGone(p)' PROVE HackGone(p)
    BY Zenon
  <2>1. CASE p = proc[t]
    BY Zenon, <1>0, <1>1, <2>1, AppendKeepsHack
  <2>2. CASE p # proc[t]
    BY Zenon, <1>0, <1>1, <2>2 DEF HackGone
  <2>3. QED
    BY Zenon, <2>1, <2>2
<1>6. EndInv'
  BY Zenon, <1>0, <1>1, <1>5
     DEF EndInv, OneExits, LastRound, HandlerAhead, NothingLeft, InExit
<1>7. Ahead => Ahead'
  <2>1. CASE handlers'[MainProc] = handlers[MainProc]
    BY Zenon, <1>1, <2>1, QuietAhead DEF NoHack, InExit
  <2>2. CASE handlers'[MainProc] = Append(handlers[MainProc], "hack")
    <3>1. handlers[MainProc] \in Seq({"app", "hack"})
      BY Zenon, <1>0, ConstantsOK
    <3>2. QED
      BY Zenon, <2>2, <3>1, AppendShows DEF Ahead, NoHack
  <2>3. QED
    BY Zenon, <1>0, <1>1, <2>1, <2>2, ConstantsOK
<1>8. MainInv'
  BY Zenon, <1>0, <1>1, <1>7 DEF MainInv, MainStarted, BeforeExit
<1>9. QED
  BY Zenon, <1>3, <1>4, <1>6, <1>8 DEF FaultInv

(* When pthread_once is done no thread of the process has a buffer, so     *)
(* none depends on a handler that exit() may have run already.             *)
LEMMA OnceFaultInv ==
  ASSUME FaultInv, RegisteredAhead, NEW t \in Tasks, ReturnFromOnce(t)
  PROVE  FaultInv'
<1>0. /\ TypeInv /\ BufferInv /\ EndInv /\ MainInv /\ TypeOK /\ FullHasBuffer
      /\ proc \in [Tasks -> Procs] /\ BufferAfterOnce
  BY Zenon DEF FaultInv, TypeInv, TypeOK, BufferInv
<1>1. /\ init_process_once' = init_process_once \cup {proc[t]}
      /\ UNCHANGED <<phase, proc, round, full, handlers, record_buffer, specific,
                     mapped, recs, retired, saved, late>>
  BY Zenon DEF ReturnFromOnce, taskVars, bufVars
<1>2. TypeInv'
  BY Zenon, <1>0, <1>1 DEF TypeInv, TypeOK, FullHasBuffer
<1>3. BufferInv'
  <2>1. \A u \in Tasks : Unsaved(u)' = Unsaved(u)
    BY Zenon, <1>1 DEF Unsaved
  <2>2. Conservation' /\ RoomForNext'
    BY Zenon, <1>0, <1>1, <2>1 DEF BufferInv, Conservation, RoomForNext
  <2>3. BufferOwnership' /\ UnbornIdle' /\ BufferAfterOnce'
    BY Zenon, <1>0, <1>1 DEF BufferInv, BufferOwnership, UnbornIdle, BufferAfterOnce
  <2>4. QED
    BY Zenon, <2>2, <2>3 DEF BufferInv
<1>4. \A u \in Tasks : record_buffer[u] # NULL /\ HackGone(proc[u])' => HackGone(proc[u])
  BY Zenon, <1>0, <1>1 DEF HackGone, BufferAfterOnce
<1>5. EndInv'
  BY Zenon, <1>0, <1>1, <1>4
     DEF EndInv, OneExits, LastRound, HandlerAhead, NothingLeft, InExit
<1>6. MainInv'
  <2>1. Ahead' = Ahead
    BY Zenon, <1>1 DEF Ahead, NoHack, Exiting, InExit
  <2>2. proc[t] = MainProc => Ahead
    BY Zenon DEF ReturnFromOnce, RegisteredAhead
  <2>3. MainProc \in init_process_once' => MainProc \in init_process_once \/ proc[t] = MainProc
    BY Zenon, <1>1
  <2>4. QED
    BY Zenon, <1>0, <1>1, <2>1, <2>2, <2>3 DEF MainInv, MainStarted, BeforeExit
<1>7. QED
  BY Zenon, <1>2, <1>3, <1>5, <1>6 DEF FaultInv

(* Every step is a step of PathLog, or one of init_process.                *)
LEMMA FaultStepKinds ==
  ASSUME TypeOK, [FaultNext]_faultVars
  PROVE  \/ [Next]_vars
         \/ \E t \in Tasks : RegisterHandler(t) \/ ReturnFromOnce(t)
<1>1. CASE FaultNext
  <2>1. ASSUME NEW t \in Tasks, BeginInit(t) \/ mmap_fails(t) PROVE [Next]_vars
    BY Zenon, <2>1 DEF BeginInit, mmap_fails
  <2>2. ASSUME NEW t \in Tasks, ResumeCall(t) PROVE Next
    BY Zenon, <2>2 DEF ResumeCall, Next, TaskStep
  <2>3. ASSUME NEW t \in Tasks, OtherStep(t) PROVE Next
    BY Zenon, <2>3 DEF OtherStep, Next
  <2>4. ASSUME NEW t \in Tasks, StoreFaults(t) PROVE Next
    BY Zenon, <2>4 DEF StoreFaults, Next, TypeOK
  <2>5. QED
    BY Zenon, <1>1, <2>1, <2>2, <2>3, <2>4 DEF FaultNext, Next
<1>2. CASE UNCHANGED faultVars
  BY Zenon, <1>2 DEF faultVars
<1>3. QED
  BY Zenon, <1>1, <1>2

(* The steps of init_process, one by one, and of everything else.          *)
LEMMA NextRegistered ==
  ASSUME FaultInv, RegisteredAhead, [FaultNext]_faultVars
  PROVE  RegisteredAhead'
<1>0. /\ TypeInv /\ MainStarted /\ MainProc \in Procs
      /\ phase \in [Tasks -> Phases] /\ proc \in [Tasks -> Procs]
      /\ handlers \in [Procs -> Seq({"app", "hack"})]
  BY Zenon, ConstantsOK DEF FaultInv, MainInv, TypeInv, TypeOK
<1>1. ASSUME [Next]_vars, \A u \in Tasks : once'[u] = "registered" => once[u] = "registered",
             \A u \in Tasks : phase[u] = "unborn" => once'[u] = "out",
             once' \in [Tasks -> Steps]
      PROVE  RegisteredAhead'
  <2>1. /\ MainStarted
        /\ \A u \in Tasks : phase[u] # "unborn" => proc'[u] = proc[u] /\ phase'[u] # "unborn"
    BY Zenon, <1>0, <1>1, NextMainStarted
  <2>2. ASSUME NEW u \in Tasks, once'[u] = "registered", phase'[u] \in Live,
               proc'[u] = MainProc
        PROVE  Ahead'
    <3>1. once[u] = "registered" /\ phase[u] # "unborn" /\ proc[u] = MainProc
      BY Zenon, <1>1, <2>1, <2>2 DEF RegisteredAhead
    <3>2. phase[u] \in Live
      BY Zenon, <1>0, <1>1, <2>2, <3>1, LiveWasLive
    <3>3. Ahead
      BY Zenon, <3>1, <3>2 DEF RegisteredAhead
    <3>4. QED
      BY Zenon, <1>0, <1>1, <2>2, <3>3, NextAhead
  <2>3. QED
    BY Zenon, <1>1, <2>1, <2>2 DEF RegisteredAhead
<1>2. ASSUME NEW t \in Tasks, RegisterHandler(t) PROVE RegisteredAhead'
  <2>1. /\ handlers' = [handlers EXCEPT ![proc[t]] = Append(@, "hack")]
        /\ UNCHANGED <<phase, proc>> /\ phase[t] \in Live
        /\ \A u \in Tasks \ {t} : once'[u] = once[u]
        /\ once' \in [Tasks -> Steps]
    BY Zenon, <1>2 DEF RegisterHandler, taskVars, RegisteredAhead, Steps
  <2>2. proc[t] = MainProc => ~NoHack'
    <3>1. handlers[MainProc] \in Seq({"app", "hack"})
      BY Zenon, <1>0
    <3>2. proc[t] = MainProc => handlers'[MainProc] = Append(handlers[MainProc], "hack")
      BY Zenon, <1>0, <2>1
    <3>3. QED
      BY Zenon, <3>1, <3>2, AppendShows DEF NoHack
  <2>3. proc[t] # MainProc => Ahead' = Ahead
    BY Zenon, <1>0, <2>1 DEF Ahead, NoHack, Exiting, InExit
  <2>4. phase[t] # "unborn"
    BY Zenon, <2>1 DEF Live
  <2>5. QED
    BY Zenon, <2>1, <2>2, <2>3, <2>4 DEF RegisteredAhead, Ahead
<1>3. ASSUME NEW t \in Tasks, ReturnFromOnce(t) PROVE RegisteredAhead'
  <2>1. /\ UNCHANGED <<phase, proc, handlers>> /\ phase[t] \in Live
        /\ once' = [once EXCEPT ![t] = "returned"]
    BY Zenon, <1>3 DEF ReturnFromOnce, taskVars
  <2>2. Ahead' = Ahead /\ phase[t] # "unborn"
    BY Zenon, <2>1 DEF Ahead, NoHack, Exiting, InExit, Live
  <2>3. \A u \in Tasks \ {t} : once'[u] = once[u]
    BY Zenon, <2>1 DEF RegisteredAhead
  <2>4. once'[t] # "registered" /\ once' \in [Tasks -> Steps]
    BY Zenon, <2>1 DEF RegisteredAhead, Steps
  <2>5. QED
    BY Zenon, <2>1, <2>2, <2>3, <2>4 DEF RegisteredAhead
<1>4. ASSUME NEW t \in Tasks, BeginInit(t) \/ ResumeCall(t) \/ mmap_fails(t)
      PROVE  RegisteredAhead'
  <2>1. [Next]_vars
    BY Zenon, <1>4 DEF BeginInit, ResumeCall, mmap_fails, Next, TaskStep
  <2>2. phase[t] # "unborn"
    BY Zenon, <1>4
       DEF BeginInit, ResumeCall, mmap_fails, llvm_increment_path_count, BufferFull, CanLog
  <2>3. \E o \in {"begun", "out", "map_failed"} : once' = [once EXCEPT ![t] = o]
    BY Zenon, <1>4 DEF BeginInit, ResumeCall, mmap_fails
  <2>4. /\ once' \in [Tasks -> Steps]
        /\ \A u \in Tasks : once'[u] = "registered" => once[u] = "registered"
        /\ \A u \in Tasks : phase[u] = "unborn" => once'[u] = "out"
    BY Zenon, <2>2, <2>3 DEF RegisteredAhead, Steps
  <2>5. QED
    BY Zenon, <1>1, <2>1, <2>4
<1>5. ASSUME [Next]_vars, UNCHANGED once PROVE RegisteredAhead'
  BY Zenon, <1>1, <1>5 DEF RegisteredAhead
<1>6. ASSUME NEW t \in Tasks, OtherStep(t) \/ StoreFaults(t) PROVE RegisteredAhead'
  BY Zenon, <1>0, <1>5, <1>6 DEF OtherStep, StoreFaults, Next
<1>7. ASSUME NEW p \in Procs, Kill(p) /\ UNCHANGED <<trace, once>> PROVE RegisteredAhead'
  BY Zenon, <1>5, <1>7 DEF Next
<1>8. CASE UNCHANGED faultVars
  BY Zenon, <1>5, <1>8 DEF faultVars
<1>9. QED
  BY Zenon, <1>2, <1>3, <1>4, <1>6, <1>7, <1>8 DEF FaultNext

(* The invariant of PathLog holds with faults.                             *)
LEMMA FaultInvariant == FaultSpec => []FaultInv
<1>1. FaultInit => FaultInv /\ RegisteredAhead
  BY Zenon, InitTypeInv, InitBufferInv, InitEndInv, InitMainInv
     DEF FaultInit, FaultInv, RegisteredAhead, Steps
<1>2. ASSUME FaultInv, RegisteredAhead, [FaultNext]_faultVars
      PROVE  FaultInv' /\ RegisteredAhead'
  <2>0. RegisteredAhead'
    BY Zenon, <1>2, NextRegistered
  <2>1. TypeInv /\ BufferInv /\ EndInv /\ MainInv /\ TypeOK
    BY Zenon, <1>2 DEF FaultInv, TypeInv
  <2>2. CASE [Next]_vars
    BY Zenon, <2>0, <2>1, <2>2, NextTypeInv, NextBufferInv, NextEndInv,
       NextMainInv DEF FaultInv
  <2>3. ASSUME NEW t \in Tasks, RegisterHandler(t) \/ ReturnFromOnce(t)
        PROVE  FaultInv'
    BY Zenon, <1>2, <2>3, RegisterFaultInv, OnceFaultInv
  <2>4. QED
    BY Zenon, <1>2, <2>0, <2>1, <2>2, <2>3, FaultStepKinds
<1>3. QED
  BY <1>1, <1>2, PTL DEF FaultSpec

(* Failing writes, a failing mmap and a fork during initialisation never   *)
(* make recs[len++] leave the buffer, nor two threads share one, and an    *)
(* orderly end still offers every record to the recorder: init_process may *)
(* run a second time in the child of a fork without harm.                  *)
THEOREM SafeWithFaults ==
  FaultSpec => [](RoomForNext /\ BufferOwnership /\ OrderlyEndSavesAll)
<1>1. FaultInv => RoomForNext /\ BufferOwnership /\ OrderlyEndSavesAll
  BY Zenon, InvOrderly DEF FaultInv, BufferInv
<1>2. QED
  BY <1>1, FaultInvariant, PTL
(* The steps of init_process lose no page, and the others are steps of     *)
(* PathLog.                                                                *)
LEMMA FaultLeak ==
  ASSUME FaultInv, FaultInv', [FaultNext]_faultVars
  PROVE  [LeakStep]_vars
<1>1. TypeInv /\ TypeInv' /\ BufferInv /\ EndInv /\ TypeOK
  BY Zenon DEF FaultInv, TypeInv
<1>2. ASSUME NEW t \in Tasks, RegisterHandler(t) \/ ReturnFromOnce(t) PROVE LeakStep
  <2> SUFFICES ASSUME NEW p \in Procs, LiveIn(p)' # {} PROVE LosesLate(p)
    BY Zenon DEF LeakStep
  <2>1. UNCHANGED <<phase, proc, record_buffer, mapped>> /\ NULL \notin mapped[p]
    BY Zenon, <1>1, <1>2, ConstantsOK
       DEF RegisterHandler, ReturnFromOnce, taskVars, bufVars, TypeOK
  <2>2. \A x : x \in LiveIn(p)' <=> x \in LiveIn(p)
    BY Zenon, <2>1, LiveMembers
  <2>3. QED
    BY Zenon, <2>1, <2>2, QuietLeak
<1>3. CASE [Next]_vars
  BY Zenon, <1>1, <1>3, NextLeak
<1>4. QED
  BY Zenon, <1>1, <1>2, <1>3, FaultStepKinds

(* With faults, too, a process that goes on leaves mapped only the buffers *)
(* of threads that logged past their last flush, and what it inherited     *)
(* from threads it does not have.                                          *)
THEOREM NothingElseLeaksWithFaults == FaultSpec => NoOtherLeak
  BY FaultLeak, FaultInvariant, PTL DEF FaultSpec, NoOtherLeak
------------------------------------------------------------------------------
(* Sequences: what follows a prefix is determined.                         *)
LEMMA SuffixUnique ==
  ASSUME NEW S, NEW a \in Seq(S), NEW b \in Seq(S), NEW c \in Seq(S), a \o b = a \o c
  PROVE  b = c
<1>1. Len(b) = Len(c)
  <2>1. Len(a \o b) = Len(a) + Len(b) /\ Len(a \o c) = Len(a) + Len(c)
    OBVIOUS
  <2>2. QED
    BY <2>1
<1>2. \A i \in 1 .. Len(b) : b[i] = c[i]
  <2> TAKE i \in 1 .. Len(b)
  <2>1. (a \o b)[Len(a) + i] = b[i]
    OBVIOUS
  <2>2. (a \o c)[Len(a) + i] = c[i]
    BY <1>1
  <2>3. QED
    BY Zenon, <2>1, <2>2
<1>3. QED
  BY Zenon, <1>1, <1>2, SeqEqual

(* Taking a prefix away leaves what was appended to it.                    *)
LEMMA SuffixAfter ==
  ASSUME NEW S, NEW a \in Seq(S), NEW b \in Seq(S)
  PROVE  SubSeq(a \o b, Len(a) + 1, Len(a \o b)) = b
<1>1. Len(a \o b) = Len(a) + Len(b) /\ a \o b \in Seq(S)
  OBVIOUS
<1> DEFINE c == SubSeq(a \o b, Len(a) + 1, Len(a \o b))
<1>2. c \in Seq(S) /\ Len(c) = Len(b)
  BY <1>1
<1>3. \A i \in 1 .. Len(b) : c[i] = b[i]
  BY <1>1
<1>4. QED
  BY Zenon, <1>2, <1>3, SeqEqual
------------------------------------------------------------------------------
(* By Conservation what is in a buffer follows from what was retired and   *)
(* what was offered, so a step can be understood from those two.           *)
BuffersKnown ==
  \A t \in Tasks : /\ saved[t] \in Seq(Recs) /\ Unsaved(t) \in Seq(Recs)
                   /\ retired[t] = saved[t] \o Unsaved(t)

(* The invariant of PathLog says as much.                                  *)
LEMMA BufferTypes == FaultInv => BuffersKnown
<1> SUFFICES ASSUME FaultInv, NEW t \in Tasks
             PROVE  /\ saved[t] \in Seq(Recs) /\ Unsaved(t) \in Seq(Recs)
                    /\ retired[t] = saved[t] \o Unsaved(t)
  BY Zenon DEF BuffersKnown
<1>1. Unsaved(t) \in Seq(Recs)
  BY Zenon, EmptySeq DEF FaultInv, TypeInv, TypeOK, Unsaved
<1>2. QED
  BY Zenon, <1>1 DEF FaultInv, TypeInv, TypeOK, BufferInv, Conservation

(* The same after a step.                                                  *)
LEMMA BufferTypesNext == FaultInv' => BuffersKnown'
  BY BufferTypes, PTL

(* A buffer changes only when a record is retired or offered.              *)
LEMMA SameBuffer ==
  ASSUME FaultInv, FaultInv', NEW t \in Tasks, retired'[t] = retired[t], saved'[t] = saved[t]
  PROVE  Unsaved(t)' = Unsaved(t)
<1>1. /\ saved[t] \in Seq(Recs) /\ Unsaved(t) \in Seq(Recs)
      /\ retired[t] = saved[t] \o Unsaved(t)
  BY Zenon, BufferTypes DEF BuffersKnown
<1>2. Unsaved(t)' \in Seq(Recs) /\ retired'[t] = saved'[t] \o Unsaved(t)'
  BY Zenon, BufferTypesNext DEF BuffersKnown
<1>3. QED
  BY Zenon, <1>1, <1>2, SuffixUnique

(* A step that retires a record, and no write.                             *)
LEMMA LossyRetire ==
  ASSUME FaultInv, FaultInv', NEW t \in Tasks, NEW r \in Recs, Trace!Retire(t, r),
         UNCHANGED trace
  PROVE  Lossy!Retire(t, r)
<1>1. /\ Len(retired[t]) < Len(saved[t]) + PATH_RECORD_BUFFER_SIZE
      /\ retired' = [retired EXCEPT ![t] = Append(@, r)] /\ UNCHANGED saved
  BY Zenon DEF Trace!Retire
<1>2. /\ saved[t] \in Seq(Recs) /\ Unsaved(t) \in Seq(Recs)
      /\ retired[t] = saved[t] \o Unsaved(t)
  BY Zenon, BufferTypes DEF BuffersKnown
<1>3. Unsaved(t)' \in Seq(Recs) /\ retired'[t] = saved'[t] \o Unsaved(t)'
  BY Zenon, BufferTypesNext DEF BuffersKnown
<1>4. retired \in [Tasks -> Seq(Recs)]
  BY Zenon DEF FaultInv, TypeInv, TypeOK
<1>5. Unsaved(t)' = Append(Unsaved(t), r)
  <2>1. Append(saved[t] \o Unsaved(t), r) = saved[t] \o Append(Unsaved(t), r)
    BY Zenon, <1>2, AppendConcat
  <2>2. saved[t] \o Unsaved(t)' = saved[t] \o Append(Unsaved(t), r)
    BY Zenon, <1>1, <1>2, <1>3, <1>4, <2>1
  <2>3. Append(Unsaved(t), r) \in Seq(Recs)
    BY <1>2
  <2>4. QED
    BY Zenon, <1>2, <1>3, <2>2, <2>3, SuffixUnique
<1>6. \A u \in Tasks \ {t} : Unsaved(u)' = Unsaved(u)
  BY Zenon, <1>1, <1>4, SameBuffer
<1>7. Len(Unsaved(t)) < PATH_RECORD_BUFFER_SIZE
  <2>1. Len(retired[t]) = Len(saved[t]) + Len(Unsaved(t))
    BY <1>2
  <2>2. QED
    BY <1>1, <1>2, <2>1, ConstantsOK
<1>8. QED
  BY Zenon, <1>1, <1>5, <1>6, <1>7 DEF Lossy!Retire

(* A step that offers the buffer of u, with any outcome of the write.      *)
LEMMA LossyOffer ==
  ASSUME FaultInv, FaultInv', NEW u \in Tasks, Trace!Save(u),
         trace \in [Tasks -> Seq(Recs)],
         NEW k \in 0 .. Len(Unsaved(u)),
         trace' = [trace EXCEPT ![u] = @ \o SubSeq(Unsaved(u), 1, k)]
  PROVE  Lossy!Offer(u, k)
<1>1. saved' = [saved EXCEPT ![u] = retired[u]] /\ UNCHANGED retired
  BY Zenon DEF Trace!Save
<1>2. saved \in [Tasks -> Seq(Recs)] /\ retired \in [Tasks -> Seq(Recs)]
  BY Zenon DEF FaultInv, TypeInv, TypeOK
<1>3. Unsaved(u)' = <<>>
  <2>1. Unsaved(u)' \in Seq(Recs) /\ retired'[u] = saved'[u] \o Unsaved(u)'
    BY Zenon, BufferTypesNext DEF BuffersKnown
  <2>2. retired[u] \o <<>> = retired[u] \o Unsaved(u)'
    BY Zenon, <1>1, <1>2, <2>1, ConcatEmptySeq
  <2>3. QED
    BY Zenon, <1>2, <2>1, <2>2, SuffixUnique, EmptySeq
<1>4. \A v \in Tasks \ {u} : Unsaved(v)' = Unsaved(v)
  BY Zenon, <1>1, <1>2, SameBuffer
<1>5. QED
  BY Zenon, <1>1, <1>3, <1>4 DEF Lossy!Offer

(* What sys_write(t) is given is what was in the buffer of t.              *)
LEMMA WriteOffers ==
  ASSUME FaultInv, NEW t \in Tasks, Trace!Save(t), trace \in [Tasks -> Seq(Recs)],
         sys_write(t)
  PROVE  \E k \in 0 .. Len(Unsaved(t)) :
           trace' = [trace EXCEPT ![t] = @ \o SubSeq(Unsaved(t), 1, k)]
<1>1. /\ saved[t] \in Seq(Recs) /\ Unsaved(t) \in Seq(Recs)
      /\ retired[t] = saved[t] \o Unsaved(t)
  BY Zenon, BufferTypes DEF BuffersKnown
<1>2. saved'[t] = saved[t] \o Unsaved(t)
  BY Zenon, <1>1 DEF Trace!Save, FaultInv, TypeInv, TypeOK
<1>3. SubSeq(saved'[t], Len(saved[t]) + 1, Len(saved'[t])) = Unsaved(t)
  BY Zenon, <1>1, <1>2, SuffixAfter
<1>4. QED
  BY Zenon, <1>3 DEF sys_write

(* A step of PathLog with its write maps to a step of the lossy trace.     *)
LEMMA OtherIsLossy ==
  ASSUME FaultInv, FaultInv', trace \in [Tasks -> Seq(Recs)],
         NEW t \in Tasks, OtherStep(t)
  PROVE  [Lossy!LossyNext]_(Lossy!lossyVars)
<1>0. /\ [Trace!TraceNext]_(Trace!traceVars)
      /\ saved \in [Tasks -> Seq(Recs)] /\ retired \in [Tasks -> Seq(Recs)]
      /\ IF saved'[t] = saved[t] THEN UNCHANGED trace ELSE sys_write(t)
  BY Zenon, NextRefines DEF OtherStep, Next, FaultInv, TypeInv, TypeOK
<1>1. ASSUME NEW u \in Tasks, NEW r \in Recs, Trace!Retire(u, r)
      PROVE  Lossy!LossyNext
  <2>1. UNCHANGED trace
    BY Zenon, <1>0, <1>1 DEF Trace!Retire
  <2>2. QED
    BY Zenon, <1>1, <2>1, LossyRetire DEF Lossy!LossyNext
<1>2. ASSUME NEW u \in Tasks, Trace!Save(u)
      PROVE  \E k \in 0 .. Len(Unsaved(u)) : Lossy!Offer(u, k)
  <2>1. CASE u = t /\ saved'[t] # saved[t]
    BY Zenon, <1>0, <1>2, <2>1, WriteOffers, LossyOffer
  <2>2. CASE u # t \/ saved'[t] = saved[t]
    <3>1. UNCHANGED trace
      BY Zenon, <1>0, <1>2, <2>2 DEF Trace!Save
    <3>2. /\ Unsaved(u) \in Seq(Recs) /\ SubSeq(Unsaved(u), 1, 0) = <<>>
          /\ trace[u] \o <<>> = trace[u]
      BY BufferTypes, ConcatEmptySeq, EmptySeq DEF BuffersKnown
    <3>3. trace' = [trace EXCEPT ![u] = @ \o SubSeq(Unsaved(u), 1, 0)]
      BY Zenon, <3>1, <3>2
    <3>4. 0 \in 0 .. Len(Unsaved(u))
      BY <3>2
    <3>5. QED
      BY Zenon, <1>2, <3>3, <3>4, LossyOffer
  <2>3. QED
    BY Zenon, <2>1, <2>2
<1>3. CASE UNCHANGED <<retired, saved>>
  <2>1. UNCHANGED trace /\ \A u \in Tasks : Unsaved(u)' = Unsaved(u)
    BY Zenon, <1>0, <1>3, SameBuffer
  <2>2. QED
    BY Zenon, <1>3, <2>1 DEF Lossy!lossyVars
<1>4. CASE Trace!TraceNext
  <2>1. PICK u \in Tasks : Trace!Save(u) \/ \E r \in Recs : Trace!Retire(u, r)
    BY Zenon, <1>4 DEF Trace!TraceNext
  <2>2. CASE Trace!Save(u)
    <3>1. PICK k \in 0 .. Len(Unsaved(u)) : Lossy!Offer(u, k)
      BY Zenon, <1>2, <2>2
    <3>2. \E k1 \in 0 .. Len([t1 \in Tasks |-> Unsaved(t1)][u]) : Lossy!Offer(u, k1)
      BY Zenon, <3>1
    <3>3. QED
      BY Zenon, <3>2 DEF Lossy!LossyNext
  <2>3. QED
    BY Zenon, <1>1, <2>1, <2>2
<1>5. QED
  BY Zenon, <1>0, <1>3, <1>4 DEF Trace!traceVars

(* Every step maps to a step of the lossy trace or changes none of it.     *)
LEMMA FaultRefines ==
  ASSUME FaultInv, FaultInv', trace \in [Tasks -> Seq(Recs)], [FaultNext]_faultVars
  PROVE  [Lossy!LossyNext]_(Lossy!lossyVars)
<1>1. CASE UNCHANGED <<retired, saved, trace>>
  <2>1. \A u \in Tasks : Unsaved(u)' = Unsaved(u)
    BY Zenon, <1>1, SameBuffer
  <2>2. QED
    BY Zenon, <1>1, <2>1 DEF Lossy!lossyVars
<1>2. ASSUME NEW t \in Tasks, ResumeCall(t) PROVE Lossy!LossyNext
  <2>1. PICK r \in Recs : llvm_increment_path_count(t, r)
    BY Zenon, <1>2 DEF ResumeCall
  <2>2. UNCHANGED trace /\ Trace!Retire(t, r)
    BY Zenon, <1>2, <2>1, IncrementIsRetire DEF ResumeCall, FaultInv
  <2>3. QED
    BY Zenon, <2>2, LossyRetire DEF Lossy!LossyNext
<1>3. ASSUME NEW t \in Tasks, BeginInit(t) \/ RegisterHandler(t) \/ ReturnFromOnce(t)
      PROVE  UNCHANGED <<retired, saved, trace>>
  BY Zenon, <1>3 DEF BeginInit, RegisterHandler, ReturnFromOnce, vars
<1>4. ASSUME NEW t \in Tasks, mmap_fails(t) \/ StoreFaults(t)
      PROVE  UNCHANGED <<retired, saved, trace>>
  BY Zenon, <1>4 DEF mmap_fails, StoreFaults, Kill, vars
<1>5. ASSUME NEW p \in Procs, Kill(p) /\ UNCHANGED <<trace, once>>
      PROVE  UNCHANGED <<retired, saved, trace>>
  BY Zenon, <1>5 DEF Kill
<1>6. CASE UNCHANGED faultVars
  BY Zenon, <1>1, <1>6 DEF faultVars, vars
<1>7. QED
  BY Zenon, <1>1, <1>2, <1>3, <1>4, <1>5, <1>6, OtherIsLossy DEF FaultNext

(* The trace stays a sequence of records, per thread.                      *)
LEMMA LossyTypes ==
  ASSUME FaultInv, trace \in [Tasks -> Seq(Recs)], [Lossy!LossyNext]_(Lossy!lossyVars)
  PROVE  trace' \in [Tasks -> Seq(Recs)]
<1>1. ASSUME NEW u \in Tasks, NEW k \in 0 .. Len([t \in Tasks |-> Unsaved(t)][u]),
             Lossy!Offer(u, k)
      PROVE  trace' \in [Tasks -> Seq(Recs)]
  <2>1. /\ Unsaved(u) \in Seq(Recs) /\ k \in 0 .. Len(Unsaved(u))
        /\ trace' = [trace EXCEPT ![u] = @ \o SubSeq(Unsaved(u), 1, k)]
    BY Zenon, <1>1, BufferTypes DEF BuffersKnown, Lossy!Offer
  <2>2. SubSeq(Unsaved(u), 1, k) \in Seq(Recs)
    BY <2>1
  <2>3. trace[u] \o SubSeq(Unsaved(u), 1, k) \in Seq(Recs)
    BY <2>2
  <2>4. QED
    BY Zenon, <2>1, <2>3
<1>2. ASSUME NEW u \in Tasks, NEW r \in Recs, Lossy!Retire(u, r)
      PROVE  trace' = trace
  BY Zenon, <1>2 DEF Lossy!Retire
<1>3. CASE UNCHANGED Lossy!lossyVars
  BY Zenon, <1>3 DEF Lossy!lossyVars
<1>4. QED
  BY Zenon, <1>1, <1>2, <1>3 DEF Lossy!LossyNext

(* However the writes fail, the trace of a thread has its records in order *)
(* and at most once, and misses only the end of batches whose write failed.*)
THEOREM FaultsImplementLossyTrace == FaultSpec => LossyRefinement
<1> DEFINE TraceTyped == trace \in [Tasks -> Seq(Recs)]
<1>1. FaultInit => TraceTyped /\ Lossy!LossyInit
  <2>1. FaultInit => TraceTyped
    BY Zenon, EmptySeq DEF FaultInit
  <2>2. FaultInit => Lossy!LossyInit
    BY Zenon DEF FaultInit, Init, Lossy!LossyInit, Unsaved
  <2>3. QED
    BY Zenon, <2>1, <2>2
<1>2. FaultInv /\ FaultInv' /\ TraceTyped /\ [FaultNext]_faultVars
        => TraceTyped' /\ [Lossy!LossyNext]_(Lossy!lossyVars)
  BY Zenon, FaultRefines, LossyTypes
<1> HIDE DEF TraceTyped
<1>3. QED
  BY <1>1, <1>2, FaultInvariant, PTL DEF FaultSpec, LossyRefinement, Lossy!LossySpec
==============================================================================
