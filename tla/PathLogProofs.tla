---------------------------- MODULE PathLogProofs ----------------------------
(***************************************************************************)
(* What the path-logging runtime guarantees for every number of threads,   *)
(* processes, records and every buffer size: first type correctness, the   *)
(* handlers, the accounting of records and the refinement of LossyTrace;   *)
(* then, in the second half, that an orderly end loses nothing.            *)
(***************************************************************************)
EXTENDS PathLog, SequenceTheorems, TLAPS

(* A thread that is about to flush a full buffer has one, and has neither  *)
(* yet to start nor reached the exit handlers.                             *)
FullHasBuffer ==
  \A t \in full : record_buffer[t] # NULL /\ phase[t] \notin {"unborn", "exiting"}

TypeInv == TypeOK /\ FullHasBuffer

(* The initial state is well-typed.                                        *)
LEMMA InitTypeInv == Init => TypeInv
  BY ConstantsOK DEF Init, TypeInv, TypeOK, FullHasBuffer, Phases

(* A step that finishes a buffer of a thread that is not about to flush it *)
(* keeps the types.                                                        *)
LEMMA FinishKeepsTypes ==
  ASSUME TypeInv, NEW t \in Tasks \ full, NEW a \in Addr, finish_buffer(t, a),
         UNCHANGED <<proc, round, full, init_process_once, retired, late>>,
         handlers' \in [Procs -> Seq({"app", "hack"})],
         NEW ph \in {"tsd_post", "handler"},
         phase' \in {phase, [phase EXCEPT ![t] = ph]}
  PROVE  TypeInv'
<1>0. TypeOK /\ FullHasBuffer
  BY Zenon DEF TypeInv
<1>1. /\ saved' = [saved EXCEPT ![t] = @ \o recs[proc[t]][a]]
      /\ recs' = [recs EXCEPT ![proc[t]][a] = <<>>]
      /\ record_buffer' = [record_buffer EXCEPT ![t] = NULL]
  BY Zenon DEF finish_buffer, flush_buffer, drop_buffer
<1>2. recs[proc[t]][a] \in Seq(Recs) /\ saved[t] \in Seq(Recs)
  BY <1>0 DEF TypeOK
<1>3. saved[t] \o recs[proc[t]][a] \in Seq(Recs)
  BY <1>2
<1>4. saved' \in [Tasks -> Seq(Recs)] /\ recs' \in [Procs -> [Addr -> Seq(Recs)]]
  BY <1>0, <1>1, <1>3 DEF TypeOK
<1>5. /\ record_buffer' \in [Tasks -> Addr \cup {NULL}]
      /\ specific' \in [Tasks -> Addr \cup {NULL}]
      /\ mapped' \in [Procs -> SUBSET Addr]
  BY Zenon, <1>0, <1>1 DEF TypeOK, finish_buffer, drop_buffer
<1>6. phase' \in [Tasks -> Phases] /\ FullHasBuffer'
  BY Zenon, <1>0, <1>1 DEF TypeOK, FullHasBuffer, Phases
<1>7. QED
  BY Zenon, <1>0, <1>4, <1>5, <1>6 DEF TypeInv, TypeOK

(* What logging a record does to the buffers: r goes to the end of the     *)
(* buffer at a, which is the task's buffer from then on.                   *)
StoredAt(t, r, a, old) ==
  /\ a \in Candidates(t)
  /\ old = IF record_buffer[t] # NULL THEN recs[proc[t]][a] ELSE <<>>
  /\ recs' = [recs EXCEPT ![proc[t]][a] = Append(old, r)]
  /\ full' = IF Len(old) + 1 = PATH_RECORD_BUFFER_SIZE
             THEN full \cup {t} ELSE full
  /\ record_buffer' = [record_buffer EXCEPT ![t] = a]
  /\ specific' = IF record_buffer[t] # NULL THEN specific
                 ELSE [specific EXCEPT ![t] = a]
  /\ mapped' = IF record_buffer[t] # NULL THEN mapped
               ELSE [mapped EXCEPT ![proc[t]] = @ \cup {a}]
  /\ IF record_buffer[t] # NULL THEN UNCHANGED <<init_process_once, handlers>>
     ELSE init_process(proc[t])

(* Logging a record stores it at some address.                             *)
LEMMA IncrementStores ==
  ASSUME TypeOK, NEW t \in Tasks, NEW r \in Recs, llvm_increment_path_count(t, r)
  PROVE  \E a \in Addr, old \in Seq(Recs) : StoredAt(t, r, a, old)
<1>1. PICK a \in Addr :
        /\ ensure_thread_init(t, a)
        /\ LET old == IF record_buffer[t] # NULL THEN recs[proc[t]][a] ELSE <<>> IN
           /\ recs' = [recs EXCEPT ![proc[t]][a] = Append(old, r)]
           /\ full' = IF Len(old) + 1 = PATH_RECORD_BUFFER_SIZE
                      THEN full \cup {t} ELSE full
  BY Zenon DEF llvm_increment_path_count, BufferFull
<1> DEFINE old == IF record_buffer[t] # NULL THEN recs[proc[t]][a] ELSE <<>>
<1>2. old \in Seq(Recs)
  BY DEF TypeOK
<1>3. record_buffer' = [record_buffer EXCEPT ![t] = a]
  BY Zenon, <1>1 DEF ensure_thread_init, Candidates, TypeOK
<1>4. StoredAt(t, r, a, old)
  BY Zenon, <1>1, <1>3 DEF ensure_thread_init, StoredAt, initVars
<1>5. QED
  BY Zenon, <1>2, <1>4

(* Logging a record keeps the types.                                       *)
LEMMA IncrementTypes ==
  ASSUME TypeInv, NEW t \in Tasks, NEW r \in Recs, llvm_increment_path_count(t, r)
  PROVE  TypeInv'
<1>0. TypeOK /\ FullHasBuffer
  BY Zenon DEF TypeInv
<1>1. PICK a \in Addr, old \in Seq(Recs) : StoredAt(t, r, a, old)
  BY Zenon, <1>0, IncrementStores
<1>2. /\ retired' = [retired EXCEPT ![t] = Append(@, r)]
      /\ late' \in {late, late \cup {t}}
      /\ UNCHANGED <<phase, proc, round, saved>>
      /\ phase[t] \notin {"unborn", "exiting"}
  BY Zenon DEF llvm_increment_path_count, BufferFull, CanLog, taskVars
<1>3. retired' \in [Tasks -> Seq(Recs)] /\ late' \subseteq Tasks
  BY <1>0, <1>2 DEF TypeOK
<1>4. Append(old, r) \in Seq(Recs)
  OBVIOUS
<1>5. recs' \in [Procs -> [Addr -> Seq(Recs)]]
  BY Zenon, <1>0, <1>1, <1>4 DEF TypeOK, StoredAt
<1>6. /\ record_buffer' \in [Tasks -> Addr \cup {NULL}]
      /\ specific' \in [Tasks -> Addr \cup {NULL}]
      /\ mapped' \in [Procs -> SUBSET Addr]
  BY <1>0, <1>1 DEF TypeOK, StoredAt
<1>7. /\ init_process_once' \subseteq Procs
      /\ handlers' \in [Procs -> Seq({"app", "hack"})]
  <2>1. Append(handlers[proc[t]], "hack") \in Seq({"app", "hack"})
    BY <1>0 DEF TypeOK
  <2>2. init_process_once' \in {init_process_once, init_process_once \cup {proc[t]}}
    BY Zenon, <1>1 DEF StoredAt, init_process
  <2>3. handlers' \in {handlers, [handlers EXCEPT ![proc[t]] =
                                    Append(handlers[proc[t]], "hack")]}
    BY Zenon, <1>1 DEF StoredAt, init_process
  <2>4. proc[t] \in Procs /\ init_process_once \subseteq Procs
    BY Zenon, <1>0 DEF TypeOK
  <2>5. handlers \in [Procs -> Seq({"app", "hack"})]
    BY Zenon, <1>0 DEF TypeOK
  <2>6. init_process_once' \subseteq Procs
    BY Zenon, <2>2, <2>4
  <2>7. handlers' \in [Procs -> Seq({"app", "hack"})]
    BY Zenon, <2>1, <2>3, <2>5
  <2>8. QED
    BY Zenon, <2>6, <2>7
<1>8. full' \subseteq full \cup {t}
  BY Zenon, <1>1 DEF StoredAt
<1>9. FullHasBuffer'
  <2>1. /\ record_buffer' = [record_buffer EXCEPT ![t] = a]
        /\ record_buffer \in [Tasks -> Addr \cup {NULL}] /\ full \subseteq Tasks
    BY Zenon, <1>0, <1>1 DEF TypeOK, StoredAt
  <2>2. record_buffer'[t] # NULL /\ \A u \in Tasks \ {t} : record_buffer'[u] = record_buffer[u]
    BY Zenon, <2>1, ConstantsOK
  <2>3. QED
    BY Zenon, <1>0, <1>2, <1>8, <2>1, <2>2 DEF FullHasBuffer
<1>10. QED
  BY Zenon, <1>0, <1>2, <1>3, <1>5, <1>6, <1>7, <1>8, <1>9 DEF TypeInv, TypeOK

(* Every step of the runtime, the application and the C library keeps the  *)
(* types, and keeps a buffer under every thread that is about to flush.    *)
LEMMA NextTypeInv == TypeInv /\ [Next]_vars => TypeInv'
<1> SUFFICES ASSUME TypeInv, [Next]_vars PROVE TypeInv'
  BY Zenon
<1>1. ASSUME NEW t \in Tasks, NEW r \in Recs, llvm_increment_path_count(t, r)
      PROVE  TypeInv'
  BY Zenon, <1>1, IncrementTypes
<1>2. ASSUME NEW t \in Tasks, FlushFull(t) PROVE TypeInv'
  <2> DEFINE p == proc[t]
             a == record_buffer[t]
  <2>1. /\ saved' = [saved EXCEPT ![t] = @ \o recs[p][a]]
        /\ recs' = [recs EXCEPT ![p] = [@ EXCEPT ![a] = <<>>]]
        /\ full' = full \ {t}
        /\ UNCHANGED <<phase, proc, round, init_process_once, handlers, record_buffer,
                       specific, mapped, retired, late>>
    BY Zenon, <1>2 DEF FlushFull, flush_buffer, taskVars, initVars
  <2>2. p \in Procs /\ a \in Addr /\ recs[p][a] \in Seq(Recs) /\ saved[t] \in Seq(Recs)
    BY Zenon, <1>2 DEF FlushFull, TypeInv, TypeOK, FullHasBuffer
  <2>3. saved[t] \o recs[p][a] \in Seq(Recs) /\ <<>> \in Seq(Recs)
    BY <2>2
  <2>4. QED
    BY Zenon, <2>1, <2>2, <2>3 DEF TypeInv, TypeOK, FullHasBuffer
<1>3. ASSUME NEW t \in Tasks, NEW u \in Tasks, CreateThread(t, u) PROVE TypeInv'
  BY Zenon, <1>3, ConstantsOK
     DEF CreateThread, TypeInv, TypeOK, FullHasBuffer, Phases, Live, initVars, bufVars
<1>4. ASSUME NEW t \in Tasks, AtExit(t) PROVE TypeInv'
  <2>1. handlers[proc[t]] \in Seq({"app", "hack"})
    BY Zenon DEF TypeInv, TypeOK
  <2>2. Append(handlers[proc[t]], "app") \in Seq({"app", "hack"})
    BY <2>1
  <2>3. QED
    BY Zenon, <1>4, <2>2 DEF AtExit, TypeInv, TypeOK, FullHasBuffer, taskVars, bufVars
<1>5. ASSUME NEW t \in Tasks, NEW u \in Tasks, NEW q \in Procs, Fork(t, u, q)
      PROVE  TypeInv'
  BY Zenon, <1>5, ConstantsOK
     DEF Fork, TypeInv, TypeOK, FullHasBuffer, Phases, Live, ForkChild
<1>6. ASSUME NEW t \in Tasks, ThreadReturn(t) PROVE TypeInv'
  <2>1. 1 \in 0 .. DESTRUCTOR_ITERATIONS
    BY ConstantsOK
  <2>2. QED
    BY Zenon, <1>6, <2>1
       DEF ThreadReturn, TypeInv, TypeOK, FullHasBuffer, Phases, initVars, bufVars
<1>7. ASSUME NEW t \in Tasks, RunDestructor(t) PROVE TypeInv'
  <2>1. /\ UNCHANGED <<proc, round, full, init_process_once, handlers, retired, late>>
        /\ phase' = [phase EXCEPT ![t] = "tsd_post"] /\ t \notin full
    BY Zenon, <1>7 DEF RunDestructor, initVars
  <2>2. CASE specific[t] # NULL
    <3>1. /\ finish_buffer(t, specific[t]) /\ specific[t] \in Addr
          /\ handlers \in [Procs -> Seq({"app", "hack"})]
      BY Zenon, <1>7, <2>2 DEF RunDestructor, TypeInv, TypeOK
    <3>2. QED
      BY Zenon, <2>1, <3>1, FinishKeepsTypes
  <2>3. CASE specific[t] = NULL
    BY Zenon, <1>7, <2>1, <2>3
       DEF RunDestructor, bufVars, TypeInv, TypeOK, FullHasBuffer, Phases
  <2>4. QED
    BY Zenon, <2>2, <2>3
<1>8. ASSUME NEW t \in Tasks, NextRound(t) PROVE TypeInv'
  <2>1. round[t] \in 0 .. DESTRUCTOR_ITERATIONS /\ round[t] < DESTRUCTOR_ITERATIONS
    BY Zenon, <1>8 DEF NextRound, TypeInv, TypeOK
  <2>2. round[t] + 1 \in 0 .. DESTRUCTOR_ITERATIONS
    BY <2>1, ConstantsOK
  <2>3. QED
    BY Zenon, <1>8, <2>2
       DEF NextRound, TypeInv, TypeOK, FullHasBuffer, Phases, initVars, bufVars
<1>9. ASSUME NEW t \in Tasks, EndThread(t) PROVE TypeInv'
  BY Zenon, <1>9, ConstantsOK
     DEF EndThread, TypeInv, TypeOK, FullHasBuffer, Phases, Live, initVars, bufVars
<1>10. ASSUME NEW t \in Tasks, Exit(t) PROVE TypeInv'
  BY Zenon, <1>10, ConstantsOK
     DEF Exit, TypeInv, TypeOK, FullHasBuffer, Phases, Live, initVars, bufVars
<1>11. ASSUME NEW t \in Tasks, RunHandler(t) PROVE TypeInv'
  <2> DEFINE hack == handlers[proc[t]][Len(handlers[proc[t]])] = "hack"
  <2>1. handlers' \in [Procs -> Seq({"app", "hack"})]
    BY <1>11 DEF RunHandler, TypeInv, TypeOK
  <2>2. /\ UNCHANGED <<proc, round, full, init_process_once, retired, late>>
        /\ phase' \in {phase, [phase EXCEPT ![t] = "handler"]} /\ t \notin full
    BY Zenon, <1>11 DEF RunHandler, TypeInv, FullHasBuffer
  <2>3. CASE hack /\ record_buffer[t] # NULL
    <3>1. finish_buffer(t, record_buffer[t]) /\ record_buffer[t] \in Addr /\ TypeOK
      BY Zenon, <1>11, <2>3
         DEF RunHandler, finish_main_thread_buffer_hack, TypeInv, TypeOK
    <3>2. QED
      BY Zenon, <2>1, <2>2, <3>1, FinishKeepsTypes
  <2>4. CASE ~(hack /\ record_buffer[t] # NULL)
    <3>1. UNCHANGED <<record_buffer, specific, mapped, recs, saved>>
      BY Zenon, <1>11, <2>4 DEF RunHandler, finish_main_thread_buffer_hack, bufVars
    <3>2. QED
      BY Zenon, <2>1, <2>2, <3>1 DEF TypeInv, TypeOK, FullHasBuffer, Phases
  <2>5. QED
    BY Zenon, <2>3, <2>4
<1>12. ASSUME NEW t \in Tasks, HandlerReturn(t) PROVE TypeInv'
  BY Zenon, <1>12, ConstantsOK
     DEF HandlerReturn, TypeInv, TypeOK, FullHasBuffer, Phases, Live, initVars, bufVars
<1>13. ASSUME NEW t \in Tasks, ExitGroup(t) PROVE TypeInv'
  BY Zenon, <1>13, ConstantsOK
     DEF ExitGroup, TypeInv, TypeOK, FullHasBuffer, Phases, Live, LiveIn, InProc, initVars, bufVars
<1>14. ASSUME NEW p \in Procs, Kill(p) PROVE TypeInv'
  BY Zenon, <1>14, ConstantsOK
     DEF Kill, TypeInv, TypeOK, FullHasBuffer, Phases, Live, LiveIn, InProc, initVars, bufVars
<1>15. CASE UNCHANGED vars
  BY Zenon, <1>15 DEF TypeInv, TypeOK, FullHasBuffer, vars, taskVars, initVars, bufVars
<1>16. QED
  BY Zenon, <1>1, <1>2, <1>3, <1>4, <1>5, <1>6, <1>7, <1>8, <1>9, <1>10, <1>11,
     <1>12, <1>13, <1>14, <1>15 DEF Next, TaskStep

(* Type correctness of the runtime's state.                                *)
THEOREM TypeCorrect == Spec => []TypeOK
<1>1. Spec => []TypeInv
  BY InitTypeInv, NextTypeInv, PTL DEF Spec
<1>2. QED
  BY <1>1, PTL DEF TypeInv
------------------------------------------------------------------------------
(* Conservation is not inductive by itself: it needs that a buffer belongs *)
(* to one thread, that a thread yet to start has none, and that the fork   *)
(* handler exists wherever there is a buffer to drop.                      *)
UnbornIdle == \A t \in Tasks : phase[t] = "unborn" => record_buffer[t] = NULL
BufferAfterOnce ==
  \A t \in Tasks : record_buffer[t] # NULL => proc[t] \in init_process_once

BufferInv ==
  BufferOwnership /\ Conservation /\ RoomForNext /\ UnbornIdle /\ BufferAfterOnce

(* Appending to the second part of a concatenation appends to the whole.   *)
LEMMA AppendConcat ==
  \A s, u \in Seq(Recs), e \in Recs : Append(s \o u, e) = s \o Append(u, e)
<1> TAKE s, u \in Seq(Recs), e \in Recs
<1>1. Append(s \o u, e) \in Seq(Recs) /\ s \o Append(u, e) \in Seq(Recs)
  OBVIOUS
<1>2. Len(Append(s \o u, e)) = Len(s \o Append(u, e))
  OBVIOUS
<1>3. \A i \in 1 .. Len(Append(s \o u, e)) :
        Append(s \o u, e)[i] = (s \o Append(u, e))[i]
  OBVIOUS
<1>4. QED
  BY Zenon, <1>1, <1>2, <1>3, SeqEqual

(* In the initial state there is nothing to conserve.                      *)
LEMMA InitBufferInv == Init => BufferInv
<1> SUFFICES ASSUME Init PROVE BufferInv
  BY Zenon
<1>1. \A t \in Tasks : Unsaved(t) = <<>>
  BY Zenon DEF Init, Unsaved
<1>2. Conservation
  <2>1. <<>> \in Seq(Recs) /\ <<>> \o <<>> = <<>>
    BY Zenon, ConcatEmptySeq, EmptySeq
  <2>2. QED
    BY Zenon, <1>1, <2>1 DEF Init, Conservation
<1>3. RoomForNext
  <2>1. Len(<<>>) = 0
    BY Zenon, EmptySeq
  <2>2. \A t \in Tasks : Len(Unsaved(t)) = 0
    BY Zenon, <1>1, <2>1
  <2>3. 0 < PATH_RECORD_BUFFER_SIZE /\ 0 <= PATH_RECORD_BUFFER_SIZE
    BY ConstantsOK
  <2>4. QED
    BY Zenon, <2>2, <2>3 DEF RoomForNext
<1>4. QED
  BY Zenon, <1>2, <1>3, ConstantsOK DEF Init, BufferInv, BufferOwnership, UnbornIdle,
     BufferAfterOnce

(* Steps that leave buffers and histories alone: they may start a thread   *)
(* that has no buffer.                                                     *)
LEMMA QuietBufferInv ==
  ASSUME TypeInv, BufferInv,
         UNCHANGED <<record_buffer, specific, mapped, recs, retired, saved, full,
                     init_process_once>>,
         \A t \in Tasks : record_buffer[t] # NULL => proc'[t] = proc[t],
         \A t \in Tasks : phase'[t] = "unborn" => phase[t] = "unborn"
  PROVE  BufferInv'
<1>1. \A t \in Tasks : Unsaved(t)' = Unsaved(t)
  BY Zenon DEF Unsaved
<1>2. Conservation' /\ RoomForNext'
  BY Zenon, <1>1 DEF BufferInv, Conservation, RoomForNext
<1>3. BufferOwnership'
  BY Zenon DEF BufferInv, BufferOwnership
<1>4. QED
  BY Zenon, <1>2, <1>3 DEF BufferInv, UnbornIdle, BufferAfterOnce

(* Flushing a thread's buffer moves the records from it to the trace.      *)
LEMMA FlushUnsaved ==
  ASSUME TypeInv, BufferInv, NEW t \in Tasks, record_buffer[t] # NULL,
         flush_buffer(t, record_buffer[t]), UNCHANGED <<proc, retired>>,
         record_buffer'[t] \in {NULL, record_buffer[t]},
         \A u \in Tasks \ {t} : record_buffer'[u] = record_buffer[u]
  PROVE  /\ Unsaved(t)' = <<>>
         /\ saved'[t] = retired[t]
         /\ \A u \in Tasks \ {t} : Unsaved(u)' = Unsaved(u) /\ saved'[u] = saved[u]
         /\ Conservation'
<1>1. /\ saved' = [saved EXCEPT ![t] = @ \o recs[proc[t]][record_buffer[t]]]
      /\ recs' = [recs EXCEPT ![proc[t]][record_buffer[t]] = <<>>]
  BY Zenon DEF flush_buffer
<1>2. /\ saved \in [Tasks -> Seq(Recs)] /\ retired \in [Tasks -> Seq(Recs)]
      /\ recs \in [Procs -> [Addr -> Seq(Recs)]]
      /\ proc \in [Tasks -> Procs] /\ record_buffer \in [Tasks -> Addr \cup {NULL}]
  BY Zenon DEF TypeInv, TypeOK
<1>3. Unsaved(t)' = <<>>
  BY Zenon, <1>1, <1>2 DEF Unsaved
<1>4. saved'[t] = retired[t]
  BY Zenon, <1>1, <1>2 DEF BufferInv, Conservation, Unsaved
<1>5. ASSUME NEW u \in Tasks \ {t}
      PROVE  Unsaved(u)' = Unsaved(u) /\ saved'[u] = saved[u]
  <2>1. saved'[u] = saved[u]
    BY Zenon, <1>1, <1>2
  <2>2. CASE record_buffer[u] = NULL
    BY Zenon, <2>1, <2>2 DEF Unsaved
  <2>3. CASE record_buffer[u] # NULL
    <3>1. proc[u] # proc[t] \/ record_buffer[u] # record_buffer[t]
      BY Zenon DEF BufferInv, BufferOwnership
    <3>2. recs'[proc[u]][record_buffer[u]] = recs[proc[u]][record_buffer[u]]
      BY Zenon, <1>1, <1>2, <2>3, <3>1
    <3>3. QED
      BY Zenon, <2>1, <2>3, <3>2 DEF Unsaved
  <2>4. QED
    BY Zenon, <2>2, <2>3
<1>6. Conservation'
  <2>1. retired'[t] = saved'[t] \o Unsaved(t)'
    BY Zenon, <1>2, <1>3, <1>4, ConcatEmptySeq
  <2>2. \A u \in Tasks \ {t} : retired'[u] = saved'[u] \o Unsaved(u)'
    BY Zenon, <1>5 DEF BufferInv, Conservation
  <2>3. QED
    BY Zenon, <2>1, <2>2 DEF Conservation
<1>7. QED
  BY Zenon, <1>3, <1>4, <1>5, <1>6

(* flush_buffer on a full buffer preserves the invariant.                  *)
LEMMA FlushFullBufferInv ==
  ASSUME TypeInv, BufferInv, NEW t \in Tasks, FlushFull(t)
  PROVE  BufferInv'
<1>1. /\ flush_buffer(t, record_buffer[t]) /\ record_buffer[t] # NULL
      /\ UNCHANGED <<phase, proc, init_process_once, record_buffer, specific, mapped,
                     retired>>
      /\ full' = full \ {t}
  BY Zenon DEF FlushFull, TypeInv, FullHasBuffer, taskVars, initVars
<1>2. /\ Unsaved(t)' = <<>> /\ Conservation'
      /\ \A u \in Tasks \ {t} : Unsaved(u)' = Unsaved(u)
  BY Zenon, <1>1, FlushUnsaved
<1>3. RoomForNext'
  BY <1>1, <1>2, EmptySeq, ConstantsOK DEF BufferInv, RoomForNext
<1>4. QED
  BY Zenon, <1>1, <1>2, <1>3 DEF BufferInv, BufferOwnership, UnbornIdle, BufferAfterOnce

(* finish_buffer, from the destructor or the exit handler, preserves it.   *)
LEMMA FinishBufferInv ==
  ASSUME TypeInv, BufferInv, NEW t \in Tasks, record_buffer[t] # NULL,
         finish_buffer(t, record_buffer[t]),
         UNCHANGED <<proc, full, init_process_once, retired>>,
         \A u \in Tasks : phase'[u] = "unborn" => phase[u] = "unborn"
  PROVE  BufferInv' /\ saved'[t] = retired[t] /\ record_buffer'[t] = NULL
<1>1. /\ flush_buffer(t, record_buffer[t])
      /\ specific' = [specific EXCEPT ![t] = NULL]
      /\ record_buffer' = [record_buffer EXCEPT ![t] = NULL]
      /\ mapped' = [mapped EXCEPT ![proc[t]] = @ \ {record_buffer[t]}]
  BY Zenon DEF finish_buffer, drop_buffer
<1>2. /\ record_buffer'[t] = NULL /\ specific'[t] = NULL
      /\ \A u \in Tasks \ {t} : /\ record_buffer'[u] = record_buffer[u]
                                /\ specific'[u] = specific[u]
  BY Zenon, <1>1 DEF TypeInv, TypeOK
<1>3. /\ Unsaved(t)' = <<>> /\ Conservation' /\ saved'[t] = retired[t]
      /\ \A u \in Tasks \ {t} : Unsaved(u)' = Unsaved(u)
  BY Zenon, <1>1, <1>2, FlushUnsaved
<1>4. RoomForNext'
  <2>1. Len(Unsaved(t)') = 0 /\ 0 < PATH_RECORD_BUFFER_SIZE
    <3>1. Len(Unsaved(t)') = 0
      BY Zenon, <1>3, EmptySeq
    <3>2. QED
      BY SMTT(30), <3>1, ConstantsOK
  <2>2. \A u \in Tasks \ {t} : Unsaved(u)' = Unsaved(u) /\ (u \in full' <=> u \in full)
    BY Zenon, <1>3
  <2>3. /\ Len(Unsaved(t)') <= PATH_RECORD_BUFFER_SIZE
        /\ Len(Unsaved(t)') < PATH_RECORD_BUFFER_SIZE
    BY SMTT(30), <2>1, ConstantsOK
  <2>4. QED
    BY Zenon, <2>2, <2>3 DEF BufferInv, RoomForNext
<1>5. BufferOwnership'
  <2>1. \A u \in Tasks : specific'[u] = record_buffer'[u]
    BY Zenon, <1>2 DEF BufferInv, BufferOwnership
  <2>2. ASSUME NEW u \in Tasks \ {t}, record_buffer[u] # NULL
        PROVE  record_buffer[u] \in mapped'[proc[u]]
    <3>1. /\ record_buffer[u] \in mapped[proc[u]]
          /\ proc[u] = proc[t] => record_buffer[u] # record_buffer[t]
      BY Zenon, <2>2 DEF BufferInv, BufferOwnership
    <3>2. QED
      BY Zenon, <1>1, <3>1 DEF TypeInv, TypeOK
  <2>3. QED
    BY Zenon, <1>2, <2>1, <2>2 DEF BufferInv, BufferOwnership
<1>6. QED
  BY Zenon, <1>2, <1>3, <1>4, <1>5 DEF BufferInv, UnbornIdle, BufferAfterOnce

(* Logging a record preserves it: the buffer is the task's own, or fresh.  *)
LEMMA IncrementBufferInv ==
  ASSUME TypeInv, BufferInv, NEW t \in Tasks, NEW r \in Recs,
         llvm_increment_path_count(t, r)
  PROVE  BufferInv'
<1>0. /\ TypeOK
      /\ saved \in [Tasks -> Seq(Recs)] /\ retired \in [Tasks -> Seq(Recs)]
      /\ recs \in [Procs -> [Addr -> Seq(Recs)]]
      /\ proc \in [Tasks -> Procs] /\ record_buffer \in [Tasks -> Addr \cup {NULL}]
      /\ specific \in [Tasks -> Addr \cup {NULL}] /\ mapped \in [Procs -> SUBSET Addr]
  BY Zenon DEF TypeInv, TypeOK
<1>1. PICK a \in Addr, old \in Seq(Recs) : StoredAt(t, r, a, old)
  BY Zenon, <1>0, IncrementStores
<1>2. /\ retired' = [retired EXCEPT ![t] = Append(@, r)]
      /\ UNCHANGED <<phase, proc, saved>>
      /\ phase[t] # "unborn" /\ t \notin full
  BY Zenon DEF llvm_increment_path_count, BufferFull, CanLog, taskVars
<1>3. /\ record_buffer' = [record_buffer EXCEPT ![t] = a]
      /\ recs' = [recs EXCEPT ![proc[t]][a] = Append(old, r)]
  BY Zenon, <1>1 DEF StoredAt
<1>4. ASSUME NEW u \in Tasks \ {t}, proc[u] = proc[t]
      PROVE  record_buffer[u] # a
  BY Zenon, <1>0, <1>1, <1>4, ConstantsOK
     DEF StoredAt, Candidates, BufferInv, BufferOwnership
<1>5. old = Unsaved(t) /\ Unsaved(t)' = Append(old, r)
  <2>1. old = Unsaved(t)
    BY Zenon, <1>1 DEF StoredAt, Candidates, Unsaved
  <2>2. Unsaved(t)' = Append(old, r)
    BY Zenon, <1>0, <1>2, <1>3, ConstantsOK DEF Unsaved
  <2>3. QED
    BY Zenon, <2>1, <2>2
<1>6. \A u \in Tasks \ {t} : Unsaved(u)' = Unsaved(u)
  BY Zenon, <1>0, <1>2, <1>3, <1>4 DEF Unsaved
<1>7. Conservation'
  <2>1. retired'[t] = saved'[t] \o Unsaved(t)'
    <3>1. retired[t] = saved[t] \o old
      BY Zenon, <1>5 DEF BufferInv, Conservation
    <3>2. Append(saved[t] \o old, r) = saved[t] \o Append(old, r)
      <4>1. saved[t] \in Seq(Recs) /\ old \in Seq(Recs)
        BY Zenon, <1>0
      <4>2. QED
        BY Zenon, <4>1, AppendConcat
    <3>3. retired'[t] = Append(retired[t], r) /\ saved'[t] = saved[t]
      BY Zenon, <1>0, <1>2
    <3>4. QED
      BY Zenon, <1>5, <3>1, <3>2, <3>3
  <2>2. \A u \in Tasks \ {t} : retired'[u] = saved'[u] \o Unsaved(u)'
    BY Zenon, <1>0, <1>2, <1>6 DEF BufferInv, Conservation
  <2>3. QED
    BY Zenon, <2>1, <2>2 DEF Conservation
<1>8. RoomForNext'
  <2>1. Len(Append(old, r)) = Len(old) + 1 /\ Len(old) \in Nat
    OBVIOUS
  <2>2. Len(old) < PATH_RECORD_BUFFER_SIZE
    BY Zenon, <1>2, <1>5 DEF BufferInv, RoomForNext
  <2>3. /\ Len(Unsaved(t)') <= PATH_RECORD_BUFFER_SIZE
        /\ t \notin full' => Len(Unsaved(t)') < PATH_RECORD_BUFFER_SIZE
    <3>1. Unsaved(t)' = Append(old, r)
      BY Zenon, <1>5
    <3>2. t \notin full' => Len(old) + 1 # PATH_RECORD_BUFFER_SIZE
      BY Zenon, <1>1 DEF StoredAt
    <3>3. QED
      BY SMTT(30), <2>1, <2>2, <3>1, <3>2, ConstantsOK
  <2>4. \A u \in Tasks \ {t} : u \in full' <=> u \in full
    BY Zenon, <1>1 DEF StoredAt
  <2>5. QED
    BY Zenon, <1>6, <2>3, <2>4 DEF BufferInv, RoomForNext
<1>9. BufferOwnership'
  <2>1. specific' = [specific EXCEPT ![t] = a]
    BY Zenon, <1>0, <1>1 DEF StoredAt, Candidates, BufferInv, BufferOwnership
  <2>2. /\ a \in mapped'[proc[t]]
        /\ \A p \in Procs : mapped[p] \subseteq mapped'[p]
    BY Zenon, <1>0, <1>1 DEF StoredAt, Candidates, BufferInv, BufferOwnership
  <2>3. QED
    BY ZenonT(30), <1>0, <1>2, <1>3, <1>4, <2>1, <2>2 DEF BufferInv, BufferOwnership
<1>10. BufferAfterOnce'
  <2>1. /\ proc[t] \in init_process_once'
        /\ init_process_once \subseteq init_process_once'
    BY Zenon, <1>1 DEF StoredAt, init_process, BufferInv, BufferAfterOnce
  <2>2. QED
    BY Zenon, <1>0, <1>2, <1>3, <2>1 DEF BufferInv, BufferAfterOnce
<1>11. QED
  BY Zenon, <1>0, <1>2, <1>3, <1>7, <1>8, <1>9, <1>10 DEF BufferInv, UnbornIdle

(* fork preserves it: the child has no buffer, and its copy of the memory  *)
(* is the buffer of no task.                                               *)
LEMMA ForkBufferInv ==
  ASSUME TypeInv, BufferInv, NEW t \in Tasks, NEW u \in Tasks, NEW q \in Procs,
         Fork(t, u, q)
  PROVE  BufferInv' /\ record_buffer' = record_buffer
<1>0. /\ proc \in [Tasks -> Procs] /\ record_buffer \in [Tasks -> Addr \cup {NULL}]
      /\ specific \in [Tasks -> Addr \cup {NULL}] /\ mapped \in [Procs -> SUBSET Addr]
      /\ recs \in [Procs -> [Addr -> Seq(Recs)]] /\ phase \in [Tasks -> Phases]
  BY Zenon DEF TypeInv, TypeOK
<1>1. /\ phase[u] = "unborn" /\ InProc(q) = {}
      /\ proc' = [proc EXCEPT ![u] = q]
      /\ phase' = [phase EXCEPT ![u] = "run"]
      /\ UNCHANGED <<full, retired, saved>>
      /\ init_process_once \subseteq init_process_once'
  BY Zenon DEF Fork
<1>2. /\ record_buffer[u] = NULL /\ specific[u] = NULL
      /\ proc[t] \notin init_process_once => record_buffer[t] = NULL /\ specific[t] = NULL
  BY Zenon, <1>1 DEF BufferInv, BufferOwnership, UnbornIdle, BufferAfterOnce
<1>3. record_buffer' = record_buffer /\ specific' = specific
  BY Zenon, <1>0, <1>2 DEF Fork, ForkChild
<1>4. \A x \in Tasks : record_buffer[x] # NULL => x # u /\ proc[x] # q
  BY Zenon, <1>1, <1>2 DEF InProc, BufferInv, UnbornIdle
<1>5. \A p \in Procs \ {q} : mapped'[p] = mapped[p] /\ recs'[p] = recs[p]
  BY Zenon, <1>0 DEF Fork, ForkChild
<1>6. \A x \in Tasks : record_buffer[x] # NULL => proc'[x] = proc[x]
  BY Zenon, <1>0, <1>1, <1>4
<1>7. \A x \in Tasks : Unsaved(x)' = Unsaved(x)
  BY <1>0, <1>3, <1>4, <1>5, <1>6 DEF Unsaved
<1>8. Conservation' /\ RoomForNext'
  BY Zenon, <1>1, <1>7 DEF BufferInv, Conservation, RoomForNext
<1>9. BufferOwnership'
  BY SMTT(30), <1>0, <1>3, <1>4, <1>5, <1>6 DEF BufferInv, BufferOwnership
<1>10. QED
  BY Zenon, <1>0, <1>1, <1>3, <1>6, <1>8, <1>9
     DEF BufferInv, UnbornIdle, BufferAfterOnce

(* Every step preserves the invariant.                                     *)
LEMMA NextBufferInv == TypeInv /\ BufferInv /\ [Next]_vars => BufferInv'
<1> SUFFICES ASSUME TypeInv, BufferInv, [Next]_vars PROVE BufferInv'
  BY Zenon
<1>0. /\ phase \in [Tasks -> Phases] /\ proc \in [Tasks -> Procs]
      /\ \A t \in Tasks : specific[t] = record_buffer[t]
  BY Zenon DEF TypeInv, TypeOK, BufferInv, BufferOwnership
<1>1. ASSUME NEW t \in Tasks, NEW r \in Recs, llvm_increment_path_count(t, r)
      PROVE  BufferInv'
  BY Zenon, <1>1, IncrementBufferInv
<1>2. ASSUME NEW t \in Tasks, FlushFull(t) PROVE BufferInv'
  BY Zenon, <1>2, FlushFullBufferInv
<1>3. ASSUME NEW t \in Tasks, NEW u \in Tasks, CreateThread(t, u) PROVE BufferInv'
  <2>1. record_buffer[u] = NULL
    BY Zenon, <1>3 DEF CreateThread, BufferInv, UnbornIdle
  <2>2. QED
    BY Zenon, <1>0, <1>3, <2>1, QuietBufferInv DEF CreateThread, initVars, bufVars
<1>4. ASSUME NEW t \in Tasks, AtExit(t) PROVE BufferInv'
  BY Zenon, <1>4, QuietBufferInv DEF AtExit, taskVars, bufVars
<1>5. ASSUME NEW t \in Tasks, NEW u \in Tasks, NEW q \in Procs, Fork(t, u, q)
      PROVE  BufferInv'
  BY Zenon, <1>5, ForkBufferInv
<1>6. ASSUME NEW t \in Tasks, ThreadReturn(t) PROVE BufferInv'
  BY Zenon, <1>0, <1>6, QuietBufferInv DEF ThreadReturn, initVars, bufVars
<1>7. ASSUME NEW t \in Tasks, RunDestructor(t) PROVE BufferInv'
  <2>1. /\ UNCHANGED <<proc, full, init_process_once, retired>>
        /\ \A u \in Tasks : phase'[u] = "unborn" => phase[u] = "unborn"
    BY Zenon, <1>0, <1>7 DEF RunDestructor, initVars
  <2>2. CASE specific[t] # NULL
    <3>1. finish_buffer(t, record_buffer[t]) /\ record_buffer[t] # NULL
      BY Zenon, <1>0, <1>7, <2>2 DEF RunDestructor
    <3>2. QED
      BY Zenon, <2>1, <3>1, FinishBufferInv
  <2>3. CASE specific[t] = NULL
    BY Zenon, <1>7, <2>1, <2>3, QuietBufferInv DEF RunDestructor, bufVars
  <2>4. QED
    BY Zenon, <2>2, <2>3
<1>8. ASSUME NEW t \in Tasks, NextRound(t) PROVE BufferInv'
  BY Zenon, <1>0, <1>8, QuietBufferInv DEF NextRound, initVars, bufVars
<1>9. ASSUME NEW t \in Tasks, EndThread(t) PROVE BufferInv'
  BY Zenon, <1>0, <1>9, QuietBufferInv DEF EndThread, initVars, bufVars
<1>10. ASSUME NEW t \in Tasks, Exit(t) PROVE BufferInv'
  BY Zenon, <1>0, <1>10, QuietBufferInv DEF Exit, initVars, bufVars
<1>11. ASSUME NEW t \in Tasks, RunHandler(t) PROVE BufferInv'
  <2>1. /\ UNCHANGED <<proc, full, init_process_once, retired>>
        /\ \A u \in Tasks : phase'[u] = "unborn" => phase[u] = "unborn"
    BY Zenon, <1>0, <1>11 DEF RunHandler
  <2>2. \/ record_buffer[t] # NULL /\ finish_buffer(t, record_buffer[t])
        \/ UNCHANGED <<record_buffer, specific, mapped, recs, saved>>
    BY Zenon, <1>11 DEF RunHandler, finish_main_thread_buffer_hack, bufVars
  <2>3. QED
    BY Zenon, <2>1, <2>2, FinishBufferInv, QuietBufferInv
<1>12. ASSUME NEW t \in Tasks, HandlerReturn(t) PROVE BufferInv'
  BY Zenon, <1>0, <1>12, QuietBufferInv DEF HandlerReturn, initVars, bufVars
<1>13. ASSUME NEW t \in Tasks, ExitGroup(t) PROVE BufferInv'
  BY Zenon, <1>0, <1>13, QuietBufferInv DEF ExitGroup, initVars, bufVars
<1>14. ASSUME NEW p \in Procs, Kill(p) PROVE BufferInv'
  BY Zenon, <1>0, <1>14, QuietBufferInv DEF Kill, initVars, bufVars
<1>15. CASE UNCHANGED vars
  BY Zenon, <1>15, QuietBufferInv DEF vars, taskVars, initVars, bufVars
<1>16. QED
  BY Zenon, <1>1, <1>2, <1>3, <1>4, <1>5, <1>6, <1>7, <1>8, <1>9, <1>10, <1>11,
     <1>12, <1>13, <1>14, <1>15 DEF Next, TaskStep

(* The combined invariant holds in every reachable state.                  *)
LEMMA BufferInvariant == Spec => [](TypeInv /\ BufferInv)
<1>1. TypeInv /\ BufferInv /\ [Next]_vars => (TypeInv /\ BufferInv)'
  BY Zenon, NextTypeInv, NextBufferInv
<1>2. QED
  BY <1>1, InitTypeInv, InitBufferInv, PTL DEF Spec

(* For any number of threads and processes, any buffer size, and fork,     *)
(* exit and kill at any point: what a thread retired is what the trace has *)
(* of it, followed by the content of its buffer.                           *)
THEOREM RecordsConserved == Spec => []Conservation
<1>1. TypeInv /\ BufferInv => Conservation
  BY Zenon DEF BufferInv
<1>2. QED
  BY <1>1, BufferInvariant, PTL

(* recs[len++] never leaves the buffer.                                    *)
THEOREM NoOverrun == Spec => []RoomForNext
<1>1. TypeInv /\ BufferInv => RoomForNext
  BY Zenon DEF BufferInv
<1>2. QED
  BY <1>1, BufferInvariant, PTL

(* Buffers are mapped, owned by one thread, and both pointers agree.       *)
THEOREM BuffersOwned == Spec => []BufferOwnership
<1>1. TypeInv /\ BufferInv => BufferOwnership
  BY Zenon DEF BufferInv
<1>2. QED
  BY <1>1, BufferInvariant, PTL
------------------------------------------------------------------------------
(* A flush of a thread's own buffer is the Save of the abstract trace.     *)
LEMMA FlushIsSave ==
  ASSUME TypeInv, BufferInv, NEW t \in Tasks, record_buffer[t] # NULL,
         flush_buffer(t, record_buffer[t]), UNCHANGED retired
  PROVE  Trace!Save(t)
<1>1. /\ saved \in [Tasks -> Seq(Recs)]
      /\ saved' = [saved EXCEPT ![t] = @ \o recs[proc[t]][record_buffer[t]]]
  BY Zenon DEF TypeInv, TypeOK, flush_buffer
<1>2. retired[t] = saved[t] \o recs[proc[t]][record_buffer[t]]
  BY Zenon DEF BufferInv, Conservation, Unsaved
<1>3. QED
  BY Zenon, <1>1, <1>2 DEF Trace!Save

(* Logging a record is the Retire of the abstract trace: a buffer that is  *)
(* not full leaves a lag of less than a buffer.                            *)
LEMMA IncrementIsRetire ==
  ASSUME TypeInv, BufferInv, NEW t \in Tasks, NEW r \in Recs,
         llvm_increment_path_count(t, r)
  PROVE  Trace!Retire(t, r)
<1>1. /\ t \notin full /\ UNCHANGED saved
      /\ retired' = [retired EXCEPT ![t] = Append(@, r)]
  BY Zenon DEF llvm_increment_path_count, BufferFull, CanLog
<1>2. /\ saved[t] \in Seq(Recs) /\ Unsaved(t) \in Seq(Recs)
      /\ retired[t] = saved[t] \o Unsaved(t)
      /\ Len(Unsaved(t)) < PATH_RECORD_BUFFER_SIZE
  <2>1. Unsaved(t) \in Seq(Recs)
    BY Zenon, EmptySeq DEF TypeInv, TypeOK, Unsaved
  <2>2. QED
    BY Zenon, <1>1, <2>1 DEF TypeInv, TypeOK, BufferInv, Conservation, RoomForNext
<1>3. Len(retired[t]) = Len(saved[t]) + Len(Unsaved(t))
  BY Zenon, <1>2, ConcatProperties
<1>4. Len(saved[t]) \in Nat /\ Len(Unsaved(t)) \in Nat
  BY <1>2
<1>5. Len(retired[t]) < Len(saved[t]) + PATH_RECORD_BUFFER_SIZE
  BY <1>2, <1>3, <1>4, ConstantsOK
<1>6. QED
  BY Zenon, <1>1, <1>5 DEF Trace!Retire

(* Every step of the runtime is a step of the abstract trace or leaves it. *)
LEMMA NextRefines ==
  TypeInv /\ BufferInv /\ [Next]_vars => [Trace!TraceNext]_(Trace!traceVars)
<1> SUFFICES ASSUME TypeInv, BufferInv, [Next]_vars
             PROVE  [Trace!TraceNext]_(Trace!traceVars)
  BY Zenon
<1>0. \A t \in Tasks : specific[t] = record_buffer[t]
  BY Zenon DEF BufferInv, BufferOwnership
<1>1. ASSUME NEW t \in Tasks, NEW r \in Recs, llvm_increment_path_count(t, r)
      PROVE  Trace!TraceNext
  BY Zenon, <1>1, IncrementIsRetire DEF Trace!TraceNext
<1>2. ASSUME NEW t \in Tasks, FlushFull(t) PROVE Trace!TraceNext
  <2>1. record_buffer[t] # NULL /\ flush_buffer(t, record_buffer[t]) /\ UNCHANGED retired
    BY Zenon, <1>2 DEF FlushFull, TypeInv, FullHasBuffer
  <2>2. QED
    BY Zenon, <2>1, FlushIsSave DEF Trace!TraceNext
<1>3. ASSUME NEW t \in Tasks, RunDestructor(t) \/ RunHandler(t)
      PROVE  [Trace!TraceNext]_(Trace!traceVars)
  <2>1. /\ UNCHANGED retired
        /\ \/ record_buffer[t] # NULL /\ flush_buffer(t, record_buffer[t])
           \/ UNCHANGED saved
    BY Zenon, <1>0, <1>3 DEF RunDestructor, RunHandler, finish_main_thread_buffer_hack,
                      finish_buffer
  <2>2. QED
    BY Zenon, <2>1, FlushIsSave DEF Trace!TraceNext, Trace!traceVars
<1>4. ASSUME NEW t \in Tasks,
             \/ \E u \in Tasks : CreateThread(t, u)
             \/ AtExit(t)
             \/ \E u \in Tasks, q \in Procs : Fork(t, u, q)
             \/ ThreadReturn(t) \/ NextRound(t) \/ EndThread(t)
             \/ Exit(t) \/ HandlerReturn(t) \/ ExitGroup(t)
      PROVE  UNCHANGED Trace!traceVars
  BY Zenon, <1>4
     DEF CreateThread, AtExit, Fork, ThreadReturn, NextRound, EndThread, Exit,
              HandlerReturn, ExitGroup, Trace!traceVars
<1>5. ASSUME NEW p \in Procs, Kill(p) PROVE UNCHANGED Trace!traceVars
  BY Zenon, <1>5 DEF Kill, Trace!traceVars
<1>6. CASE UNCHANGED vars
  BY Zenon, <1>6 DEF vars, Trace!traceVars
<1>7. QED
  BY Zenon, <1>1, <1>2, <1>3, <1>4, <1>5, <1>6 DEF Next, TaskStep

(* The runtime implements the abstract trace: per thread the saved trace   *)
(* is a prefix of the retired records, in order, without repetition, and   *)
(* at most one buffer behind, whatever fork, exit and kill do.             *)
THEOREM RuntimeImplementsTrace == Spec => TraceRefinement
<1>1. Init => Trace!TraceInit
  BY Zenon DEF Init, Trace!TraceInit
<1>2. QED
  BY <1>1, NextRefines, BufferInvariant, PTL DEF Spec, TraceRefinement, Trace!TraceSpec
------------------------------------------------------------------------------
(* An orderly end of a thread or a process saves every record.             *)
(*                                                                         *)
(* The property is not inductive: what makes it true is that a thread on   *)
(* its way out can hold a buffer only while a destructor round or the      *)
(* runtime's exit handler is still to come, and that no other thread can   *)
(* take that handler off the stack.  That the handler is there when the    *)
(* first process calls exit() is an invariant of its own, MainInv.         *)

InExit(t) == phase[t] \in {"exiting", "handler"}

(* exit() is run by one thread of a process at a time.                     *)
OneExits ==
  \A t, u \in Tasks : InExit(t) /\ InExit(u) /\ proc[t] = proc[u] => t = u

(* A buffer left after the last round of destructors was filled late.      *)
LastRound ==
  \A t \in Tasks \ late :
    phase[t] = "tsd_post" /\ round[t] = DESTRUCTOR_ITERATIONS
      => record_buffer[t] = NULL

(* A thread in exit() with a buffer still has the runtime's handler ahead. *)
HandlerAhead ==
  \A t \in Tasks \ late :
    InExit(t) /\ record_buffer[t] # NULL => ~HackGone(proc[t])

(* An orderly end leaves no buffer behind.                                 *)
NothingLeft ==
  \A t \in Tasks \ late :
    phase[t] \in {"finished", "exited"} => record_buffer[t] = NULL

EndInv == OneExits /\ LastRound /\ HandlerAhead /\ NothingLeft

(* Nothing has ended in the initial state.                                 *)
LEMMA InitEndInv == Init => EndInv
  BY Zenon DEF Init, EndInv, OneExits, LastRound, HandlerAhead, NothingLeft, InExit

(* The first thread was started in the first process.                      *)
MainStarted == phase[MainTask] # "unborn" /\ proc[MainTask] = MainProc

(* In the first process the runtime's handler leaves the stack only when   *)
(* some thread is in exit(), and stays behind only if that thread does.    *)
NoHack == \A i \in DOMAIN handlers[MainProc] : handlers[MainProc][i] # "hack"
Exiting == \E u \in Tasks : InExit(u) /\ proc[u] = MainProc
Ahead == NoHack => Exiting
BeforeExit ==
  \A t \in Tasks :
    phase[t] = "run" /\ proc[t] = MainProc /\ MainProc \in init_process_once => Ahead

MainInv == MainStarted /\ BeforeExit

(* What is appended to a stack of handlers hides nothing in it.            *)
LEMMA AppendShows ==
  ASSUME NEW s \in Seq({"app", "hack"}), NEW h \in {"app", "hack"},
         \A i \in DOMAIN Append(s, h) : Append(s, h)[i] # "hack"
  PROVE  h # "hack" /\ \A i \in DOMAIN s : s[i] # "hack"
<1>1. \A i \in DOMAIN s : i \in DOMAIN Append(s, h) /\ Append(s, h)[i] = s[i]
  OBVIOUS
<1>2. Len(s) + 1 \in DOMAIN Append(s, h) /\ Append(s, h)[Len(s) + 1] = h
  OBVIOUS
<1>3. QED
  BY Zenon, <1>1, <1>2

(* The first thread was started in the first process, and no other process *)
(* takes its place.                                                        *)
LEMMA NextMainStarted ==
  ASSUME TypeInv, MainStarted, [Next]_vars
  PROVE  /\ MainStarted'
         /\ \A t \in Tasks : phase[t] # "unborn" => proc'[t] = proc[t] /\ phase'[t] # "unborn"
<1>0. phase \in [Tasks -> Phases] /\ proc \in [Tasks -> Procs]
  BY Zenon DEF TypeInv, TypeOK
<1> DEFINE Kept == \A t \in Tasks : phase[t] # "unborn" => proc'[t] = proc[t] /\ phase'[t] # "unborn"
<1>1. ASSUME NEW t \in Tasks, NEW r \in Recs, llvm_increment_path_count(t, r) PROVE Kept
  BY Zenon, <1>1 DEF llvm_increment_path_count, BufferFull, taskVars
<1>2. ASSUME NEW t \in Tasks, FlushFull(t) \/ AtExit(t) PROVE Kept
  BY Zenon, <1>2 DEF FlushFull, AtExit, taskVars
<1>3. ASSUME NEW t \in Tasks, NEW u \in Tasks, CreateThread(t, u) PROVE Kept
  BY Zenon, <1>0, <1>3 DEF CreateThread
<1>4. ASSUME NEW t \in Tasks, NEW u \in Tasks, NEW q \in Procs, Fork(t, u, q) PROVE Kept
  BY Zenon, <1>0, <1>4 DEF Fork
<1>5. ASSUME NEW t \in Tasks, ThreadReturn(t) \/ RunDestructor(t) \/ NextRound(t) \/ EndThread(t)
      PROVE  Kept
  BY Zenon, <1>0, <1>5 DEF ThreadReturn, RunDestructor, NextRound, EndThread
<1>6. ASSUME NEW t \in Tasks, Exit(t) \/ RunHandler(t) \/ HandlerReturn(t) \/ ExitGroup(t)
      PROVE  Kept
  BY Zenon, <1>0, <1>6 DEF Exit, RunHandler, HandlerReturn, ExitGroup
<1>7. ASSUME NEW p \in Procs, Kill(p) PROVE Kept
  BY Zenon, <1>0, <1>7 DEF Kill
<1>8. ASSUME UNCHANGED vars PROVE Kept
  <2>1. UNCHANGED <<phase, proc>>
    BY Zenon, <1>8 DEF vars, taskVars
  <2>2. QED
    BY Zenon, <2>1
<1>9. Kept
  BY Zenon, <1>1, <1>2, <1>3, <1>4, <1>5, <1>6, <1>7, <1>8 DEF Next, TaskStep
<1>10. QED
  BY Zenon, <1>9, ConstantsOK DEF MainStarted

(* A step that keeps the handlers and who is in exit() keeps them ahead.   *)
LEMMA QuietAhead ==
  ASSUME Ahead, NoHack' => NoHack,
         \A t \in Tasks : InExit(t) /\ proc[t] = MainProc => InExit(t)' /\ proc'[t] = MainProc
  PROVE  Ahead'
  BY Zenon DEF Ahead, Exiting

(* No step takes the handler from under a process that goes on running.    *)
LEMMA NextAhead ==
  ASSUME TypeInv, MainStarted, [Next]_vars, Ahead
  PROVE  Ahead' \/ \A t \in Tasks : phase'[t] \in Live => proc'[t] # MainProc
<1>0. /\ phase \in [Tasks -> Phases] /\ proc \in [Tasks -> Procs] /\ MainProc \in Procs
      /\ handlers \in [Procs -> Seq({"app", "hack"})] /\ MainTask \in Tasks
  BY Zenon, ConstantsOK DEF TypeInv, TypeOK
<1>00. \A t \in Tasks : phase[t] # "unborn" => proc'[t] = proc[t]
  BY Zenon, NextMainStarted
<1>1. ASSUME NEW t \in Tasks, NEW r \in Recs, llvm_increment_path_count(t, r) PROVE Ahead'
  <2>1. UNCHANGED <<phase, proc>>
    BY Zenon, <1>1 DEF llvm_increment_path_count, BufferFull, taskVars
  <2>2. UNCHANGED handlers \/ handlers' = [handlers EXCEPT ![proc[t]] = Append(@, "hack")]
    BY Zenon, <1>1
       DEF llvm_increment_path_count, BufferFull, ensure_thread_init, init_process, initVars
  <2>3. handlers'[MainProc] \in {handlers[MainProc], Append(handlers[MainProc], "hack")}
    BY Zenon, <1>0, <2>2
  <2>4. NoHack' => NoHack
    BY Zenon, <1>0, <2>3, AppendShows DEF NoHack
  <2>5. QED
    BY Zenon, <2>1, <2>4, QuietAhead DEF InExit
<1>2. ASSUME NEW t \in Tasks, AtExit(t) PROVE Ahead'
  <2>1. /\ UNCHANGED <<phase, proc>>
        /\ handlers' = [handlers EXCEPT ![proc[t]] = Append(@, "app")]
    BY Zenon, <1>2 DEF AtExit, taskVars
  <2>2. handlers'[MainProc] \in {handlers[MainProc], Append(handlers[MainProc], "app")}
    BY Zenon, <1>0, <2>1
  <2>3. NoHack' => NoHack
    <3>1. CASE handlers'[MainProc] = handlers[MainProc]
      BY Zenon, <3>1 DEF NoHack
    <3>2. CASE handlers'[MainProc] = Append(handlers[MainProc], "app")
      <4>1. handlers[MainProc] \in Seq({"app", "hack"})
        BY Zenon, <1>0
      <4>2. QED
        BY Zenon, <3>2, <4>1, AppendShows DEF NoHack
    <3>3. QED
      BY Zenon, <2>2, <3>1, <3>2
  <2>4. QED
    BY Zenon, <2>1, <2>3, QuietAhead DEF InExit
<1>3. ASSUME NEW t \in Tasks, NEW u \in Tasks, NEW q \in Procs, Fork(t, u, q) PROVE Ahead'
  <2>1. q # MainProc
    BY Zenon, <1>0, <1>3 DEF Fork, InProc, MainStarted
  <2>2. handlers'[MainProc] = handlers[MainProc]
    BY Zenon, <1>0, <1>3, <2>1 DEF Fork
  <2>3. \A x \in Tasks : InExit(x) => InExit(x)' /\ proc'[x] = proc[x]
    BY Zenon, <1>0, <1>3 DEF Fork, InExit
  <2>4. QED
    BY Zenon, <2>2, <2>3, QuietAhead DEF NoHack
<1>4. ASSUME NEW t \in Tasks, RunHandler(t) PROVE Ahead'
  <2>1. InExit(t)' /\ proc' = proc /\ \A x \in Tasks : InExit(x) => InExit(x)'
    BY Zenon, <1>0, <1>4 DEF RunHandler, InExit
  <2>2. CASE proc[t] = MainProc
    BY Zenon, <2>1, <2>2 DEF Ahead, Exiting
  <2>3. CASE proc[t] # MainProc
    <3>1. handlers'[MainProc] = handlers[MainProc]
      BY Zenon, <1>0, <1>4, <2>3 DEF RunHandler
    <3>2. QED
      BY Zenon, <2>1, <3>1, QuietAhead DEF NoHack
  <2>4. QED
    BY Zenon, <2>2, <2>3
<1>5. ASSUME NEW p \in Procs, UNCHANGED <<handlers, proc>>,
             \A x \in Tasks : x \in LiveIn(p) => phase'[x] \notin Live,
             \A x \in Tasks : x \notin LiveIn(p) => phase'[x] = phase[x]
      PROVE  Ahead' \/ \A t \in Tasks : phase'[t] \in Live => proc'[t] # MainProc
  <2>1. CASE p = MainProc
    BY Zenon, <1>5, <2>1 DEF LiveIn, InProc, Live
  <2>2. CASE p # MainProc
    <3>1. \A x \in Tasks : InExit(x) /\ proc[x] = MainProc => InExit(x)'
      BY Zenon, <1>5, <2>2 DEF LiveIn, InProc, InExit
    <3>2. QED
      BY Zenon, <1>5, <3>1, QuietAhead DEF NoHack
  <2>3. QED
    BY Zenon, <2>1, <2>2
<1>6. ASSUME NEW t \in Tasks, ExitGroup(t)
      PROVE  Ahead' \/ \A x \in Tasks : phase'[x] \in Live => proc'[x] # MainProc
  <2>1. t \in LiveIn(proc[t]) /\ proc[t] \in Procs /\ UNCHANGED <<handlers, proc>>
    BY Zenon, <1>0, <1>6 DEF ExitGroup, LiveIn, InProc, Live, initVars
  <2>2. \A x \in Tasks : x \in LiveIn(proc[t]) => phase'[x] \notin Live
    BY Zenon, <1>6 DEF ExitGroup, Live
  <2>3. \A x \in Tasks : x \notin LiveIn(proc[t]) => phase'[x] = phase[x]
    BY Zenon, <1>6, <2>1 DEF ExitGroup
  <2>4. QED
    BY Zenon, <1>5, <2>1, <2>2, <2>3
<1>7. ASSUME NEW p \in Procs, Kill(p)
      PROVE  Ahead' \/ \A x \in Tasks : phase'[x] \in Live => proc'[x] # MainProc
  <2>1. UNCHANGED <<handlers, proc>>
    BY Zenon, <1>7 DEF Kill, initVars
  <2>2. \A x \in Tasks : x \in LiveIn(p) => phase'[x] \notin Live
    BY Zenon, <1>7 DEF Kill, Live
  <2>3. \A x \in Tasks : x \notin LiveIn(p) => phase'[x] = phase[x]
    BY Zenon, <1>7 DEF Kill
  <2>4. QED
    BY Zenon, <1>5, <2>1, <2>2, <2>3
<1>8. ASSUME UNCHANGED handlers, \A x \in Tasks : InExit(x) => InExit(x)' PROVE Ahead'
  BY Zenon, <1>00, <1>8, QuietAhead DEF NoHack, InExit
<1>9. ASSUME NEW t \in Tasks, NEW u \in Tasks,
             FlushFull(t) \/ CreateThread(t, u) \/ ThreadReturn(t) \/ RunDestructor(t)
      PROVE  Ahead'
  <2>1. UNCHANGED handlers
    BY Zenon, <1>9 DEF FlushFull, CreateThread, ThreadReturn, RunDestructor, initVars
  <2>2. \A x \in Tasks : InExit(x) => InExit(x)'
    BY Zenon, <1>0, <1>9
       DEF FlushFull, CreateThread, ThreadReturn, RunDestructor, taskVars, InExit
  <2>3. QED
    BY Zenon, <1>8, <2>1, <2>2
<1>10. ASSUME NEW t \in Tasks, NextRound(t) \/ EndThread(t) \/ Exit(t) \/ HandlerReturn(t)
       PROVE  Ahead'
  <2>1. UNCHANGED handlers
    BY Zenon, <1>10 DEF NextRound, EndThread, Exit, HandlerReturn, initVars
  <2>2. \A x \in Tasks : InExit(x) => InExit(x)'
    BY Zenon, <1>0, <1>10 DEF NextRound, EndThread, Exit, HandlerReturn, InExit
  <2>3. QED
    BY Zenon, <1>8, <2>1, <2>2
<1>11. CASE UNCHANGED vars
  <2>1. UNCHANGED handlers /\ \A x \in Tasks : InExit(x) => InExit(x)'
    BY Zenon, <1>11 DEF vars, taskVars, initVars, InExit
  <2>2. QED
    BY Zenon, <1>8, <2>1
<1>12. QED
  BY Zenon, <1>1, <1>2, <1>3, <1>4, <1>6, <1>7, <1>9, <1>10, <1>11 DEF Next, TaskStep

(* A thread that runs in the first process was there, or was created there.*)
LEMMA NextRun ==
  ASSUME TypeInv, MainStarted, [Next]_vars, NEW x \in Tasks,
         phase'[x] = "run", proc'[x] = MainProc
  PROVE  \E u \in Tasks : phase[u] = "run" /\ proc[u] = MainProc
<1>0. /\ phase \in [Tasks -> Phases] /\ proc \in [Tasks -> Procs] /\ MainProc \in Procs
      /\ MainTask \in Tasks
  BY Zenon, ConstantsOK DEF TypeInv, TypeOK
<1> DEFINE Was == \E u \in Tasks : phase[u] = "run" /\ proc[u] = MainProc
<1>1. CASE UNCHANGED <<phase, proc>>
  BY Zenon, <1>1
<1>2. ASSUME NEW t \in Tasks, NEW r \in Recs, llvm_increment_path_count(t, r)
      PROVE  UNCHANGED <<phase, proc>>
  BY Zenon, <1>2 DEF llvm_increment_path_count, BufferFull, taskVars
<1>3. ASSUME NEW t \in Tasks, FlushFull(t) \/ AtExit(t) PROVE UNCHANGED <<phase, proc>>
  BY Zenon, <1>3 DEF FlushFull, AtExit, taskVars
<1>4. ASSUME NEW t \in Tasks, NEW u \in Tasks, CreateThread(t, u) PROVE Was
  BY Zenon, <1>0, <1>4 DEF CreateThread
<1>5. ASSUME NEW t \in Tasks, NEW u \in Tasks, NEW q \in Procs, Fork(t, u, q) PROVE Was
  <2>1. q # MainProc
    BY Zenon, <1>0, <1>5 DEF Fork, InProc, MainStarted
  <2>2. QED
    BY Zenon, <1>0, <1>5, <2>1 DEF Fork
<1>6. ASSUME NEW t \in Tasks, ThreadReturn(t) \/ RunDestructor(t) \/ NextRound(t) \/ EndThread(t)
      PROVE  Was
  BY Zenon, <1>0, <1>6 DEF ThreadReturn, RunDestructor, NextRound, EndThread
<1>7. ASSUME NEW t \in Tasks, Exit(t) \/ RunHandler(t) \/ HandlerReturn(t) \/ ExitGroup(t)
      PROVE  Was
  BY Zenon, <1>0, <1>7 DEF Exit, RunHandler, HandlerReturn, ExitGroup
<1>8. ASSUME NEW p \in Procs, Kill(p) PROVE Was
  BY Zenon, <1>0, <1>8 DEF Kill
<1>9. CASE UNCHANGED vars
  <2>1. UNCHANGED <<phase, proc>>
    BY Zenon, <1>9 DEF vars, taskVars
  <2>2. QED
    BY Zenon, <1>1, <2>1
<1>10. QED
  BY Zenon, <1>1, <1>2, <1>3, <1>4, <1>5, <1>6, <1>7, <1>8, <1>9 DEF Next, TaskStep

(* A thread that is live and was started before the step was live.         *)
LEMMA LiveWasLive ==
  ASSUME TypeInv, [Next]_vars, NEW x \in Tasks, phase[x] # "unborn", phase'[x] \in Live
  PROVE  phase[x] \in Live
<1>0. phase \in [Tasks -> Phases]
  BY Zenon DEF TypeInv, TypeOK
<1>1. ASSUME NEW t \in Tasks, NEW r \in Recs, llvm_increment_path_count(t, r)
      PROVE  UNCHANGED phase
  BY Zenon, <1>1 DEF llvm_increment_path_count, BufferFull, taskVars
<1>2. ASSUME NEW t \in Tasks, FlushFull(t) \/ AtExit(t) PROVE UNCHANGED phase
  BY Zenon, <1>2 DEF FlushFull, AtExit, taskVars
<1>3. ASSUME NEW t \in Tasks, NEW u \in Tasks, CreateThread(t, u) PROVE phase[x] \in Live
  BY Zenon, <1>0, <1>3 DEF CreateThread
<1>4. ASSUME NEW t \in Tasks, NEW u \in Tasks, NEW q \in Procs, Fork(t, u, q)
      PROVE  phase[x] \in Live
  BY Zenon, <1>0, <1>4 DEF Fork
<1>5. ASSUME NEW t \in Tasks, ThreadReturn(t) \/ RunDestructor(t) \/ NextRound(t) \/ EndThread(t)
      PROVE  phase[x] \in Live
  BY Zenon, <1>0, <1>5 DEF ThreadReturn, RunDestructor, NextRound, EndThread, Live
<1>6. ASSUME NEW t \in Tasks, Exit(t) \/ RunHandler(t) \/ HandlerReturn(t) \/ ExitGroup(t)
      PROVE  phase[x] \in Live
  BY Zenon, <1>0, <1>6 DEF Exit, RunHandler, HandlerReturn, ExitGroup, Live
<1>7. ASSUME NEW p \in Procs, Kill(p) PROVE phase[x] \in Live
  BY Zenon, <1>0, <1>7 DEF Kill, Live
<1>8. CASE UNCHANGED vars
  BY Zenon, <1>8 DEF vars, taskVars
<1>9. QED
  BY Zenon, <1>1, <1>2, <1>3, <1>4, <1>5, <1>6, <1>7, <1>8 DEF Next, TaskStep

(* init_process leaves its handler on the stack.                           *)
LEMMA NextOnce ==
  ASSUME TypeInv, MainStarted, [Next]_vars,
         MainProc \notin init_process_once, MainProc \in init_process_once'
  PROVE  ~NoHack'
<1>0. /\ proc \in [Tasks -> Procs] /\ MainProc \in Procs /\ MainTask \in Tasks
      /\ handlers \in [Procs -> Seq({"app", "hack"})]
  BY Zenon, ConstantsOK DEF TypeInv, TypeOK
<1>1. ASSUME NEW t \in Tasks, NEW r \in Recs, llvm_increment_path_count(t, r) PROVE ~NoHack'
  <2>1. init_process(proc[t])
    BY Zenon, <1>1
       DEF llvm_increment_path_count, BufferFull, ensure_thread_init, initVars
  <2>2. proc[t] = MainProc
    BY Zenon, <2>1 DEF init_process
  <2>3. handlers'[MainProc] = Append(handlers[MainProc], "hack")
    BY Zenon, <1>0, <2>1, <2>2 DEF init_process
  <2>4. handlers[MainProc] \in Seq({"app", "hack"})
    BY Zenon, <1>0
  <2>5. QED
    BY Zenon, <2>3, <2>4, AppendShows DEF NoHack
<1>2. ASSUME NEW t \in Tasks, NEW u \in Tasks, NEW q \in Procs, Fork(t, u, q) PROVE FALSE
  BY Zenon, <1>0, <1>2 DEF Fork, InProc, MainStarted
<1>3. ASSUME NEW t \in Tasks, NEW u \in Tasks,
             FlushFull(t) \/ CreateThread(t, u) \/ AtExit(t) \/ ThreadReturn(t) \/ RunDestructor(t)
      PROVE  FALSE
  BY Zenon, <1>3
     DEF FlushFull, CreateThread, AtExit, ThreadReturn, RunDestructor, initVars
<1>4. ASSUME NEW t \in Tasks, NextRound(t) \/ EndThread(t) \/ Exit(t) \/ RunHandler(t)
      PROVE  FALSE
  BY Zenon, <1>4 DEF NextRound, EndThread, Exit, RunHandler, initVars
<1>5. ASSUME NEW t \in Tasks, HandlerReturn(t) \/ ExitGroup(t) PROVE FALSE
  BY Zenon, <1>5 DEF HandlerReturn, ExitGroup, initVars
<1>6. ASSUME NEW p \in Procs, Kill(p) PROVE FALSE
  BY Zenon, <1>6 DEF Kill, initVars
<1>7. CASE UNCHANGED vars
  BY Zenon, <1>7 DEF vars, initVars
<1>8. QED
  BY Zenon, <1>1, <1>2, <1>3, <1>4, <1>5, <1>6, <1>7 DEF Next, TaskStep

(* Every step preserves what is said of the first process.                 *)
LEMMA NextMainInv == TypeInv /\ MainInv /\ [Next]_vars => MainInv'
<1> SUFFICES ASSUME TypeInv, MainInv, [Next]_vars PROVE MainInv'
  BY Zenon
<1>1. MainStarted /\ MainStarted'
  BY Zenon, NextMainStarted DEF MainInv
<1>2. ASSUME NEW t \in Tasks, phase'[t] = "run", proc'[t] = MainProc,
             MainProc \in init_process_once'
      PROVE  Ahead'
  <2>1. CASE MainProc \notin init_process_once
    BY Zenon, <1>1, <1>2, <2>1, NextOnce DEF Ahead
  <2>2. CASE MainProc \in init_process_once
    <3>1. Ahead
      BY Zenon, <1>1, <1>2, <2>2, NextRun DEF MainInv, BeforeExit
    <3>2. phase'[t] \in Live
      BY Zenon, <1>2 DEF Live
    <3>3. QED
      BY Zenon, <1>1, <1>2, <3>1, <3>2, NextAhead
  <2>3. QED
    BY Zenon, <2>1, <2>2
<1>3. QED
  BY Zenon, <1>1, <1>2 DEF MainInv, BeforeExit

(* Nothing is registered in the initial state.                             *)
LEMMA InitMainInv == Init => MainInv
  BY Zenon, ConstantsOK DEF Init, MainInv, MainStarted, BeforeExit

(* A stack of handlers loses the runtime's only when that is what is       *)
(* popped, and registering handlers does not remove it.                    *)
LEMMA AppendKeepsHack ==
  ASSUME NEW p \in Procs, NEW h \in {"app", "hack"},
         handlers \in [Procs -> Seq({"app", "hack"})],
         handlers'[p] = Append(handlers[p], h), init_process_once' = init_process_once,
         HackGone(p)'
  PROVE  HackGone(p)
<1>1. handlers[p] \in Seq({"app", "hack"})
  BY Zenon
<1>2. \A i \in DOMAIN handlers[p] :
        i \in DOMAIN Append(handlers[p], h) /\ Append(handlers[p], h)[i] = handlers[p][i]
  BY <1>1
<1>3. QED
  BY Zenon, <1>2 DEF HackGone

(* The same when another handler is popped.                                *)
LEMMA PopKeepsHack ==
  ASSUME NEW p \in Procs, NEW n, n = Len(handlers[p]), n > 0,
         handlers \in [Procs -> Seq({"app", "hack"})],
         handlers'[p] = SubSeq(handlers[p], 1, n - 1), handlers[p][n] # "hack",
         init_process_once' = init_process_once,
         HackGone(p)'
  PROVE  HackGone(p)
<1>1. handlers[p] \in Seq({"app", "hack"}) /\ n \in Nat /\ DOMAIN handlers[p] = 1 .. n
  OBVIOUS
<1>2. \A i \in 1 .. n - 1 :
        /\ i \in DOMAIN SubSeq(handlers[p], 1, n - 1)
        /\ SubSeq(handlers[p], 1, n - 1)[i] = handlers[p][i]
  BY <1>1
<1>3. \A i \in 1 .. n : i \in 1 .. n - 1 \/ i = n
  BY <1>1
<1>4. QED
  BY Zenon, <1>1, <1>2, <1>3 DEF HackGone

(* A step after which fewer threads hold a buffer or are on their way out, *)
(* and that leaves the handlers alone, preserves the invariant.            *)
LEMMA QuietEndInv ==
  ASSUME TypeInv, EndInv,
         UNCHANGED <<handlers, init_process_once>>, late \subseteq late',
         \A t \in Tasks : record_buffer'[t] \in {NULL, record_buffer[t]},
         \A t \in Tasks :
           \/ phase'[t] = phase[t] /\ proc'[t] = proc[t] /\ round'[t] = round[t]
           \/ phase'[t] \in {"unborn", "run", "tsd_pre", "killed"}
  PROVE  EndInv'
<1>1. \A p \in Procs : HackGone(p)' = HackGone(p)
  BY Zenon DEF HackGone
<1>2. proc \in [Tasks -> Procs]
  BY Zenon DEF TypeInv, TypeOK
<1>3. OneExits'
  BY DEF EndInv, OneExits, InExit
<1>4. LastRound'
  BY Zenon DEF EndInv, LastRound
<1>5. HandlerAhead'
  BY Zenon, <1>1, <1>2 DEF EndInv, HandlerAhead, InExit
<1>6. NothingLeft'
  BY Zenon DEF EndInv, NothingLeft
<1>7. QED
  BY Zenon, <1>3, <1>4, <1>5, <1>6 DEF EndInv

(* Logging a record: late in the last round or after the handler, harmless *)
(* otherwise.                                                              *)
LEMMA IncrementEndInv ==
  ASSUME TypeInv, EndInv, NEW t \in Tasks, NEW r \in Recs,
         llvm_increment_path_count(t, r)
  PROVE  EndInv'
<1>0. /\ TypeOK /\ proc \in [Tasks -> Procs] /\ handlers \in [Procs -> Seq({"app", "hack"})]
      /\ record_buffer \in [Tasks -> Addr \cup {NULL}]
  BY Zenon DEF TypeInv, TypeOK
<1>1. PICK a \in Addr : ensure_thread_init(t, a)
  BY Zenon DEF llvm_increment_path_count, BufferFull
<1>2. /\ UNCHANGED <<phase, proc, round>>
      /\ phase[t] \in {"run", "tsd_pre", "tsd_post", "handler"}
      /\ late' = IF PastLastFlush(t) THEN late \cup {t} ELSE late
  BY Zenon DEF llvm_increment_path_count, BufferFull, CanLog, taskVars
<1>3. \A u \in Tasks \ {t} : record_buffer'[u] = record_buffer[u]
  BY Zenon, <1>0, <1>1 DEF ensure_thread_init
<1>4. \A p \in Procs : HackGone(p)' => HackGone(p)
  <2> SUFFICES ASSUME NEW p \in Procs, HackGone(p)' PROVE HackGone(p)
    BY Zenon
  <2>1. CASE UNCHANGED initVars
    BY Zenon, <2>1 DEF HackGone, initVars
  <2>2. CASE init_process(proc[t]) /\ p = proc[t]
    <3>1. CASE p \in init_process_once
      BY Zenon, <2>2, <3>1 DEF init_process, HackGone
    <3>2. CASE p \notin init_process_once
      <4>1. handlers'[p] = Append(handlers[p], "hack") /\ handlers[p] \in Seq({"app", "hack"})
        BY Zenon, <1>0, <2>2, <3>2 DEF init_process
      <4>2. /\ Len(handlers[p]) + 1 \in DOMAIN Append(handlers[p], "hack")
            /\ Append(handlers[p], "hack")[Len(handlers[p]) + 1] = "hack"
        BY <4>1
      <4>3. QED
        BY Zenon, <4>1, <4>2 DEF HackGone
    <3>3. QED
      BY Zenon, <3>1, <3>2
  <2>3. CASE init_process(proc[t]) /\ p # proc[t]
    BY Zenon, <1>0, <2>3 DEF init_process, HackGone
  <2>4. QED
    BY Zenon, <1>1, <2>1, <2>2, <2>3 DEF ensure_thread_init
<1>5. OneExits'
  BY Zenon, <1>2 DEF EndInv, OneExits, InExit
<1>6. LastRound'
  BY Zenon, <1>2, <1>3 DEF EndInv, LastRound, PastLastFlush
<1>7. HandlerAhead'
  BY Zenon, <1>0, <1>2, <1>3, <1>4 DEF EndInv, HandlerAhead, InExit, PastLastFlush
<1>8. NothingLeft'
  BY Zenon, <1>2, <1>3 DEF EndInv, NothingLeft
<1>9. QED
  BY Zenon, <1>5, <1>6, <1>7, <1>8 DEF EndInv

(* The destructor takes the buffer.                                        *)
LEMMA DestructorEndInv ==
  ASSUME TypeInv, BufferInv, EndInv, NEW t \in Tasks, RunDestructor(t)
  PROVE  EndInv'
<1>0. /\ phase \in [Tasks -> Phases] /\ record_buffer \in [Tasks -> Addr \cup {NULL}]
      /\ proc \in [Tasks -> Procs] /\ specific[t] = record_buffer[t]
  BY Zenon DEF TypeInv, TypeOK, BufferInv, BufferOwnership
<1>1. /\ phase' = [phase EXCEPT ![t] = "tsd_post"]
      /\ UNCHANGED <<proc, round, handlers, init_process_once, late>>
  BY Zenon DEF RunDestructor, initVars
<1>2. record_buffer'[t] = NULL /\ \A u \in Tasks \ {t} : record_buffer'[u] = record_buffer[u]
  BY Zenon, <1>0 DEF RunDestructor, finish_buffer, drop_buffer, bufVars
<1>3. \A p \in Procs : HackGone(p)' = HackGone(p)
  BY Zenon, <1>1 DEF HackGone
<1>4. OneExits'
  BY Zenon, <1>0, <1>1 DEF EndInv, OneExits, InExit
<1>5. LastRound'
  BY Zenon, <1>0, <1>1, <1>2 DEF EndInv, LastRound
<1>6. HandlerAhead'
  BY Zenon, <1>0, <1>1, <1>2, <1>3 DEF EndInv, HandlerAhead, InExit
<1>7. NothingLeft'
  BY Zenon, <1>0, <1>1, <1>2 DEF EndInv, NothingLeft
<1>8. QED
  BY Zenon, <1>4, <1>5, <1>6, <1>7 DEF EndInv

(* A thread on its way out without the handlers changing: the end of a     *)
(* thread, the start of exit() and the return of a handler.                *)
LEMMA LeaveEndInv ==
  ASSUME TypeInv, BufferInv, MainInv, EndInv, NEW t \in Tasks,
         EndThread(t) \/ Exit(t) \/ HandlerReturn(t)
  PROVE  EndInv'
<1>0. /\ phase \in [Tasks -> Phases] /\ proc \in [Tasks -> Procs]
      /\ specific[t] = record_buffer[t]
  BY Zenon DEF TypeInv, TypeOK, BufferInv, BufferOwnership
<1>1. /\ UNCHANGED <<proc, round, handlers, init_process_once, record_buffer>>
      /\ late \subseteq late'
      /\ phase' \in {[phase EXCEPT ![t] = "exiting"], [phase EXCEPT ![t] = "finished"]}
  BY Zenon DEF EndThread, Exit, HandlerReturn, initVars, bufVars
<1>2. \A p \in Procs : HackGone(p)' = HackGone(p)
  BY Zenon, <1>1 DEF HackGone
<1>3. \A u \in Tasks \ {t} : phase'[u] = phase[u]
  BY Zenon, <1>0, <1>1
<1>4. phase'[t] = "exiting" =>
        \A u \in Tasks \ {t} : proc[u] = proc[t] => ~InExit(u)
  <2>1. CASE EndThread(t)
    BY Zenon, <1>0, <2>1 DEF EndThread, LiveIn, InProc, Live, InExit
  <2>2. CASE Exit(t)
    BY Zenon, <2>2 DEF Exit, InProc, InExit
  <2>3. CASE HandlerReturn(t)
    BY Zenon, <2>3 DEF HandlerReturn, EndInv, OneExits, InExit
  <2>4. QED
    BY Zenon, <2>1, <2>2, <2>3
<1>5. OneExits'
  <2>1. \A u \in Tasks \ {t} : InExit(u)' <=> InExit(u)
    BY Zenon, <1>3 DEF InExit
  <2>2. InExit(t)' => phase'[t] = "exiting"
    BY Zenon, <1>0, <1>1 DEF InExit
  <2>3. \A u \in Tasks \ {t} : InExit(t)' /\ InExit(u)' => proc'[t] # proc'[u]
    BY Zenon, <1>1, <1>4, <2>1, <2>2
  <2>4. \A u, w \in Tasks \ {t} : InExit(u)' /\ InExit(w)' /\ proc'[u] = proc'[w] => u = w
    BY Zenon, <1>1, <2>1 DEF EndInv, OneExits
  <2>5. QED
    BY Zenon, <2>3, <2>4 DEF OneExits
<1>6. LastRound'
  BY Zenon, <1>0, <1>1, <1>3 DEF EndInv, LastRound
<1>7. t \notin late' /\ record_buffer[t] # NULL =>
        phase'[t] = "exiting" /\ ~HackGone(proc[t])
  <2>1. CASE EndThread(t)
    BY Zenon, <1>0, <2>1 DEF EndThread, EndInv, LastRound
  <2>2. CASE Exit(t)
    <3>1. CASE proc[t] = MainProc
      <4>1. ~Exiting
        BY Zenon, <2>2, <3>1 DEF Exit, Exiting, InExit, InProc
      <4>2. MainProc \in init_process_once => ~NoHack
        BY Zenon, <2>2, <3>1, <4>1 DEF Exit, MainInv, BeforeExit, Ahead
      <4>3. phase'[t] = "exiting"
        BY Zenon, <1>0, <2>2 DEF Exit
      <4>4. QED
        BY Zenon, <3>1, <4>2, <4>3 DEF HackGone, NoHack
    <3>2. CASE proc[t] # MainProc
      BY Zenon, <1>0, <2>2, <3>2 DEF Exit
    <3>3. QED
      BY Zenon, <3>1, <3>2
  <2>3. CASE HandlerReturn(t)
    BY Zenon, <1>0, <2>3 DEF HandlerReturn, EndInv, HandlerAhead, InExit
  <2>4. QED
    BY Zenon, <2>1, <2>2, <2>3
<1>8. HandlerAhead'
  BY Zenon, <1>0, <1>1, <1>2, <1>3, <1>7 DEF EndInv, HandlerAhead, InExit
<1>9. NothingLeft'
  BY Zenon, <1>0, <1>1, <1>3, <1>7 DEF EndInv, NothingLeft
<1>10. QED
  BY Zenon, <1>5, <1>6, <1>8, <1>9 DEF EndInv

(* exit() pops a handler: the runtime's takes the buffer of the one thread *)
(* that is in exit(), any other leaves the runtime's where it is.          *)
LEMMA RunHandlerEndInv ==
  ASSUME TypeInv, BufferInv, EndInv, NEW t \in Tasks, RunHandler(t)
  PROVE  EndInv'
<1> DEFINE n == Len(handlers[proc[t]])
<1>0. /\ phase \in [Tasks -> Phases] /\ proc \in [Tasks -> Procs]
      /\ handlers \in [Procs -> Seq({"app", "hack"})]
      /\ record_buffer \in [Tasks -> Addr \cup {NULL}]
  BY Zenon DEF TypeInv, TypeOK
<1>1. /\ UNCHANGED <<proc, round, init_process_once, late>>
      /\ phase[t] = "exiting" /\ n > 0
      /\ handlers' = [handlers EXCEPT ![proc[t]] = SubSeq(@, 1, n - 1)]
      /\ phase' \in {phase, [phase EXCEPT ![t] = "handler"]}
  BY Zenon DEF RunHandler
<1>2. \A u \in Tasks \ {t} : phase'[u] = phase[u] /\ record_buffer'[u] = record_buffer[u]
  BY <1>0, <1>1 DEF RunHandler, finish_main_thread_buffer_hack, finish_buffer,
                    drop_buffer, bufVars
<1>3. /\ record_buffer'[t] \in {NULL, record_buffer[t]}
      /\ handlers[proc[t]][n] = "hack" => record_buffer'[t] = NULL
  BY Zenon, <1>0
     DEF RunHandler, finish_main_thread_buffer_hack, finish_buffer, drop_buffer, bufVars
<1>4. handlers[proc[t]][n] # "hack" => (HackGone(proc[t])' => HackGone(proc[t]))
  <2>1. handlers'[proc[t]] = SubSeq(handlers[proc[t]], 1, n - 1)
    BY Zenon, <1>0, <1>1
  <2>2. proc[t] \in Procs /\ proc'[t] = proc[t]
    BY Zenon, <1>0, <1>1
  <2>3. QED
    BY Zenon, <1>0, <1>1, <2>1, <2>2, PopKeepsHack DEF HackGone
<1>5. \A p \in Procs \ {proc[t]} : HackGone(p)' = HackGone(p)
  BY Zenon, <1>0, <1>1 DEF HackGone
<1>6. \A u \in Tasks \ {t} : InExit(u)' => proc[u] # proc[t]
  BY Zenon, <1>1, <1>2 DEF EndInv, OneExits, InExit
<1>7. OneExits'
  BY Zenon, <1>0, <1>1, <1>2, <1>6 DEF EndInv, OneExits, InExit
<1>8. LastRound'
  BY Zenon, <1>0, <1>1, <1>2 DEF EndInv, LastRound
<1>9. HandlerAhead'
  <2>1. ASSUME NEW u \in Tasks \ {t}, u \notin late', InExit(u)', record_buffer'[u] # NULL
        PROVE  ~HackGone(proc[u])'
    BY Zenon, <1>0, <1>1, <1>2, <1>5, <1>6, <2>1 DEF EndInv, HandlerAhead, InExit
  <2>2. ASSUME t \notin late', record_buffer'[t] # NULL
        PROVE  ~HackGone(proc[t])'
    <3>1. ~HackGone(proc[t]) /\ handlers[proc[t]][n] # "hack"
      BY Zenon, <1>1, <1>3, <2>2 DEF EndInv, HandlerAhead, InExit
    <3>2. QED
      BY Zenon, <1>4, <3>1
  <2>3. QED
    BY Zenon, <2>1, <2>2 DEF HandlerAhead
<1>10. NothingLeft'
  BY Zenon, <1>0, <1>1, <1>2 DEF EndInv, NothingLeft
<1>11. QED
  BY Zenon, <1>7, <1>8, <1>9, <1>10 DEF EndInv

(* The end of the process: the stack is empty, so a buffer would have made *)
(* the thread late.                                                        *)
LEMMA ExitGroupEndInv ==
  ASSUME TypeInv, BufferInv, EndInv, NEW t \in Tasks, ExitGroup(t)
  PROVE  EndInv'
<1>0. /\ phase \in [Tasks -> Phases] /\ proc \in [Tasks -> Procs]
      /\ handlers \in [Procs -> Seq({"app", "hack"})]
  BY Zenon DEF TypeInv, TypeOK
<1>1. /\ UNCHANGED <<proc, round, handlers, init_process_once, record_buffer, late>>
      /\ phase[t] = "exiting" /\ handlers[proc[t]] = <<>>
      /\ phase'[t] = "exited"
      /\ \A u \in Tasks \ {t} : phase'[u] \in {phase[u], "killed"}
  BY Zenon DEF ExitGroup, initVars, bufVars
<1>2. \A p \in Procs : HackGone(p)' = HackGone(p)
  BY Zenon, <1>1 DEF HackGone
<1>3. record_buffer[t] # NULL => t \in late
  <2>1. record_buffer[t] # NULL => HackGone(proc[t])
    BY <1>1 DEF HackGone, BufferInv, BufferAfterOnce
  <2>2. QED
    BY Zenon, <1>1, <2>1 DEF EndInv, HandlerAhead, InExit
<1>4. OneExits'
  BY Zenon, <1>1 DEF EndInv, OneExits, InExit
<1>5. LastRound'
  BY Zenon, <1>1 DEF EndInv, LastRound
<1>6. HandlerAhead'
  BY Zenon, <1>0, <1>1, <1>2 DEF EndInv, HandlerAhead, InExit
<1>7. NothingLeft'
  BY Zenon, <1>1, <1>3 DEF EndInv, NothingLeft
<1>8. QED
  BY Zenon, <1>4, <1>5, <1>6, <1>7 DEF EndInv

(* The application registers a handler, or a process is forked.            *)
LEMMA RegisterEndInv ==
  ASSUME TypeInv, BufferInv, EndInv, NEW t \in Tasks,
         AtExit(t) \/ \E u \in Tasks, q \in Procs : Fork(t, u, q)
  PROVE  EndInv'
<1>0. /\ phase \in [Tasks -> Phases] /\ proc \in [Tasks -> Procs]
      /\ handlers \in [Procs -> Seq({"app", "hack"})]
  BY Zenon DEF TypeInv, TypeOK
<1>1. CASE AtExit(t)
  <2>1. /\ UNCHANGED <<phase, proc, round, init_process_once, record_buffer, late>>
        /\ handlers' = [handlers EXCEPT ![proc[t]] = Append(@, "app")]
    BY Zenon, <1>1 DEF AtExit, taskVars, bufVars
  <2>2. \A p \in Procs : HackGone(p)' => HackGone(p)
    <3> SUFFICES ASSUME NEW p \in Procs, HackGone(p)' PROVE HackGone(p)
      BY Zenon
    <3>1. CASE p = proc[t]
      BY Zenon, <1>0, <2>1, <3>1, AppendKeepsHack
    <3>2. CASE p # proc[t]
      BY Zenon, <1>0, <2>1, <3>2 DEF HackGone
    <3>3. QED
      BY Zenon, <3>1, <3>2
  <2>3. OneExits' /\ LastRound' /\ NothingLeft'
    BY Zenon, <2>1 DEF EndInv, OneExits, LastRound, NothingLeft, InExit
  <2>4. HandlerAhead'
    BY Zenon, <1>0, <2>1, <2>2 DEF EndInv, HandlerAhead, InExit
  <2>5. QED
    BY Zenon, <2>3, <2>4 DEF EndInv
<1>2. ASSUME NEW u \in Tasks, NEW q \in Procs, Fork(t, u, q)
      PROVE  EndInv'
  <2>1. /\ UNCHANGED <<round, late, record_buffer>>
        /\ phase[u] = "unborn" /\ InProc(q) = {}
        /\ phase' = [phase EXCEPT ![u] = "run"]
        /\ proc' = [proc EXCEPT ![u] = q]
        /\ handlers' = [handlers EXCEPT ![q] = handlers[proc[t]]]
        /\ init_process_once' \in {init_process_once, init_process_once \cup {q}}
    BY Zenon, <1>2, ForkBufferInv DEF Fork
  <2>2. phase'[u] = "run" /\ \A x \in Tasks \ {u} : phase'[x] = phase[x] /\ proc'[x] = proc[x]
    BY Zenon, <1>0, <2>1
  <2>3. \A p \in Procs \ {q} : HackGone(p)' = HackGone(p)
    BY Zenon, <1>0, <2>1 DEF HackGone
  <2>4. \A x \in Tasks : InExit(x)' => x # u /\ proc[x] # q
    BY Zenon, <2>1, <2>2 DEF InExit, InProc
  <2>5. OneExits' /\ LastRound' /\ NothingLeft'
    BY <2>1, <2>2 DEF EndInv, OneExits, LastRound, NothingLeft, InExit
  <2>6. HandlerAhead'
    BY Zenon, <1>0, <2>1, <2>2, <2>3, <2>4 DEF EndInv, HandlerAhead, InExit
  <2>7. QED
    BY Zenon, <2>5, <2>6 DEF EndInv
<1>3. QED
  BY Zenon, <1>1, <1>2

(* Every step preserves the invariant.                                     *)
LEMMA NextEndInv == TypeInv /\ BufferInv /\ MainInv /\ EndInv /\ [Next]_vars => EndInv'
<1> SUFFICES ASSUME TypeInv, BufferInv, MainInv, EndInv, [Next]_vars PROVE EndInv'
  BY Zenon
<1>0. phase \in [Tasks -> Phases] /\ proc \in [Tasks -> Procs] /\ round \in [Tasks -> Nat]
  BY ConstantsOK DEF TypeInv, TypeOK
<1>1. ASSUME NEW t \in Tasks, NEW r \in Recs, llvm_increment_path_count(t, r)
      PROVE  EndInv'
  BY Zenon, <1>1, IncrementEndInv
<1>2. ASSUME NEW t \in Tasks, FlushFull(t) PROVE EndInv'
  BY Zenon, <1>2, QuietEndInv DEF FlushFull, taskVars, initVars
<1>3. ASSUME NEW t \in Tasks, NEW u \in Tasks, CreateThread(t, u) PROVE EndInv'
  BY Zenon, <1>0, <1>3, QuietEndInv DEF CreateThread, initVars, bufVars
<1>4. ASSUME NEW t \in Tasks,
             AtExit(t) \/ \E u \in Tasks, q \in Procs : Fork(t, u, q)
      PROVE  EndInv'
  BY Zenon, <1>4, RegisterEndInv
<1>5. ASSUME NEW t \in Tasks, ThreadReturn(t) \/ NextRound(t) PROVE EndInv'
  BY Zenon, <1>0, <1>5, QuietEndInv DEF ThreadReturn, NextRound, initVars, bufVars
<1>6. ASSUME NEW t \in Tasks, RunDestructor(t) PROVE EndInv'
  BY Zenon, <1>6, DestructorEndInv
<1>7. ASSUME NEW t \in Tasks, EndThread(t) \/ Exit(t) \/ HandlerReturn(t) PROVE EndInv'
  BY Zenon, <1>7, LeaveEndInv
<1>8. ASSUME NEW t \in Tasks, RunHandler(t) PROVE EndInv'
  BY Zenon, <1>8, RunHandlerEndInv
<1>9. ASSUME NEW t \in Tasks, ExitGroup(t) PROVE EndInv'
  BY Zenon, <1>9, ExitGroupEndInv
<1>10. ASSUME NEW p \in Procs, Kill(p) PROVE EndInv'
  BY Zenon, <1>0, <1>10, QuietEndInv DEF Kill, initVars, bufVars
<1>11. CASE UNCHANGED vars
  BY Zenon, <1>11, QuietEndInv DEF vars, taskVars, initVars, bufVars
<1>12. QED
  BY Zenon, <1>1, <1>2, <1>3, <1>4, <1>5, <1>6, <1>7, <1>8, <1>9, <1>10, <1>11
     DEF Next, TaskStep

(* The invariant implies the property.                                     *)
LEMMA InvOrderly == TypeInv /\ BufferInv /\ EndInv => OrderlyEndSavesAll
<1> SUFFICES ASSUME TypeInv, BufferInv, EndInv, NEW t \in Tasks,
                    phase[t] \in {"finished", "exited"}, t \notin late
             PROVE  saved[t] = retired[t]
  BY Zenon DEF OrderlyEndSavesAll
<1>1. Unsaved(t) = <<>>
  BY Zenon DEF EndInv, NothingLeft, Unsaved
<1>2. retired[t] = saved[t] \o <<>> /\ saved[t] \in Seq(Recs)
  BY Zenon, <1>1 DEF BufferInv, Conservation, TypeInv, TypeOK
<1>3. QED
  BY Zenon, <1>2, ConcatEmptySeq

(* A thread that ended by itself or whose exit() ran to the end has its    *)
(* whole history in the trace, unless it logged after the last destructor  *)
(* round or after the runtime's exit handler.                              *)
THEOREM OrderlyEndSaves == Spec => []OrderlyEndSavesAll
  BY InvOrderly, InitEndInv, NextEndInv, InitMainInv, NextMainInv, BufferInvariant,
     PTL DEF Spec
------------------------------------------------------------------------------
(* Which pages a process loses.                                            *)

(* It loses none if every page it has now it had before or is in use, and  *)
(* every buffer that was in use still is, or is unmapped, or was late.     *)
LEMMA KeptPages ==
  ASSUME NEW p \in Procs, LiveIn(p) # {},
         \A a \in mapped'[p] : a \in mapped[p] \/ \E x \in LiveIn(p)' : record_buffer'[x] = a,
         \A x \in LiveIn(p) : record_buffer[x] \in mapped'[p] =>
           x \in late \/ \E y \in LiveIn(p)' : record_buffer'[y] = record_buffer[x]
  PROVE  LosesLate(p)
<1>1. ASSUME NEW a \in Leaked(p)'
      PROVE  a \in Leaked(p) \cup {record_buffer[t] : t \in LiveIn(p) \cap late}
  <2>1. a \in mapped'[p] /\ \A x \in LiveIn(p)' : record_buffer'[x] # a
    BY Zenon, <1>1 DEF Leaked
  <2>2. a \in mapped[p]
    BY Zenon, <2>1
  <2>3. CASE \E x \in LiveIn(p) : record_buffer[x] = a
    BY Zenon, <2>1, <2>3
  <2>4. CASE \A x \in LiveIn(p) : record_buffer[x] # a
    BY Zenon, <2>2, <2>4 DEF Leaked
  <2>5. QED
    BY Zenon, <2>3, <2>4
<1>2. QED
  BY Zenon, <1>1 DEF LosesLate

(* A step that maps and unmaps nothing in p and ends none of its threads,  *)
(* except late ones and such as have no buffer, loses nothing else.        *)
LEMMA QuietLeak ==
  ASSUME NEW p \in Procs, record_buffer' = record_buffer, mapped'[p] = mapped[p],
         LiveIn(p) # {},
         \A x \in LiveIn(p) : record_buffer[x] = NULL \/ x \in late \/ x \in LiveIn(p)',
         NULL \notin mapped[p]
  PROVE  LosesLate(p)
  BY Zenon, KeptPages

(* Who is live in a process, before and after a step.                      *)
LEMMA LiveMembers ==
  ASSUME NEW p \in Procs
  PROVE  /\ \A x : x \in LiveIn(p) <=> x \in Tasks /\ phase[x] \in Live /\ proc[x] = p
         /\ \A x : x \in LiveIn(p)' <=> x \in Tasks /\ phase'[x] \in Live /\ proc'[x] = p
  BY Zenon DEF LiveIn, InProc, Live

(* Logging a record maps one page, and makes it the thread's buffer.       *)
LEMMA IncrementLeak ==
  ASSUME TypeInv, TypeInv', NEW t \in Tasks, NEW r \in Recs,
         llvm_increment_path_count(t, r), NEW p \in Procs, LiveIn(p)' # {}
  PROVE  LosesLate(p)
<1>0. /\ TypeOK /\ UNCHANGED <<phase, proc>> /\ phase[t] \in Live
      /\ NULL \notin mapped[p] /\ NULL \notin mapped'[p]
      /\ record_buffer \in [Tasks -> Addr \cup {NULL}]
      /\ mapped \in [Procs -> SUBSET Addr] /\ proc[t] \in Procs
  BY Zenon, ConstantsOK
     DEF TypeInv, TypeOK, llvm_increment_path_count, BufferFull, taskVars, CanLog, Live
<1>1. LiveIn(p) # {} /\ \A x : x \in LiveIn(p)' <=> x \in LiveIn(p)
  BY Zenon, <1>0, LiveMembers
<1>2. PICK a \in Addr, old \in Seq(Recs) : StoredAt(t, r, a, old)
  BY Zenon, <1>0, IncrementStores
<1>3. /\ record_buffer' = [record_buffer EXCEPT ![t] = a]
      /\ mapped' = IF record_buffer[t] # NULL THEN mapped
                   ELSE [mapped EXCEPT ![proc[t]] = @ \cup {a}]
      /\ record_buffer[t] # NULL => a = record_buffer[t]
  BY Zenon, <1>2 DEF StoredAt, Candidates
<1>4. record_buffer'[t] = a /\ \A x \in Tasks \ {t} : record_buffer'[x] = record_buffer[x]
  BY Zenon, <1>0, <1>3
<1>5. \A b \in mapped'[p] : b \in mapped[p] \/ (b = a /\ proc[t] = p)
  BY Zenon, <1>0, <1>3
<1>6. \A b \in mapped'[p] : b \in mapped[p] \/ \E x \in LiveIn(p)' : record_buffer'[x] = b
  BY Zenon, <1>0, <1>1, <1>4, <1>5, LiveMembers
<1>7. \A x \in LiveIn(p) : record_buffer[x] \in mapped'[p] =>
        \E y \in LiveIn(p)' : record_buffer'[y] = record_buffer[x]
  <2> SUFFICES ASSUME NEW x \in LiveIn(p), record_buffer[x] \in mapped'[p]
               PROVE  record_buffer'[x] = record_buffer[x]
    BY Zenon, <1>1
  <2>1. x \in Tasks /\ record_buffer[x] # NULL
    BY Zenon, <1>0, LiveMembers
  <2>2. QED
    BY Zenon, <1>3, <1>4, <2>1
<1>8. QED
  BY Zenon, <1>1, <1>6, <1>7, KeptPages

(* Finishing a buffer unmaps it.                                           *)
LEMMA FinishLeak ==
  ASSUME TypeInv, NEW t \in Tasks, drop_buffer(t), UNCHANGED proc,
         NEW p \in Procs, \A x : x \in LiveIn(p)' <=> x \in LiveIn(p), LiveIn(p)' # {},
         phase[t] \in Live
  PROVE  LosesLate(p)
<1>0. /\ record_buffer \in [Tasks -> Addr \cup {NULL}]
      /\ mapped \in [Procs -> SUBSET Addr] /\ proc[t] \in Procs
  BY Zenon DEF TypeInv, TypeOK
<1>1. /\ \A x \in Tasks \ {t} : record_buffer'[x] = record_buffer[x]
      /\ \A b \in mapped'[p] : b \in mapped[p]
      /\ proc[t] = p => record_buffer[t] \notin mapped'[p]
  BY Zenon, <1>0 DEF drop_buffer
<1>2. \A x \in LiveIn(p) : x = t => proc[t] = p
  BY Zenon, LiveMembers
<1>3. \A x \in LiveIn(p) : record_buffer[x] \in mapped'[p] =>
        \E y \in LiveIn(p)' : record_buffer'[y] = record_buffer[x]
  BY Zenon, <1>1, <1>2, LiveMembers
<1>4. QED
  BY Zenon, <1>1, <1>3, KeptPages

(* fork: the pages of the child are those of the parent without the buffer *)
(* of the thread that forked.                                              *)
LEMMA ForkLeak ==
  ASSUME TypeInv, BufferInv, NEW t \in Tasks, NEW u \in Tasks, NEW q \in Procs,
         Fork(t, u, q), NEW p \in Procs, LiveIn(p)' # {}
  PROVE  LosesLate(p) \/ Inherits(p)
<1>0. /\ phase \in [Tasks -> Phases] /\ proc \in [Tasks -> Procs]
      /\ mapped \in [Procs -> SUBSET Addr] /\ NULL \notin mapped[p]
      /\ record_buffer' = record_buffer /\ proc[t] \in Procs
      /\ NULL \notin mapped[proc[t]]
  BY Zenon, ForkBufferInv, ConstantsOK DEF TypeInv, TypeOK
<1>1. /\ phase[t] = "run" /\ phase[u] = "unborn" /\ InProc(q) = {} /\ ForkChild(t, u, q)
      /\ phase' = [phase EXCEPT ![u] = "run"] /\ proc' = [proc EXCEPT ![u] = q]
  BY Zenon DEF Fork
<1>2. /\ phase'[u] = "run" /\ proc'[u] = q
      /\ \A x \in Tasks \ {u} : phase'[x] = phase[x] /\ proc'[x] = proc[x]
  BY Zenon, <1>0, <1>1
<1>3. CASE p # q
  <2>1. ASSUME NEW x PROVE x \in LiveIn(p)' <=> x \in LiveIn(p)
    <3>1. "unborn" \notin Live
      BY Zenon DEF Live
    <3>2. CASE x = u
      <4>1. phase[u] \notin Live /\ proc'[u] # p
        BY Zenon, <1>1, <1>2, <1>3, <3>1
      <4>2. u \notin LiveIn(p) /\ u \notin LiveIn(p)'
        BY Zenon, <4>1, LiveMembers
      <4>3. QED
        BY Zenon, <3>2, <4>2
    <3>3. CASE x # u
      BY Zenon, <1>2, <3>3, LiveMembers
    <3>4. QED
      BY Zenon, <3>2, <3>3
  <2>2. mapped'[p] = mapped[p]
    BY Zenon, <1>0, <1>1, <1>3 DEF ForkChild
  <2>3. QED
    BY Zenon, <1>0, <2>1, <2>2, QuietLeak
<1>4. CASE p = q
  <2>1. LiveIn(p) = {}
    BY Zenon, <1>1, <1>4 DEF LiveIn
  <2>2. \A a \in mapped'[p] : a \in mapped[proc[t]] /\ a # record_buffer[t]
    <3>1. CASE proc[t] \in init_process_once
      <4>1. mapped'[p] = mapped[proc[t]] \ {record_buffer[t]}
        BY Zenon, <1>0, <1>1, <1>4, <3>1 DEF ForkChild
      <4>2. QED
        BY Zenon, <4>1
    <3>2. CASE proc[t] \notin init_process_once
      <4>1. mapped'[p] = mapped[proc[t]]
        BY Zenon, <1>0, <1>1, <1>4, <3>2 DEF ForkChild
      <4>2. record_buffer[t] = NULL
        BY Zenon, <3>2 DEF BufferInv, BufferAfterOnce
      <4>3. QED
        BY Zenon, <1>0, <4>1, <4>2
    <3>3. QED
      BY Zenon, <3>1, <3>2
  <2>3. ASSUME NEW a \in Leaked(p)'
        PROVE  a \in Leaked(proc[t]) \cup {record_buffer[x] : x \in LiveIn(proc[t]) \ {t}}
    <3>1. a \in mapped[proc[t]] /\ a # record_buffer[t]
      BY Zenon, <2>2, <2>3 DEF Leaked
    <3>2. CASE \E x \in LiveIn(proc[t]) : record_buffer[x] = a
      BY Zenon, <3>1, <3>2
    <3>3. CASE \A x \in LiveIn(proc[t]) : record_buffer[x] # a
      BY Zenon, <3>1, <3>3 DEF Leaked
    <3>4. QED
      BY Zenon, <3>2, <3>3
  <2>4. QED
    BY Zenon, <1>1, <2>1, <2>3 DEF Inherits
<1>5. QED
  BY Zenon, <1>3, <1>4

(* Every step loses pages in the two ways only.                            *)
LEMMA NextLeak ==
  ASSUME TypeInv, TypeInv', BufferInv, EndInv, Next
  PROVE  LeakStep
<1> SUFFICES ASSUME NEW p \in Procs, LiveIn(p)' # {} PROVE LosesLate(p) \/ Inherits(p)
  BY Zenon DEF LeakStep
<1>0. /\ phase \in [Tasks -> Phases] /\ proc \in [Tasks -> Procs] /\ NULL \notin mapped[p]
      /\ \A t \in Tasks : specific[t] = record_buffer[t]
      /\ "unborn" \notin Live
  BY Zenon, ConstantsOK DEF TypeInv, TypeOK, BufferInv, BufferOwnership, Live
<1>1. ASSUME UNCHANGED <<phase, proc>> \/ \E t \in Tasks, ph \in Live :
                phase[t] \in Live /\ phase' = [phase EXCEPT ![t] = ph] /\ UNCHANGED proc
      PROVE  LiveIn(p) # {} /\ \A x : x \in LiveIn(p)' <=> x \in LiveIn(p)
  <2>1. \A x \in Tasks : (phase'[x] \in Live <=> phase[x] \in Live) /\ proc'[x] = proc[x]
    BY Zenon, <1>0, <1>1
  <2>2. \A x : x \in LiveIn(p)' <=> x \in LiveIn(p)
    BY Zenon, <2>1, LiveMembers
  <2>3. QED
    BY Zenon, <2>2
<1>2. ASSUME NEW t \in Tasks, NEW r \in Recs, llvm_increment_path_count(t, r)
      PROVE  LosesLate(p)
  BY Zenon, <1>2, IncrementLeak
<1>3. ASSUME NEW t \in Tasks, NEW u \in Tasks, CreateThread(t, u) PROVE LosesLate(p)
  <2>1. /\ phase[t] = "run" /\ phase[u] = "unborn" /\ UNCHANGED <<record_buffer, mapped>>
        /\ phase' = [phase EXCEPT ![u] = "run"] /\ proc' = [proc EXCEPT ![u] = proc[t]]
    BY Zenon, <1>3 DEF CreateThread, bufVars
  <2>2. /\ proc'[u] = proc[t]
        /\ \A x \in Tasks \ {u} : phase'[x] = phase[x] /\ proc'[x] = proc[x]
    BY Zenon, <1>0, <2>1
  <2>3. ASSUME NEW x \in LiveIn(p) PROVE x \in LiveIn(p)'
    <3>1. x \in Tasks /\ phase[x] \in Live /\ proc[x] = p
      BY Zenon, LiveMembers
    <3>2. x # u
      BY Zenon, <1>0, <2>1, <3>1
    <3>3. phase'[x] = phase[x] /\ proc'[x] = proc[x]
      BY Zenon, <2>2, <3>1, <3>2
    <3>4. QED
      BY Zenon, <3>1, <3>3, LiveMembers
  <2>4. phase[t] \in Live
    BY Zenon, <2>1 DEF Live
  <2>5. LiveIn(p) # {}
    <3>1. PICK x : x \in LiveIn(p)'
      BY Zenon
    <3>2. x \in Tasks /\ phase'[x] \in Live /\ proc'[x] = p
      BY Zenon, <3>1, LiveMembers
    <3>3. t \in LiveIn(p) \/ x \in LiveIn(p)
      BY Zenon, <2>2, <2>4, <3>2, LiveMembers
    <3>4. QED
      BY Zenon, <3>3
  <2>6. QED
    BY Zenon, <1>0, <2>1, <2>3, <2>5, QuietLeak
<1>4. ASSUME NEW t \in Tasks, NEW u \in Tasks, NEW q \in Procs, Fork(t, u, q)
      PROVE  LosesLate(p) \/ Inherits(p)
  BY Zenon, <1>4, ForkLeak
<1>5. ASSUME NEW t \in Tasks, FlushFull(t) \/ AtExit(t) \/ ThreadReturn(t) \/ NextRound(t)
                              \/ Exit(t) \/ HandlerReturn(t)
      PROVE  LosesLate(p)
  <2>1. UNCHANGED <<record_buffer, mapped>>
    BY Zenon, <1>5
       DEF FlushFull, AtExit, ThreadReturn, NextRound, Exit, HandlerReturn, bufVars
  <2>2. UNCHANGED <<phase, proc>> \/ \E ph \in Live :
          phase[t] \in Live /\ phase' = [phase EXCEPT ![t] = ph] /\ UNCHANGED proc
    BY Zenon, <1>5
       DEF FlushFull, AtExit, ThreadReturn, NextRound, Exit, HandlerReturn, taskVars, Live
  <2>3. LiveIn(p) # {} /\ \A x \in LiveIn(p) : x \in LiveIn(p)'
    BY Zenon, <1>1, <2>2
  <2>4. QED
    BY Zenon, <1>0, <2>1, <2>3, QuietLeak
<1>6. ASSUME NEW t \in Tasks, RunDestructor(t) \/ RunHandler(t) PROVE LosesLate(p)
  <2>1. /\ phase[t] \in Live
        /\ UNCHANGED <<phase, proc>> \/ \E ph \in Live :
             phase[t] \in Live /\ phase' = [phase EXCEPT ![t] = ph] /\ UNCHANGED proc
    BY Zenon, <1>6 DEF RunDestructor, RunHandler, Live
  <2>2. LiveIn(p) # {} /\ \A x : x \in LiveIn(p)' <=> x \in LiveIn(p)
    BY Zenon, <1>1, <2>1
  <2>3. /\ UNCHANGED proc
        /\ drop_buffer(t) \/ UNCHANGED <<record_buffer, mapped>>
    BY Zenon, <1>6
       DEF RunDestructor, RunHandler, finish_main_thread_buffer_hack, finish_buffer, bufVars
  <2>4. QED
    BY Zenon, <1>0, <2>1, <2>2, <2>3, FinishLeak, QuietLeak
<1>7. ASSUME NEW t \in Tasks, EndThread(t) PROVE LosesLate(p)
  <2>1. /\ phase[t] = "tsd_post" /\ UNCHANGED <<proc, record_buffer, mapped>>
        /\ specific[t] = NULL \/ round[t] = DESTRUCTOR_ITERATIONS
        /\ \E ph \in {"exiting", "finished"} : phase' = [phase EXCEPT ![t] = ph]
    BY Zenon, <1>7 DEF EndThread, bufVars
  <2>2. record_buffer[t] = NULL \/ t \in late
    BY Zenon, <1>0, <2>1 DEF EndInv, LastRound
  <2>3. \A x \in Tasks \ {t} : phase'[x] = phase[x] /\ proc'[x] = proc[x]
    BY Zenon, <1>0, <2>1
  <2>4. \A x \in LiveIn(p) : record_buffer[x] = NULL \/ x \in late \/ x \in LiveIn(p)'
    BY Zenon, <2>2, <2>3, LiveMembers
  <2>5. phase[t] \in Live /\ proc' = proc
    BY Zenon, <2>1 DEF Live
  <2>6. \A x \in LiveIn(p)' : x \in LiveIn(p)
    BY Zenon, <2>3, <2>5, LiveMembers
  <2>7. QED
    BY Zenon, <1>0, <2>1, <2>4, <2>6, QuietLeak
<1>8. ASSUME NEW q \in Procs, UNCHANGED <<proc, record_buffer, mapped>>,
             \A x \in Tasks : IF x \in LiveIn(q) THEN phase'[x] \notin Live
                                                 ELSE phase'[x] = phase[x]
      PROVE  LosesLate(p)
  <2>1. p # q
    BY Zenon, <1>8, LiveMembers
  <2>2. \A x \in Tasks : proc[x] = p => phase'[x] = phase[x]
    BY Zenon, <1>8, <2>1, LiveMembers
  <2>3. \A x : x \in LiveIn(p)' <=> x \in LiveIn(p)
    BY Zenon, <1>8, <2>2, LiveMembers
  <2>4. QED
    BY Zenon, <1>0, <1>8, <2>3, QuietLeak
<1>9. ASSUME NEW t \in Tasks, ExitGroup(t) PROVE LosesLate(p)
  <2>1. /\ UNCHANGED <<proc, record_buffer, mapped>> /\ phase[t] = "exiting"
        /\ phase' = [u \in Tasks |-> IF u = t THEN "exited"
                                     ELSE IF u \in LiveIn(proc[t]) THEN "killed"
                                     ELSE phase[u]]
    BY Zenon, <1>9 DEF ExitGroup, bufVars
  <2>2. "exited" \notin Live /\ "killed" \notin Live /\ phase[t] \in Live /\ proc[t] \in Procs
    BY Zenon, <1>0, <2>1 DEF Live
  <2>3. t \in LiveIn(proc[t])
    BY Zenon, <2>2, LiveMembers
  <2>4. \A x \in Tasks : IF x \in LiveIn(proc[t]) THEN phase'[x] \notin Live
                                                  ELSE phase'[x] = phase[x]
    BY Zenon, <2>1, <2>2, <2>3
  <2>5. QED
    BY Zenon, <1>8, <2>1, <2>2, <2>4
<1>10. ASSUME NEW q \in Procs, Kill(q) PROVE LosesLate(p)
  <2>1. /\ UNCHANGED <<proc, record_buffer, mapped>> /\ "killed" \notin Live
        /\ phase' = [u \in Tasks |-> IF u \in LiveIn(q) THEN "killed" ELSE phase[u]]
    BY Zenon, <1>10 DEF Kill, bufVars, Live
  <2>2. \A x \in Tasks : IF x \in LiveIn(q) THEN phase'[x] \notin Live
                                            ELSE phase'[x] = phase[x]
    BY Zenon, <2>1
  <2>3. QED
    BY Zenon, <1>8, <2>1, <2>2
<1>11. QED
  BY Zenon, <1>2, <1>3, <1>4, <1>5, <1>6, <1>7, <1>9, <1>10 DEF Next, TaskStep

(* A process that goes on leaves mapped only the buffers of threads that   *)
(* logged past their last flush, and what it inherited from threads it     *)
(* does not have.                                                          *)
THEOREM NothingElseLeaks == Spec => NoOtherLeak
<1>1. TypeInv /\ TypeInv' /\ BufferInv /\ EndInv /\ [Next]_vars => [LeakStep]_vars
  BY Zenon, NextLeak
<1>2. QED
  BY <1>1, InitEndInv, NextEndInv, InitMainInv, NextMainInv, BufferInvariant, PTL
     DEF Spec, NoOtherLeak
==============================================================================
