---------------------------- MODULE PathLogFaults ----------------------------
(***************************************************************************)
(* PathLog where the system calls may fail and initialisation takes time.  *)
(*                                                                         *)
(* flush_buffer ignores what its write returns, so here `saved' is what    *)
(* was offered to write, and `trace' what the recorder got of it.  mmap    *)
(* may fail, and the store that follows in the same call faults, with the  *)
(* other threads running in between.  And init_process is a sequence of    *)
(* steps: while one thread is in it, the others run, and may fork.         *)
(***************************************************************************)
EXTENDS PathLog

VARIABLES
  trace,  \* trace[t]: the records of t the recorder has
  once    \* once[t]: where t is in pthread_once(init_process); "map_failed"
          \* when its record_buffer and its key are MAP_FAILED

faultVars == <<vars, trace, once>>

Steps == {"out", "begun", "registered", "returned", "map_failed"}

FaultInit ==
  /\ Init
  /\ trace = [t \in Tasks |-> <<>>]
  /\ once = [t \in Tasks |-> "out"]
------------------------------------------------------------------------------
(* Mutant: the write is tried once more when it was short.                 *)
sys_write_again(t) ==
  LET batch == SubSeq(saved'[t], Len(saved[t]) + 1, Len(saved'[t])) IN
  \E k \in 0 .. Len(batch) :
    trace' = [trace EXCEPT ![t] = @ \o SubSeq(batch, 1, k) \o batch]

(* The write of the batch t has just offered: the recorder gets all of it, *)
(* a part, or nothing (a program that does not run under the recorder has  *)
(* no such descriptor).  A record is taken whole or not at all.            *)
sys_write(t) ==
  LET batch == SubSeq(saved'[t], Len(saved[t]) + 1, Len(saved'[t])) IN
  \E k \in 0 .. Len(batch) :
    trace' = [trace EXCEPT ![t] = @ \o SubSeq(batch, 1, k)]

(* pthread_once: t is in init_process, or about to return from it.         *)
Initialising(p) ==
  {t \in LiveIn(p) : once[t] \in {"begun", "registered"}}

(* t logs its first record in a process that is not initialised.  The fork *)
(* handler and the key exist first, then the exit handler, and pthread_once*)
(* is done last.  The child of a fork in between starts over, because the  *)
(* C library knows that the thread that began is not there.                *)
BeginInit(t) ==
  /\ CanLog(t) /\ Len(retired[t]) < MaxRetired
  /\ record_buffer[t] = NULL /\ proc[t] \notin init_process_once
  /\ once[t] = "out" /\ Initialising(proc[t]) = {}
  /\ once' = [once EXCEPT ![t] = "begun"]
  /\ UNCHANGED <<vars, trace>>

(* Mutant: no exit handler.                                                *)
RegisterHandler_not(t) ==
  /\ once[t] = "begun" /\ phase[t] \in Live
  /\ once' = [once EXCEPT ![t] = "registered"]
  /\ UNCHANGED <<vars, trace>>

RegisterHandler(t) ==
  /\ once[t] = "begun" /\ phase[t] \in Live
  /\ handlers' = [handlers EXCEPT ![proc[t]] = Append(@, "hack")]
  /\ once' = [once EXCEPT ![t] = "registered"]
  /\ UNCHANGED <<taskVars, full, init_process_once, bufVars, retired, saved, late,
                 trace>>

ReturnFromOnce(t) ==
  /\ once[t] = "registered" /\ phase[t] \in Live
  /\ init_process_once' = init_process_once \cup {proc[t]}
  /\ once' = [once EXCEPT ![t] = "returned"]
  /\ UNCHANGED <<taskVars, full, handlers, bufVars, retired, saved, late, trace>>

(* mmap fails in ensure_thread_init, unnoticed: record_buffer and the key  *)
(* become MAP_FAILED, and t is on its way to buf->len++.                   *)
mmap_fails(t) ==
  /\ CanLog(t) /\ Len(retired[t]) < MaxRetired
  /\ record_buffer[t] = NULL /\ proc[t] \in init_process_once
  /\ once[t] \in {"out", "returned"}
  /\ once' = [once EXCEPT ![t] = "map_failed"]
  /\ UNCHANGED <<vars, trace>>

(* buf->len++ through MAP_FAILED: -1 plus the offset of len behind 32      *)
(* records is in the first page, which no process has mapped, and SIGSEGV  *)
(* ends the process.                                                       *)
StoreFaults(t) ==
  /\ once[t] = "map_failed" /\ phase[t] \in Live
  /\ Kill(proc[t])
  /\ UNCHANGED <<trace, once>>

(* The call goes on after pthread_once.                                    *)
ResumeCall(t) ==
  /\ once[t] = "returned"
  /\ \E r \in Recs : llvm_increment_path_count(t, r)
  /\ once' = [once EXCEPT ![t] = "out"]
  /\ UNCHANGED trace

(* Every other step of PathLog.  A first record waits for pthread_once.    *)
OtherStep(t) ==
  /\ once[t] = "out"
  /\ TaskStep(t)
  /\ retired'[t] = retired[t] \/ proc[t] \in init_process_once
  /\ IF saved'[t] = saved[t] THEN UNCHANGED trace ELSE sys_write(t)
  /\ UNCHANGED once

FaultNext ==
  \/ \E t \in Tasks : \/ BeginInit(t) \/ RegisterHandler(t) \/ ReturnFromOnce(t)
                      \/ ResumeCall(t) \/ mmap_fails(t) \/ StoreFaults(t)
                      \/ OtherStep(t)
  \/ \E p \in Procs : Kill(p) /\ UNCHANGED <<trace, once>>

FaultSpec == FaultInit /\ [][FaultNext]_faultVars
------------------------------------------------------------------------------
(* Whatever the writes do, the trace loses only what a failed write was    *)
(* given: nothing is saved twice, out of order, or under another thread,   *)
(* and no record is dropped before it was offered.                         *)
Lossy == INSTANCE LossyTrace WITH pending <- [t \in Tasks |-> Unsaved(t)]
LossyRefinement == Lossy!LossySpec
==============================================================================
