------------------------------- MODULE PathLog -------------------------------
(***************************************************************************)
(* The runtime that instrumented programs link against (path_logging.c).   *)
(* Each thread collects its path records in a buffer of its own.  The      *)
(* buffer reaches the trace when it is full, when its thread ends (a       *)
(* thread-specific-data destructor) and when its thread calls exit() (an   *)
(* atexit handler); the child of a fork drops the copy it inherits.        *)
(*                                                                         *)
(* A task is a thread of some process.  The C library's part (fork,        *)
(* thread end, exit, the order of destructors and handlers) is modelled    *)
(* from how path_logging.c relies on it.  What a thread does to its own    *)
(* buffer is one step, except that another thread may end the process      *)
(* between storing the last record of a buffer and flushing it.            *)
(***************************************************************************)
EXTENDS Naturals, Sequences

CONSTANTS
  Tasks, MainTask,         \* threads of all processes; the first thread
  Procs, MainProc,         \* processes; the first process
  Addr, NULL,              \* addresses mmap can return, and none
  Recs,                    \* path records, (fn, path) pairs
  PATH_RECORD_BUFFER_SIZE,
  DESTRUCTOR_ITERATIONS,   \* the C library's PTHREAD_DESTRUCTOR_ITERATIONS
  MaxRetired,              \* bound: records retired per task
  MaxHandlers              \* bound: exit handlers the application registers

ASSUME ConstantsOK ==
  /\ MainTask \in Tasks /\ MainProc \in Procs
  /\ NULL \notin Addr
  /\ PATH_RECORD_BUFFER_SIZE \in Nat \ {0}
  /\ DESTRUCTOR_ITERATIONS \in Nat \ {0}
  /\ MaxRetired \in Nat /\ MaxHandlers \in Nat

VARIABLES
  phase,              \* where each task is in its life
  proc,               \* the process of each task
  round,              \* the round of thread-specific-data destructors
  full,               \* tasks between filling their buffer and flushing it
  init_process_once,  \* processes in which init_process has run
  handlers,           \* per process the atexit stack, the last runs first
  record_buffer,      \* the __thread pointer of each task
  specific,           \* each task's value of finish_buffer_key
  mapped,             \* per process the addresses that hold a buffer
  recs,               \* per process and address recs[0 .. len-1]
  retired, saved,     \* as in PathTrace
  late                \* history: tasks past the last point that flushes them

taskVars == <<phase, proc, round>>
initVars == <<init_process_once, handlers>>
bufVars == <<record_buffer, specific, mapped, recs>>
vars == <<taskVars, full, initVars, bufVars, retired, saved, late>>

Phases == {"unborn", "run", "tsd_pre", "tsd_post", "exiting", "handler",
           "finished", "exited", "killed"}
Live == {"run", "tsd_pre", "tsd_post", "exiting", "handler"}

TypeOK ==
  /\ phase \in [Tasks -> Phases]
  /\ proc \in [Tasks -> Procs]
  /\ round \in [Tasks -> 0 .. DESTRUCTOR_ITERATIONS]
  /\ full \subseteq Tasks
  /\ init_process_once \subseteq Procs
  /\ handlers \in [Procs -> Seq({"app", "hack"})]
  /\ record_buffer \in [Tasks -> Addr \cup {NULL}]
  /\ specific \in [Tasks -> Addr \cup {NULL}]
  /\ mapped \in [Procs -> SUBSET Addr]
  /\ recs \in [Procs -> [Addr -> Seq(Recs)]]
  /\ retired \in [Tasks -> Seq(Recs)]
  /\ saved \in [Tasks -> Seq(Recs)]
  /\ late \subseteq Tasks

Init ==
  /\ phase = [t \in Tasks |-> IF t = MainTask THEN "run" ELSE "unborn"]
  /\ proc = [t \in Tasks |-> MainProc]
  /\ round = [t \in Tasks |-> 0]
  /\ full = {}
  /\ init_process_once = {}
  /\ handlers = [p \in Procs |-> <<>>]
  /\ record_buffer = [t \in Tasks |-> NULL]
  /\ specific = [t \in Tasks |-> NULL]
  /\ mapped = [p \in Procs |-> {}]
  /\ recs = [p \in Procs |-> [a \in Addr |-> <<>>]]
  /\ retired = [t \in Tasks |-> <<>>]
  /\ saved = [t \in Tasks |-> <<>>]
  /\ late = {}

InProc(p) == {t \in Tasks : phase[t] # "unborn" /\ proc[t] = p}
LiveIn(p) == {t \in InProc(p) : phase[t] \in Live}
------------------------------------------------------------------------------
(* Buffers.  The path_records at address a of process p has len records.   *)

(* Mutant: the size of the write is one record too large.                  *)
flush_buffer_one_more(t, a) ==
  /\ saved' = [saved EXCEPT ![t] = @ \o Append(recs[proc[t]][a], NULL)]
  /\ recs' = [recs EXCEPT ![proc[t]][a] = <<>>]

(* flush_buffer: one write of recs[0 .. len-1], then len = 0.  The         *)
(* recorder files what a thread writes under that thread.                  *)
flush_buffer(t, a) ==
  /\ saved' = [saved EXCEPT ![t] = @ \o recs[proc[t]][a]]
  /\ recs' = [recs EXCEPT ![proc[t]][a] = <<>>]

(* Mutants: record_buffer is not cleared; the page is not unmapped.        *)
drop_buffer_keeps_pointer(t) ==
  /\ specific' = [specific EXCEPT ![t] = NULL]
  /\ mapped' = [mapped EXCEPT ![proc[t]] = @ \ {record_buffer[t]}]
  /\ UNCHANGED record_buffer

drop_buffer_no_munmap(t) ==
  /\ specific' = [specific EXCEPT ![t] = NULL]
  /\ record_buffer' = [record_buffer EXCEPT ![t] = NULL]
  /\ UNCHANGED mapped

(* drop_buffer, run by t: both pointers are cleared, the page is unmapped. *)
drop_buffer(t) ==
  /\ specific' = [specific EXCEPT ![t] = NULL]
  /\ record_buffer' = [record_buffer EXCEPT ![t] = NULL]
  /\ mapped' = [mapped EXCEPT ![proc[t]] = @ \ {record_buffer[t]}]

finish_buffer(t, a) == flush_buffer(t, a) /\ drop_buffer(t)

finish_main_thread_buffer_hack(t) ==
  IF record_buffer[t] # NULL
  THEN finish_buffer(t, record_buffer[t])
  ELSE UNCHANGED <<bufVars, saved>>

(* Mutant: no exit handler is registered.                                  *)
init_process_no_atexit(p) ==
  /\ init_process_once' = init_process_once \cup {p}
  /\ UNCHANGED handlers

(* init_process, under pthread_once: the fork handler and the destructor   *)
(* exist in p from now on, and the exit handler is on the stack.           *)
init_process(p) ==
  /\ init_process_once' = init_process_once \cup {p}
  /\ handlers' = IF p \in init_process_once THEN handlers
                 ELSE [handlers EXCEPT ![p] = Append(@, "hack")]

(* The addresses ensure_thread_init can return to t: its buffer, or        *)
(* whatever mmap finds free.                                               *)
Candidates(t) ==
  IF record_buffer[t] # NULL THEN {record_buffer[t]}
  ELSE Addr \ mapped[proc[t]]

ensure_thread_init(t, a) ==
  /\ a \in Candidates(t)
  /\ IF record_buffer[t] # NULL
     THEN UNCHANGED <<initVars, record_buffer, specific, mapped>>
     ELSE /\ init_process(proc[t])
          /\ record_buffer' = [record_buffer EXCEPT ![t] = a]
          /\ specific' = [specific EXCEPT ![t] = a]
          /\ mapped' = [mapped EXCEPT ![proc[t]] = @ \cup {a}]

(* Instrumented code runs in the program proper, in the application's      *)
(* thread-specific-data destructors and in its exit handlers.              *)
CanLog(t) ==
  /\ phase[t] \in {"run", "tsd_pre", "tsd_post", "handler"}
  /\ t \notin full

(* The runtime's exit handler was registered in p and is off the stack.    *)
HackGone(p) ==
  /\ p \in init_process_once
  /\ \A i \in DOMAIN handlers[p] : handlers[p][i] # "hack"

(* No destructor and no handler will look at the buffer of t again.        *)
PastLastFlush(t) ==
  \/ phase[t] = "tsd_post" /\ round[t] = DESTRUCTOR_ITERATIONS
  \/ phase[t] = "handler" /\ HackGone(proc[t])

(* The test of len after the increment.  Mutant: one record too late.      *)
BufferFull_late(len) == len = PATH_RECORD_BUFFER_SIZE + 1

BufferFull(len) == len = PATH_RECORD_BUFFER_SIZE

(* llvm_increment_path_count up to the test for a full buffer.  mmap       *)
(* returns zeroed memory, so a new buffer has len = 0.                     *)
llvm_increment_path_count(t, r) ==
  LET p == proc[t] IN
  /\ CanLog(t)
  /\ Len(retired[t]) < MaxRetired
  /\ \E a \in Addr :
       /\ ensure_thread_init(t, a)
       /\ LET old == IF record_buffer[t] # NULL THEN recs[p][a] ELSE <<>> IN
          /\ recs' = [recs EXCEPT ![p][a] = Append(old, r)]
          /\ full' = IF BufferFull(Len(old) + 1)
                     THEN full \cup {t} ELSE full
  /\ retired' = [retired EXCEPT ![t] = Append(@, r)]
  /\ late' = IF PastLastFlush(t) THEN late \cup {t} ELSE late
  /\ UNCHANGED <<taskVars, saved>>

(* The rest of that call once the buffer is full.  Mutant: the last record *)
(* is moved to the front instead of being saved.                           *)
FlushFull_keeps_last(t) ==
  LET p == proc[t]
      a == record_buffer[t]
      n == Len(recs[p][a]) IN
  /\ phase[t] \in Live /\ t \in full
  /\ saved' = [saved EXCEPT ![t] = @ \o SubSeq(recs[p][a], 1, n - 1)]
  /\ recs' = [recs EXCEPT ![p][a] = <<recs[p][a][n]>>]
  /\ full' = full \ {t}
  /\ UNCHANGED <<taskVars, initVars, record_buffer, specific, mapped,
                 retired, late>>

FlushFull(t) ==
  /\ phase[t] \in Live /\ t \in full
  /\ flush_buffer(t, record_buffer[t])
  /\ full' = full \ {t}
  /\ UNCHANGED <<taskVars, initVars, record_buffer, specific, mapped,
                 retired, late>>
------------------------------------------------------------------------------
(* The C library and the application around the runtime.                   *)

(* pthread_create: the new thread has no buffer.                           *)
CreateThread(t, u) ==
  /\ phase[t] = "run" /\ t \notin full
  /\ phase[u] = "unborn"
  /\ phase' = [phase EXCEPT ![u] = "run"]
  /\ proc' = [proc EXCEPT ![u] = proc[t]]
  /\ UNCHANGED <<round, full, initVars, bufVars, retired, saved, late>>

(* The application registers an exit handler that runs instrumented code.  *)
AtExit(t) ==
  /\ phase[t] = "run" /\ t \notin full
  /\ Len(handlers[proc[t]]) < MaxHandlers
  /\ handlers' = [handlers EXCEPT ![proc[t]] = Append(@, "app")]
  /\ UNCHANGED <<taskVars, full, init_process_once, bufVars, retired, saved,
                 late>>

(* Mutant: no fork handler, the child keeps the inherited buffer.          *)
ForkChild_keeps_buffer(t, u, q) ==
  /\ record_buffer' = [record_buffer EXCEPT ![u] = record_buffer[t]]
  /\ specific' = [specific EXCEPT ![u] = specific[t]]
  /\ mapped' = [mapped EXCEPT ![q] = mapped[proc[t]]]
  /\ recs' = [recs EXCEPT ![q] = recs[proc[t]]]

(* fork: process q is a copy of the process of t whose only thread is u, a *)
(* copy of t.  The fork handler runs in q before u continues.              *)
ForkChild(t, u, q) ==
  /\ record_buffer' = [record_buffer EXCEPT ![u] =
       IF proc[t] \in init_process_once THEN NULL ELSE record_buffer[t]]
  /\ specific' = [specific EXCEPT ![u] =
       IF proc[t] \in init_process_once THEN NULL ELSE specific[t]]
  /\ mapped' = [mapped EXCEPT ![q] =
       IF proc[t] \in init_process_once THEN mapped[proc[t]] \ {record_buffer[t]}
       ELSE mapped[proc[t]]]
  /\ recs' = [recs EXCEPT ![q] = recs[proc[t]]]

Fork(t, u, q) ==
  /\ phase[t] = "run" /\ t \notin full
  /\ phase[u] = "unborn" /\ InProc(q) = {}
  /\ phase' = [phase EXCEPT ![u] = "run"]
  /\ proc' = [proc EXCEPT ![u] = q]
  /\ ForkChild(t, u, q)
  /\ init_process_once' = IF proc[t] \in init_process_once
                          THEN init_process_once \cup {q}
                          ELSE init_process_once
  /\ handlers' = [handlers EXCEPT ![q] = handlers[proc[t]]]
  /\ UNCHANGED <<round, full, retired, saved, late>>

(* t returns from its start routine, or calls pthread_exit.                *)
ThreadReturn(t) ==
  /\ phase[t] = "run" /\ t \notin full
  /\ phase' = [phase EXCEPT ![t] = "tsd_pre"]
  /\ round' = [round EXCEPT ![t] = 1]
  /\ UNCHANGED <<proc, full, initVars, bufVars, retired, saved, late>>

(* In each round the destructor of finish_buffer_key runs if the key has a *)
(* value; the C library clears the value first.  Application destructors   *)
(* run before it ("tsd_pre") or after it ("tsd_post").                     *)
RunDestructor(t) ==
  /\ phase[t] = "tsd_pre" /\ t \notin full
  /\ IF specific[t] # NULL THEN finish_buffer(t, specific[t])
                           ELSE UNCHANGED <<bufVars, saved>>
  /\ phase' = [phase EXCEPT ![t] = "tsd_post"]
  /\ UNCHANGED <<proc, round, full, initVars, retired, late>>

(* Another round while some key has a value again; the value may be one of *)
(* the application's keys, hence the choice when ours has none.            *)
NextRound(t) ==
  /\ phase[t] = "tsd_post" /\ t \notin full
  /\ round[t] < DESTRUCTOR_ITERATIONS
  /\ phase' = [phase EXCEPT ![t] = "tsd_pre"]
  /\ round' = [round EXCEPT ![t] = @ + 1]
  /\ UNCHANGED <<proc, full, initVars, bufVars, retired, saved, late>>

(* The thread is gone; the last thread of a process calls exit(0).         *)
EndThread(t) ==
  /\ phase[t] = "tsd_post" /\ t \notin full
  /\ specific[t] = NULL \/ round[t] = DESTRUCTOR_ITERATIONS
  /\ phase' = [phase EXCEPT ![t] =
       IF LiveIn(proc[t]) = {t} THEN "exiting" ELSE "finished"]
  /\ UNCHANGED <<proc, round, full, initVars, bufVars, retired, saved, late>>

(* t calls exit(), or returns from main.  Two threads of a process in      *)
(* exit() at once are undefined behaviour of the application.  A forked    *)
(* process may have inherited a stack that our handler has left.           *)
Exit(t) ==
  /\ phase[t] = "run" /\ t \notin full
  /\ \A u \in InProc(proc[t]) : phase[u] \notin {"exiting", "handler"}
  /\ phase' = [phase EXCEPT ![t] = "exiting"]
  /\ late' = IF proc[t] # MainProc /\ HackGone(proc[t]) THEN late \cup {t} ELSE late
  /\ UNCHANGED <<proc, round, full, initVars, bufVars, retired, saved>>

(* exit() pops the next handler: ours, or one of the application's.        *)
RunHandler(t) ==
  LET p == proc[t]
      n == Len(handlers[p]) IN
  /\ phase[t] = "exiting" /\ n > 0
  /\ handlers' = [handlers EXCEPT ![p] = SubSeq(@, 1, n - 1)]
  /\ IF handlers[p][n] = "hack"
     THEN finish_main_thread_buffer_hack(t) /\ UNCHANGED phase
     ELSE /\ phase' = [phase EXCEPT ![t] = "handler"]
          /\ UNCHANGED <<bufVars, saved>>
  /\ UNCHANGED <<proc, round, full, init_process_once, retired, late>>

HandlerReturn(t) ==
  /\ phase[t] = "handler" /\ t \notin full
  /\ phase' = [phase EXCEPT ![t] = "exiting"]
  /\ UNCHANGED <<proc, round, full, initVars, bufVars, retired, saved, late>>

(* exit() is through with its handlers and ends every thread of the        *)
(* process, wherever it is.                                                *)
ExitGroup(t) ==
  /\ phase[t] = "exiting" /\ handlers[proc[t]] = <<>>
  /\ phase' = [u \in Tasks |-> IF u = t THEN "exited"
                               ELSE IF u \in LiveIn(proc[t]) THEN "killed"
                               ELSE phase[u]]
  /\ UNCHANGED <<proc, round, full, initVars, bufVars, retired, saved, late>>

(* A fatal signal, _exit() or exec() ends the process without handlers.    *)
Kill(p) ==
  /\ LiveIn(p) # {}
  /\ phase' = [u \in Tasks |-> IF u \in LiveIn(p) THEN "killed" ELSE phase[u]]
  /\ UNCHANGED <<proc, round, full, initVars, bufVars, retired, saved, late>>

TaskStep(t) ==
  \/ \E r \in Recs : llvm_increment_path_count(t, r)
  \/ FlushFull(t)
  \/ \E u \in Tasks : CreateThread(t, u)
  \/ AtExit(t)
  \/ \E u \in Tasks, q \in Procs : Fork(t, u, q)
  \/ ThreadReturn(t) \/ RunDestructor(t) \/ NextRound(t) \/ EndThread(t)
  \/ Exit(t) \/ RunHandler(t) \/ HandlerReturn(t) \/ ExitGroup(t)

Next == (\E t \in Tasks : TaskStep(t)) \/ \E p \in Procs : Kill(p)

Spec == Init /\ [][Next]_vars
------------------------------------------------------------------------------
(* What t has retired and the trace does not hold.                         *)
Unsaved(t) ==
  IF record_buffer[t] = NULL THEN <<>> ELSE recs[proc[t]][record_buffer[t]]

(* No record is lost, repeated or reordered on its way: what a task        *)
(* retired is what the trace has of it followed by what is in its buffer.  *)
(* A flush that forgot len = 0, or a fork whose child kept the inherited   *)
(* buffer, would save records twice.                                       *)
Conservation == \A t \in Tasks : retired[t] = saved[t] \o Unsaved(t)

(* recs[len++] stays inside recs: a buffer that is not about to be flushed *)
(* has room for the next record.                                           *)
RoomForNext ==
  \A t \in Tasks : /\ Len(Unsaved(t)) <= PATH_RECORD_BUFFER_SIZE
                   /\ t \notin full => Len(Unsaved(t)) < PATH_RECORD_BUFFER_SIZE

(* The two pointers to a buffer agree, point to mapped memory and belong   *)
(* to one thread only: finish_buffer flushes through one of them and       *)
(* unmaps through the other.                                               *)
BufferOwnership ==
  \A t \in Tasks :
    /\ specific[t] = record_buffer[t]
    /\ record_buffer[t] # NULL =>
         /\ record_buffer[t] \in mapped[proc[t]]
         /\ \A u \in Tasks \ {t} :
              proc[u] = proc[t] => record_buffer[u] # record_buffer[t]

(* The pages of process p that are no live thread's buffer: nothing will   *)
(* ever unmap them.                                                        *)
Leaked(p) == mapped[p] \ {record_buffer[t] : t \in LiveIn(p)}

(* A thread that logs past its last flush leaves its buffer behind.        *)
LosesLate(p) ==
  /\ LiveIn(p) # {}
  /\ Leaked(p)' \subseteq Leaked(p) \cup {record_buffer[t] : t \in LiveIn(p) \cap late}

(* The child of a fork starts with what its parent had lost and with the   *)
(* buffers of the threads it did not inherit.                              *)
Inherits(p) ==
  /\ LiveIn(p) = {}
  /\ \E t \in Tasks :
       /\ phase[t] = "run"
       /\ Leaked(p)' \subseteq
            Leaked(proc[t]) \cup {record_buffer[u] : u \in LiveIn(proc[t]) \ {t}}

(* The processes that go on after a step.                                  *)
LeakStep == \A p \in Procs : LiveIn(p)' # {} => LosesLate(p) \/ Inherits(p)

(* While a process goes on it loses a page in these two ways only: every   *)
(* other buffer is unmapped before its thread is gone, also the copy the   *)
(* child of a fork has of the buffer of the thread that forked.            *)
NoOtherLeak == [][LeakStep]_vars

(* A thread that ended by itself, or whose exit() ran to the end, has its  *)
(* whole history in the trace, unless application code logged after the    *)
(* last point where the runtime looks at the buffer: in the last round of  *)
(* destructors, or in an exit handler registered before the runtime's own. *)
(* (A child forked while another thread was in exit() may inherit a stack  *)
(* that the runtime's handler has already left; its exit() is late too.)   *)
OrderlyEndSavesAll ==
  \A t \in Tasks :
    phase[t] \in {"finished", "exited"} /\ t \notin late => saved[t] = retired[t]

(* The runtime implements the abstract trace.                              *)
Trace == INSTANCE PathTrace
TraceRefinement == Trace!TraceSpec
==============================================================================
