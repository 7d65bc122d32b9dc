-------------------------------- MODULE Paths --------------------------------
(***************************************************************************)
(* paths.c, the driver of the path logger, on top of the runtime: main     *)
(* starts NUM_THREADS threads, every thread and main itself run NUM_ITS    *)
(* iterations, main joins the threads and returns.  The instrumented code  *)
(* retires a record when paths() returns, at the back edge of every loop   *)
(* iteration, and when thread() or main() returns.                         *)
(***************************************************************************)
EXTENDS PathLog

CONSTANTS NUM_ITS, Order   \* Order: the other tasks in the order of t[i]

ASSUME PathsOK ==
  /\ NUM_ITS \in Nat
  /\ Order \in Seq(Tasks \ {MainTask})
  /\ \A t \in Tasks \ {MainTask} : \E i \in DOMAIN Order : Order[i] = t
  /\ {"paths", "thread", "main"} \subseteq Recs

VARIABLE at   \* at[t]: the index of the next instruction of t

NUM_THREADS == Len(Order)

(* An instruction: what it does, the record or the thread it is about.     *)
Log(fn) == [op |-> "log", rec |-> fn]

(* A loop with one instruction per iteration, and its back edges.          *)
Iterate(body, fn) ==
  [i \in 1 .. 2 * Len(body) |-> IF i % 2 = 1 THEN body[(i + 1) \div 2] ELSE Log(fn)]

thread ==
  Iterate([i \in 1 .. NUM_ITS |-> Log("paths")], "thread")
    \o <<Log("thread"), [op |-> "return"]>>

(* Mutants: main does not wait for its threads; main waits for each thread *)
(* before it has started the others, and for the first before it exists.   *)
main_without_join ==
  Iterate([i \in 1 .. NUM_THREADS |-> [op |-> "create", task |-> Order[i]]], "main")
    \o Iterate([i \in 1 .. NUM_ITS |-> Log("paths")], "main")
    \o <<Log("main"), [op |-> "exit"]>>

main_joins_first ==
  Iterate([i \in 1 .. NUM_THREADS |-> [op |-> "join", task |-> Order[i]]], "main")
    \o Iterate([i \in 1 .. NUM_THREADS |-> [op |-> "create", task |-> Order[i]]], "main")
    \o <<Log("main"), [op |-> "exit"]>>

main ==
  Iterate([i \in 1 .. NUM_THREADS |-> [op |-> "create", task |-> Order[i]]], "main")
    \o Iterate([i \in 1 .. NUM_ITS |-> Log("paths")], "main")
    \o Iterate([i \in 1 .. NUM_THREADS |-> [op |-> "join", task |-> Order[i]]], "main")
    \o <<Log("main"), [op |-> "exit"]>>

Code(t) == IF t = MainTask THEN main ELSE thread

(* One instruction of the program.  pthread_join waits for the end of the  *)
(* thread, destructors included.                                           *)
Execute(t) ==
  LET i == Code(t)[at[t]] IN
  /\ at[t] \in DOMAIN Code(t) /\ phase[t] = "run"
  /\ at' = [at EXCEPT ![t] = @ + 1]
  /\ \/ i.op = "log" /\ llvm_increment_path_count(t, i.rec)
     \/ i.op = "create" /\ CreateThread(t, i.task)
     \/ /\ i.op = "join" /\ phase[i.task] = "finished" /\ t \notin full
        /\ UNCHANGED vars
     \/ i.op = "return" /\ ThreadReturn(t)
     \/ i.op = "exit" /\ Exit(t)

(* The runtime and the C library; paths.c has neither thread-specific data *)
(* nor exit handlers of its own.                                           *)
Library(t) ==
  /\ \/ FlushFull(t)
     \/ RunDestructor(t)
     \/ EndThread(t)
     \/ RunHandler(t)
     \/ ExitGroup(t)
  /\ UNCHANGED at

PathsInit == Init /\ at = [t \in Tasks |-> 1]
PathsNext == \E t \in Tasks : Execute(t) \/ Library(t)

(* Every thread that can run is scheduled.                                 *)
PathsSpec ==
  /\ PathsInit /\ [][PathsNext]_<<vars, at>>
  /\ \A t \in Tasks : WF_<<vars, at>>(Execute(t) \/ Library(t))

(* The records retired by the first k instructions of some code.           *)
Logged(code) ==
  LET logs[k \in 0 .. Len(code)] ==
        IF k = 0 THEN <<>>
        ELSE IF code[k].op = "log" THEN Append(logs[k - 1], code[k].rec) ELSE logs[k - 1]
  IN  logs

(* The records t retires if it runs to its end.                            *)
Script(t) == Logged(Code(t))[Len(Code(t))]

(* When the program is over, the trace has every record of every thread,   *)
(* in order: because main joins before it returns, exit() finds no other   *)
(* thread with an unflushed buffer, and main's own is flushed by the exit  *)
(* handler.                                                                *)
TraceComplete ==
  phase[MainTask] = "exited" => \A t \in Tasks : saved[t] = Script(t)

(* The program ends: no thread waits for ever.                             *)
Terminates == <>(phase[MainTask] = "exited")
==============================================================================
