------------------------------ MODULE Watchpoint ------------------------------
(***************************************************************************)
(* watchpoint.c: a tracer sets hardware watchpoints on the variable mut in *)
(* a process c and, later, in the thread t that c creates, and checks with *)
(* assertions which task stopped, why and where.                           *)
(*                                                                         *)
(* Kernel: a new thread of a traced process stops before its first         *)
(* instruction.  The clone wakes the thread before it reports its event.   *)
(* When the tracer ends, what it traced runs on without it.                *)
(***************************************************************************)
EXTENDS Naturals

VARIABLES
  pc,       \* where the tracer is in main
  failed,   \* the line of the assertion or fatal() that ended it, or 0
  at,       \* where each task is
  stop,     \* why each task has stopped, "none" if it runs
  waited,   \* tasks whose stop was reported by waitpid
  dr,       \* what each task's debug register traps
  mut

vars == <<pc, failed, at, stop, waited, dr, mut>>
Task == {"c", "t"}

Init ==
  /\ pc = "first" /\ failed = 0
  /\ at = [c |-> "traceme", t |-> "unborn"]
  /\ stop = [c |-> "none", t |-> "none"]
  /\ waited = {}
  /\ dr = [c |-> "off", t |-> "off"]
  /\ mut = 0
------------------------------------------------------------------------------
(* The tracer.  waitpid reports a stop or an end once.                     *)
waitpid(u) == stop[u] # "none" /\ u \notin waited

(* An assertion holds and the tracer goes on, or it fails and aborts.      *)
assert(holds, line, next) ==
  IF holds THEN pc' = next /\ UNCHANGED failed
  ELSE pc' = "end" /\ failed' = line

cont(S) ==
  /\ stop' = [u \in Task |-> IF u \in S THEN "none" ELSE stop[u]]
  /\ waited' = waited \ S

(* watch(): of its three requests the last one arms the register; each may *)
(* fail, and fatal() then ends the tracer.                                 *)
watch(u, what, next) ==
  \/ /\ dr' = [dr EXCEPT ![u] = what]
     /\ pc' = next /\ UNCHANGED failed
  \/ /\ failed' \in {97, 100, 106}
     /\ pc' = "end" /\ UNCHANGED dr

first ==
  /\ pc = "first" /\ waitpid("c")
  /\ assert(stop["c"] = "SIGSTOP", 125, "options")
  /\ waited' = {"c"}
  /\ UNCHANGED <<at, stop, dr, mut>>

(* What the first watchpoint traps.  Mutant: reads too.                    *)
firstWatch_reads == "READWRITE"

firstWatch == "WRITE"

watchWrites ==
  /\ pc = "watch" /\ watch("c", firstWatch, "syscall")
  /\ UNCHANGED <<at, stop, waited, mut>>

(* waitpid(-1): c has written mut.                                         *)
writeHit(u) ==
  /\ pc = "write hit" /\ waitpid(u)
  /\ assert(u = "c" /\ stop[u] = "SIGTRAP", 135, "write ip")
  /\ waited' = {u}
  /\ UNCHANGED <<at, stop, dr, mut>>

(* waitpid(-1): the clone event of c.                                      *)
clone(u) ==
  /\ pc = "clone" /\ waitpid(u)
  /\ assert(u = "c" /\ stop[u] = "CLONE", 144, "event message")
  /\ waited' = waited \cup {u}
  /\ UNCHANGED <<at, stop, dr, mut>>

thread ==
  /\ pc = "thread" /\ waitpid("t")
  /\ pc' = "watch c" /\ waited' = {"c", "t"}
  /\ UNCHANGED <<failed, at, stop, dr, mut>>

(* What the thread's register traps.  Mutant: writes only.                 *)
threadWatch_write == "WRITE"

threadWatch == "READWRITE"

watchBoth ==
  /\ \/ pc = "watch c" /\ watch("c", "READWRITE", "watch t")
     \/ pc = "watch t" /\ watch("t", threadWatch, "continue c")
  /\ UNCHANGED <<at, stop, waited, mut>>

(* Who is continued last.  Mutant: c again.                                *)
lastContinued_child == "c"

lastContinued == "t"

(* PTRACE_SYSCALL or PTRACE_CONT; c makes no system call before it writes. *)
continue ==
  /\ \/ pc = "syscall" /\ pc' = "write hit" /\ cont({"c"})
     \/ pc = "to clone" /\ pc' = "clone" /\ cont({"c"})
     \/ pc = "continue c" /\ pc' = "continue t" /\ cont({"c"})
     \/ pc = "continue t" /\ pc' = "read hit" /\ cont({lastContinued})
  /\ UNCHANGED <<failed, at, dr, mut>>

(* waitpid(-1): the thread has read mut.                                   *)
readHit(u) ==
  /\ pc = "read hit" /\ waitpid(u)
  /\ assert(u = "t" /\ stop[u] = "SIGTRAP", 157, "read ip")
  /\ waited' = waited \cup {u}
  /\ UNCHANGED <<at, stop, dr, mut>>

(* PTRACE_GETREGS: the ip of c is in or after write_mut, that of the       *)
(* thread in or after read_mut.                                            *)
checkIp ==
  /\ \/ pc = "write ip" /\ assert(at["c"] = "create", 139, "to clone")
     \/ pc = "read ip" /\ assert(at["t"] # "read", 161, "end")
  /\ UNCHANGED <<at, stop, waited, dr, mut>>

(* PTRACE_SETOPTIONS, and PTRACE_GETEVENTMSG for the thread's id.          *)
otherRequest ==
  /\ \/ pc = "options" /\ pc' = "watch"
     \/ pc = "event message" /\ pc' = "thread"
  /\ UNCHANGED <<failed, at, stop, waited, dr, mut>>

(* The tracer is gone: nothing stays stopped or watched.                   *)
detach ==
  /\ pc = "end" /\ pc' = "gone"
  /\ stop' = [u \in Task |-> "none"] /\ waited' = {}
  /\ dr' = [u \in Task |-> "off"]
  /\ UNCHANGED <<failed, at, mut>>
------------------------------------------------------------------------------
(* The tasks.  A stop is for the tracer, if it is still there.             *)
go(u, from, to, why) ==
  /\ stop[u] = "none" /\ at[u] = from
  /\ at' = [at EXCEPT ![u] = to]
  /\ stop' = [stop EXCEPT ![u] = IF pc = "gone" THEN "none" ELSE why]
  /\ UNCHANGED <<pc, failed, waited, dr>>

hit(u, access) ==
  IF dr[u] = "READWRITE" \/ (access = "write" /\ dr[u] = "WRITE") THEN "SIGTRAP"
  ELSE "none"

(* PTRACE_TRACEME may fail, and then the child exits.                      *)
traceme ==
  /\ go("c", "traceme", "kill", "none") \/ go("c", "traceme", "gone", "dead")
  /\ UNCHANGED mut

kill == go("c", "kill", "read", "SIGSTOP") /\ UNCHANGED mut
read_mut(u) == go(u, "read", "write", hit(u, "read")) /\ UNCHANGED mut
write_mut(u, x, next) == go(u, "write", next, hit(u, "write")) /\ mut' = x

(* pthread_create wakes the thread, then c reports the clone.              *)
pthread_create ==
  /\ stop["c"] = "none" /\ at["c"] = "create"
  /\ at' = [c |-> "cloned", t |-> "start"]
  /\ UNCHANGED <<pc, failed, stop, waited, dr, mut>>

cloned == go("c", "cloned", "join", "CLONE") /\ UNCHANGED mut
start == go("t", "start", "read", "SIGSTOP") /\ UNCHANGED mut
threadEnds == go("t", "return", "gone", "dead") /\ UNCHANGED mut
pthread_join == at["t"] = "gone" /\ go("c", "join", "exit", "none") /\ UNCHANGED mut
exit == go("c", "exit", "gone", "dead") /\ UNCHANGED mut

tracer ==
  \/ first \/ watchWrites \/ thread \/ watchBoth \/ continue \/ checkIp
  \/ otherRequest \/ detach
  \/ \E u \in Task : writeHit(u) \/ clone(u) \/ readHit(u)
child ==
  \/ traceme \/ kill \/ read_mut("c") \/ write_mut("c", 42, "create") \/ pthread_create
  \/ cloned \/ pthread_join \/ exit
newThread == start \/ read_mut("t") \/ write_mut("t", 24, "return") \/ threadEnds
Next == tracer \/ child \/ newThread

Spec == Init /\ [][Next]_vars /\ WF_vars(tracer) /\ WF_vars(child) /\ WF_vars(newThread)
------------------------------------------------------------------------------
(* The tracer sees the accesses to mut when they happen: at the end of a   *)
(* run without a failed assertion c has written and the thread has read    *)
(* mut, but not written it yet.                                            *)
ThreadCaught == pc = "end" /\ failed = 0 => mut = 42 /\ at["t"] = "write"

(* The other assertions hold in every order of stops, unless the child     *)
(* could not even be traced.                                               *)
OtherAssertionsHold == failed \notin {135, 139, 157, 161} /\ (failed = 125 => at["c"] = "gone")

(* The tracer ends, and its tasks with it or after it.                     *)
AllEnd == <>[](pc = "gone" /\ at["c"] = "gone" /\ at["t"] \in {"unborn", "gone"})

(* assert(c == ret && 0x3057f == status): the first stop after c was       *)
(* continued is the clone event of c.                                      *)
CloneReportedFirst == failed # 144
==============================================================================
