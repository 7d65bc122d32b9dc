---------------------------- MODULE NotifyDesched ----------------------------
(***************************************************************************)
(* notify_desched.c: a child arms a performance counter around each of its *)
(* writes; if it is descheduled in between, the counter sends it SIGIO and *)
(* its tracer, which has a copy of the counter's file descriptor, disables *)
(* the counter and counts the event.                                       *)
(*                                                                         *)
(* Kernel: the counter is raised whenever the child leaves the CPU, also   *)
(* when it does so because it stopped for its tracer, which may then be    *)
(* running already.  SIGIO is not queued: it is pending or not.            *)
(***************************************************************************)
EXTENDS Integers

CONSTANT io_ticks          \* writes of the child

ASSUME TicksOK == io_ticks \in Nat

VARIABLES
  ppc,       \* where the parent is
  nr_observed_descheds,
  at, i,     \* where the child is in spam_io, and its loop counter
  level,     \* "user", or "kernel" inside the system call at "at"
  stop,      \* its stop, "none" while it runs, or "dead"
  cpu,       \* "on", or "off" when it has left it after a stop
  request,   \* how it was resumed last
  socket,    \* "empty", or "fd" when the descriptor was sent
  counter,   \* "enabled" or "disabled"
  pending,   \* "SIGIO" or "none"
  armed      \* history: times the child armed the counter

parentVars == <<ppc, nr_observed_descheds>>
cpuVars == <<stop, cpu, request>>
vars == <<parentVars, at, i, level, cpuVars, socket, counter, pending, armed>>

Init ==
  /\ ppc = "recv" /\ nr_observed_descheds = 0
  /\ at = "open" /\ i = io_ticks - 1 /\ level = "user"
  /\ stop = "none" /\ cpu = "on" /\ request = "CONT"
  /\ socket = "empty" /\ counter = "disabled" /\ pending = "none" /\ armed = 0
------------------------------------------------------------------------------
(* The parent.  A ptrace request waits until a child that stopped is off   *)
(* the CPU.  If the child is gone it fails, and so does waitpid, and then  *)
(* status still says so: it keeps its place in the frame.                  *)
recv_fd ==
  /\ ppc = "recv" /\ socket = "fd"
  /\ ppc' = "first wait"
  /\ UNCHANGED <<nr_observed_descheds, at, i, level, cpuVars, socket, counter,
                 pending, armed>>

Resume(req) ==
  IF stop = "dead" THEN UNCHANGED cpuVars
  ELSE stop # "none" /\ cpu = "off" /\ stop' = "none" /\ request' = req /\ cpu' = "on"

(* The requests of the loop: what is asked for, and where it waits next.   *)
Asking == {"continue", "skip", "enter", "finish"}

resume ==
  /\ ppc \in Asking
  /\ Resume(IF ppc \in {"continue", "skip"} THEN "CONT" ELSE "SYSCALL")
  /\ ppc' = CASE ppc = "continue" -> "wait" [] ppc = "skip" -> "second wait"
              [] ppc = "enter" -> "enter wait" [] ppc = "finish" -> "finish wait"
  /\ UNCHANGED <<nr_observed_descheds, at, i, level, socket, counter, pending,
                 armed>>

(* Whether the child is still there.  Mutant: always.                      *)
dump_status_always(status) == TRUE

dump_status(status) == status # "dead"

(* waitpid, and where its result leads: the loop ends with the child; the  *)
(* assertion wants a second SIGIO; the other results are not looked at.    *)
waitpid ==
  /\ stop # "none"
  /\ \/ ppc = "first wait" /\ ppc' = "continue"
     \/ /\ ppc = "wait"
        /\ ppc' = CASE ~dump_status(stop) -> "end" [] stop = "SIGIO" -> "disable"
                    [] OTHER -> "continue"
     \/ ppc = "second wait" /\ ppc' = IF stop = "SIGIO" THEN "enter" ELSE "aborted"
     \/ ppc = "enter wait" /\ ppc' = "finish"
     \/ ppc = "finish wait" /\ ppc' = "continue"
  /\ UNCHANGED <<nr_observed_descheds, at, i, level, cpuVars, socket, counter, pending,
                 armed>>

(* The counter after the first SIGIO.  Mutant: it stays enabled.           *)
disable_counter_not == UNCHANGED counter

disable_counter == counter' = "disabled"

desched ==
  /\ ppc = "disable" /\ ppc' = "skip"
  /\ disable_counter
  /\ nr_observed_descheds' = nr_observed_descheds + 1
  /\ UNCHANGED <<at, i, level, cpuVars, socket, pending, armed>>
------------------------------------------------------------------------------
(* The child.  Its system calls, in the order of spam_io.                  *)
Runs == stop = "none"

Stop(why) == stop' = why /\ cpu' = "on" /\ UNCHANGED request

(* open_counter, send_fd, PTRACE_TRACEME and raise(SIGSTOP).  If the       *)
(* counter cannot be opened the child exits.                               *)
open_counter ==
  /\ at = "open" /\ Runs
  /\ \/ at' = "send" /\ UNCHANGED cpuVars
     \/ at' = "gone" /\ Stop("dead")
  /\ UNCHANGED <<parentVars, i, level, socket, counter, pending, armed>>

send_fd ==
  /\ at = "send" /\ at' = "raise" /\ socket' = "fd"
  /\ UNCHANGED <<parentVars, i, level, cpuVars, counter, pending, armed>>

raise ==
  /\ at = "raise" /\ Runs
  /\ at' = "devnull" /\ Stop("SIGSTOP")
  /\ UNCHANGED <<parentVars, i, level, socket, counter, pending, armed>>

SyscallStop(why) == IF request = "SYSCALL" THEN Stop(why) ELSE UNCHANGED cpuVars

(* A signal is taken before the next system call.                          *)
enterSyscall ==
  /\ Runs /\ level = "user" /\ pending = "none"
  /\ at \in {"devnull", "arm", "write", "disarm", "close", "exit"}
  /\ level' = "kernel" /\ SyscallStop("entry")
  /\ UNCHANGED <<parentVars, at, i, socket, counter, pending, armed>>

leaveSyscall(to) ==
  /\ Runs /\ level = "kernel" /\ level' = "user"
  /\ at' = to /\ SyscallStop("exit")
  /\ UNCHANGED <<parentVars, socket>>

(* The loop's condition.                                                   *)
loop(k) == IF k >= 0 THEN "arm" ELSE "close"

devnull ==
  /\ \/ at = "devnull" /\ leaveSyscall(loop(i))
     \/ at = "close" /\ leaveSyscall("exit")
  /\ UNCHANGED <<i, counter, pending, armed>>

arm_desched_notification ==
  /\ at = "arm" /\ leaveSyscall("write")
  /\ counter' = "enabled" /\ armed' = armed + 1
  /\ UNCHANGED <<i, pending>>

(* A write that waits for the terminal is interrupted by the signal, and   *)
(* made again after it.                                                    *)
write ==
  /\ at = "write"
  /\ leaveSyscall("disarm") \/ (pending = "SIGIO" /\ leaveSyscall("write"))
  /\ UNCHANGED <<i, counter, pending, armed>>

disarm_desched_notification ==
  /\ at = "disarm" /\ leaveSyscall(loop(i - 1))
  /\ counter' = "disabled" /\ i' = i - 1
  /\ UNCHANGED <<pending, armed>>

exit ==
  /\ at = "exit" /\ level = "kernel" /\ Runs
  /\ at' = "gone" /\ Stop("dead")
  /\ UNCHANGED <<parentVars, i, level, socket, counter, pending, armed>>

(* The kernel takes the CPU from the child while it runs, or after a stop. *)
preempt ==
  /\ Runs /\ counter = "enabled" /\ pending = "none"
  /\ pending' = "SIGIO"
  /\ UNCHANGED <<parentVars, at, i, level, cpuVars, socket, counter, armed>>

leaveCpu ==
  /\ stop \notin {"none", "dead"} /\ cpu = "on"
  /\ cpu' = "off" /\ pending' = IF counter = "enabled" THEN "SIGIO" ELSE pending
  /\ UNCHANGED <<parentVars, at, i, level, stop, request, socket, counter, armed>>

takeSignal ==
  /\ Runs /\ level = "user" /\ pending = "SIGIO"
  /\ pending' = "none" /\ Stop("SIGIO")
  /\ UNCHANGED <<parentVars, at, i, level, socket, counter, armed>>

parent == recv_fd \/ resume \/ waitpid \/ desched
child ==
  \/ open_counter \/ send_fd \/ raise \/ enterSyscall \/ devnull
  \/ arm_desched_notification \/ write \/ disarm_desched_notification \/ exit
  \/ leaveCpu \/ takeSignal
Next == parent \/ child \/ preempt

Spec == Init /\ [][Next]_vars /\ WF_vars(parent) /\ WF_vars(child)
------------------------------------------------------------------------------
ParentPlace == Asking \cup {"recv", "first wait", "wait", "second wait", "enter wait",
                            "finish wait", "disable", "end", "aborted"}
ChildPlace == {"open", "send", "raise", "devnull", "arm", "write", "disarm", "close",
               "exit", "gone"}
StopReason == {"none", "SIGSTOP", "SIGIO", "entry", "exit", "dead"}

(* The types of the variables.                                             *)
TypeOK ==
  /\ ppc \in ParentPlace /\ at \in ChildPlace /\ stop \in StopReason
  /\ i \in -1 .. io_ticks - 1 /\ armed \in Nat /\ nr_observed_descheds \in Nat
  /\ request \in {"CONT", "SYSCALL"}
  /\ level \in {"user", "kernel"} /\ cpu \in {"on", "off"}
  /\ socket \in {"empty", "fd"} /\ counter \in {"enabled", "disabled"}
  /\ pending \in {"none", "SIGIO"}

(* At no time have more deschedulings been counted than the counter was    *)
(* armed, although the stop that reports one is itself one: the parent     *)
(* disables the counter at the first SIGIO and skips the second.           *)
ObservedOncePerArm == nr_observed_descheds <= armed

(* Once the counter is open the parent ends, or aborts.                    *)
ParentEnds == socket = "fd" ~> ppc \in {"end", "aborted"}

(* assert(WIFSTOPPED(status) && SIGIO == WSTOPSIG(status)): a second SIGIO *)
(* follows the first.                                                      *)
SecondSigio == ppc # "aborted"
==============================================================================
