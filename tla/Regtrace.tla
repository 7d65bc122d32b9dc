------------------------------- MODULE Regtrace -------------------------------
(***************************************************************************)
(* The syscall tracer (regtrace.c) and the process it traces.  The tracee  *)
(* preloads a library that installs a seccomp filter (seccomptrace.c);     *)
(* from then on each of its syscalls traps to the tracer, which lets the   *)
(* tracee run on to the entry and to the exit of the syscall, logs the     *)
(* registers at both, and then continues to the next trap.                 *)
(*                                                                         *)
(* Kernel: the trap of the filter comes before the stop at the entry.      *)
(***************************************************************************)
EXTENDS Naturals, Sequences

CONSTANTS
  MaxSyscalls,   \* bound: syscalls of the tracee
  MaxSignals     \* bound: signals sent to the tracee

ASSUME BoundsOK == MaxSyscalls \in Nat /\ MaxSignals \in Nat

VARIABLES
  mode,      \* where the tracer is in trace()
  state,     \* its state
  request,   \* how the tracee was resumed last
  stop,      \* the stop the tracee is in, "none" if it runs
  run,       \* where the tracee is
  call,      \* the syscall it is in
  filter,    \* the seccomp filter: "absent", "preloaded" or "installed"
  syscalls, signals,   \* counters for the bounds
  skewed,    \* history: an event in the middle of a syscall since the last trap
  labels     \* history: the trap of the last syscall, if the tracer saw it, and
             \* the labels logged for the syscall

tracerVars == <<mode, state>>
traceeVars == <<run, call, filter, syscalls, signals>>
vars == <<tracerVars, request, stop, traceeVars, skewed, labels>>

start_state == "TRAPPING_SECCOMP"       \* use_filter is 1
Calls == {"exec", "fork", "prctl", "exit", "other"}
Events == {"EXEC", "SECCOMP", "FORK", "EXIT"}    \* FORK: vfork and clone too

Init ==
  /\ mode = "first" /\ state = start_state
  /\ request = "CONT" /\ stop = "none"
  /\ run = "started" /\ call = "none" /\ filter = "absent"
  /\ syscalls = 0 /\ signals = 0
  /\ skewed = FALSE /\ labels = <<>>
------------------------------------------------------------------------------
(* The tracer.                                                             *)

(* The first waitpid and its assertion: the child stopped itself.          *)
firstWait ==
  /\ mode = "first" /\ stop # "none"
  /\ mode' = IF stop = "SIGSTOP" THEN "options" ELSE "not stopped"
  /\ UNCHANGED <<state, request, stop, traceeVars, skewed, labels>>

(* PTRACE_SETOPTIONS: fatal() if the child is no longer stopped.           *)
setOptions ==
  /\ mode = "options"
  /\ mode' = IF stop = "SIGSTOP" THEN "resume" ELSE "no options"
  /\ UNCHANGED <<state, request, stop, traceeVars, skewed, labels>>

(* How the loop resumes.  Mutant: always to the next syscall.              *)
resumeRequest_syscall == "SYSCALL"

resumeRequest == IF state = "TRAPPING_SECCOMP" THEN "CONT" ELSE "SYSCALL"

(* The request at the top of the loop fails, unnoticed, on a tracee that   *)
(* still runs: after a PTRACE_SINGLESTEP nobody waited for it to stop.     *)
resume ==
  /\ mode = "resume"
  /\ mode' = "wait"
  /\ IF stop \in {"none", "dead"} THEN UNCHANGED <<request, stop>>
     ELSE request' = resumeRequest /\ stop' = "none"
  /\ UNCHANGED <<state, traceeVars, skewed, labels>>

(* The state after a ptrace event.  Mutant: exec is not special.           *)
eventState_entering(event) == "ENTERING_SYSCALL"

eventState(event) ==
  IF event = "EXEC" THEN "EXITING_SYSCALL" ELSE "ENTERING_SYSCALL"

waitEvent ==
  /\ mode = "wait" /\ stop \in Events
  /\ state' = eventState(stop) /\ mode' = "resume"
  /\ skewed' = (stop \in {"FORK", "EXIT"})
  /\ labels' = IF stop = "SECCOMP" THEN <<"trap">> ELSE labels
  /\ UNCHANGED <<request, stop, traceeVars>>

(* The tracee exited or was killed: trace() returns.  Mutant: it does not. *)
waitEnd_continues ==
  /\ mode = "wait" /\ stop = "dead"
  /\ mode' = "resume"
  /\ UNCHANGED <<state, request, stop, traceeVars, skewed, labels>>

waitEnd ==
  /\ mode = "wait" /\ stop = "dead"
  /\ mode' = "returned"
  /\ UNCHANGED <<state, request, stop, traceeVars, skewed, labels>>

(* A signal: the tracee takes it and steps, and the loop goes on without a *)
(* waitpid.                                                                *)
waitSignal ==
  /\ mode = "wait" /\ stop = "signal"
  /\ request' = "SINGLESTEP" /\ stop' = "none" /\ mode' = "resume"
  /\ UNCHANGED <<state, traceeVars, skewed, labels>>

(* What is logged with the registers.                                      *)
Label == IF state = "ENTERING_SYSCALL" THEN "entering" ELSE "exiting"

(* A stop with SIGTRAP is logged and does not change the state.            *)
waitTrap ==
  /\ mode = "wait" /\ stop = "SIGTRAP"
  /\ mode' = "resume"
  /\ UNCHANGED <<state, request, stop, traceeVars, skewed, labels>>

(* The state after a stop at a syscall.  Mutant: the exit is not awaited.  *)
syscallState_no_exit == start_state

syscallState == IF state = "ENTERING_SYSCALL" THEN "EXITING_SYSCALL" ELSE start_state

(* A stop at the entry or the exit of a syscall: the assertion, and the    *)
(* next state.                                                             *)
waitSyscall ==
  /\ mode = "wait" /\ stop \in {"entry", "exit"}
  /\ labels' = Append(labels, Label)
  /\ IF state = "TRAPPING_SECCOMP" THEN mode' = "aborted" /\ UNCHANGED state
     ELSE mode' = "resume" /\ state' = syscallState
  /\ UNCHANGED <<request, stop, traceeVars, skewed>>
------------------------------------------------------------------------------
(* The tracee and the kernel.  The child stops itself before it execs.     *)
childStops ==
  /\ run = "started"
  /\ run' = "user" /\ stop' = "SIGSTOP"
  /\ UNCHANGED <<tracerVars, request, call, filter, syscalls, signals, skewed,
                 labels>>

(* A syscall: to the filter, if there is one, and to the entry.            *)
makeSyscall(c) ==
  /\ run = "user" /\ stop = "none"
  /\ syscalls < MaxSyscalls \/ c = "exit"
  /\ filter = "absent" => c \in {"exec", "exit", "other"}
  /\ c = "prctl" => filter = "preloaded"
  /\ call' = c
  /\ syscalls' = IF c = "exit" THEN syscalls ELSE syscalls + 1
  /\ run' = "entering"
  /\ stop' = IF filter = "installed" THEN "SECCOMP" ELSE "none"
  /\ labels' = <<>>
  /\ UNCHANGED <<tracerVars, request, filter, signals, skewed>>

enterSyscall ==
  /\ run = "entering" /\ stop = "none"
  /\ run' = "inside"
  /\ stop' = IF request = "SYSCALL" THEN "entry" ELSE "none"
  /\ UNCHANGED <<tracerVars, request, call, filter, syscalls, signals, skewed,
                 labels>>

(* What the syscall does.  exec and fork may fail; a library preloaded by  *)
(* exec installs the filter with prctl (ensure_filter).  The new process   *)
(* of a fork is traced too, but regtrace.c never waits for it.             *)
doSyscall ==
  /\ run = "inside" /\ stop = "none"
  /\ \/ /\ call \in {"exec", "fork", "prctl", "other"}
        /\ run' = "leaving" /\ stop' = "none"
     \/ /\ call = "exec" /\ run' = "leaving" /\ stop' = "EXEC"
     \/ /\ call = "fork" /\ run' = "leaving" /\ stop' = "FORK"
     \/ /\ call = "exit" /\ run' = "dying" /\ stop' = "EXIT"
  /\ filter' = CASE call = "prctl" -> "installed"
                 [] stop' = "EXEC" /\ filter = "absent" -> "preloaded"
                 [] OTHER -> filter
  /\ UNCHANGED <<tracerVars, request, call, syscalls, signals, skewed, labels>>

leaveSyscall ==
  /\ run = "leaving" /\ stop = "none"
  /\ run' = "user" /\ call' = "none"
  /\ stop' = CASE request = "SYSCALL" -> "exit"
               [] request = "SINGLESTEP" -> "SIGTRAP"
               [] OTHER -> "none"
  /\ UNCHANGED <<tracerVars, request, filter, syscalls, signals, skewed, labels>>

(* A step, after a signal.                                                 *)
singleStep ==
  /\ run = "user" /\ stop = "none" /\ request = "SINGLESTEP"
  /\ stop' = "SIGTRAP"
  /\ UNCHANGED <<tracerVars, request, traceeVars, skewed, labels>>

(* A signal for the tracee; if it is fatal the tracee dies when it has     *)
(* been resumed with the signal.                                           *)
signal ==
  /\ run = "user" /\ stop = "none" /\ signals < MaxSignals
  /\ signals' = signals + 1
  /\ stop' = "signal"
  /\ UNCHANGED <<tracerVars, request, run, call, filter, syscalls, skewed, labels>>

fatalSignal ==
  /\ run = "user" /\ stop = "none" /\ request = "SINGLESTEP"
  /\ run' = "dying" /\ stop' = "EXIT"
  /\ UNCHANGED <<tracerVars, request, call, filter, syscalls, signals, skewed,
                 labels>>

die ==
  /\ run = "dying" /\ stop = "none"
  /\ run' = "dead" /\ stop' = "dead"
  /\ UNCHANGED <<tracerVars, request, call, filter, syscalls, signals, skewed,
                 labels>>

(* SIGKILL ends the tracee wherever it is.                                 *)
kill ==
  /\ run # "dead" /\ signals < MaxSignals
  /\ signals' = signals + 1
  /\ run' = "dead" /\ stop' = "dead"
  /\ UNCHANGED <<tracerVars, request, call, filter, syscalls, skewed, labels>>

trace ==
  \/ firstWait \/ setOptions
  \/ resume \/ waitEvent \/ waitEnd \/ waitSignal \/ waitTrap \/ waitSyscall
kernel == childStops \/ enterSyscall \/ doSyscall \/ leaveSyscall \/ singleStep \/ die
program == (\E c \in Calls : makeSyscall(c)) \/ signal \/ fatalSignal \/ kill
Next == trace \/ kernel \/ program

Spec == Init /\ [][Next]_vars
FairSpec == Spec /\ WF_vars(trace) /\ WF_vars(kernel)
------------------------------------------------------------------------------
Modes == {"first", "options", "resume", "wait", "returned", "not stopped", "no options",
          "aborted"}
States == {"TRAPPING_SECCOMP", "ENTERING_SYSCALL", "EXITING_SYSCALL"}
Stops == Events \cup {"none", "SIGSTOP", "signal", "SIGTRAP", "entry", "exit", "dead"}
Places == {"started", "user", "entering", "inside", "leaving", "dying", "dead"}

(* The types of the variables.                                             *)
TypeOK ==
  /\ mode \in Modes /\ state \in States
  /\ request \in {"CONT", "SYSCALL", "SINGLESTEP"}
  /\ stop \in Stops /\ run \in Places
  /\ call \in Calls \cup {"none"}
  /\ filter \in {"absent", "preloaded", "installed"}
  /\ syscalls \in 0 .. MaxSyscalls /\ signals \in 0 .. MaxSignals
  /\ skewed \in BOOLEAN
  /\ labels \in Seq({"trap", "entering", "exiting"})

(* assert(ENTERING_SYSCALL == state || EXITING_SYSCALL == state): the      *)
(* tracee never stops at a syscall while the tracer waits for a trap, also *)
(* when a request failed because the tracee was still stepping.            *)
AssertionHolds == mode # "aborted"

(* A stop that passes the assertion gets the right label: the tracer knows *)
(* whether it sees the entry or the exit of a syscall, after any mixture   *)
(* of traps, execs and signals.  Only a fork event in the middle of a      *)
(* syscall turns the labels round, until the next trap.                    *)
LabelsRight ==
  mode = "wait" /\ ~skewed /\ state # "TRAPPING_SECCOMP" =>
    /\ stop = "entry" => state = "ENTERING_SYSCALL"
    /\ stop = "exit" => state = "EXITING_SYSCALL"

(* A syscall whose trap the tracer saw was logged at its entry and at its  *)
(* exit by the time the tracee runs its own code again.                    *)
CallLogged ==
  /\ run = "user" /\ stop # "exit" /\ ~skewed
  /\ labels # <<>> /\ labels[1] = "trap"
  => labels = <<"trap", "entering", "exiting">>

(* The tracer never waits for a tracee that is gone.  trace() returns if   *)
(* the tracee ends once its options are set, between whichever request and *)
(* waitpid; a tracee that is killed before leaves the tracer to its first  *)
(* assertion or to fatal(), which end it.                                  *)
TracerEnds ==
  /\ (run = "dead" /\ mode \in {"resume", "wait"}) ~> mode = "returned"
  /\ run = "dead" ~> mode \in {"returned", "not stopped", "no options"}
==============================================================================
