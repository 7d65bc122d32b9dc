------------------------------- MODULE Sysemu --------------------------------
(***************************************************************************)
(* sysemu.c: the parent takes its child through three emulated syscalls    *)
(* and a single step, and exits, which detaches the child.  No result of   *)
(* fork, waitpid or ptrace is checked, and the child may be killed at any  *)
(* time.  The clock functions enter the kernel, as on the i386 kernels the *)
(* program is written for.                                                 *)
(***************************************************************************)
EXTENDS Naturals, Sequences

VARIABLES
  start,     \* "traced", "refused" (another tracer has it) or "no_child"
  cst,       \* the child
  mode,      \* how it was last resumed
  executed,  \* its syscalls that were executed
  next,      \* the one it comes to next
  parent_at,       \* the parent: "wait", "resume" or "done"
  round,     \* its waitpid calls that returned
  status_word     \* the status it prints

sysemuVars == <<start, cst, mode, executed, next, parent_at, round, status_word>>

(* The child's calls.  _exit falls back on exit if exit_group returns.     *)
Calls == <<"gettimeofday", "clock_gettime", "exit_group", "exit">>
Clocks == {"gettimeofday", "clock_gettime"}

SysemuInit(starts) ==
  /\ start \in starts /\ cst = IF start = "no_child" THEN "reaped" ELSE "start"
  /\ mode = "none" /\ executed = {}
  /\ next = 1 /\ parent_at = "wait" /\ round = 0 /\ status_word = "uninitialized"

(* The child asks to be traced and stops itself.  If it is not the         *)
(* parent's tracee the parent's waitpid, without WUNTRACED, misses it.     *)
child_starts ==
  /\ cst = "start"
  /\ cst' = IF start = "traced" THEN "stop" ELSE "untraced_stop"
  /\ UNCHANGED <<start, mode, executed, next, parent_at, round, status_word>>

(* The child comes to a syscall: it stops and the call is skipped, or the  *)
(* call is executed.                                                       *)
ChildCalls ==
  /\ cst = "running" /\ mode \in {"SYSEMU", "detached"}
  /\ next' = next + 1
  /\ IF mode = "SYSEMU" THEN cst' = "stop" /\ UNCHANGED executed
     ELSE /\ executed' = executed \cup {Calls[next]}
          /\ cst' = IF Calls[next] \in {"exit_group", "exit"} THEN "exited" ELSE cst
  /\ UNCHANGED <<start, mode, parent_at, round, status_word>>

ChildSteps ==
  /\ cst = "running" /\ mode = "SYSEMU_SINGLESTEP"
  /\ cst' = "stop"
  /\ UNCHANGED <<start, mode, executed, next, parent_at, round, status_word>>

ChildKilled ==
  /\ cst \notin {"exited", "killed", "reaped"}
  /\ cst' = "killed"
  /\ UNCHANGED <<start, mode, executed, next, parent_at, round, status_word>>

(* The requests between the waits.  Mutants: one is missing; one lets the  *)
(* child go.                                                               *)
Requests_missing == <<"SYSEMU", "SYSEMU", "none", "SYSEMU">>
Requests_let_go == <<"SYSEMU", "detached", "SYSEMU_SINGLESTEP", "SYSEMU">>
Requests == <<"SYSEMU", "SYSEMU", "SYSEMU_SINGLESTEP", "SYSEMU">>

(* waitpid and dump_status: after the child is reaped the call fails and   *)
(* the old status is printed again.  After the fifth the parent exits.     *)
ParentWaits ==
  /\ parent_at = "wait" /\ cst \in {"stop", "exited", "killed", "reaped"}
  /\ round' = round + 1
  /\ status_word' = IF cst = "reaped" THEN status_word ELSE cst
  /\ parent_at' = IF round = Len(Requests) THEN "done" ELSE "resume"
  /\ \/ cst = "stop" /\ round = Len(Requests) /\ cst' = "running" /\ mode' = "detached"
     \/ cst = "stop" /\ round < Len(Requests) /\ UNCHANGED <<cst, mode>>
     \/ cst # "stop" /\ cst' = "reaped" /\ UNCHANGED mode
  /\ UNCHANGED <<start, executed, next>>

(* The request fails on a child that is not stopped.                       *)
ParentResumes ==
  /\ parent_at = "resume" /\ parent_at' = "wait"
  /\ IF cst = "stop" THEN cst' = "running" /\ mode' = Requests[round]
     ELSE UNCHANGED <<cst, mode>>
  /\ UNCHANGED <<start, executed, next, round, status_word>>

SysemuNext ==
  child_starts \/ ChildCalls \/ ChildSteps \/ ChildKilled \/ ParentWaits \/ ParentResumes

SysemuSpec ==
  SysemuInit({"traced", "refused", "no_child"}) /\ [][SysemuNext]_sysemuVars
------------------------------------------------------------------------------
(* The clocks are never read: both calls are emulated, and the child is    *)
(* let go only after them.  The parent prints a status that some waitpid   *)
(* gave it, unless fork failed.                                            *)
ClocksEmulated ==
  /\ executed \cap Clocks = {}
  /\ round > 0 /\ start # "no_child" => status_word # "uninitialized"

(* The parent and a child it may trace both end, wherever the child is     *)
(* killed: neither waits for the other forever.  A child that is refused   *)
(* stays stopped, and the parent waits for it.                             *)
SysemuEnds ==
  start # "refused" => <>(parent_at = "done" /\ cst \in {"exited", "killed", "reaped"})
==============================================================================
