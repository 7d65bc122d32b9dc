------------------------------ MODULE RpcSyscall ------------------------------
(***************************************************************************)
(* rpc_syscall.c: a tracee asks its tracer for a system call by making one *)
(* that does not exist (SYS_rpc); the tracer answers by making the tracee  *)
(* execute write() in its own name, Injections times, through a stub       *)
(* instruction, and then lets it return from the rpc with 0.               *)
(*                                                                         *)
(* The child's code, as compiled without optimization: "rpc" int $0x80,    *)
(* "store" ret = eax, "stub" int $0x80, then the rest of the program.      *)
(***************************************************************************)
EXTENDS Integers

CONSTANT Injections        \* 5 in the code

ASSUME InjectionsOK == Injections \in Nat

VARIABLES
  rpc_at,    \* where the parent is
  j,         \* its loop counter
  regs, callregs,     \* register sets of the parent: eip, eax and orig_eax
  status,    \* what waitpid reported last
  cregs,     \* registers of the child
  ret,       \* the child's variable
  stopped,   \* "run", "signal", "entry", "exit" or "dead"
  resumed,   \* how the child was resumed last
  ring,      \* the child is in "user" or in "kernel" mode: inside a system call
  writes     \* history: write() calls the kernel executed for the child

rpcParentVars == <<rpc_at, j, regs, callregs, status>>
rpcChildVars == <<cregs, ret, stopped, resumed, ring, writes>>
rpcVars == <<rpcParentVars, rpcChildVars>>

SYS_rpc == -42
SYS_write == 4
ENOSYS == 38
Stops == {"signal", "entry", "exit"}
Garbage == [eip |-> "unknown", eax |-> 0, orig_eax |-> 0]   \* uninitialized

RpcInit ==
  /\ rpc_at = "skip" /\ j = 0 /\ status = "none"
  /\ regs \in {Garbage, [Garbage EXCEPT !.orig_eax = SYS_rpc]} /\ callregs = Garbage
  /\ cregs = [eip |-> "raise", eax |-> 0, orig_eax |-> -1]
  /\ ret = 0 /\ stopped = "run" /\ resumed = "CONT" /\ ring = "user"
  /\ writes = 0
------------------------------------------------------------------------------
(* ptrace requests.  They fail, unnoticed, unless the child has stopped.   *)
Stopped == stopped \in Stops

RpcResume(req, next) ==
  /\ rpc_at' = next
  /\ IF Stopped THEN stopped' = "run" /\ resumed' = req
     ELSE UNCHANGED <<stopped, resumed>>

SetRegs(r) == cregs' = IF Stopped THEN r ELSE cregs
GetRegs(old) == IF Stopped THEN cregs ELSE old

(* waitpid: for the next stop, or the end; it fails at once after the end. *)
Wait == stopped # "run" /\ status' = stopped

(* The parent.  A request and the waitpid that follows are two steps.      *)
skipSignal ==
  /\ rpc_at = "skip" /\ RpcResume("CONT", "wait skip")
  /\ UNCHANGED <<j, regs, callregs, status, cregs, ret, ring, writes>>

(* ptrace(PTRACE_SYSCALL), on its own.                                     *)
Advance == [first |-> "wait first", exit |-> "wait exit", finish |-> "wait finish",
            stub |-> "wait stub", loop |-> "wait loop"]

advance ==
  /\ rpc_at \in DOMAIN Advance /\ RpcResume("SYSCALL", Advance[rpc_at])
  /\ UNCHANGED <<j, regs, callregs, status, cregs, ret, ring, writes>>

(* The rpc is recognized by its number.                                    *)
waitFirst ==
  /\ \/ rpc_at = "wait skip" /\ rpc_at' = "first" /\ UNCHANGED regs
     \/ /\ rpc_at = "wait first" /\ regs' = GetRegs(regs)
        /\ rpc_at' = IF regs'.orig_eax = SYS_rpc THEN "exit" ELSE "loop"
  /\ Wait
  /\ UNCHANGED <<j, callregs, rpcChildVars>>

(* At the exit of the rpc: the registers to return with, and to call with. *)
waitExit ==
  /\ rpc_at = "wait exit" /\ Wait
  /\ regs' = [GetRegs(regs) EXCEPT !.eax = 0]
  /\ callregs' = regs'
  /\ j' = 0 /\ rpc_at' = "inject"
  /\ UNCHANGED rpcChildVars

(* The registers for an artificial syscall.  Mutant: wherever the child is.*)
artificial_here == [cregs EXCEPT !.eax = SYS_write]

artificial == [callregs EXCEPT !.eax = SYS_write]

(* The loop's condition.                                                   *)
more == j < Injections

inject ==
  /\ rpc_at = "inject" /\ more
  /\ SetRegs(artificial)
  /\ callregs' = [artificial EXCEPT !.eip = regs.eip]
  /\ RpcResume("SYSCALL", "wait enter")
  /\ UNCHANGED <<j, regs, status, ret, ring, writes>>

waitEnter ==
  /\ rpc_at = "wait enter" /\ Wait /\ rpc_at' = "finish"
  /\ UNCHANGED <<j, regs, callregs, rpcChildVars>>

waitFinish ==
  /\ rpc_at = "wait finish" /\ Wait /\ rpc_at' = "inject" /\ j' = j + 1
  /\ UNCHANGED <<regs, callregs, rpcChildVars>>

(* The registers are restored, and the stub runs once more.                *)
restore ==
  /\ rpc_at = "inject" /\ ~more
  /\ SetRegs(regs)
  /\ RpcResume("SYSCALL", "wait restore")
  /\ UNCHANGED <<j, regs, callregs, status, ret, ring, writes>>

waitStub ==
  /\ \/ rpc_at = "wait restore" /\ rpc_at' = "stub"
     \/ rpc_at = "wait stub" /\ rpc_at' = "loop"
  /\ Wait
  /\ UNCHANGED <<j, regs, callregs, rpcChildVars>>

(* dump_status tells whether the child is still there.                     *)
rpc_dump_status(s) == s # "dead"

waitLoop ==
  /\ rpc_at = "wait loop" /\ Wait
  /\ regs' = GetRegs(regs)
  /\ rpc_at' = IF rpc_dump_status(status') THEN "loop" ELSE "done"
  /\ UNCHANGED <<j, callregs, rpcChildVars>>
------------------------------------------------------------------------------
(* The child, while it runs: PTRACE_TRACEME and raise(SIGSTOP) first.      *)
rpc_raise ==
  /\ cregs.eip = "raise" /\ stopped' = "signal"
  /\ cregs' = [cregs EXCEPT !.eip = "rpc"]
  /\ UNCHANGED <<rpcParentVars, ret, resumed, ring, writes>>

store ==
  /\ stopped = "run" /\ cregs.eip = "store" /\ ring = "user"
  /\ ret' = cregs.eax /\ cregs' = [cregs EXCEPT !.eip = "stub"]
  /\ UNCHANGED <<rpcParentVars, stopped, resumed, ring, writes>>

(* int $0x80: the number is SYS_rpc, what is in eax at the stub, and write *)
(* or exit_group in the rest of the program.                               *)
rpcEnterSyscall ==
  /\ stopped = "run" /\ ring = "user"
  /\ cregs.eip \in {"rpc", "stub", "print", "exit"}
  /\ ring' = "kernel"
  /\ cregs' = [cregs EXCEPT !.orig_eax = CASE cregs.eip = "rpc" -> SYS_rpc
                                         [] cregs.eip = "print" -> SYS_write
                                         [] cregs.eip = "exit" -> 252
                                         [] OTHER -> cregs.eax,
                          !.eax = -ENOSYS]
  /\ stopped' = IF resumed = "SYSCALL" THEN "entry" ELSE "run"
  /\ UNCHANGED <<rpcParentVars, ret, resumed, writes>>

After == [rpc |-> "store", stub |-> "print", print |-> "exit"]

(* write returns 3, restart_syscall (0) -EINTR, and any other fails.       *)
rpcLeaveSyscall ==
  /\ stopped = "run" /\ ring = "kernel" /\ cregs.eip # "exit"
  /\ ring' = "user"
  /\ cregs' = [cregs EXCEPT !.eip = After[@],
                          !.eax = CASE cregs.orig_eax = SYS_write -> 3
                                    [] cregs.orig_eax = 0 -> -4 [] OTHER -> -ENOSYS]
  /\ writes' = IF cregs.eip = "stub" /\ cregs.orig_eax = SYS_write
               THEN writes + 1 ELSE writes
  /\ stopped' = IF resumed = "SYSCALL" THEN "exit" ELSE "run"
  /\ UNCHANGED <<rpcParentVars, ret, resumed>>

exitGroup ==
  /\ stopped = "run" /\ ring = "kernel" /\ cregs.eip = "exit"
  /\ stopped' = "dead"
  /\ UNCHANGED <<rpcParentVars, cregs, ret, resumed, ring, writes>>

rpcParent ==
  \/ skipSignal \/ advance \/ waitFirst \/ waitExit \/ inject \/ waitEnter
  \/ waitFinish \/ restore \/ waitStub \/ waitLoop
rpcChild == rpc_raise \/ store \/ rpcEnterSyscall \/ rpcLeaveSyscall \/ exitGroup
RpcNext == rpcParent \/ rpcChild

RpcSpec == RpcInit /\ [][RpcNext]_rpcVars /\ WF_rpcVars(rpcParent) /\ WF_rpcVars(rpcChild)
------------------------------------------------------------------------------
(* The child gets its answer completely or not at all: when it prints the  *)
(* result, all calls were made on its behalf and the rpc returned 0, or    *)
(* none was made and it returned the kernel's error.  This takes the       *)
(* registers to be set up again before each call, and restored at the end. *)
RpcAllOrNothing ==
  cregs.eip \in {"print", "exit"} /\ stopped = "run" /\ ring = "user" =>
    \/ ret = 0 /\ writes = Injections
    \/ ret = -ENOSYS /\ writes = 0

(* The parent gives up only when the child is gone, and it does: no        *)
(* waitpid waits for a stop that does not come.                            *)
RpcParentEnds == <>[](rpc_at = "done" /\ stopped = "dead")
==============================================================================
