---------------------------- MODULE TracingProofs ----------------------------
(***************************************************************************)
(* Three programs that trace a process with ptrace.                        *)
(*                                                                         *)
(*  - notify_desched.c, for any number of writes: its tracer observes at   *)
(*    most one descheduling each time the counter is armed.                *)
(*  - rpc_syscall.c, for any number of injected calls: either the child is *)
(*    served as a whole or it goes on as if nobody traced it.              *)
(*  - sysemu.c: the child's clocks are never read.                         *)
(***************************************************************************)
EXTENDS NotifyDesched, RpcSyscall, Sysemu, TLAPS

(* notify_desched.c.                                                       *)

(* The counters: inside the loop of spam_io its own has not run out.       *)
CountsInv ==
  /\ armed \in Nat /\ nr_observed_descheds \in Nat
  /\ i \in -1 .. io_ticks - 1
  /\ at \in {"arm", "write", "disarm"} => i >= 0

(* The counters stay in their ranges.                                      *)
LEMMA CountsKept == Spec => []CountsInv
<1>1. Init => CountsInv
  BY TicksOK DEF Init, CountsInv
<1>2. CountsInv /\ [Next]_vars => CountsInv'
  <2> SUFFICES ASSUME CountsInv, [Next]_vars PROVE CountsInv'
    BY Zenon
  <2>1. CASE parent
    <3>1. /\ UNCHANGED <<at, i, armed>>
          /\ \/ nr_observed_descheds' = nr_observed_descheds
             \/ nr_observed_descheds' = nr_observed_descheds + 1
      BY Zenon, <2>1 DEF parent, recv_fd, resume, waitpid, desched
    <3>2. QED
      BY <3>1 DEF CountsInv
  <2>2. CASE devnull
    BY Zenon, <2>2 DEF devnull, leaveSyscall, loop, parentVars, CountsInv
  <2>3. CASE arm_desched_notification
    BY <2>3 DEF arm_desched_notification, leaveSyscall, parentVars, CountsInv
  <2>4. CASE write
    BY Zenon, <2>4 DEF write, leaveSyscall, parentVars, CountsInv
  <2>5. CASE disarm_desched_notification
    <3>1. /\ UNCHANGED <<armed, nr_observed_descheds>>
          /\ i >= 0 /\ i' = i - 1 /\ at' = loop(i')
      BY Zenon, <2>5
         DEF disarm_desched_notification, leaveSyscall, parentVars, CountsInv
    <3>2. i' >= 0 \/ at' = "close"
      BY Zenon, <3>1 DEF loop, CountsInv
    <3>3. QED
      BY <3>1, <3>2, TicksOK DEF CountsInv
  <2>6. CASE open_counter \/ send_fd \/ raise \/ enterSyscall \/ exit
    BY Zenon, <2>6
       DEF open_counter, send_fd, raise, enterSyscall, exit, parentVars, CountsInv
  <2>7. CASE leaveCpu \/ takeSignal \/ preempt \/ UNCHANGED vars
    BY Zenon, <2>7 DEF leaveCpu, takeSignal, preempt, vars, parentVars, CountsInv
  <2>8. QED
    BY Zenon, <2>1, <2>2, <2>3, <2>4, <2>5, <2>6, <2>7 DEF Next, child
<1>3. QED
  BY <1>1, <1>2, PTL DEF Spec

(* The part of the type invariant that is not about counters.              *)
Places ==
  /\ ppc \in ParentPlace /\ at \in ChildPlace /\ stop \in StopReason
  /\ request \in {"CONT", "SYSCALL"}
  /\ level \in {"user", "kernel"} /\ cpu \in {"on", "off"}
  /\ socket \in {"empty", "fd"} /\ counter \in {"enabled", "disabled"}
  /\ pending \in {"none", "SIGIO"}

(* Tracer, child and kernel are always in one of their known places.       *)
LEMMA PlacesKept == Spec => []Places
<1>1. Init => Places
  BY Zenon DEF Init, Places, ParentPlace, ChildPlace, StopReason
<1>2. Places /\ [Next]_vars => Places'
  <2> SUFFICES ASSUME Places, [Next]_vars PROVE Places'
    BY Zenon
  <2> USE DEF Places, parentVars, cpuVars
  <2>1. CASE recv_fd
    BY Zenon, <2>1 DEF recv_fd, ParentPlace
  <2>2. CASE resume
    BY Zenon, <2>2 DEF resume, Resume, Asking, ParentPlace, StopReason
  <2>3. CASE waitpid
    <3>1. ppc' \in ParentPlace
      BY Zenon, <2>3 DEF waitpid, Asking, ParentPlace
    <3>2. QED
      BY Zenon, <2>3, <3>1 DEF waitpid
  <2>4. CASE desched
    BY Zenon, <2>4 DEF desched, disable_counter, Asking, ParentPlace
  <2>5. CASE open_counter \/ send_fd \/ raise
    BY Zenon, <2>5 DEF open_counter, send_fd, raise, Stop, ChildPlace, StopReason
  <2>6. CASE enterSyscall
    BY Zenon, <2>6 DEF enterSyscall, SyscallStop, Stop, StopReason
  <2>7. CASE devnull
    BY Zenon, <2>7
       DEF devnull, leaveSyscall, loop, SyscallStop, Stop, ChildPlace, StopReason
  <2>8. CASE arm_desched_notification
    BY Zenon, <2>8
       DEF arm_desched_notification, leaveSyscall, SyscallStop, Stop, ChildPlace,
       StopReason
  <2>9. CASE write
    BY Zenon, <2>9 DEF write, leaveSyscall, SyscallStop, Stop, ChildPlace, StopReason
  <2>10. CASE disarm_desched_notification
    BY Zenon, <2>10
       DEF disarm_desched_notification, leaveSyscall, loop, SyscallStop, Stop,
       ChildPlace, StopReason
  <2>11. CASE exit \/ preempt \/ takeSignal
    BY Zenon, <2>11 DEF exit, preempt, takeSignal, Stop, ChildPlace, StopReason
  <2>12. CASE leaveCpu
    <3>1. pending' \in {"none", "SIGIO"} /\ cpu' \in {"on", "off"}
      BY Zenon, <2>12 DEF leaveCpu
    <3>2. QED
      BY Zenon, <2>12, <3>1 DEF leaveCpu
  <2>13. CASE UNCHANGED vars
    BY Zenon, <2>13 DEF vars
  <2>14. QED
    BY Zenon, <2>1, <2>2, <2>3, <2>4, <2>5, <2>6, <2>7, <2>8, <2>9, <2>10, <2>11, <2>12,
       <2>13, Zenon DEF Next, parent, child
<1>3. QED
  BY <1>1, <1>2, PTL DEF Spec

(* The model of notify_desched.c is well typed.                            *)
THEOREM DeschedTypes == Spec => []TypeOK
<1>1. CountsInv /\ Places => TypeOK
  BY Zenon DEF CountsInv, Places, TypeOK
<1>2. QED
  BY <1>1, CountsKept, PlacesKept, PTL

(* Between the first SIGIO and the stop that ends the wait for the second, *)
(* a pending signal may be one that was already counted.                   *)
Skipping == ppc \in {"skip", "aborted"} \/ (ppc = "second wait" /\ stop # "SIGIO")

(* An enabled counter, a signal still to be reported and one about to be   *)
(* counted belong to an arming that was not counted yet.                   *)
CreditInv ==
  /\ nr_observed_descheds <= armed
  /\ \/ counter = "enabled" \/ (pending = "SIGIO" /\ ~Skipping) \/ ppc = "disable"
     \/ (ppc = "wait" /\ stop = "SIGIO")
     => nr_observed_descheds < armed

(* The strengthening is inductive.                                         *)
LEMMA CreditKept == Spec => []CreditInv
<1>1. Init => CreditInv
  BY DEF Init, CreditInv
<1>2. TypeOK /\ CreditInv /\ [Next]_vars => CreditInv'
  <2> SUFFICES ASSUME TypeOK, CreditInv, [Next]_vars PROVE CreditInv'
    BY Zenon
  <2>0. nr_observed_descheds \in Nat /\ armed \in Nat
    BY Zenon DEF TypeOK
  <2>1. CASE recv_fd
    BY Zenon, <2>1, <2>0 DEF CreditInv, Skipping, parentVars, cpuVars,
       recv_fd
  <2>2. CASE resume
    BY Zenon, <2>2, <2>0 DEF CreditInv, Skipping, parentVars, cpuVars,
       resume, Resume, Asking
  <2>3. CASE waitpid
    BY Zenon, <2>3, <2>0 DEF CreditInv, Skipping, parentVars, cpuVars,
       waitpid, dump_status
  <2>4. CASE desched
    BY <2>4, <2>0 DEF CreditInv, Skipping, parentVars, cpuVars,
       desched, disable_counter
  <2>5. CASE open_counter \/ send_fd \/ raise
    BY Zenon, <2>5, <2>0 DEF CreditInv, Skipping, parentVars, cpuVars,
       open_counter, send_fd, raise, Stop
  <2>6. CASE enterSyscall
    BY Zenon, <2>6, <2>0 DEF CreditInv, Skipping, parentVars, cpuVars,
       enterSyscall, SyscallStop, Stop
  <2>7. CASE devnull \/ write
    BY Zenon, <2>7, <2>0 DEF CreditInv, Skipping, parentVars, cpuVars,
       devnull, write, leaveSyscall, SyscallStop, Stop
  <2>8. CASE arm_desched_notification
    <3>1. armed' = armed + 1 /\ nr_observed_descheds' = nr_observed_descheds
      BY Zenon, <2>8 DEF arm_desched_notification, leaveSyscall, parentVars
    <3>2. nr_observed_descheds <= armed
      BY Zenon DEF CreditInv
    <3>3. nr_observed_descheds' < armed' /\ nr_observed_descheds' <= armed'
      BY <2>0, <3>1, <3>2
    <3>4. QED
      BY Zenon, <3>3 DEF CreditInv
  <2>9. CASE disarm_desched_notification
    BY Zenon, <2>9, <2>0 DEF CreditInv, Skipping, parentVars, cpuVars,
       disarm_desched_notification, leaveSyscall, SyscallStop, Stop
  <2>10. CASE exit \/ preempt
    BY Zenon, <2>10, <2>0 DEF CreditInv, Skipping, parentVars, cpuVars,
       exit, preempt, Stop
  <2>11. CASE takeSignal
    BY Zenon, <2>11, <2>0 DEF CreditInv, Skipping, parentVars, cpuVars,
       takeSignal, Stop, Runs
  <2>12. CASE leaveCpu
    BY Zenon, <2>12, <2>0 DEF CreditInv, Skipping, parentVars, cpuVars,
       leaveCpu
  <2>13. CASE UNCHANGED vars
    BY Zenon, <2>13 DEF CreditInv, Skipping, vars, parentVars, cpuVars
  <2>14. QED
    BY Zenon, <2>1, <2>2, <2>3, <2>4, <2>5, <2>6, <2>7, <2>8, <2>9, <2>10, <2>11, <2>12,
       <2>13, Zenon DEF Next, parent, child
<1>3. QED
  BY <1>1, <1>2, DeschedTypes, PTL DEF Spec

(* No more deschedulings are counted than the counter was armed.           *)
THEOREM DeschedObservedOnce == Spec => []ObservedOncePerArm
<1>1. CreditInv => ObservedOncePerArm
  BY Zenon DEF CreditInv, ObservedOncePerArm
<1>2. QED
  BY <1>1, CreditKept, PTL
------------------------------------------------------------------------------
(* rpc_syscall.c.                                                          *)

(* The addresses of the child that matter, and its registers.              *)
Addresses == {"unknown", "raise", "rpc", "store", "stub", "print", "exit"}
Registers == [eip : Addresses, eax : Int, orig_eax : Int]

(* The types the invariant needs.                                          *)
RpcTypes ==
  /\ j \in Nat /\ writes \in Nat
  /\ regs \in Registers /\ callregs \in Registers /\ cregs \in Registers
  /\ ring \in {"user", "kernel"}

(* The child on its own: its rpc fails, and so does what the stub repeats. *)
Alone ==
  \/ cregs.eip = "rpc" /\ (ring = "kernel" => cregs.orig_eax = SYS_rpc)
  \/ cregs.eip = "store" /\ ring = "user" /\ cregs.eax = -ENOSYS
  \/ /\ cregs.eip = "stub" /\ ret = -ENOSYS
     /\ (ring = "kernel" => cregs.orig_eax = -ENOSYS) /\ (ring = "user" => cregs.eax = -ENOSYS)
  \/ cregs.eip \in {"print", "exit"} /\ ret = -ENOSYS

(* The parent resumed the child before it had stopped, and cannot reach it *)
(* any more.                                                               *)
Unserved ==
  /\ resumed = "CONT" /\ writes = 0
  /\ \/ cregs.eip = "raise" /\ stopped = "run" /\ ring = "user" /\ rpc_at \in {"skip", "wait skip"}
     \/ /\ cregs.eip = "rpc" /\ stopped = "signal" /\ ring = "user"
        /\ rpc_at \in {"skip", "wait skip", "first"}
     \/ stopped = "run" /\ rpc_at = "wait skip" /\ Alone
     \/ stopped = "dead" /\ cregs.eip = "exit"

(* The parent waits for the child to come to its rpc.                      *)
Asked ==
  /\ writes = 0
  /\ \/ rpc_at = "wait first" /\ stopped = "run" /\ ring = "user" /\ cregs.eip = "rpc"
     \/ /\ rpc_at \in {"wait first", "exit"} /\ stopped = "entry"
        /\ ring = "kernel" /\ cregs.eip = "rpc" /\ cregs.orig_eax = SYS_rpc
     \/ /\ rpc_at = "wait exit" /\ stopped = "run"
        /\ ring = "kernel" /\ cregs.eip = "rpc" /\ cregs.orig_eax = SYS_rpc
     \/ rpc_at = "wait exit" /\ stopped = "exit" /\ ring = "user" /\ cregs.eip = "store"

(* The j'th injected call; the child starts each one at "store".           *)
Injecting ==
  /\ regs.eip = "store" /\ regs.eax = 0 /\ callregs.eip = "store"
  /\ \/ /\ rpc_at = "inject" /\ stopped = "exit" /\ ring = "user"
        /\ cregs.eip \in {"store", "print"} /\ writes = j /\ j <= Injections
     \/ /\ rpc_at = "wait enter" /\ stopped = "run" /\ ring = "user"
        /\ cregs.eip \in {"store", "stub"} /\ cregs.eax = SYS_write
        /\ writes = j /\ j < Injections
     \/ /\ rpc_at \in {"wait enter", "finish"} /\ stopped = "entry"
        /\ ring = "kernel" /\ cregs.eip = "stub" /\ cregs.orig_eax = SYS_write
        /\ writes = j /\ j < Injections
     \/ /\ rpc_at = "wait finish" /\ stopped = "run"
        /\ ring = "kernel" /\ cregs.eip = "stub" /\ cregs.orig_eax = SYS_write
        /\ writes = j /\ j < Injections
     \/ /\ rpc_at = "wait finish" /\ stopped = "exit" /\ ring = "user"
        /\ cregs.eip = "print" /\ writes = j + 1 /\ j < Injections

(* The registers are restored, and the stub runs into its own call.        *)
Restoring ==
  /\ writes = Injections
  /\ \/ /\ rpc_at = "wait restore" /\ stopped = "run" /\ ring = "user" /\ cregs.eax = 0
        /\ cregs.eip = "store" \/ (cregs.eip = "stub" /\ ret = 0)
     \/ /\ rpc_at \in {"wait restore", "stub"} /\ stopped = "entry"
        /\ ring = "kernel" /\ cregs.eip = "stub" /\ cregs.orig_eax = 0 /\ ret = 0
     \/ /\ rpc_at = "wait stub" /\ stopped = "run"
        /\ ring = "kernel" /\ cregs.eip = "stub" /\ cregs.orig_eax = 0 /\ ret = 0
     \/ /\ rpc_at = "wait stub" /\ stopped = "exit" /\ ring = "user"
        /\ cregs.eip = "print" /\ ret = 0

(* The child goes on with the answer.                                      *)
Answered ==
  /\ writes = Injections /\ ret = 0
  /\ rpc_at \in {"loop", "wait loop", "done"}
  /\ cregs.eip \in {"print", "exit"}

(* The child has been served, up to one of these points.                   *)
Served == resumed = "SYSCALL" /\ (Asked \/ Injecting \/ Restoring \/ Answered)

(* The inductive invariant: served or not, and never in between.           *)
RpcInv == RpcTypes /\ (Unserved \/ Served)

(* What the assignments to a register set leave in it.                     *)
LEMMA SetEip ==
  ASSUME NEW r \in Registers, NEW e \in Addresses
  PROVE /\ [r EXCEPT !.eip = e] \in Registers
        /\ [r EXCEPT !.eip = e].eip = e
        /\ [r EXCEPT !.eip = e].eax = r.eax
        /\ [r EXCEPT !.eip = e].orig_eax = r.orig_eax
BY Zenon DEF Registers

(* The same, for eax.                                                      *)
LEMMA SetEax ==
  ASSUME NEW r \in Registers, NEW a \in Int
  PROVE /\ [r EXCEPT !.eax = a] \in Registers
        /\ [r EXCEPT !.eax = a].eip = r.eip
        /\ [r EXCEPT !.eax = a].eax = a
        /\ [r EXCEPT !.eax = a].orig_eax = r.orig_eax
BY Zenon DEF Registers

(* The registers after entering and after leaving a system call.           *)
Entered(r, o, a) == [r EXCEPT !.orig_eax = o, !.eax = a]
Left(r, e, a) == [r EXCEPT !.eip = e, !.eax = a]

(* The same, for entering a system call.                                   *)
LEMMA SetEntry ==
  ASSUME NEW r \in Registers, NEW o \in Int, NEW a \in Int
  PROVE /\ Entered(r, o, a) \in Registers
        /\ Entered(r, o, a).eip = r.eip
        /\ Entered(r, o, a).eax = a
        /\ Entered(r, o, a).orig_eax = o
BY Zenon DEF Registers, Entered

(* The same, for leaving one.                                              *)
LEMMA SetExit ==
  ASSUME NEW r \in Registers, NEW e \in Addresses, NEW a \in Int
  PROVE /\ Left(r, e, a) \in Registers
        /\ Left(r, e, a).eip = e
        /\ Left(r, e, a).eax = a
        /\ Left(r, e, a).orig_eax = r.orig_eax
BY Zenon DEF Registers, Left

(* The numbers differ, and none is 0.                                      *)
LEMMA Numbers ==
  /\ SYS_rpc \in Int /\ SYS_write \in Int /\ -ENOSYS \in Int
  /\ SYS_rpc # SYS_write /\ -ENOSYS # SYS_write
  /\ SYS_rpc # 0 /\ SYS_write # 0 /\ -ENOSYS # 0
BY DEF SYS_rpc, SYS_write, ENOSYS

(* The requests of advance and where they lead.                            *)
LEMMA AdvanceFrom ==
  /\ DOMAIN Advance = {"first", "exit", "finish", "stub", "loop"}
  /\ Advance["first"] = "wait first" /\ Advance["exit"] = "wait exit"
  /\ Advance["finish"] = "wait finish" /\ Advance["stub"] = "wait stub"
  /\ Advance["loop"] = "wait loop"
BY Zenon DEF Advance

(* A step of the parent keeps the invariant.                               *)
LEMMA ParentKeeps == RpcInv /\ rpcParent => RpcInv'
<1> USE DEF RpcInv, RpcTypes
<1>0. SUFFICES ASSUME RpcInv, rpcParent PROVE RpcInv'
  BY Zenon
<1>1. CASE skipSignal
  BY Zenon, <1>0, <1>1, Numbers
     DEF skipSignal, RpcResume, Stopped, Stops, Unserved, Served, Asked, Injecting,
     Restoring, Answered, Alone
<1>2. CASE advance
  <2>1. CASE Unserved
    BY Zenon, <1>0, <1>2, <2>1, AdvanceFrom
       DEF advance, RpcResume, Stopped, Stops, Unserved, Served, Asked
  <2>2. CASE Served /\ Asked
    BY Zenon, <1>0, <1>2, <2>2, AdvanceFrom
       DEF advance, RpcResume, Stopped, Stops, Served, Asked
  <2>3. CASE Served /\ Injecting
    BY Zenon, <1>0, <1>2, <2>3, AdvanceFrom
       DEF advance, RpcResume, Stopped, Stops, Served, Injecting
  <2>4. CASE Served /\ Restoring
    BY Zenon, <1>0, <1>2, <2>4, AdvanceFrom
       DEF advance, RpcResume, Stopped, Stops, Served, Restoring
  <2>5. CASE Served /\ Answered
    BY Zenon, <1>0, <1>2, <2>5, AdvanceFrom
       DEF advance, RpcResume, Stopped, Stops, Served, Answered
  <2> QED BY Zenon, <1>0, <2>1, <2>2, <2>3, <2>4, <2>5 DEF Served
<1>3. CASE waitFirst
  BY Zenon, <1>0, <1>3
     DEF waitFirst, Wait, GetRegs, Stopped, Stops, rpcChildVars, Unserved, Served,
     Asked, Injecting, Restoring, Answered, Alone
<1>4. CASE waitExit
  <2>1. /\ regs' \in Registers /\ regs'.eax = 0 /\ regs'.eip = GetRegs(regs).eip
        /\ callregs' = regs'
    <3>1. GetRegs(regs) \in Registers /\ 0 \in Int
      BY <1>0 DEF GetRegs
    <3> QED BY Zenon, <1>0, <3>1, <1>4, SetEax DEF waitExit
  <2>2. /\ rpc_at = "wait exit" /\ stopped # "run" /\ j' = 0 /\ rpc_at' = "inject"
        /\ UNCHANGED <<cregs, ret, stopped, resumed, ring, writes>>
    BY Zenon, <1>0, <1>4 DEF waitExit, Wait, rpcChildVars
  <2>3. 0 <= Injections
    BY InjectionsOK
  <2> QED
    BY Zenon, <1>0, <2>1, <2>2, <2>3
       DEF GetRegs, Stopped, Stops, Unserved, Served, Asked, Injecting,
       Restoring, Answered
<1>5. CASE inject
  <2>1. /\ artificial \in Registers /\ artificial.eax = SYS_write
        /\ artificial.eip = callregs.eip
    BY Zenon, <1>0, Numbers, SetEax DEF artificial
  <2>2. callregs' \in Registers /\ callregs'.eip = regs.eip
    <3>1. regs.eip \in Addresses
      BY Zenon, <1>0 DEF Registers
    <3> QED BY Zenon, <1>0, <3>1, <2>1, <1>5, SetEip DEF inject
  <2>3. /\ rpc_at = "inject" /\ more /\ cregs' = IF Stopped THEN artificial ELSE cregs
        /\ RpcResume("SYSCALL", "wait enter")
        /\ UNCHANGED <<j, regs, status, ret, ring, writes>>
    BY Zenon, <1>0, <1>5 DEF inject, SetRegs
  <2> QED
    BY Zenon, <1>0, <2>1, <2>2, <2>3
       DEF more, RpcResume, Stopped, Stops, Unserved, Served, Asked,
       Injecting, Restoring, Answered
<1>6. CASE waitEnter
  BY Zenon, <1>0, <1>6
     DEF waitEnter, Wait, rpcChildVars, Unserved, Served, Asked, Injecting, Restoring,
     Answered, Alone
<1>10. CASE waitFinish
  <2>1. /\ rpc_at = "wait finish" /\ stopped # "run" /\ rpc_at' = "inject" /\ j' = j + 1
        /\ regs' = regs /\ callregs' = callregs /\ cregs' = cregs /\ ret' = ret
        /\ stopped' = stopped /\ resumed' = resumed /\ ring' = ring /\ writes' = writes
    BY Zenon, <1>10 DEF waitFinish, Wait, rpcChildVars
  <2>2. j \in Nat /\ j' = j + 1
    BY Zenon, <1>0, <1>10 DEF waitFinish
  <2>3. j' \in Nat
    BY <2>2
  <2>4. RpcTypes'
    BY Zenon, <1>0, <2>1, <2>3
  <2>5. CASE Unserved
    BY Zenon, <2>1, <2>4, <2>5 DEF Unserved
  <2>6. CASE Served
    <3>1. /\ regs.eip = "store" /\ regs.eax = 0 /\ callregs.eip = "store"
          /\ stopped = "exit" /\ ring = "user" /\ cregs.eip = "print"
          /\ writes = j + 1 /\ j < Injections /\ resumed = "SYSCALL"
      BY Zenon, <2>1, <2>6 DEF Served, Asked, Injecting, Restoring, Answered
    <3>2. writes = j + 1 /\ j < Injections /\ writes' = writes
      BY Zenon, <2>1, <3>1
    <3>3. writes' = j' /\ j' <= Injections
      BY <2>2, <3>2, InjectionsOK
    <3> QED BY Zenon, <2>1, <2>4, <3>1, <3>3 DEF Served, Injecting
  <2> QED BY Zenon, <1>0, <2>5, <2>6
<1>7. CASE restore
  <2>1. CASE Unserved
    BY Zenon, <1>0, <1>7, <2>1 DEF restore, SetRegs, RpcResume, Stopped, Stops, Unserved
  <2>2. CASE Served
    <3>1. /\ rpc_at = "inject" /\ ~(j < Injections) /\ cregs' = IF Stopped THEN regs ELSE cregs
          /\ RpcResume("SYSCALL", "wait restore")
          /\ j' = j /\ regs' = regs /\ callregs' = callregs /\ ret' = ret
          /\ ring' = ring /\ writes' = writes
      BY Zenon, <1>0, <1>7 DEF restore, more, SetRegs
    <3>2. Injecting /\ stopped = "exit" /\ writes = j /\ j <= Injections /\ ring = "user"
      BY Zenon, <1>0, <2>2, <3>1 DEF Served, Asked, Injecting, Restoring, Answered
    <3>3. j \in Nat /\ writes = j /\ j <= Injections /\ ~(j < Injections)
      BY Zenon, <1>0, <3>1, <3>2
    <3>4. writes = Injections
      BY <3>3, InjectionsOK
    <3> QED
      BY Zenon, <1>0, <2>2, <3>1, <3>2, <3>4
         DEF RpcResume, Stopped, Stops, Served, Injecting, Restoring
  <2> QED BY Zenon, <1>0, <2>1, <2>2
<1>8. CASE waitStub
  BY Zenon, <1>0, <1>8 DEF waitStub, Wait, rpcChildVars, Unserved, Served,
     Asked, Injecting, Restoring, Answered, Alone
<1>9. CASE waitLoop
  BY Zenon, <1>0, <1>9
     DEF waitLoop, rpc_dump_status, Wait, GetRegs, Stopped, Stops, rpcChildVars,
     Unserved, Served,
     Asked, Injecting, Restoring, Answered, Alone
<1> QED
  BY Zenon, <1>0, <1>1, <1>2, <1>3, <1>4, <1>5, <1>6, <1>7, <1>8, <1>9, <1>10
     DEF rpcParent

(* A step of the child keeps the invariant.                                *)
LEMMA ChildKeeps == RpcInv /\ rpcChild => RpcInv'
<1> USE DEF RpcInv, RpcTypes
<1>0. SUFFICES ASSUME RpcInv, rpcChild PROVE RpcInv'
  BY Zenon
<1>1. CASE rpc_raise
  <2>1. cregs' \in Registers /\ cregs'.eip = "rpc"
    <3>1. "rpc" \in Addresses
      BY Zenon DEF Addresses
    <3> QED BY Zenon, <1>0, <3>1, <1>1, SetEip DEF rpc_raise
  <2>2. /\ cregs.eip = "raise" /\ stopped' = "signal"
        /\ UNCHANGED <<rpc_at, j, regs, callregs, status, ret, resumed, ring, writes>>
    BY Zenon, <1>0, <1>1 DEF rpc_raise, rpcParentVars
  <2> QED
    BY Zenon, <1>0, <2>1, <2>2
       DEF Unserved, Served, Asked, Injecting, Restoring, Answered, Alone
<1>2. CASE store
  <2>1. cregs' \in Registers /\ cregs'.eip = "stub" /\ cregs'.eax = cregs.eax
    <3>1. "stub" \in Addresses
      BY Zenon DEF Addresses
    <3> QED BY Zenon, <1>0, <3>1, <1>2, SetEip DEF store
  <2>2. /\ stopped = "run" /\ cregs.eip = "store" /\ ring = "user" /\ ret' = cregs.eax
        /\ UNCHANGED <<rpc_at, j, regs, callregs, status, stopped, resumed, ring, writes>>
    BY Zenon, <1>0, <1>2 DEF store, rpcParentVars
  <2> QED
    BY Zenon, <1>0, <2>1, <2>2
       DEF Unserved, Served, Asked, Injecting, Restoring, Answered, Alone
<1>3. CASE rpcEnterSyscall
  <2> DEFINE no == CASE cregs.eip = "rpc" -> SYS_rpc [] cregs.eip = "print" -> SYS_write
                     [] cregs.eip = "exit" -> 252 [] OTHER -> cregs.eax
  <2>1. no \in Int /\ -ENOSYS \in Int
    <3>1. cregs.eax \in Int
      BY Zenon, <1>0 DEF Registers
    <3> QED BY <3>1, Numbers
  <2>2. /\ cregs' \in Registers /\ cregs'.eip = cregs.eip /\ cregs'.orig_eax = no
        /\ cregs'.eax = -ENOSYS
    <3>1. cregs' = Entered(cregs, no, -ENOSYS)
      BY Zenon, <1>0, <1>3 DEF rpcEnterSyscall, Entered
    <3> HIDE DEF no
    <3> QED BY <1>0, <2>1, <3>1, SetEntry
  <2>3. /\ stopped = "run" /\ ring = "user" /\ ring' = "kernel"
        /\ cregs.eip \in {"rpc", "stub", "print", "exit"}
        /\ stopped' = IF resumed = "SYSCALL" THEN "entry" ELSE "run"
        /\ UNCHANGED <<rpc_at, j, regs, callregs, status, ret, resumed, writes>>
    BY Zenon, <1>0, <1>3 DEF rpcEnterSyscall, rpcParentVars
  <2>4. CASE Unserved
    BY Zenon, <1>0, <2>2, <2>3, <2>4 DEF Unserved, Alone
  <2>5. CASE Served
    BY Zenon, <1>0, <2>2, <2>3, <2>5 DEF Served, Asked, Injecting, Restoring, Answered
  <2> QED BY Zenon, <1>0, <2>4, <2>5
<1>4. CASE rpcLeaveSyscall
  <2> DEFINE a == CASE cregs.orig_eax = SYS_write -> 3 [] cregs.orig_eax = 0 -> -4
                    [] OTHER -> -ENOSYS
  <2>0. After["rpc"] = "store" /\ After["stub"] = "print" /\ After["print"] = "exit"
    BY Zenon DEF After
  <2>1. /\ stopped = "run" /\ ring = "kernel" /\ cregs.eip # "exit" /\ ring' = "user"
        /\ writes' = IF cregs.eip = "stub" /\ cregs.orig_eax = SYS_write
                     THEN writes + 1 ELSE writes
        /\ stopped' = IF resumed = "SYSCALL" THEN "exit" ELSE "run"
        /\ UNCHANGED <<rpc_at, j, regs, callregs, status, ret, resumed>>
    BY Zenon, <1>0, <1>4 DEF rpcLeaveSyscall, rpcParentVars
  <2>2. cregs.eip \in {"rpc", "stub", "print"}
    BY Zenon, <1>0, <2>1
       DEF Unserved, Served, Asked, Injecting, Restoring, Answered, Alone
  <2>3. After[cregs.eip] \in Addresses /\ a \in Int
    BY <2>0, <2>2, Numbers DEF Addresses
  <2>4. cregs' \in Registers /\ cregs'.eip = After[cregs.eip] /\ cregs'.eax = a
    <3>1. cregs' = Left(cregs, After[cregs.eip], a)
      BY Zenon, <1>0, <1>4 DEF rpcLeaveSyscall, Left
    <3> HIDE DEF a
    <3> QED BY <1>0, <2>3, <3>1, SetExit
  <2>7. cregs.orig_eax \notin {SYS_write, 0} => a = -ENOSYS
    BY Zenon
  <2> HIDE DEF a
  <2>8. writes' \in Nat
    <3>1. writes \in Nat /\ (writes' = writes + 1 \/ writes' = writes)
      BY Zenon, <1>0, <2>1
    <3> QED BY <3>1
  <2>9. RpcTypes'
    BY Zenon, <1>0, <2>1, <2>4, <2>8
  <2>5. CASE Unserved
    BY Zenon, <2>0, <2>1, <2>2, <2>4, <2>5, <2>7, <2>9, Numbers DEF Unserved, Alone
  <2>6. CASE Served
    <3>1. CASE Asked \/ Restoring \/ Answered
      BY Zenon, <2>0, <2>1, <2>2, <2>4, <2>6, <2>9, <3>1, Numbers
         DEF Served, Asked, Restoring, Answered
    <3>2. CASE Injecting
      <4>1. j < Injections /\ writes' = writes + 1 /\ writes = j
        BY Zenon, <2>1, <3>2 DEF Injecting
      <4>2. writes' = j + 1
        BY Zenon, <4>1
      <4> QED BY Zenon, <2>0, <2>1, <2>2, <2>4, <2>6, <2>9, <3>2, <4>1, <4>2 DEF Served, Injecting
    <3> QED BY Zenon, <2>6, <3>1, <3>2 DEF Served
  <2> QED BY Zenon, <1>0, <2>5, <2>6
<1>5. CASE exitGroup
  BY Zenon, <1>0, <1>5
     DEF exitGroup, rpcParentVars, Unserved, Served, Asked, Injecting, Restoring,
     Answered,
     Alone
<1> QED
  BY Zenon, <1>0, <1>1, <1>2, <1>3, <1>4, <1>5 DEF rpcChild

(* rpc_syscall.c, for any number of injected calls and whichever of the    *)
(* child's first stop and the parent's first request comes first: the      *)
(* child gets all calls and 0, or none and an error.                       *)
THEOREM RpcServedOrNot == RpcSpec => []RpcAllOrNothing
<1>1. RpcInit => RpcInv
  BY InjectionsOK
     DEF RpcInit, RpcInv, RpcTypes, Registers, Addresses, Garbage, SYS_rpc, Unserved
<1>2. RpcInv /\ [RpcNext]_rpcVars => RpcInv'
  <2>1. RpcInv /\ UNCHANGED rpcVars => RpcInv'
    BY Zenon DEF rpcVars, rpcParentVars, rpcChildVars, RpcInv, RpcTypes, Unserved, Served, Asked,
       Injecting, Restoring, Answered, Alone
  <2> QED BY Zenon, <2>1, ParentKeeps, ChildKeeps DEF RpcNext
<1>3. RpcInv => RpcAllOrNothing
  BY Zenon, InjectionsOK
     DEF RpcInv, RpcTypes, Unserved, Served, Asked, Injecting, Restoring, Answered,
     Alone, RpcAllOrNothing, ENOSYS
<1> QED BY <1>1, <1>2, <1>3, PTL DEF RpcSpec
------------------------------------------------------------------------------
(* sysemu.c.                                                               *)

(* The child after its end.                                                *)
Ended == {"exited", "killed", "reaped"}

(* The call the child comes to after r requests: the third is a step.      *)
Reached(r, n) ==
  (r \in 0 .. 2 /\ n = r + 1) \/ (r \in 3 .. 4 /\ n = r)

(* Parent and child go in step until one of them ends: the child stops     *)
(* before its next call, or after one instruction, and waits for a request.*)
InStep ==
  \/ cst \in {"start", "untraced_stop"} /\ parent_at = "wait" /\ round = 0 /\ next = 1
  \/ cst = "stop" /\ parent_at = "wait" /\ Reached(round, next)
  \/ cst = "stop" /\ parent_at = "resume" /\ Reached(round - 1, next) /\ round < 5
  \/ /\ cst = "running" /\ parent_at = "wait" /\ Reached(round - 1, next) /\ round < 5
     /\ mode = IF round = 3 THEN "SYSEMU_SINGLESTEP" ELSE "SYSEMU"
  \/ cst = "running" /\ parent_at = "done" /\ mode = "detached" /\ next = 4

(* No clock was read, the parent has a status to print once it has waited  *)
(* for a child, and the two are in step unless the child has ended.        *)
SysemuInv ==
  /\ executed \cap Clocks = {}
  /\ round \in Nat
  /\ (round = 0) => cst # "reaped" \/ start = "no_child"
  /\ round > 0 /\ start # "no_child" => status_word # "uninitialized"
  /\ cst \in Ended \/ InStep

(* The third request is the single step.                                   *)
LEMMA RequestOf ==
  ASSUME NEW r \in 1 .. 4
  PROVE  Requests[r] = IF r = 3 THEN "SYSEMU_SINGLESTEP" ELSE "SYSEMU"
  BY DEF Requests

(* Every step of the child and of its parent keeps the invariant.          *)
LEMMA SysemuStep == SysemuInv /\ [SysemuNext]_sysemuVars => SysemuInv'
<1> SUFFICES ASSUME SysemuInv, [SysemuNext]_sysemuVars PROVE SysemuInv'
  BY Zenon
<1>1. CASE child_starts
  <2>1. parent_at = "wait" /\ round = 0 /\ next = 1
    BY Zenon, <1>1 DEF child_starts, SysemuInv, InStep, Ended
  <2>2. cst' \in {"stop", "untraced_stop"}
    BY Zenon, <1>1 DEF child_starts
  <2>3. InStep'
    BY <1>1, <2>1, <2>2 DEF child_starts, InStep, Reached
  <2>4. QED
    BY Zenon, <1>1, <2>1, <2>2, <2>3 DEF child_starts, SysemuInv
<1>2. CASE ChildCalls
  <2>1. CASE mode = "SYSEMU"
    BY <1>2, <2>1 DEF ChildCalls, SysemuInv, InStep, Ended, Reached
  <2>2. CASE mode = "detached"
    <3>1. next = 4 /\ parent_at = "done"
      BY Zenon, <1>2, <2>2 DEF ChildCalls, SysemuInv, InStep, Ended, Reached
    <3>2. Calls[next] = "exit"
      BY Zenon, <3>1 DEF Calls
    <3>3. QED
      BY Zenon, <1>2, <2>2, <3>2 DEF ChildCalls, SysemuInv, Clocks, Ended
  <2>3. QED
    BY Zenon, <1>2, <2>1, <2>2 DEF ChildCalls
<1>3. CASE ChildSteps
  BY <1>3 DEF ChildSteps, SysemuInv, InStep, Ended, Reached
<1>4. CASE ChildKilled
  BY Zenon, <1>4 DEF ChildKilled, SysemuInv, Ended
<1>5. CASE ParentWaits
  <2>1. Len(Requests) = 4
    BY Zenon DEF Requests
  <2>2. CASE cst = "stop"
    BY <1>5, <2>1, <2>2 DEF ParentWaits, SysemuInv, InStep, Ended, Reached
  <2>3. CASE cst # "stop"
    BY <1>5, <2>3 DEF ParentWaits, SysemuInv, InStep, Ended
  <2>4. QED
    BY Zenon, <2>2, <2>3
<1>6. CASE ParentResumes
  BY <1>6, RequestOf DEF ParentResumes, SysemuInv, InStep, Ended, Reached
<1>7. CASE UNCHANGED sysemuVars
  BY Zenon, <1>7 DEF sysemuVars, SysemuInv, InStep
<1>8. QED
  BY Zenon, <1>1, <1>2, <1>3, <1>4, <1>5, <1>6, <1>7 DEF SysemuNext

(* However the child is started and wherever it is killed, neither clock   *)
(* is read.                                                                *)
THEOREM ClocksNeverRead == SysemuSpec => []ClocksEmulated
<1>1. SysemuInit({"traced", "refused", "no_child"}) => SysemuInv
  BY DEF SysemuInit, SysemuInv, InStep, Ended
<1>2. SysemuInv => ClocksEmulated
  BY Zenon DEF SysemuInv, ClocksEmulated
<1>3. QED
  BY <1>1, <1>2, SysemuStep, PTL DEF SysemuSpec
==============================================================================
