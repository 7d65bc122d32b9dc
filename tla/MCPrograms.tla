----------------------------- MODULE MCPrograms ------------------------------
(***************************************************************************)
(* The small programs that have no bounds of their own and do not          *)
(* interact: a behaviour is one run of one of them, on one of its inputs.  *)
(***************************************************************************)
EXTENDS RpcSyscall, AsmStubs, SeccompFilter, Decoders, LineCompare, Rrmon, Sysemu

VARIABLE which   \* the program that runs

programVars ==
  <<which, rpcVars, stubVars, filterVars, decodeVars, lcmpVars, rrmonVars, sysemuVars>>

Programs == {"rpc", "stub", "filter", "decode", "lcmp", "rrmon", "sysemu"}

(* Any three macros and a final one, on any syscall.                       *)
Macros ==
  { <<"EXAMINE_SYSCALL">>, <<"ALLOW_SOCKETCALL">>, <<"ALLOW_SYSCALL", 3>>,
    <<"KILL_SYSCALL", 5>>, <<"TRACE_SYSCALL", 3>>,
    <<"ALLOW_SYSCALLS_FROM_CALLSITE", 3>> }
LastMacros == { << <<"ALLOW_PROCESS">> >>, << <<"KILL_PROCESS">> >>, << <<"TRACE_PROCESS">> >> }
Filters == {m \o l : m \in UNION {[1 .. n -> Macros] : n \in 0 .. 3}, l \in LastMacros}

(* Any two files of up to three characters; those that cannot be read are  *)
(* taken with the empty one.                                               *)
Chars == {"a", "b", nl, nul}
Texts == UNION {[1 .. n -> Chars] : n \in 0 .. 3}
Inputs ==
  [file : Texts \X Texts, bad : {{}}] \cup [file : {<< <<>>, <<>> >>}, bad : {{1}, {2}, {1, 2}}]

Of(p, all, one) == IF which = p THEN all ELSE {one}

ProgramsInit ==
  /\ which \in Programs
  /\ RpcInit /\ (which # "rpc" => regs = Garbage)
  /\ StubInit(Of("stub", {"vsyscall", "fputs"}, "fputs"))
  /\ FilterInit(Of("filter", Filters, << <<"TRACE_PROCESS">> >>),
                Of("filter", Data, [nr |-> 3, instruction_pointer |-> 3, arg0 |-> 3]))
  /\ DecodeInit(Of("decode", Happenings, Continued))
  /\ LcmpInit(Of("lcmp", Inputs, [file |-> << <<>>, <<>> >>, bad |-> {}]))
  /\ RrmonInit(Of("rrmon", BOOLEAN, TRUE))
  /\ SysemuInit(Of("sysemu", {"traced", "refused", "no_child"}, "traced"))

RpcRuns ==
  /\ which = "rpc" /\ RpcNext
  /\ UNCHANGED <<stubVars, filterVars, decodeVars, lcmpVars, rrmonVars, sysemuVars>>
StubRuns ==
  /\ which = "stub" /\ StubNext
  /\ UNCHANGED <<rpcVars, filterVars, decodeVars, lcmpVars, rrmonVars, sysemuVars>>
FilterRuns ==
  /\ which = "filter" /\ FilterStep
  /\ UNCHANGED <<rpcVars, stubVars, decodeVars, lcmpVars, rrmonVars, sysemuVars>>
DecoderRuns ==
  /\ which = "decode" /\ Decode
  /\ UNCHANGED <<rpcVars, stubVars, filterVars, lcmpVars, rrmonVars, sysemuVars>>
LcmpRuns ==
  /\ which = "lcmp" /\ (CompareLine \/ CloseFiles)
  /\ UNCHANGED <<rpcVars, stubVars, filterVars, decodeVars, rrmonVars, sysemuVars>>
RrmonRuns ==
  /\ which = "rrmon" /\ RrmonNext
  /\ UNCHANGED <<rpcVars, stubVars, filterVars, decodeVars, lcmpVars, sysemuVars>>
SysemuRuns ==
  /\ which = "sysemu" /\ SysemuNext
  /\ UNCHANGED <<rpcVars, stubVars, filterVars, decodeVars, lcmpVars, rrmonVars>>

ProgramsNext ==
  /\ \/ RpcRuns \/ StubRuns \/ FilterRuns \/ DecoderRuns \/ LcmpRuns \/ RrmonRuns
     \/ SysemuRuns
  /\ UNCHANGED which

(* The scheduler runs some process of the program that was started; that   *)
(* somebody kills the child of sysemu.c may happen and need not.           *)
Scheduled == ProgramsNext /\ (cst' = "killed" => cst = "killed")

ProgramsSpec ==
  ProgramsInit /\ [][ProgramsNext]_programVars /\ WF_programVars(Scheduled)
------------------------------------------------------------------------------
(* A process with rrmon.c preloaded ends, also one that faults.            *)
MonitoredRunEnds == which = "rrmon" => MonitoredEnds

(* No program hangs.  The parents of rpc_syscall.c and sysemu.c end after  *)
(* their children, wherever these stop or die, unless TRACEME is refused;  *)
(* every call through a stub of vdso_monkeypatch.c or libc-libio-iofputs.c *)
(* gets back to its caller; the kernel gets a verdict from every filter of *)
(* seccomp-bpf.h's macros; and the loop of lcmp.c ends unless a file       *)
(* cannot be read.                                                         *)
ProgramsEnd ==
  /\ which = "rpc" => RpcParentEnds
  /\ which = "sysemu" => SysemuEnds
  /\ which = "stub" => StubReturns
  /\ which = "filter" => FilterDecides
  /\ which = "lcmp" => LcmpEnds
==============================================================================
