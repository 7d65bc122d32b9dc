---------------------------- MODULE SeccompFilter ----------------------------
(***************************************************************************)
(* The filter macros of seccomp-bpf.h, as the BPF programs they expand to, *)
(* and the kernel's interpreter, which runs a filter for every syscall.    *)
(* A filter is any sequence of the macros.  What one macro decides when it *)
(* stands alone is stated in Judge, from its instructions and not from its *)
(* comment: two comments say something else.  The one on                   *)
(* ALLOW_SYSCALLS_FROM_CALLSITE has calls from elsewhere traced, and they  *)
(* are left to the next macro; the one on ALLOW_SOCKETCALL has blocking    *)
(* operations traced, and only SYS_RECV and SYS_ACCEPT are: recvfrom,      *)
(* recvmsg, accept4 and connect are allowed.                               *)
(***************************************************************************)
EXTENDS Naturals, Sequences

CONSTANTS
  socketcall, SYS_RECV, SYS_ACCEPT,   \* __NR_socketcall and two of its calls
  Words                               \* syscall numbers, addresses, arguments

VARIABLES
  macros,   \* the filter, as it was written
  filter,   \* the filter, as the kernel has it
  data,     \* the seccomp_data of the syscall
  insn, acc,  \* the interpreter: next instruction and accumulator
  verdict

filterVars == <<macros, filter, data, insn, acc, verdict>>

(* BPF_STMT(BPF_LD), BPF_JUMP(BPF_JEQ) and BPF_STMT(BPF_RET).              *)
LD(field) == [op |-> "ld", field |-> field]
JEQ(k, jt, jf) == [op |-> "jeq", k |-> k, jt |-> jt, jf |-> jf]
RET(v) == [op |-> "ret", v |-> v]

EXAMINE_SYSCALL == <<LD("nr")>>
KILL_PROCESS == <<RET("KILL")>>
ALLOW_PROCESS == <<RET("ALLOW")>>
TRACE_PROCESS == <<RET("TRACE")>>

ALLOW_SYSCALLS_FROM_CALLSITE(callsite) ==
  <<LD("instruction_pointer"), JEQ(callsite, 0, 1)>> \o ALLOW_PROCESS

ALLOW_SYSCALL(n) == <<JEQ(n, 0, 1), RET("ALLOW")>>
KILL_SYSCALL(n) == <<JEQ(n, 0, 1), RET("KILL")>>
TRACE_SYSCALL(n) == <<JEQ(n, 0, 1), RET("TRACE")>>

(* Mutant: the first jump leads one instruction too far.                   *)
ALLOW_SOCKETCALL_far ==
  <<JEQ(socketcall, 0, 6), LD("arg0"), JEQ(SYS_RECV, 2, 0), JEQ(SYS_ACCEPT, 1, 0),
    RET("ALLOW"), RET("TRACE")>>

ALLOW_SOCKETCALL ==
  <<JEQ(socketcall, 0, 5), LD("arg0"), JEQ(SYS_RECV, 2, 0), JEQ(SYS_ACCEPT, 1, 0),
    RET("ALLOW"), RET("TRACE")>>

(* What a macro of the filter expands to.                                  *)
Expand(m) ==
  CASE m[1] = "EXAMINE_SYSCALL" -> EXAMINE_SYSCALL
    [] m[1] = "ALLOW_SYSCALLS_FROM_CALLSITE" -> ALLOW_SYSCALLS_FROM_CALLSITE(m[2])
    [] m[1] = "ALLOW_SYSCALL" -> ALLOW_SYSCALL(m[2])
    [] m[1] = "KILL_SYSCALL" -> KILL_SYSCALL(m[2])
    [] m[1] = "TRACE_SYSCALL" -> TRACE_SYSCALL(m[2])
    [] m[1] = "ALLOW_SOCKETCALL" -> ALLOW_SOCKETCALL
    [] m[1] = "KILL_PROCESS" -> KILL_PROCESS
    [] m[1] = "ALLOW_PROCESS" -> ALLOW_PROCESS
    [] m[1] = "TRACE_PROCESS" -> TRACE_PROCESS

(* The instructions of the first i macros of ms.                           *)
Code(ms) ==
  LET code[i \in 0 .. Len(ms)] == IF i = 0 THEN <<>> ELSE code[i - 1] \o Expand(ms[i])
  IN  code

(* The macros with their arguments, and what a syscall has to look at.     *)
Macro ==
  {<<m>> : m \in {"EXAMINE_SYSCALL", "ALLOW_SOCKETCALL", "KILL_PROCESS", "ALLOW_PROCESS",
                   "TRACE_PROCESS"}} \cup
  {"ALLOW_SYSCALLS_FROM_CALLSITE", "ALLOW_SYSCALL", "KILL_SYSCALL", "TRACE_SYSCALL"} \X Words
Data == [nr : Words, instruction_pointer : Words, arg0 : Words]

FilterInit(filters, datas) ==
  /\ macros \in filters
  /\ filter = Code(macros)[Len(macros)]
  /\ data \in datas
  /\ insn = 1 /\ acc = 0 /\ verdict = "none"

(* The kernel interprets one instruction.                                  *)
FilterStep ==
  /\ verdict = "none" /\ insn \in DOMAIN filter
  /\ LET i == filter[insn] IN
     \/ /\ i.op = "ld" /\ acc' = data[i.field] /\ insn' = insn + 1
        /\ UNCHANGED verdict
     \/ /\ i.op = "jeq" /\ insn' = insn + 1 + (IF acc = i.k THEN i.jt ELSE i.jf)
        /\ UNCHANGED <<acc, verdict>>
     \/ /\ i.op = "ret" /\ verdict' = i.v
        /\ UNCHANGED <<insn, acc>>
  /\ UNCHANGED <<macros, filter, data>>

(* Any filter, on any syscall.                                             *)
FilterSpec == FilterInit(Seq(Macro), Data) /\ [][FilterStep]_filterVars
------------------------------------------------------------------------------
(* What a macro does on its own with the syscall d.  st.looked is the word *)
(* under examination; the macro decides, or leaves it to the next ones.    *)
Decide(st, v, when) ==
  IF st.verdict = "none" /\ when THEN [st EXCEPT !.verdict = v] ELSE st

Judge(d, st, m) ==
  CASE m[1] = "EXAMINE_SYSCALL" ->
         IF st.verdict = "none" THEN [st EXCEPT !.looked = d.nr] ELSE st
    [] m[1] = "ALLOW_SYSCALLS_FROM_CALLSITE" ->
         Decide([st EXCEPT !.looked = d.instruction_pointer], "ALLOW",
                d.instruction_pointer = m[2])
    [] m[1] = "ALLOW_SYSCALL" -> Decide(st, "ALLOW", st.looked = m[2])
    [] m[1] = "KILL_SYSCALL" -> Decide(st, "KILL", st.looked = m[2])
    [] m[1] = "TRACE_SYSCALL" -> Decide(st, "TRACE", st.looked = m[2])
    [] m[1] = "ALLOW_SOCKETCALL" ->
         Decide(st, IF d.arg0 \in {SYS_RECV, SYS_ACCEPT} THEN "TRACE" ELSE "ALLOW",
                st.looked = socketcall)
    [] m[1] = "KILL_PROCESS" -> Decide(st, "KILL", TRUE)
    [] m[1] = "ALLOW_PROCESS" -> Decide(st, "ALLOW", TRUE)
    [] m[1] = "TRACE_PROCESS" -> Decide(st, "TRACE", TRUE)

(* What the first i macros say, and what the filter says.                  *)
Judged(d, ms) ==
  LET st[i \in 0 .. Len(ms)] ==
        IF i = 0 THEN [looked |-> 0, verdict |-> "none"] ELSE Judge(d, st[i - 1], ms[i])
  IN  st
Decision == Judged(data, macros)[Len(macros)].verdict

(* However the macros are combined, the filter decides what they decide    *)
(* when each is read alone, one after the other: no jump of one lands      *)
(* inside another, and a word loaded by one is what the next compares.     *)
FilterComposes == verdict # "none" => verdict = Decision

(* The kernel gets a verdict from every filter that ends with one of the   *)
(* _PROCESS macros: no jump leads past its end.                            *)
FilterDecides == <>(verdict # "none")
==============================================================================
