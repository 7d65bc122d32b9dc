------------------------------ MODULE AsmStubs -------------------------------
(***************************************************************************)
(* The two pieces of hand-written i386 assembly that stand between a       *)
(* caller and a C function: the trampoline that vdso_monkeypatch.c puts    *)
(* behind __kernel_vsyscall, and the _IO_fputs of libc-libio-iofputs.c.    *)
(* The machine has registers and a stack of words, the top at the end.     *)
(* Words are symbols: what the caller had in a register, a position in the *)
(* stack, the result of a call.  No instruction here depends on the value  *)
(* of a word, so one run with symbols stands for all values.               *)
(***************************************************************************)
EXTENDS Naturals, Sequences

VARIABLES
  stub,    \* which of the two runs: "vsyscall" or "fputs"
  text,    \* the bytes at the address of __kernel_vsyscall
  writable, copied,  \* what mprotect did to that page, and the bytes patched
  main,    \* how far the program is
  pc,      \* the next instruction of the stub
  reg,     \* the registers except %esp, which is Len(stack)
  stack,
  asked,   \* what the kernel was asked, in order
  called   \* the C functions called, with their arguments

machineVars == <<pc, reg, stack, asked, called>>
stubVars == <<stub, text, writable, copied, main, machineVars>>

Registers == {"eax", "ebx", "ecx", "edx", "esi", "edi", "ebp"}

(* The words: as the caller left them, unknown, a stack position, ...      *)
Given(r) == <<"given", r>>
Junk == <<"junk">>
At(i) == <<"at", i>>
Imm(x) == <<"imm", x>>
Result(f) == <<"result", f>>

push(r) == [op |-> "push", r |-> r]
pop(r) == [op |-> "pop", r |-> r]
movl(x, r) == [op |-> "mov", w |-> Imm(x), r |-> r]
movl_esp(r) == [op |-> "movesp", r |-> r]
movl_ebp(n, r) == [op |-> "load", n |-> n, r |-> r]
addl_esp(n) == [op |-> "drop", n |-> n]
call(f, n) == [op |-> "call", f |-> f, n |-> n]
jmp_eax == [op |-> "jmp"]
int80 == [op |-> "int80"]
retn == [op |-> "ret"]
------------------------------------------------------------------------------
(* vdso_monkeypatch.c: the code it expects, and what it puts over it.      *)
vsyscall_impl ==
  <<"51", "52", "55", "89", "e5", "0f", "34", "90", "90", "90", "90", "90", "90", "90",
    "cd", "80", "5d", "5a", "59", "c3">>

vsyscall_monkeypatch == <<"50", "b8", "00", "00", "00", "00", "ff", "e0">>

(* insns_template lies over the bytes, packed: its pointer is bytes 2..5.  *)
insns_template(bytes, addr) ==
  [i \in 1 .. 8 |-> IF i \in 3 .. 6 THEN addr[i - 2] ELSE bytes[i]]

(* The assertion of monkey_patch: the pointer lies over the placeholder.   *)
InSync ==
  insns_template(vsyscall_monkeypatch, <<"00", "00", "00", "00">>) = vsyscall_monkeypatch

trampoline_addr == <<"t0", "t1", "t2", "t3">>
patch == insns_template(vsyscall_monkeypatch, trampoline_addr)

(* The processor's view of the patched bytes; anything else faults.        *)
Decoded ==
  IF text[1] = "50" /\ text[2] = "b8" /\ text[7] = "ff" /\ text[8] = "e0"
  THEN <<push("eax"), movl(SubSeq(text, 3, 6), "eax"), jmp_eax>> ELSE <<>>

(* Mutant: two registers are restored in the wrong order.                  *)
_vsyscall_hook_trampoline_swapped ==
  <<pop("eax"), push("ebp"), push("edi"), push("esi"), push("edx"), push("ecx"),
    push("ebx"), push("eax"), movl_esp("ecx"), push("ecx"), movl("vsyscall_hook", "eax"),
    call("vsyscall_hook", 1), addl_esp(2), pop("ebx"), pop("ecx"), pop("edx"), pop("edi"),
    pop("esi"), pop("ebp"), retn>>

_vsyscall_hook_trampoline ==
  <<pop("eax"), push("ebp"), push("edi"), push("esi"), push("edx"), push("ecx"),
    push("ebx"), push("eax"), movl_esp("ecx"), push("ecx"), movl("vsyscall_hook", "eax"),
    call("vsyscall_hook", 1), addl_esp(2), pop("ebx"), pop("ecx"), pop("edx"), pop("esi"),
    pop("edi"), pop("ebp"), retn>>

(* _IO_fputs of libc-libio-iofputs.c.  It is a C function whose body is    *)
(* the assembly; as the comment on its first line (str = 4(%esp)) demands, *)
(* the compiler adds no frame, and its epilogue is the final ret.  Mutant: *)
(* two registers are restored in the wrong order.                          *)
_IO_fputs_swapped ==
  <<push("ebp"), movl_esp("ebp"), movl("gettid", "eax"), int80, movl_ebp(2, "eax"),
    push("ebx"), push("esi"), push("edi"), push("ebp"), push("eax"),
    movl("magic", "edi"), call("strlen_wrapper", 1), addl_esp(1),
    movl("getpid", "eax"), int80, pop("ebp"), pop("esi"), pop("edi"), pop("ebx"),
    movl_ebp(3, "eax"), push("eax"), movl_ebp(2, "eax"), push("eax"),
    call("_IO_fputs_rest", 2), addl_esp(2), pop("ebp"), retn>>

_IO_fputs ==
  <<push("ebp"), movl_esp("ebp"), movl("gettid", "eax"), int80, movl_ebp(2, "eax"),
    push("ebx"), push("esi"), push("edi"), push("ebp"), push("eax"),
    movl("magic", "edi"), call("strlen_wrapper", 1), addl_esp(1),
    movl("getpid", "eax"), int80, pop("ebp"), pop("edi"), pop("esi"), pop("ebx"),
    movl_ebp(3, "eax"), push("eax"), movl_ebp(2, "eax"), push("eax"),
    call("_IO_fputs_rest", 2), addl_esp(2), pop("ebp"), retn>>

StubCode == IF stub = "fputs" THEN _IO_fputs ELSE Decoded \o _vsyscall_hook_trampoline
------------------------------------------------------------------------------
(* The caller of each stub: %ebp and the arguments are its own.            *)
CallerStack ==
  IF stub = "fputs" THEN <<Given("rest"), Given("fp"), Given("str"), Given("return")>>
  ELSE <<Given("rest"), Given("return")>>

StubInit(stubs) ==
  /\ stub \in stubs
  /\ text \in {vsyscall_impl} \cup
       IF stub = "fputs" THEN {}
       ELSE {[vsyscall_impl EXCEPT ![i] = "??"] : i \in DOMAIN vsyscall_impl}
  /\ writable = FALSE /\ copied = 0
  /\ main = IF stub = "fputs" THEN "call" ELSE "verify"
  /\ pc = 0 /\ reg = [r \in Registers |-> Given(r)]
  /\ stack = CallerStack /\ asked = <<>> /\ called = <<>>

(* main of vdso_monkeypatch.c: a byte that differs is fatal.               *)
verify_vsyscall_insns ==
  /\ main = "verify"
  /\ main' = IF \A i \in DOMAIN vsyscall_impl : vsyscall_impl[i] = text[i]
             THEN "mprotect" ELSE "fatal"
  /\ UNCHANGED <<stub, text, writable, copied, machineVars>>

(* Whether mprotect worked is printed, not tested.                         *)
mprotect ==
  /\ main = "mprotect" /\ main' = "monkey_patch"
  /\ writable' \in BOOLEAN
  /\ UNCHANGED <<stub, text, copied, machineVars>>

(* monkey_patch checks its template, stores the bytes one by one, and      *)
(* faults on the first if the page is read-only.  Its printf is the first  *)
(* call through the patch.                                                 *)
monkey_patch ==
  /\ main = "monkey_patch"
  /\ IF ~InSync THEN main' = "abort" /\ UNCHANGED <<text, copied>>
     ELSE IF ~writable
     THEN main' = "fault" /\ UNCHANGED <<text, copied>>
     ELSE /\ text' = [text EXCEPT ![copied + 1] = patch[copied + 1]]
          /\ copied' = copied + 1
          /\ main' = IF copied' = Len(patch) THEN "call" ELSE main
  /\ UNCHANGED <<stub, writable, machineVars>>

Enter ==
  /\ main = "call" /\ pc = 0
  /\ IF stub = "vsyscall" /\ Decoded = <<>>
     THEN main' = "fault" /\ UNCHANGED pc
     ELSE pc' = 1 /\ UNCHANGED main
  /\ UNCHANGED <<stub, text, writable, copied, reg, stack, asked, called>>
------------------------------------------------------------------------------
Top == stack[Len(stack)]
Drop(n) == SubSeq(stack, 1, Len(stack) - n)

Request(no, args) == [no |-> no, args |-> args]

(* vsyscall_hook: `int $0x80' with the number and args[0..4] of the struct *)
(* at stack position info, which lies towards the bottom.                  *)
vsyscall_hook(info) == Request(stack[info], [k \in 1 .. 5 |-> stack[info - k]])

(* A cdecl function may overwrite its arguments, %ecx and %edx.  strlen,   *)
(* instrumented because %edi is the magic value, counts in the registers   *)
(* that a function should keep.                                            *)
Clobbered(f) ==
  IF f = "strlen_wrapper" THEN Registers ELSE {"ecx", "edx"}

CallC(f, n) ==
  /\ called' = Append(called, <<f, [i \in 1 .. n |-> stack[Len(stack) - i + 1]]>>)
  /\ reg' = [r \in Registers |-> IF r = "eax" THEN Result(f)
                                 ELSE IF r \in Clobbered(f) THEN Junk ELSE reg[r]]
  /\ stack' = [i \in DOMAIN stack |-> IF i > Len(stack) - n THEN Junk ELSE stack[i]]
  /\ asked' = IF f = "vsyscall_hook" THEN Append(asked, vsyscall_hook(Top[2])) ELSE asked

(* One instruction.                                                        *)
Execute ==
  LET i == StubCode[pc] IN
  /\ main = "call" /\ pc > 0
  /\ \/ /\ i.op = "push" /\ stack' = Append(stack, reg[i.r])
        /\ UNCHANGED <<reg, asked, called>>
     \/ /\ i.op = "pop" /\ reg' = [reg EXCEPT ![i.r] = Top] /\ stack' = Drop(1)
        /\ UNCHANGED <<asked, called>>
     \/ /\ i.op = "mov" /\ reg' = [reg EXCEPT ![i.r] = i.w]
        /\ UNCHANGED <<stack, asked, called>>
     \/ /\ i.op = "movesp" /\ reg' = [reg EXCEPT ![i.r] = At(Len(stack))]
        /\ UNCHANGED <<stack, asked, called>>
     \/ /\ i.op = "load" /\ reg["ebp"][1] = "at"
        /\ reg' = [reg EXCEPT ![i.r] = stack[reg["ebp"][2] - i.n]]
        /\ UNCHANGED <<stack, asked, called>>
     \/ i.op = "drop" /\ stack' = Drop(i.n) /\ UNCHANGED <<reg, asked, called>>
     \/ i.op = "call" /\ CallC(i.f, i.n)
     \/ /\ i.op = "jmp" /\ reg["eax"] = Imm(trampoline_addr)
        /\ UNCHANGED <<reg, stack, asked, called>>
     \/ /\ i.op = "int80"
        /\ asked' = Append(asked, Request(reg["eax"], <<>>))
        /\ reg' = [reg EXCEPT !["eax"] = Result("kernel")]
        /\ UNCHANGED <<stack, called>>
     \/ /\ i.op = "ret" /\ Top = Given("return") /\ stack' = Drop(1)
        /\ UNCHANGED <<reg, asked, called>>
  /\ pc' = pc + 1
  /\ main' = IF i.op = "ret" THEN "done" ELSE main
  /\ UNCHANGED <<stub, text, writable, copied>>

(* main makes the page read-only again and ignores a failure.  This call   *)
(* goes through the patch like the one above, and is one step here.        *)
mprotect_again ==
  /\ stub = "vsyscall" /\ main = "done" /\ main' = "exit"
  /\ writable' \in {FALSE, writable}
  /\ UNCHANGED <<stub, text, copied, machineVars>>

StubNext ==
  verify_vsyscall_insns \/ mprotect \/ monkey_patch \/ Enter \/ Execute \/ mprotect_again
------------------------------------------------------------------------------
(* The contract of __kernel_vsyscall: even the registers a function may    *)
(* change come back as they were, the stack is balanced, %eax is what the  *)
(* kernel returned, and the kernel was asked what the caller asked, in the *)
(* first five arguments.                                                   *)
VsyscallContract ==
  stub = "vsyscall" /\ main = "done" =>
    /\ \A r \in Registers \ {"eax"} : reg[r] = Given(r)
    /\ stack = <<Given("rest")>>
    /\ reg["eax"] = Result("vsyscall_hook")
    /\ asked = <<Request(Given("eax"), <<Given("ebx"), Given("ecx"), Given("edx"),
                                        Given("esi"), Given("edi")>>)>>

(* _IO_fputs is transparent although the instrumented strlen counts in     *)
(* %ebx, %esi, %edi and %ebp: they come back as they were, and the real    *)
(* function gets the caller's arguments and gives its result.              *)
FputsTransparent ==
  stub = "fputs" /\ main = "done" =>
    /\ \A r \in {"ebx", "esi", "edi", "ebp"} : reg[r] = Given(r)
    /\ stack = <<Given("rest"), Given("fp"), Given("str")>>
    /\ called = << <<"strlen_wrapper", <<Given("str")>> >>,
                   <<"_IO_fputs_rest", <<Given("str"), Given("fp")>> >> >>
    /\ reg["eax"] = Result("_IO_fputs_rest")

(* Once the code is verified and the page is writable, the patch is put in *)
(* place, and every call through either stub gets back to its caller.      *)
StubReturns ==
  (main = "call" \/ (main = "monkey_patch" /\ writable)) ~> (main = "done")
==============================================================================
