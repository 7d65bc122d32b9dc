# A TLA+ model of rr-workbench

rr-workbench is the scratch repository of a record-and-replay debugger: small
programs that try out one mechanism each.  The largest piece is *path logging*.
A compiler pass gives every acyclic path through a function a number and inserts
code that passes the number to a runtime; the runtime buffers the records of each
thread and writes them to the recorder.  This directory models that chain from
the placement of increments in a control-flow graph to the order of records in
the saved trace.  It also models the programs that try out ptrace, seccomp, vdso
patching and process monitoring, each with the part of the kernel, the C library
or the processor that it talks to.

## The parts of the system

| Part | Source | Models |
| --- | --- | --- |
| Path-logging runtime | `path_logging.c` | `PathTrace`, `PathLog`; with faults `LossyTrace`, `PathLogFaults` |
| Program that exercises it | `paths.c` | `Paths` |
| Path-logging pass | `PathLogging.cpp` | `PathIncrements`, `PathInsertion` (with `BallLarusDag`, `ControlFlowGraphs`) |
| Register and syscall tracer | `regtrace.c`, `seccomptrace.c` | `Regtrace` |
| Filter macros | `seccomp-bpf.h` | `SeccompFilter` |
| Syscall injection | `rpc_syscall.c` | `RpcSyscall` |
| Syscall emulation | `sysemu.c` | `Sysemu` |
| Watchpoints in a thread | `watchpoint.c` | `Watchpoint` |
| Descheduling notification | `notify_desched.c` | `NotifyDesched` |
| Vdso patch, fputs wrapper | `vdso_monkeypatch.c`, `libc-libio-iofputs.c` | `AsmStubs` |
| Decoders of numbers | `status2text.c`, `strfutexcmd.c`, `sysemu.c` | `Decoders` |
| Line comparison | `lcmp.c` | `LineCompare` |
| Resource monitor | `rrmon.c` | `Rrmon` |
| Everything else | see `PROJECT.json` | not modelled |

How they interact: the pass inserts calls of `llvm_increment_path_count`, the
only entry point of the runtime.  `paths.c` is compiled by the pass and linked
with the runtime.  The other programs are independent of path logging and of each
other; `seccomptrace.c` is a `puts` to preload into the tracee of `regtrace.c`: its
first call installs a filter built from a macro of `seccomp-bpf.h`.

## The modules

### Path logging

**`PathTrace`** is the promise of the runtime.  Per thread there is the sequence
of records it `retired` and the sequence `saved` in the trace.  A step retires
one record, if the lag is less than a buffer, or saves the whole lag of one
thread.  So per thread the trace is always a prefix of the history.

**`PathLog`** is the runtime.  `record_buffer` is the `__thread` pointer,
`specific` the value of `finish_buffer_key`, `mapped` and `recs` the pages of
each process, `handlers` the `atexit` stack.  One action per entry into the
runtime: `llvm_increment_path_count` up to the test for a full buffer,
`FlushFull` for the rest of that call, `RunDestructor`, the exit handler inside
`RunHandler`, the fork handler inside `Fork`.  The C library is modelled from how
the runtime uses it: threads, fork, rounds of destructors (limited), exit with
its stack of handlers, and sudden ends.  A call is one step except where another
thread can end the process in the middle of it and be observed to do so: between
storing the last record and flushing.

Some records cannot be saved by any orderly end: those logged in the last round of
destructors, those logged by an exit handler after the runtime's own, and those of a
process forked while another thread is in `exit()`, whose copy of the stack may
already have lost the runtime's handler.  `late` marks the threads to which this
happened.  The last excuse is for forked processes only: that the first process has
the runtime's handler registered whenever it holds records is part of what is
checked and proved.

**`LossyTrace`** and **`PathLogFaults`** are the promise and the runtime when the
system calls may fail.  `PathLogFaults` extends `PathLog`: `flush_buffer` ignores
what `write` returns, so `saved` becomes what was offered and `trace` what the
recorder got (a short write ends between two records, which is as fine as the
properties look); and `init_process` under `pthread_once` takes several steps,
between which other threads run and fork.  `mmap` may fail, and nothing checks it:
`mmap_fails` leaves the thread with `MAP_FAILED` (`once` = "map_failed"),
`StoreFaults` is the `buf->len++` that follows.  -1 plus the offset of `len` is in
the first page, so it faults; that is an assumption of the model, and what is
checked is what the other threads do between the two.  `LossyTrace` allows the end
of a batch to be missing and nothing else.

**`Paths`** runs `paths.c` on `PathLog`: `main` creates its threads, joins them
and returns; each thread takes its paths.

**`BallLarusDag`** (external) is the LLVM class the pass derives from: it builds
the DAG of a control-flow graph (back edges replaced by two phony edges, edges
split when a block has too many paths), numbers the paths and recovers a path
from its number.  **`ControlFlowGraphs`** enumerates the graphs for TLC.

**`PathIncrements`** is the part of the pass that works on the DAG:
`calculateSpanningTree`, `calculateChordIncrements`, `pushInitialization`,
`pushCounters`, `unlinkPhony`.  A recursion is a set of pending calls, taken in any
order (`PathInsertion` takes them in the order of the edges, since they move
increments across blocks of their own).  When the passes are done, walks along the
paths of the DAG execute what the edges carry.

**`PathInsertion`** is `insertInstrumentationStartingAt`: the depth-first
recursion over the blocks, critical edges and their splitting, the SSA values of
the path register at the start and end of each block, PHIs whose entries start
as -1, sums and calls.  Then the function runs, block by block, and the calls log
the value of their operand.

### Tracers

**`Regtrace`** is `trace()`: its `state`, the request that follows from it, and
one action per kind of stop.  Before the loop come `firstWait`, whose assertion
fails if the tracee was killed before its SIGSTOP, and `setOptions`, which ends in
`fatal()` if it was killed after.  The tracee makes syscalls, execs, forks, installs
the filter, gets signals and is killed.  A request to a tracee that still steps
fails unnoticed, as in the code.  The history variable `labels` holds what was
logged for the current syscall, `skewed` that a fork event came in the middle of
one.

**`RpcSyscall`** has the registers (`eip`, `eax`, `orig_eax`) of the child and the
two register sets of the parent, and every request and `waitpid` as a step of its
own, so that the child's first stop can come before or after the first request.
The uninitialized `regs` may hold anything, in particular `SYS_rpc`.

**`Watchpoint`** has a process, its thread and their tracer.  `failed` is the line
of the assertion or `fatal()` that ended the tracer.

**`NotifyDesched`** has the child's loop of arm, write, disarm, the counter, the
signal (pending or not, never queued) and the parent.  What matters is that the
child may report a stop and only then leave the CPU, while the parent runs.

**`Sysemu`** has the parent's five waits and four requests, none of whose results
the code checks, and a child that may be killed at any time, may be refused
`PTRACE_TRACEME`, or may not exist because `fork` failed.

### Smaller programs

**`AsmStubs`** is a machine with registers and a stack of symbolic words.  It runs
the bytes that `vdso_monkeypatch.c` writes over `__kernel_vsyscall`, its
trampoline and its hook, and the assembly of `_IO_fputs`, instruction by
instruction.  No instruction depends on the value of a word, so a run with symbols
stands for all values.  The final `ret` of `_IO_fputs` is the compiler's: the first
comment in its body (`str = 4(%esp)`) supposes that the compiler adds no frame.

**`SeccompFilter`** expands each macro into BPF instructions (`Code`) and interprets
them; `Judged` is what the same macros decide when each is taken alone, one after the
other.  Both follow the macros' code, not their comments (two of which say something
else, see below).
**`Decoders`** computes what the decoders print for a number and compares it with
what the kernel encoded in it.  **`LineCompare`** is the loop of `lcmp.c` with
`fgets` into a small buffer and the two end-of-file flags.  **`Rrmon`** is the
preloaded library: the stack of activations of handler, `abort` and destructor, and
the descriptors, one of which every dump loses.

The `MC` modules give constants their values.  `MCPathLog` and `MCPathLogFaults`
tell records apart, so that one that is repeated or reordered is seen: the i-th
record of task t is <<t, i>> in the first, where one filed under another thread is
seen too, and i in the second, to have fewer states.  `MCPrograms` puts the small
programs that have no bounds of their own into one run: a behaviour is one run of
one program on one input.

## What the runs check

| Run | Question | Bounds |
| --- | --- | --- |
| `runtime` | Are buffers overrun or shared; are records lost, repeated or reordered; does every orderly end save the history; does the runtime implement `PathTrace`? | 2 tasks, 2 processes, buffers of 2, 3 records per task, 2 destructor rounds, 2 exit handlers |
| `runtime_faults` | With short and failing writes, failing `mmap` and forks inside `init_process`: are buffers shared; does every orderly end offer the history to the recorder; which pages can a process lose; does the runtime implement `LossyTrace`? | 3 tasks, 2 processes, buffers of 2, 3 records in all |
| `paths_program` | Does `paths.c` end with a complete trace? | 2 threads, 2 iterations |
| `increments` | Does every path log its number once, wherever increments move; do the recursions end? | all graphs of up to 4 blocks, path limit 2 |
| `insertion` | Do assertions hold, does the recursion end, do the logged numbers identify the executed paths? | all graphs of up to 4 blocks, path limit 2; LLVM refuses to split edges in graphs of up to 3 blocks |
| `spanning_tree` | Is the spanning tree a spanning tree?  No: see below. | 2 blocks |
| `regtrace` | Does the tracer's assertion hold, are labels right and complete, does it end when the tracee has? | 7 syscalls, 3 signals |
| `programs` | Are injected calls served all or not at all; do the stubs keep their callers' registers; does a filter decide what its macros decide one after the other; is what is printed what is there; is every exit, abort and fault of a monitored process reported; are the clocks emulated; does each program end? | 5 injections as in the code; filters of up to 4 macros; files of up to 3 characters and a buffer of 3; 3 descriptors |
| `watchpoint` | Which assertions hold in every order of stops; do all tasks end? | none: the program is finite |
| `watchpoint_clone` | Is the clone event always reported first?  No. | none |
| `notify_desched` | Are no more deschedulings counted than the counter was armed; does the parent end? | 4 writes |
| `notify_second` | Does a second SIGIO always follow?  No. | 2 writes |

Why the bounds are enough for the cases that matter: a buffer of 2 is filled,
flushed and started again within 3 records; two rounds of destructors are the
least in which a destructor logs after the buffer was dropped and is saved by the
next round, and in which logging in the last round is lost; two handlers put one
application handler before and one after the runtime's own.  With faults, three
tasks are one that initializes its process, one that forks meanwhile, and the
child.  Four blocks give diamonds, loops, nested and irreducible loops, critical
edges, parallel edges and split edges; limit 2 makes the path limit act on these
graphs.  The bound on records is `MaxRetired` (and `MaxTotal` over all tasks), that
on handlers `MaxHandlers`; `MaxRefused` bounds the DAGs (with their exit node) in
which LLVM refuses to split edges.  Seven syscalls let the tracee exec, install the
filter, and then make calls of every kind with a signal or a kill between any two
of them.  Four writes are more than the two regions that can be in play at once:
the one whose signal is skipped and the next.  Three characters and a buffer of
three (two characters and the terminator) give lines that fit, lines that are cut,
and files that end with and without a newline and exactly at the end of a buffer.
The longest jump of a macro ends inside it or at the macro that follows, so two
macros and a last one already show every wrong distance.
`Descriptors` and `StackLimit` are small enough that a faulting process uses up
the one and then the other; `MaxSignals` bounds the signals of other processes.

Deadlock is not checked where the programs end: in the runtime's runs and in those
of the other programs.  Three programs can also wait or run forever.  If the child of
`notify_desched.c` fails before it sends the descriptor, `recvmsg` does not return,
since the parent holds the other end of the socket too; `ParentEnds` is stated from
the moment the descriptor was sent.  If `PTRACE_TRACEME` is refused in `sysemu.c`,
parent and child wait for each other, and if `lcmp.c` cannot read a file its loop
does not end; both are in the models, and `ProgramsEnd` excludes them.

### Fairness

- `paths_program`: every thread keeps running (weak fairness of its own steps), which
  the scheduler gives a program that neither blocks nor is killed; `Kill` is not part
  of that composition.
- `increments`, `insertion`: the compiler, a single thread, keeps running.
- `regtrace`: the tracer and the kernel keep running; nothing is assumed of the traced
  program, which need not make another syscall.
- `watchpoint`, `notify_desched`: tracer, kernel and child keep running when they can.
- `programs`: some process of the program that was started runs when one can.  That
  somebody kills the child of `sysemu.c` is possible and never assumed: the kill is
  excluded from the fair steps (`Scheduled`).  For `rrmon.c` fairness implies that the
  monitored program itself at some time exits, aborts or faults; `MonitoredRunEnds` says
  that nothing the library does then keeps the process from ending.
- All other runs check safety and assume nothing.

### Disagreements between comments or assertions and the code

- `calculateSpanningTree` says that it "Calculates a spanning tree of the DAG
  ignoring cycles".  It colours all nodes white, then skips white nodes, so the
  tree is always empty (`spanning_tree`).  Path numbers are not affected: every
  edge is then a chord and carries its own weight, which is what
  `PathIncrementsProofs` builds on.
- `watchpoint.c` asserts that the first stop after the clone is the clone event;
  the new thread's stop may be reported first (`watchpoint_clone`).
- `notify_desched.c` asserts a second SIGIO, raised when the stop for the first
  one takes the child off the CPU.  There is none if the counter is disabled
  before: by the parent, on another CPU, or by the child, if it was preempted on
  its way into the ioctl that disarms it (`notify_second`).

Four more are not runs.  `regtrace.c` says that `PTRACE_CONT` "ignores all events up
to the point just after the filter is installed"; the exec event is reported all
the same and the exit of `execve` is logged.  `rpc_syscall.c` resumes the child
before it waits for its SIGSTOP; if the child has stopped by then it runs to its
end without its rpc being served, which is the second case of `RpcAllOrNothing`.
The comment on `ALLOW_SYSCALLS_FROM_CALLSITE` in `seccomp-bpf.h` describes the bounds
of a library and a call that is traced outside of them; the macro compares the
instruction pointer with one address and allows the call or goes on.  And the comment
on `ALLOW_SOCKETCALL` has every blocking operation traced ("if (op is blocking) goto
trace"); the macro traces `SYS_RECV` and `SYS_ACCEPT` and allows the others that may
block.  The model, `Judge` included, has the code of both.

`vsyscall_hook` passes five arguments on, so a call with six loses the last;
`VsyscallContract` promises five.

## What is proved

All theorems hold for every value of the constants that satisfies the named
assumptions: `ConstantsOK`, `PathsOK`, `DagsOK`, `BackEdgesOK`, `BoundsOK`, `TicksOK`,
`InjectionsOK`, `FieldsOK` (codes, signals, events and operations fit the fields the
kernel has for them), `LineAssumption` (a buffer of at least one character and the
terminator) and `RrmonAssumption` (sizes are numbers, the stack holds two calls).

`PathLogProofs`:
- `TypeCorrect`: `TypeOK` is invariant.
- `RecordsConserved`, `NoOverrun`, `BuffersOwned`: `Conservation`, `RoomForNext`
  and `BufferOwnership`.  None is inductive alone.  Conservation needs to know
  that no other thread's buffer is written, which needs ownership; ownership
  after a fork needs that an existing buffer implies that `init_process` ran in
  the process, since the fork handler only exists then; and room needs that a
  task outside `full` is below the limit.  The proofs carry the conjunction.
- `RuntimeImplementsTrace`: each step of the runtime is a step of `PathTrace` or
  leaves its variables alone.
- `NothingElseLeaks`: `NoOtherLeak`, an action property.  `Leaked(p)` are the pages of
  p that are no live thread's buffer.  A step of a process that goes on adds to them
  only the buffer of a thread that logged past its last flush; and a new process
  starts with those of its parent and the buffers of the threads it did not inherit.
  One lemma per kind of step (`IncrementLeak`, `FinishLeak`, `ForkLeak`, and
  `QuietLeak` for the steps that unmap nothing and end nobody); that a thread which
  ends without being late has no buffer left is `EndInv`.
- `OrderlyEndSaves`: `OrderlyEndSavesAll`.  The strengthening `EndInv` says, for
  each phase of a task's life, what still stands between it and its end: a
  destructor to run, a round left, or the runtime's handler on the stack.
  `MainInv` says that in the first process the handler is there from
  initialization until some thread is in `exit()`, so no thread enters `exit()`
  with records and without it.

`PathLogFaultsProofs`:
- `SafeWithFaults`: room, ownership and orderly ends, whatever the system calls
  return and wherever a fork interrupts `init_process`.  A step with faults is a step
  of `PathLog`, or one that only moves a thread through `pthread_once`; what is new
  is that the handler is registered before `pthread_once` returns
  (`RegisteredAhead`).
- `NothingElseLeaksWithFaults`: the same for `NoOtherLeak`.
- `FaultsImplementLossyTrace`: the refinement of `LossyTrace`, with the part of the
  history that was not offered yet as its `pending`.

`PathsProofs`:
- `PathsTraceComplete`: `TraceComplete`, for any number of threads and iterations.  A
  step of the program is a step of the runtime or leaves it alone, so the invariants
  of `PathLogProofs` hold.  To them `PathsInv` adds where each thread is in its code,
  that it has retired exactly what its code up to there logs, that `main` has waited
  for the threads its code up to there joins, and that the program has one process
  and no handlers of its own.  When `main` has exited, every thread has come to an
  orderly end.

`PathIncrementsProofs`:
- `IncrementsTypeCorrect`, `NumbersKept`, `RegisterAlwaysReady`,
  `PhonyAssertionsHold`, `BackEdgesBare`, for every DAG, of any size.  The argument:
  each move across a block changes the increments by a coboundary.  The history
  variable `pot` adds up what crossed each block, so an edge's increment is always its
  weight plus the potential at its source minus that at its target; on a path
  from root to exit the potentials cancel.  `above` and `below` are the blocks
  the initialization and the counters passed; they are disjoint, closed towards
  the root and the exit, and edges that leave `above` carry the initialization,
  edges that enter `below` the counters.  `BackEdgesBare` also needs
  `BackEdgesOK`: a back edge returns to a block from which its source is reached.
  That block has a second predecessor, so it is never in `above`, and `above` is
  closed towards the root, so the source is not in it either; `below` likewise.

`RegtraceProofs`:
- `TracerTypes` and `TracerAssertion`: `TypeOK` and `AssertionHolds`.  The
  strengthening `RequestInv` relates the request that took effect last to the
  tracer's state, and says that a request can only fail after a step.
- `LabelsStayRight` and `EveryCallLogged`: `LabelsRight` and `CallLogged`.
  `PlaceInv` says where the tracee is at each kind of stop; `StepInv` that the
  tracer's state and the tracee's place in its syscall agree, unless a fork event
  came in between.

`TracingProofs`:
- `DeschedTypes` and `DeschedObservedOnce`: `TypeOK` and `ObservedOncePerArm`.  The
  strengthening `CreditInv` says that an enabled counter, a signal still to be
  reported and one about to be counted belong to an arming not counted yet,
  except while the parent waits for the SIGIO it skips.
- `RpcServedOrNot`: `RpcAllOrNothing`.  `RpcInv` lists the joint positions of parent
  and child: either the first request came too late and the child runs alone, or the
  two go in step through request, injections, restoring and answer.

- `ClocksNeverRead`: `ClocksEmulated`.  `SysemuInv` counts the child's calls against
  the parent's requests (the single step in between is a request without a call):
  they agree until the child ends, so the request that lets the child go comes after
  both clock calls.

`SeccompFilterProofs`:
- `FiltersCompose`: `FilterComposes`, for filters of any length and any
  words.  Two folds over the macros are compared, the instructions so far (`Code`) and
  the decision so far (`Judged`).  `Running`, the strengthening, places the
  interpreter inside one macro whose predecessors decided nothing and relates the
  accumulator to the word under examination.  `MacroStep` goes through the kinds of
  macros: an instruction decides what the macro says, moves on inside it, or leaves it
  at its end with the decision open.  `CodePrefixes` says that the code of a macro is
  where it was, whatever follows, and `JudgedKept` that no later macro changes a
  decision.

`ProgramsProofs`:
- `DecodersAgree`: `PrintsWhatHappened`, by arithmetic on the words: each field is in
  bits of its own.
- `EndsReported`: `EveryEndReported`.  `RrmonInv` knows two kinds of stacks: those in
  which no dump has failed, with as many dumps as handlers returned, and those in
  which one failed, whose reason (no name, no descriptor) is permanent.
- `SilentForEqualFiles`: `SilentIffEqual`, for files and buffers of any size.
  `LcmpInv` says that as long as nothing was printed the two files were read to the
  same place and agree up to there, and that two equal files are always at the same
  place; what `fgets` takes is a function of what is left.

Where a run checks no type invariant (`increments`, `regtrace`, `notify_desched`), it
is proved.

What the recursive functions compute (`Logged`, `Code`, `Judged`) and that `fgets`
stops somewhere is established with `LeastNat`: a set of naturals has a least element,
so a set of counterexamples that has none is empty.  The library's induction rules
take an operator and cannot be used.

Only model-checked:

- Termination and all other liveness, which is beyond the prover.
- Everything in `PathInsertion` (`NoFault`, `PathRecovered`), which uses the recursive
  operators of `BallLarusDag`; and that the DAGs of `BallLarusDag` satisfy `DagsOK` and
  `BackEdgesOK` (TLC evaluates the assumptions on all graphs of the runs).
- `Watchpoint` and `AsmStubs`, which have no parameters: their runs explore every
  state, and a proof would add nothing.
- `ListsDifferences` of `LineCompare`: the list it compares with is made by splitting
  the whole file into lines at its newlines, a sorted and flattened sequence for which
  the library has no theorems.

## What is not modelled

- Of the runtime: short writes that cut a record in two; signal handlers that log
  while their thread is inside the runtime, and a fork inside `init_process` between
  `pthread_atfork` and `pthread_key_create`.
- Of the pass: the `.dot` output, the tables it writes, counters in arrays, which
  `HASH_THRESHHOLD` 0 makes unreachable, and the loop over call-phony edges at the
  end of `insertInstrumentation` (`PathLogging.cpp:1434-1467`), which has nothing to
  do since no edge of type `CALLEDGE_PHONY` is ever created.  LLVM is represented by
  what the pass relies on.
- Of the tracers: processes forked by the tracee of `regtrace.c`, which it
  never waits for; failures of ioctls (the `err()` exits of `notify_desched.c`) and of
  `PTRACE_TRACEME` (except in `Watchpoint` and `Sysemu`); `chew_cpu`, unreachable with
  `which = IO`; the contents of registers that no condition depends on.
- Of the smaller programs: files that `lcmp.c` cannot open; `getrusage` that fails and
  signals inside `printf` in `rrmon.c`, and ends it has no hook for (SIGTERM, SIGKILL,
  `_exit`), which print nothing; `_IO_fputs_rest`, whose state is glibc's; the
  listing of the memory map in `vdso_monkeypatch.c`.
- `launch.c`, `ctor.cc`, `mod.cc`, `bad_syscall.c` and `pwrite64_testcase.c` are
  straight lines of calls; `histogram-trace` and `count-syscalls` count the lines of
  files that another program writes; `libc-sysdeps-i386-i586-strlen.S` is copied glibc
  code on machine words; `gdbinit`, the build and the evaluation scripts have no
  program state.  `PROJECT.json` gives the reason for each.
