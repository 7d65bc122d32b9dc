---------------------------- MODULE RegtraceProofs ----------------------------
(***************************************************************************)
(* The assertion of regtrace.c holds and its labels are right, for any     *)
(* number of syscalls and signals.                                         *)
(***************************************************************************)
EXTENDS Regtrace, SequenceTheorems, TLAPS

(* Every reachable state of tracer and tracee is well typed.               *)
THEOREM TracerTypes == Spec => []TypeOK
<1>1. Init => TypeOK
  <2> SUFFICES ASSUME Init PROVE TypeOK
    BY Zenon
  <2>1. skewed \in BOOLEAN
    BY Zenon DEF Init
  <2>2. labels \in Seq({"trap", "entering", "exiting"})
    BY DEF Init
  <2>3. QED
    BY <2>1, <2>2, BoundsOK DEF Init, TypeOK, start_state, Modes, States, Stops, Places
<1>2. TypeOK /\ [Next]_vars => TypeOK'
  <2> SUFFICES ASSUME TypeOK, [Next]_vars PROVE TypeOK'
    BY Zenon
  <2>1. skewed' \in BOOLEAN
    <3>1. skewed' = skewed \/ skewed' = (stop \in {"FORK", "EXIT"})
      BY Zenon DEF Next, trace, kernel, program, vars, firstWait, setOptions, resume, waitEvent,
         waitEnd, waitSignal, waitTrap, waitSyscall, childStops, enterSyscall,
         doSyscall, leaveSyscall, singleStep, die, makeSyscall, signal, fatalSignal,
         kill
    <3>2. (stop \in {"FORK", "EXIT"}) \in BOOLEAN
      OBVIOUS
    <3>3. QED
      BY Zenon, <3>1, <3>2 DEF TypeOK
  <2>2. labels' \in Seq({"trap", "entering", "exiting"})
    <3>1. \/ labels' \in {labels, <<>>, <<"trap">>}
          \/ labels' = Append(labels, Label)
      BY Zenon DEF Next, trace, kernel, program, vars, firstWait, setOptions, resume, waitEvent,
         waitEnd, waitSignal, waitTrap, waitSyscall, childStops, enterSyscall,
         doSyscall, leaveSyscall, singleStep, die, makeSyscall, signal, fatalSignal,
         kill
    <3>2. Label \in {"trap", "entering", "exiting"}
      BY Zenon DEF Label
    <3> DEFINE Labels == {"trap", "entering", "exiting"}
    <3>3. labels \in Seq(Labels)
      BY Zenon DEF TypeOK
    <3>4. <<>> \in Seq(Labels) /\ <<"trap">> \in Seq(Labels)
      OBVIOUS
    <3>5. Append(labels, Label) \in Seq(Labels)
      BY <3>2, <3>3
    <3>6. QED
      BY Zenon, <3>1, <3>3, <3>4, <3>5
  <2>3. syscalls' \in 0 .. MaxSyscalls /\ signals' \in 0 .. MaxSignals
    <3>1. /\ syscalls' = syscalls \/ (syscalls < MaxSyscalls /\ syscalls' = syscalls + 1)
          /\ signals' = signals \/ (signals < MaxSignals /\ signals' = signals + 1)
      BY Zenon DEF Next, trace, kernel, program, vars, traceeVars, firstWait, setOptions, resume,
         waitEvent, waitEnd, waitSignal, waitTrap, waitSyscall, childStops,
         enterSyscall, doSyscall, leaveSyscall, singleStep, die, makeSyscall, signal,
         fatalSignal, kill
    <3>2. syscalls \in 0 .. MaxSyscalls /\ signals \in 0 .. MaxSignals
      BY Zenon DEF TypeOK
    <3>3. QED
      BY <3>1, <3>2, BoundsOK
  <2> DEFINE T == /\ mode \in Modes /\ state \in States
                  /\ request \in {"CONT", "SYSCALL", "SINGLESTEP"}
                  /\ stop \in Stops /\ run \in Places
                  /\ call \in Calls \cup {"none"}
                  /\ filter \in {"absent", "preloaded", "installed"}
  <2>4. T
    BY Zenon DEF TypeOK
  <2>5. T'
    <3> USE <2>4 DEF tracerVars, traceeVars
    <3>1. CASE firstWait \/ setOptions \/ waitEnd \/ waitTrap
      BY Zenon, <3>1 DEF firstWait, setOptions, waitEnd, waitTrap, Modes
    <3>2. CASE resume \/ waitSignal
      BY Zenon, <3>2 DEF resume, resumeRequest, waitSignal, Modes, Stops
    <3>3. CASE waitEvent \/ waitSyscall
      BY Zenon, <3>3
         DEF waitEvent, eventState, waitSyscall, syscallState, start_state, Modes,
         States
    <3>4. CASE childStops \/ enterSyscall \/ singleStep \/ die
      BY Zenon, <3>4 DEF childStops, enterSyscall, singleStep, die, Stops, Places
    <3>5. CASE doSyscall
      BY Zenon, <3>5 DEF doSyscall, Stops, Places, Events
    <3>6. CASE leaveSyscall
      BY Zenon, <3>6 DEF leaveSyscall, Stops, Places
    <3>7. CASE \E c \in Calls : makeSyscall(c)
      BY Zenon, <3>7 DEF makeSyscall, Stops, Places, Events
    <3>8. CASE signal \/ fatalSignal \/ kill
      BY Zenon, <3>8 DEF signal, fatalSignal, kill, Stops, Places, Events
    <3>9. CASE UNCHANGED vars
      BY Zenon, <3>9 DEF vars
    <3>10. QED
      BY Zenon, <3>1, <3>2, <3>3, <3>4, <3>5, <3>6, <3>7, <3>8, <3>9
         DEF Next, trace, kernel, program
  <2>6. QED
    BY Zenon, <2>1, <2>2, <2>3, <2>5 DEF TypeOK
<1>3. QED
  BY <1>1, <1>2, PTL DEF Spec

(* While the tracer waits, the last request that took effect is the one of *)
(* its state, or a step; a request fails only after a step; and a tracee   *)
(* stops at a syscall only if it was resumed up to one.                    *)
RequestInv ==
  /\ mode = "resume" /\ stop = "none" => request = "SINGLESTEP"
  /\ mode = "wait" /\ stop # "dead" /\ request = "SYSCALL" =>
       state # "TRAPPING_SECCOMP"
  /\ stop \in {"entry", "exit"} => request = "SYSCALL"
  /\ stop = "dead" => run = "dead"
  /\ mode # "aborted"

(* The strengthening is inductive.                                         *)
LEMMA RequestsMatch == Spec => []RequestInv
<1>1. Init => RequestInv
  BY Zenon DEF Init, RequestInv
<1>2. TypeOK /\ RequestInv /\ [Next]_vars => RequestInv'
  <2> SUFFICES ASSUME TypeOK, RequestInv, [Next]_vars PROVE RequestInv'
    BY Zenon
  <2> USE DEF TypeOK, RequestInv, vars, tracerVars, traceeVars, Events, Modes, States, Stops, Places
  <2>1. CASE trace
    BY <2>1 DEF trace, firstWait, setOptions, resume, resumeRequest, waitEvent, eventState,
       waitEnd, waitSignal, waitTrap, waitSyscall, syscallState, start_state
  <2>2. CASE kernel
    BY Zenon, <2>2 DEF kernel, childStops, enterSyscall, doSyscall, leaveSyscall,
       singleStep, die
  <2>3. CASE program
    BY Zenon, <2>3 DEF program, makeSyscall, signal, fatalSignal, kill
  <2>4. CASE UNCHANGED vars
    BY Zenon, <2>4
  <2>5. QED
    BY Zenon, <2>1, <2>2, <2>3, <2>4 DEF Next
<1>3. QED
  BY <1>1, <1>2, TracerTypes, PTL DEF Spec

(* assert(ENTERING_SYSCALL == state || EXITING_SYSCALL == state) holds     *)
(* whenever the tracee has stopped at a syscall.                           *)
THEOREM TracerAssertion == Spec => []AssertionHolds
<1>1. RequestInv => AssertionHolds
  BY Zenon DEF RequestInv, AssertionHolds
<1>2. QED
  BY <1>1, RequestsMatch, PTL
------------------------------------------------------------------------------
(* The labels.  A log that starts with the trap of its syscall:            *)
Led(log) == log # <<>> /\ log[1] = "trap"

(* Logging a label does not change how the log starts.                     *)
LEMMA AppendLed ==
  ASSUME NEW log \in Seq({"trap", "entering", "exiting"}),
         NEW x \in {"entering", "exiting"}
  PROVE  Led(Append(log, x)) <=> Led(log)
<1>1. CASE log = <<>>
  <2>1. Append(log, x) = <<x>>
    BY <1>1
  <2>2. QED
    BY <1>1, <2>1 DEF Led
<1>2. CASE log # <<>>
  <2>1. Len(log) >= 1
    BY <1>2
  <2>2. Append(log, x)[1] = log[1] /\ Append(log, x) # <<>>
    BY <2>1
  <2>3. QED
    BY Zenon, <1>2, <2>2 DEF Led
<1>3. QED
  BY Zenon, <1>1, <1>2

(* The logs of a syscall that trapped: at the trap, the entry and the exit. *)
LEMMA LogOfCall ==
  /\ ~Led(<<>>) /\ Led(<<"trap">>)
  /\ Append(<<"trap">>, "entering") = <<"trap", "entering">>
  /\ Append(<<"trap", "entering">>, "exiting") = <<"trap", "entering", "exiting">>
<1>1. <<"trap">> # <<>> /\ <<"trap">>[1] = "trap"
  BY Zenon
<1>2. ~Led(<<>>) /\ Led(<<"trap">>)
  BY Zenon, <1>1 DEF Led
<1> DEFINE Labels == {"trap", "entering", "exiting"}
<1>3. Append(<<"trap">>, "entering") = <<"trap", "entering">>
  <2>1. <<"trap", "entering">> \in Seq(Labels) /\ Append(<<"trap">>, "entering") \in Seq(Labels)
    OBVIOUS
  <2>2. /\ Len(Append(<<"trap">>, "entering")) = Len(<<"trap", "entering">>)
        /\ \A i \in 1 .. Len(Append(<<"trap">>, "entering")) :
             Append(<<"trap">>, "entering")[i] = <<"trap", "entering">>[i]
    OBVIOUS
  <2>3. QED
    BY ONLY <2>1, <2>2, SeqEqual
<1>4. Append(<<"trap", "entering">>, "exiting") = <<"trap", "entering", "exiting">>
  <2>1. /\ <<"trap", "entering", "exiting">> \in Seq(Labels)
        /\ Append(<<"trap", "entering">>, "exiting") \in Seq(Labels)
    OBVIOUS
  <2>2. /\ Len(Append(<<"trap", "entering">>, "exiting")) = Len(<<"trap", "entering", "exiting">>)
        /\ \A i \in 1 .. Len(Append(<<"trap", "entering">>, "exiting")) :
             Append(<<"trap", "entering">>, "exiting")[i] = <<"trap", "entering", "exiting">>[i]
    OBVIOUS
  <2>3. QED
    BY ONLY <2>1, <2>2, SeqEqual
<1>5. QED
  BY Zenon, <1>2, <1>3, <1>4

(* Where the tracee is at each stop, and before the options are set.       *)
PlaceInv ==
  /\ run = "dead" <=> stop = "dead"
  /\ mode \in {"returned", "not stopped", "no options"} => run = "dead"
  /\ run = "started" => mode = "first" /\ stop = "none"
  /\ mode \in {"first", "options"} =>
       /\ state = "TRAPPING_SECCOMP" /\ labels = <<>>
       /\ run \notin {"dead", "started"} => run = "user" /\ stop = "SIGSTOP"
  /\ stop = "SECCOMP" => run = "entering"
  /\ stop = "EXEC" => run = "leaving" /\ call = "exec"
  /\ stop = "FORK" => run = "leaving" /\ call = "fork"
  /\ stop = "EXIT" => run = "dying"

(* The strengthening is inductive.                                         *)
LEMMA StopsPlaced == Spec => []PlaceInv
<1>1. Init => PlaceInv
  BY Zenon DEF Init, PlaceInv, start_state
<1>2. TypeOK /\ PlaceInv /\ [Next]_vars => PlaceInv'
  <2> SUFFICES ASSUME TypeOK, PlaceInv, [Next]_vars PROVE PlaceInv'
    BY Zenon
  <2> USE DEF PlaceInv, vars, tracerVars, traceeVars, Events
  <2>0. mode \in Modes /\ stop \in Stops /\ run \in Places
    BY Zenon DEF TypeOK
  <2>1. CASE trace
    BY Zenon, <2>1, <2>0
       DEF trace, firstWait, setOptions, resume, waitEvent, waitEnd, waitSignal, waitTrap,
       waitSyscall, Modes, Stops, Places
  <2>2. CASE kernel
    BY Zenon, <2>2, <2>0 DEF kernel, childStops, enterSyscall, doSyscall, leaveSyscall,
       singleStep, die, Modes, Stops, Places
  <2>3. CASE program
    BY Zenon, <2>3, <2>0
       DEF program, makeSyscall, signal, fatalSignal, kill, Modes, Stops, Places
  <2>4. CASE UNCHANGED vars
    BY Zenon, <2>4
  <2>5. QED
    BY Zenon, <2>1, <2>2, <2>3, <2>4 DEF Next
<1>3. QED
  BY <1>1, <1>2, TracerTypes, PTL DEF Spec

(* Tracer and tracee in step.  In ENTERING_SYSCALL the tracee is between   *)
(* its trap and its entry, in EXITING_SYSCALL between its entry and its    *)
(* exit, and in TRAPPING_SECCOMP the last syscall that trapped is logged.  *)
InStep ==
  /\ state = "ENTERING_SYSCALL" =>
       /\ labels = <<"trap">>
       /\ mode = "resume" => stop = "SECCOMP"
       /\ mode = "wait" => /\ request = "SYSCALL"
                           /\ \/ stop = "none" /\ run = "entering"
                              \/ stop = "entry" /\ run = "inside"
  /\ state = "EXITING_SYSCALL" =>
       /\ Led(labels) => labels = <<"trap", "entering">>
       /\ mode = "resume" => stop = "EXEC" \/ (stop = "entry" /\ run = "inside")
       /\ mode = "wait" => /\ request = "SYSCALL"
                           /\ \/ run = "inside" /\ stop = "none"
                              \/ run = "leaving" /\ stop \in {"none", "EXEC", "FORK"}
                              \/ run = "user" /\ stop = "exit"
                              \/ run = "dying" /\ stop = "EXIT"
  /\ state = "TRAPPING_SECCOMP" /\ Led(labels) =>
       /\ run \in {"user", "dying"}
       /\ labels = <<"trap", "entering", "exiting">>

(* They are in step unless a fork or exit event came in the middle of a    *)
(* syscall; then the log that starts with a trap is that of the fork.      *)
StepInv ==
  /\ ~skewed /\ run # "dead" => InStep
  /\ skewed /\ Led(labels) /\ run \notin {"user", "dying", "dead"} => call = "fork"

(* The strengthening is inductive.                                         *)
LEMMA StaysInStep == Spec => []StepInv
<1>1. Init => StepInv
  <2> SUFFICES ASSUME Init PROVE StepInv
    BY Zenon
  <2>1. ~skewed /\ ~Led(labels)
    BY Zenon, LogOfCall DEF Init
  <2>2. InStep
    BY Zenon, <2>1 DEF Init, InStep, start_state
  <2>3. QED
    BY Zenon, <2>1, <2>2 DEF StepInv
<1>2. TypeOK /\ RequestInv /\ PlaceInv /\ StepInv /\ [Next]_vars => StepInv'
  <2> SUFFICES ASSUME TypeOK, RequestInv, PlaceInv, StepInv, [Next]_vars PROVE StepInv'
    BY Zenon
  <2>0. /\ mode \in Modes /\ state \in States /\ stop \in Stops /\ run \in Places
        /\ labels \in Seq({"trap", "entering", "exiting"})
    BY Zenon DEF TypeOK
  <2>1. CASE waitEvent
    <3>1. CASE stop \in {"FORK", "EXIT"}
      <4>1. skewed' /\ UNCHANGED <<run, call>>
        BY Zenon, <2>1, <3>1 DEF waitEvent, traceeVars
      <4>2. run \in {"user", "dying", "dead"} \/ call = "fork"
        BY Zenon, <3>1 DEF PlaceInv
      <4>3. QED
        BY Zenon, <4>1, <4>2 DEF StepInv
    <3>2. CASE stop = "SECCOMP"
      <4>1. /\ ~skewed' /\ labels' = <<"trap">> /\ state' = "ENTERING_SYSCALL"
            /\ mode' = "resume" /\ stop' = "SECCOMP"
        BY Zenon, <2>1, <3>2 DEF waitEvent, eventState
      <4>2. InStep'
        BY Zenon, <4>1 DEF InStep
      <4>3. QED
        BY Zenon, <4>1, <4>2 DEF StepInv
    <3>3. CASE stop = "EXEC"
      <4>1. /\ ~skewed' /\ labels' = labels /\ state' = "EXITING_SYSCALL"
            /\ mode' = "resume" /\ stop' = "EXEC"
        BY Zenon, <2>1, <3>3 DEF waitEvent, eventState
      <4>2. mode = "wait" /\ run = "leaving" /\ call = "exec"
        BY Zenon, <2>1, <3>3 DEF waitEvent, PlaceInv
      <4>3. ~skewed => InStep
        BY Zenon, <4>2 DEF StepInv
      <4>4. Led(labels) => labels = <<"trap", "entering">>
        <5>1. CASE skewed
          BY Zenon, <5>1, <4>2 DEF StepInv
        <5>2. CASE ~skewed
          BY Zenon, <5>2, <4>2, <4>3, <3>3, <2>0 DEF InStep, States
        <5>3. QED
          BY Zenon, <5>1, <5>2
      <4>5. InStep'
        BY Zenon, <4>1, <4>4 DEF InStep
      <4>6. QED
        BY Zenon, <4>1, <4>5 DEF StepInv
    <3>4. QED
      BY Zenon, <2>1, <3>1, <3>2, <3>3 DEF waitEvent, Events
  <2>2. CASE waitSyscall
    <3>1. UNCHANGED <<skewed, run, call, stop, request>>
      BY Zenon, <2>2 DEF waitSyscall, traceeVars
    <3>2. Label \in {"entering", "exiting"} /\ labels' = Append(labels, Label)
      BY Zenon, <2>2 DEF waitSyscall, Label
    <3>3. Led(labels)' <=> Led(labels)
      BY Zenon, <3>2, <2>0, AppendLed
    <3>4. CASE skewed
      BY Zenon, <3>1, <3>3, <3>4 DEF StepInv
    <3>5. CASE ~skewed /\ run = "dead"
      BY Zenon, <3>1, <3>5 DEF StepInv
    <3>6. CASE ~skewed /\ run # "dead"
      <4>1. InStep /\ mode = "wait" /\ stop \in {"entry", "exit"} /\ state # "TRAPPING_SECCOMP"
        BY Zenon, <3>6, <2>2 DEF StepInv, waitSyscall, RequestInv
      <4>2. CASE state = "ENTERING_SYSCALL"
        <5>1. labels' = <<"trap", "entering">>
          BY Zenon, <4>1, <4>2, <3>2, LogOfCall DEF InStep, Label
        <5>2. state' = "EXITING_SYSCALL" /\ mode' = "resume"
          BY Zenon, <4>2, <2>2 DEF waitSyscall, syscallState
        <5>3. stop = "entry" /\ run = "inside"
          BY Zenon, <4>1, <4>2 DEF InStep
        <5>4. InStep'
          BY Zenon, <5>1, <5>2, <5>3, <3>1 DEF InStep
        <5>5. QED
          BY Zenon, <3>6, <5>4, <3>1 DEF StepInv
      <4>3. CASE state = "EXITING_SYSCALL"
        <5>1. Label = "exiting" /\ run \in {"user", "dying"}
          BY Zenon, <4>1, <4>3 DEF InStep, Label
        <5>2. Led(labels) => labels' = <<"trap", "entering", "exiting">>
          BY Zenon, <4>1, <4>3, <5>1, <3>2, LogOfCall DEF InStep
        <5>3. state' = "TRAPPING_SECCOMP" /\ mode' = "resume"
          BY Zenon, <4>3, <2>2 DEF waitSyscall, syscallState, start_state
        <5>4. InStep'
          BY Zenon, <5>1, <5>2, <5>3, <3>1, <3>3 DEF InStep
        <5>5. QED
          BY Zenon, <3>6, <5>4, <3>1 DEF StepInv
      <4>4. QED
        BY Zenon, <4>1, <4>2, <4>3, <2>0 DEF States
    <3>7. QED
      BY Zenon, <3>4, <3>5, <3>6
  <2>3. CASE firstWait \/ setOptions \/ resume \/ waitEnd \/ waitSignal \/ waitTrap
    <3>1. UNCHANGED <<skewed, labels, run, call, state>>
      BY Zenon, <2>3
         DEF firstWait, setOptions, resume, waitEnd, waitSignal, waitTrap, traceeVars
    <3>2. InStep /\ run # "dead" => InStep'
      BY Zenon, <2>0, <2>3, <3>1 DEF InStep, PlaceInv, RequestInv, firstWait, setOptions, resume,
         resumeRequest, waitEnd, waitSignal, waitTrap, Modes, States, Stops, Places
    <3>3. QED
      BY Zenon, <3>1, <3>2 DEF StepInv
  <2>4. CASE kernel \/ signal \/ fatalSignal \/ kill
    <3>1. UNCHANGED <<skewed, labels, mode, state, request>>
      BY Zenon, <2>4 DEF kernel, childStops, enterSyscall, doSyscall, leaveSyscall,
         singleStep, die, signal, fatalSignal, kill, tracerVars
    <3>2. run' \notin {"user", "dying", "dead"} => run # "dead" /\ run # "user"
                                                /\ run # "dying" /\ call' = call
      BY Zenon, <2>4 DEF kernel, childStops, enterSyscall, doSyscall, leaveSyscall,
         singleStep, die, signal, fatalSignal, kill, traceeVars
    <3>3. InStep /\ run' # "dead" => InStep'
      <4>1. CASE childStops \/ enterSyscall
        BY Zenon, <4>1, <2>0, <3>1 DEF InStep, PlaceInv, RequestInv, childStops,
           enterSyscall, Modes, States
      <4>2. CASE doSyscall
        BY Zenon, <4>2, <2>0, <3>1
           DEF InStep, PlaceInv, RequestInv, doSyscall, Modes, States
      <4>3. CASE leaveSyscall
        BY Zenon, <4>3, <2>0, <3>1
           DEF InStep, PlaceInv, RequestInv, leaveSyscall, Modes, States
      <4>4. CASE singleStep \/ signal \/ fatalSignal
        BY Zenon, <4>4, <2>0, <3>1 DEF InStep, PlaceInv, RequestInv, singleStep, signal,
           fatalSignal, traceeVars, Modes, States
      <4>5. CASE die \/ kill
        BY Zenon, <4>5 DEF die, kill
      <4>6. QED
        BY Zenon, <2>4, <4>1, <4>2, <4>3, <4>4, <4>5 DEF kernel
    <3>4. run = "dead" => run' = "dead"
      BY Zenon, <2>4 DEF kernel, childStops, enterSyscall, doSyscall, leaveSyscall,
         singleStep, die, signal, fatalSignal, kill, traceeVars
    <3>5. QED
      BY Zenon, <3>1, <3>2, <3>3, <3>4 DEF StepInv
  <2>5. CASE \E c \in Calls : makeSyscall(c)
    <3>1. /\ UNCHANGED <<skewed, mode, state, request>>
          /\ labels' = <<>> /\ run = "user" /\ stop = "none"
      BY Zenon, <2>5 DEF makeSyscall, tracerVars
    <3>2. ~Led(labels)'
      BY Zenon, <3>1, LogOfCall
    <3>3. ~skewed => InStep
      BY Zenon, <3>1 DEF StepInv
    <3>4. ~skewed => state = "TRAPPING_SECCOMP"
      BY Zenon, <3>1, <3>3, <2>0 DEF InStep, PlaceInv, RequestInv, Modes, States
    <3>5. ~skewed => InStep'
      BY Zenon, <3>1, <3>2, <3>4 DEF InStep
    <3>6. QED
      BY Zenon, <3>1, <3>2, <3>5 DEF StepInv
  <2>6. CASE UNCHANGED vars
    <3>1. UNCHANGED <<skewed, labels, mode, state, request, stop, run, call>>
      BY Zenon, <2>6 DEF vars, tracerVars, traceeVars
    <3>2. InStep => InStep'
      BY Zenon, <3>1 DEF InStep
    <3>3. QED
      BY Zenon, <3>1, <3>2 DEF StepInv
  <2>7. QED
    BY Zenon, <2>1, <2>2, <2>3, <2>4, <2>5, <2>6 DEF Next, trace, program
<1>3. QED
  BY <1>1, <1>2, TracerTypes, RequestsMatch, StopsPlaced, PTL DEF Spec

(* Every stop at a syscall gets the right label, for any number of         *)
(* syscalls and signals, unless a fork event came in between.              *)
THEOREM LabelsStayRight == Spec => []LabelsRight
<1>1. TypeOK /\ StepInv /\ PlaceInv => LabelsRight
  <2> SUFFICES ASSUME TypeOK, StepInv, PlaceInv,
                      mode = "wait", ~skewed, state # "TRAPPING_SECCOMP"
               PROVE  /\ stop = "entry" => state = "ENTERING_SYSCALL"
                      /\ stop = "exit" => state = "EXITING_SYSCALL"
    BY Zenon DEF LabelsRight
  <2>1. state \in States
    BY Zenon DEF TypeOK
  <2>2. run # "dead" => InStep
    BY Zenon DEF StepInv
  <2>3. QED
    BY Zenon, <2>1, <2>2 DEF InStep, PlaceInv, States
<1>2. QED
  BY <1>1, TracerTypes, StaysInStep, StopsPlaced, PTL

(* Every syscall whose trap was seen is logged at its entry and its exit,  *)
(* for any number of syscalls and signals.                                 *)
THEOREM EveryCallLogged == Spec => []CallLogged
<1>1. TypeOK /\ RequestInv /\ StepInv /\ PlaceInv => CallLogged
  <2> SUFFICES ASSUME TypeOK, RequestInv, StepInv, PlaceInv,
                      run = "user", stop # "exit", ~skewed, Led(labels)
               PROVE  labels = <<"trap", "entering", "exiting">>
    BY Zenon DEF CallLogged, Led
  <2>1. mode \in Modes /\ state \in States
    BY Zenon DEF TypeOK
  <2>2. InStep
    BY Zenon DEF StepInv
  <2>3. mode \notin {"first", "options"}
    BY Zenon, LogOfCall DEF PlaceInv
  <2>4. state = "TRAPPING_SECCOMP"
    BY Zenon, <2>1, <2>2, <2>3 DEF InStep, PlaceInv, RequestInv, Modes, States
  <2>5. QED
    BY Zenon, <2>2, <2>4 DEF InStep
<1>2. QED
  BY <1>1, TracerTypes, RequestsMatch, StaysInStep, StopsPlaced, PTL
==============================================================================
