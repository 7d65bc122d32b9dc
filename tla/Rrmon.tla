-------------------------------- MODULE Rrmon --------------------------------
(***************************************************************************)
(* rrmon.c, a library preloaded into a program: it prints the statistics   *)
(* of the process when it exits (deinit) and on SIGABRT and SIGSEGV        *)
(* (sighandler).  A dump opens /proc/<pid>/comm and never closes it, and a *)
(* dump that fails calls abort(), which raises SIGABRT, which dumps.       *)
(***************************************************************************)
EXTENDS Integers, Sequences, SequencesExt

CONSTANTS
  Descriptors,  \* free descriptors when the program starts
  StackLimit,   \* activations that fit the stack
  MaxSignals    \* bound: SIGSEGVs sent by other processes

(* The stack has room for the program and for one handler on top of it.    *)
ASSUME RrmonAssumption ==
  Descriptors \in Nat /\ StackLimit \in Nat \ {0, 1} /\ MaxSignals \in Nat

VARIABLES
  frames,   \* what the thread is in, innermost last
  fds,      \* free descriptors
  named,    \* the name of the process is not empty
  handled,  \* signals handled
  sent,     \* of those, sent by other processes
  dumps,    \* statistics printed
  ended     \* "no", or how the process ended

rrmonVars == <<frames, fds, named, handled, sent, dumps, ended>>

RrmonInit(names) ==
  /\ frames = <<"main">> /\ fds = Descriptors /\ named \in names
  /\ handled = 0 /\ sent = 0 /\ dumps = 0 /\ ended = "no"

In(f) == ended = "no" /\ Last(frames) = f

(* The kernel pushes sighandler on s; without room it kills the process.   *)
Deliver(s) ==
  IF Len(s) < StackLimit
  THEN frames' = Append(s, "sighandler") /\ handled' = handled + 1 /\ UNCHANGED ended
  ELSE ended' = "overflow" /\ UNCHANGED <<frames, handled>>

(* The program executes an instruction that faults: it will fault again    *)
(* whenever the handler returns to it.                                     *)
Fault ==
  /\ In("main") \/ In("faulting")
  /\ Deliver(<<"faulting">>)
  /\ UNCHANGED <<fds, named, sent, dumps>>

(* Another process sends SIGSEGV.                                          *)
Sent ==
  /\ In("main") /\ sent < MaxSignals
  /\ Deliver(frames) /\ sent' = sent + 1
  /\ UNCHANGED <<fds, named, dumps>>

(* The program calls abort(): SIGABRT is raised with the handler in place. *)
Abort ==
  /\ In("main")
  /\ Deliver(<<"abort">>)
  /\ UNCHANGED <<fds, named, sent, dumps>>

(* The handler returns into abort(), which restores the default action and *)
(* raises SIGABRT again.                                                   *)
AbortAgain ==
  /\ In("abort") /\ ended' = "aborted"
  /\ UNCHANGED <<frames, fds, named, handled, sent, dumps>>

(* The program ends: the destructor deinit runs.  Mutant: it does not.     *)
Exit_no_deinit ==
  /\ In("main") /\ ended' = "exited"
  /\ UNCHANGED <<frames, fds, named, handled, sent, dumps>>

Exit ==
  /\ In("main") /\ frames' = <<"deinit">>
  /\ UNCHANGED <<fds, named, handled, sent, dumps, ended>>

(* fatal: perror and abort.  Mutant: the dump is tried again.              *)
fatal_retries == UNCHANGED <<frames, handled, ended>>

fatal == Deliver(Append(frames, "abort"))

(* get_process_name: the descriptor it opens is lost, and an empty name is *)
(* an error.                                                               *)
opened == IF fds > 0 THEN 1 ELSE 0
NameRead == fds > 0 /\ named

(* dump_process_stats, from the handler or from the destructor.            *)
dump_process_stats ==
  /\ In("sighandler") \/ In("deinit")
  /\ fds' = fds - opened
  /\ \/ /\ NameRead /\ dumps' = dumps + 1
        /\ IF Last(frames) = "deinit"
           THEN ended' = "exited" /\ UNCHANGED frames
           ELSE frames' = Front(frames) /\ UNCHANGED ended
        /\ UNCHANGED handled
     \/ ~NameRead /\ fatal /\ UNCHANGED dumps
  /\ UNCHANGED <<named, sent>>

RrmonNext == Fault \/ Sent \/ Abort \/ AbortAgain \/ Exit \/ dump_process_stats

RrmonSpec == RrmonInit(BOOLEAN) /\ [][RrmonNext]_rrmonVars
------------------------------------------------------------------------------
(* Ends by exit, abort and SIGSEGV (which the handler turns into one of    *)
(* the others).  Each exit prints the statistics once and each abort at    *)
(* least once, on top of one line for every signal survived; otherwise     *)
(* they are lost only if the name is empty or the descriptors ran out.     *)
(* rrmon.c has no hook for other ends (SIGTERM, SIGKILL, _exit).           *)
EveryEndReported ==
  /\ ended = "exited" => dumps = handled + 1
  /\ ended = "aborted" => dumps = handled /\ dumps > 0
  /\ ended = "overflow" => fds = 0 \/ ~named

(* A monitored process ends, even one that faults forever because the      *)
(* handler returns to the faulting instruction: every dump loses a         *)
(* descriptor, and the dump that finds none aborts.                        *)
MonitoredEnds == <>(ended # "no")
==============================================================================
