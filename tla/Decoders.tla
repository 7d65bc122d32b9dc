------------------------------ MODULE Decoders -------------------------------
(***************************************************************************)
(* The decoders of numbers: status2text.c and dump_status of sysemu.c for  *)
(* the status word of waitpid, strfutexcmd.c for the operation word of     *)
(* futex.  Each is checked against what the kernel encodes.                *)
(***************************************************************************)
EXTENDS Naturals

CONSTANTS Codes, Signals, StopSignals, Events, Ops   \* small sets of the encoded numbers

(* The width of each field of the two words.                               *)
ASSUME FieldsOK ==
  /\ Codes \subseteq 0 .. 255 /\ Signals \subseteq 1 .. 126
  /\ StopSignals \subseteq 0 .. 255 /\ Events \subseteq 0 .. 255
  /\ Ops \subseteq 0 .. 127

VARIABLES
  happened,  \* what the kernel encodes
  word,      \* the number the program is given
  printed, dump  \* what status2text or strfutexcmd, and dump_status, say

decodeVars == <<happened, word, printed, dump>>

(* The kernel's encodings.                                                 *)
ExitedWith(c) == [what |-> "exited", code |-> c]
KilledBy(s, core) == [what |-> "signaled", sig |-> s, core |-> core]
StoppedBy(s, e) == [what |-> "stopped", sig |-> s, event |-> e]
Continued == [what |-> "continued"]
Futex(op, private, realtime) ==
  [what |-> "futex", op |-> op, private |-> private, realtime |-> realtime]

Happenings ==
  {ExitedWith(c) : c \in Codes} \cup {KilledBy(s, b) : s \in Signals, b \in BOOLEAN}
    \cup {StoppedBy(s, e) : s \in StopSignals, e \in Events} \cup {Continued}
    \cup {Futex(op, p, r) : op \in Ops, p \in BOOLEAN, r \in BOOLEAN}

Bit(b, n) == IF b THEN n ELSE 0

Encode(h) ==
  CASE h.what = "exited" -> 256 * h.code
    [] h.what = "signaled" -> h.sig + Bit(h.core, 128)
    [] h.what = "stopped" -> 65536 * h.event + 256 * h.sig + 127
    [] h.what = "continued" -> 65535
    [] h.what = "futex" -> h.op + Bit(h.private, 128) + Bit(h.realtime, 256)
------------------------------------------------------------------------------
(* The macros of <sys/wait.h>.                                             *)
WTERMSIG(s) == s % 128
WEXITSTATUS(s) == (s \div 256) % 256
WIFEXITED(s) == WTERMSIG(s) = 0
WIFSIGNALED(s) == WTERMSIG(s) \in 1 .. 126
WIFSTOPPED(s) == s % 256 = 127
WIFCONTINUED(s) == s = 65535
WCOREDUMP(s) == (s \div 128) % 2 = 1

(* Mutant: an event that fills its byte is cut off.                        *)
PTRACE_EVENT_narrow(s) == (s \div 65536) % 8
PTRACE_EVENT(s) == (s \div 65536) % 256

(* main of status2text.c, for one status.                                  *)
status2text(s) ==
  IF WIFEXITED(s) THEN ExitedWith(WEXITSTATUS(s))
  ELSE IF WIFSIGNALED(s) THEN KilledBy(WTERMSIG(s), WCOREDUMP(s))
  ELSE IF WIFSTOPPED(s) THEN StoppedBy(WEXITSTATUS(s), PTRACE_EVENT(s))
  ELSE IF WIFCONTINUED(s) THEN Continued
  ELSE [what |-> "unknown"]

(* dump_status of sysemu.c: the same tests in another order.  It does not  *)
(* show the event or the core dump, and answers whether the child lives.   *)
sysemu_dump_status(s) ==
  IF WIFSTOPPED(s) THEN <<"stopped", WEXITSTATUS(s), 1>>
  ELSE IF WIFCONTINUED(s) THEN <<"continued", 0, 1>>
  ELSE IF WIFEXITED(s) THEN <<"exited", WEXITSTATUS(s), 0>>
  ELSE IF WIFSIGNALED(s) THEN <<"signaled", WTERMSIG(s), 0>>
  ELSE <<"running", 0, 1>>

(* strfutexcmd.c: the names are the operations 0 .. 12.                    *)
strfutex(c) ==
  LET private == (c \div 128) % 2 = 1
      clock_realtime == (c \div 256) % 2 = 1
      op == c - Bit(private, 128) - Bit(clock_realtime, 256) IN
  Futex(IF op \in 0 .. 12 THEN op ELSE 99, private, clock_realtime)

DecodeInit(hs) ==
  /\ happened \in hs /\ word = Encode(happened)
  /\ printed = [what |-> "none"] /\ dump = <<"none">>

Decode ==
  /\ printed.what = "none"
  /\ IF happened.what = "futex"
     THEN printed' = strfutex(word) /\ UNCHANGED dump
     ELSE printed' = status2text(word) /\ dump' = sysemu_dump_status(word)
  /\ UNCHANGED <<happened, word>>

DecodeSpec == DecodeInit(Happenings) /\ [][Decode]_decodeVars
------------------------------------------------------------------------------
(* What is printed is what happened, for every encoding: the tests of the  *)
(* two status decoders, in different orders, tell the same cases apart (a  *)
(* stop has all the bits of a termination by signal 127) and print the     *)
(* same code or signal, and the flags of a futex operation do not disturb  *)
(* its name (operations from 13 on have none).                             *)
PrintsWhatHappened ==
  printed.what # "none" =>
    /\ printed = IF happened.what = "futex" /\ happened.op > 12
              THEN [happened EXCEPT !.op = 99] ELSE happened
    /\ happened.what # "futex" =>
         /\ dump[1] = happened.what
         /\ happened.what = "exited" => dump[2] = happened.code
         /\ happened.what \in {"signaled", "stopped"} => dump[2] = happened.sig
         /\ (dump[3] = 0) <=> happened.what \in {"exited", "signaled"}
==============================================================================
