---------------------------- MODULE ProgramsProofs ----------------------------
(***************************************************************************)
(* Three sequential programs, on inputs of any size.                       *)
(*                                                                         *)
(*  - The decoders of status words and futex operations, for every word.   *)
(*  - rrmon.c, for any number of descriptors, any size of the stack and    *)
(*    any number of signals.                                               *)
(*  - lcmp.c, for files, lines and a buffer of any length.                 *)
(***************************************************************************)
EXTENDS Decoders, Rrmon, LineCompare, SequenceTheorems, WellFoundedInduction, TLAPS

(* The decoders.                                                           *)

(* A decoder is run once, on the word the kernel made of what happened.    *)
DecodeInv ==
  /\ happened \in Happenings /\ word = Encode(happened)
  /\ printed = [what |-> "none"] \/ PrintsWhatHappened

(* The macros of <sys/wait.h> on the status words: an exit.                *)
LEMMA ExitWord ==
  ASSUME NEW c \in 0 .. 255
  PROVE  /\ (256 * c) % 128 = 0 /\ ((256 * c) \div 256) % 256 = c
         /\ (256 * c) % 256 = 0 /\ 256 * c # 65535
  OBVIOUS

(* The word of a death by signal, with or without a core dump.             *)
LEMMA SignalWord ==
  ASSUME NEW s \in 1 .. 126, NEW n \in {0, 128}
  PROVE  /\ (s + n) % 128 = s
         /\ (((s + n) \div 128) % 2 = 1) <=> (n = 128)
         /\ (s + n) % 256 # 127 /\ s + n # 65535
  OBVIOUS

(* The flags of a futex operation are in bits of their own.                *)
LEMMA FutexWord ==
  ASSUME NEW op \in 0 .. 127, NEW n \in {0, 128}, NEW m \in {0, 256}
  PROVE  /\ (((op + n + m) \div 128) % 2 = 1) <=> (n = 128)
         /\ (((op + n + m) \div 256) % 2 = 1) <=> (m = 256)
  OBVIOUS

(* One case per kind of word.                                              *)
LEMMA DecodeStep == DecodeInv /\ [Decode]_decodeVars => DecodeInv'
<1> SUFFICES ASSUME DecodeInv, Decode PROVE PrintsWhatHappened' /\ UNCHANGED <<happened, word>>
  BY Zenon DEF DecodeInv, decodeVars, PrintsWhatHappened
<1>0. UNCHANGED <<happened, word>>
  BY Zenon DEF Decode
<1>1. ASSUME NEW c \in Codes, happened = ExitedWith(c) PROVE PrintsWhatHappened'
  <2>1. c \in 0 .. 255 /\ word = 256 * c
    BY SMTT(30), <1>1, FieldsOK DEF DecodeInv, Encode, ExitedWith
  <2>2. printed' = happened /\ dump' = <<"exited", c, 0>>
    BY SMTT(30), <1>1, <2>1, ExitWord
       DEF Decode, status2text, sysemu_dump_status, ExitedWith, WIFEXITED, WIFSTOPPED,
           WIFCONTINUED, WTERMSIG, WEXITSTATUS
  <2>3. QED
    BY Zenon, <1>0, <1>1, <2>2 DEF PrintsWhatHappened, ExitedWith
<1>2. ASSUME NEW s \in Signals, NEW b \in BOOLEAN, happened = KilledBy(s, b)
      PROVE  PrintsWhatHappened'
  <2>1. s \in 1 .. 126 /\ Bit(b, 128) \in {0, 128} /\ word = s + Bit(b, 128)
        /\ (Bit(b, 128) = 128) = b
    BY SMTT(30), <1>2, FieldsOK DEF DecodeInv, Encode, KilledBy, Bit
  <2>2. /\ WTERMSIG(word) = s /\ ~WIFEXITED(word) /\ ~WIFSTOPPED(word)
        /\ ~WIFCONTINUED(word) /\ WIFSIGNALED(word)
    BY SMTT(30), <2>1, SignalWord
       DEF WIFEXITED, WIFSTOPPED, WIFCONTINUED, WIFSIGNALED, WTERMSIG
  <2>3. WCOREDUMP(word) = b
    BY SMTT(30), <2>1, SignalWord DEF WCOREDUMP
  <2>4. printed' = status2text(word) /\ dump' = sysemu_dump_status(word)
    BY Zenon, <1>2 DEF Decode, KilledBy
  <2>5. printed' = happened /\ dump' = <<"signaled", s, 0>>
    BY Zenon, <1>2, <2>2, <2>3, <2>4 DEF status2text, sysemu_dump_status
  <2>6. QED
    BY SMTT(30), <1>0, <1>2, <2>5 DEF PrintsWhatHappened, KilledBy
<1>3. ASSUME NEW s \in StopSignals, NEW e \in Events, happened = StoppedBy(s, e)
      PROVE  PrintsWhatHappened'
  <2>1. s \in 0 .. 255 /\ e \in 0 .. 255
    BY FieldsOK
  <2>2. happened.what = "stopped" /\ happened.sig = s /\ happened.event = e
    BY Zenon, <1>3 DEF StoppedBy
  <2>3. word = 65536 * e + 256 * s + 127
    BY <2>2 DEF DecodeInv, Encode
  <2>4. PICK w : w = 65536 * e + 256 * s + 127
    OBVIOUS
  <2>5. w % 128 = 127 /\ w % 256 = 127 /\ (w \div 256) % 256 = s /\ (w \div 65536) % 256 = e
    BY SMTT(60), <2>1, <2>4
  <2>6. word = w
    BY <2>3, <2>4
  <2>7. word % 128 = 127 /\ word % 256 = 127 /\ WEXITSTATUS(word) = s /\ PTRACE_EVENT(word) = e
    BY <2>5, <2>6 DEF WEXITSTATUS, PTRACE_EVENT
  <2>8. ~WIFEXITED(word) /\ ~WIFSIGNALED(word) /\ WIFSTOPPED(word)
    BY <2>7 DEF WIFEXITED, WIFSIGNALED, WIFSTOPPED, WTERMSIG
  <2>9. printed' = status2text(word) /\ dump' = sysemu_dump_status(word)
    BY Zenon, <1>3 DEF Decode, StoppedBy
  <2>10. printed' = happened /\ dump' = <<"stopped", s, 1>>
    BY Zenon, <1>3, <2>7, <2>8, <2>9 DEF status2text, sysemu_dump_status
  <2>11. QED
    BY SMTT(30), <1>0, <1>3, <2>10 DEF PrintsWhatHappened, StoppedBy
<1>4. CASE happened = Continued
  <2>1. word = 65535
    BY SMTT(30), <1>4 DEF DecodeInv, Encode, Continued
  <2>2. printed' = happened /\ dump' = <<"continued", 0, 1>>
    BY SMTT(30), <1>4, <2>1
       DEF Decode, status2text, sysemu_dump_status, Continued, WIFEXITED, WIFSTOPPED,
           WIFSIGNALED, WIFCONTINUED, WTERMSIG
  <2>3. QED
    BY SMTT(30), <1>0, <1>4, <2>2 DEF PrintsWhatHappened, Continued
<1>5. ASSUME NEW op \in Ops, NEW p \in BOOLEAN, NEW r \in BOOLEAN, happened = Futex(op, p, r)
      PROVE  PrintsWhatHappened'
  <2>1. op \in 0 .. 127 /\ Bit(p, 128) \in {0, 128} /\ Bit(r, 256) \in {0, 256}
        /\ word = op + Bit(p, 128) + Bit(r, 256)
        /\ (Bit(p, 128) = 128) = p /\ (Bit(r, 256) = 256) = r
    BY SMTT(30), <1>5, FieldsOK DEF DecodeInv, Encode, Futex, Bit
  <2>2. ((word \div 128) % 2 = 1) = p /\ ((word \div 256) % 2 = 1) = r
    BY SMTT(30), <2>1, FutexWord
  <2>3. printed' = Futex(IF op \in 0 .. 12 THEN op ELSE 99, p, r)
    BY SMTT(30), <1>5, <2>1, <2>2 DEF Decode, strfutex, Futex
  <2>4. QED
    BY SMTT(30), <1>0, <1>5, <2>1, <2>3 DEF PrintsWhatHappened, Futex
<1>6. QED
  BY SMTT(30), <1>0, <1>1, <1>2, <1>3, <1>4, <1>5 DEF DecodeInv, Happenings

(* Whatever the numbers in the word, what is printed is what happened.     *)
THEOREM DecodersAgree == DecodeSpec => []PrintsWhatHappened
<1>1. DecodeInit(Happenings) => DecodeInv
  BY Zenon DEF DecodeInit, DecodeInv
<1>2. DecodeInv => PrintsWhatHappened
  BY DEF DecodeInv, PrintsWhatHappened
<1>3. QED
  BY <1>1, <1>2, DecodeStep, PTL DEF DecodeSpec
------------------------------------------------------------------------------
(* rrmon.c.                                                                *)

(* A thread that has not failed to dump is in the program, in deinit or in *)
(* a handler on top of the program, and has dumped for each handler that   *)
(* returned.  A thread that has failed calls itself until the stack is     *)
(* full, because the reason of the failure stays.                          *)
Bottom == {"main", "faulting", "abort"}
Frames == Bottom \cup {"deinit", "sighandler"}

(* No dump has failed.                                                     *)
Sound ==
  \/ /\ \E b \in Bottom : frames = <<b>>
     /\ dumps = handled /\ (frames = <<"abort">> => handled > 0)
  \/ \E b \in Bottom : frames = <<b, "sighandler">> /\ handled = dumps + 1
  \/ frames = <<"deinit">> /\ dumps = handled

(* The dump has failed in a handler, and will fail again.                  *)
Failing == ~NameRead /\ Last(frames) = "sighandler"

(* The stack is one or the other, and so far every end was reported.       *)
RrmonInv ==
  /\ frames \in Seq(Frames) \ {<<>>}
  /\ fds \in Nat /\ dumps \in Nat /\ handled \in Nat /\ named \in BOOLEAN
  /\ ended = "no" => Sound \/ Failing
  /\ EveryEndReported

(* A dump costs a descriptor, if there is one.                             *)
LEMMA OpenedLess ==
  ASSUME fds \in Nat PROVE fds - opened \in Nat /\ (fds = 0 => fds - opened = 0)
  BY DEF opened

(* A handler that is called is on top of the stack.                        *)
LEMMA PushedLast ==
  ASSUME NEW s \in Seq(Frames)
  PROVE  /\ Append(s, "sighandler") \in Seq(Frames) /\ Append(s, "sighandler") # <<>>
         /\ Last(Append(s, "sighandler")) = "sighandler"
  BY DEF Last, Frames

(* A handler on top of the only frame, and its return.                     *)
LEMMA TwoFrames ==
  ASSUME NEW b
  PROVE  /\ Append(<<b>>, "sighandler") = <<b, "sighandler">> /\ Len(<<b>>) = 1
         /\ Front(<<b, "sighandler">>) = <<b>>
         /\ Last(<<b, "sighandler">>) = "sighandler" /\ Last(<<b>>) = b
<1> DEFINE S == {b, "sighandler"}
<1>1. Append(<<b>>, "sighandler") \in Seq(S) /\ <<b, "sighandler">> \in Seq(S)
  OBVIOUS
<1>2. Len(Append(<<b>>, "sighandler")) = 2 /\ Len(<<b, "sighandler">>) = 2
  OBVIOUS
<1>3. \A i \in 1 .. 2 : Append(<<b>>, "sighandler")[i] = <<b, "sighandler">>[i]
  OBVIOUS
<1>4. Append(<<b>>, "sighandler") = <<b, "sighandler">>
  BY Zenon, <1>1, <1>2, <1>3, SeqEqual
<1>5. Front(<<b, "sighandler">>) \in Seq(S) /\ <<b>> \in Seq(S)
  BY DEF Front
<1>6. Len(Front(<<b, "sighandler">>)) = 1 /\ Len(<<b>>) = 1
      /\ Front(<<b, "sighandler">>)[1] = b
  BY DEF Front
<1>7. Front(<<b, "sighandler">>) = <<b>>
  BY SMTT(30), <1>5, <1>6, SeqEqual
<1>8. QED
  BY Zenon, <1>4, <1>6, <1>7 DEF Last

(* Every step of the process keeps the invariant.                          *)
LEMMA RrmonStep == RrmonInv /\ [RrmonNext]_rrmonVars => RrmonInv'
<1> SUFFICES ASSUME RrmonInv, [RrmonNext]_rrmonVars PROVE RrmonInv'
  BY Zenon
<1>0. frames \in Seq(Frames) /\ frames # <<>> /\ fds \in Nat /\ dumps \in Nat /\ handled \in Nat
      /\ named \in BOOLEAN
  BY Zenon DEF RrmonInv
<1>a. 1 < StackLimit
  BY SMTT(30), RrmonAssumption
<1>b. ASSUME In("main") \/ In("faulting") \/ In("abort") \/ In("deinit")
      PROVE  Sound /\ frames = <<Last(frames)>> /\ ended = "no" /\ dumps = handled
  <2>1. Sound /\ Last(frames) # "sighandler" /\ ended = "no"
    BY Zenon, <1>b DEF In, RrmonInv, Failing
  <2>2. QED
    BY Zenon, <2>1, TwoFrames DEF Sound
<1>1. CASE Fault
  <2>1. frames' = <<"faulting", "sighandler">> /\ handled' = handled + 1 /\ UNCHANGED ended
        /\ UNCHANGED <<fds, named, sent, dumps>>
    BY Zenon, <1>1, <1>a, TwoFrames DEF Fault, Deliver
  <2>2. ended = "no" /\ dumps = handled
    BY Zenon, <1>1, <1>b DEF Fault
  <2>3. Sound'
    BY Zenon, <2>1, <2>2 DEF Sound, Bottom
  <2>4. QED
    BY SMTT(30), <1>0, <2>1, <2>2, <2>3 DEF RrmonInv, EveryEndReported, Frames, Bottom
<1>2. CASE Sent
  <2>1. frames = <<"main">> /\ ended = "no" /\ dumps = handled
    BY Zenon, <1>2, <1>b DEF Sent, In
  <2>2. frames' = <<"main", "sighandler">> /\ handled' = handled + 1 /\ UNCHANGED ended
        /\ UNCHANGED <<fds, named, dumps>>
    BY Zenon, <1>2, <1>a, <2>1, TwoFrames DEF Sent, Deliver
  <2>3. Sound'
    BY Zenon, <2>1, <2>2 DEF Sound, Bottom
  <2>4. QED
    BY SMTT(30), <1>0, <2>1, <2>2, <2>3 DEF RrmonInv, EveryEndReported, Frames, Bottom
<1>3. CASE Abort
  <2>1. frames' = <<"abort", "sighandler">> /\ handled' = handled + 1 /\ UNCHANGED ended
        /\ UNCHANGED <<fds, named, sent, dumps>>
    BY Zenon, <1>3, <1>a, TwoFrames DEF Abort, Deliver
  <2>2. ended = "no" /\ dumps = handled
    BY Zenon, <1>3, <1>b DEF Abort
  <2>3. Sound'
    BY Zenon, <2>1, <2>2 DEF Sound, Bottom
  <2>4. QED
    BY SMTT(30), <1>0, <2>1, <2>2, <2>3 DEF RrmonInv, EveryEndReported, Frames, Bottom
<1>4. CASE AbortAgain
  <2>1. Sound /\ frames = <<"abort">> /\ ended' = "aborted"
        /\ UNCHANGED <<frames, fds, named, handled, sent, dumps>>
    BY Zenon, <1>4, <1>b DEF AbortAgain, In
  <2>2. dumps = handled /\ handled > 0
    BY Zenon, <2>1 DEF Sound
  <2>3. QED
    BY Zenon, <1>0, <2>1, <2>2 DEF RrmonInv, EveryEndReported
<1>5. CASE Exit
  <2>1. frames' = <<"deinit">> /\ UNCHANGED <<fds, named, handled, sent, dumps, ended>>
        /\ ended = "no" /\ dumps = handled
    BY Zenon, <1>5, <1>b DEF Exit
  <2>2. Sound'
    BY Zenon, <2>1 DEF Sound
  <2>3. QED
    BY SMTT(30), <1>0, <2>1, <2>2 DEF RrmonInv, EveryEndReported, Frames
<1>6. CASE dump_process_stats
  <2>0. fds' \in Nat /\ (fds = 0 => fds' = 0) /\ UNCHANGED <<named, sent>> /\ ended = "no"
    BY Zenon, <1>0, <1>6, OpenedLess DEF dump_process_stats, In
  <2>1. CASE NameRead
    <3>1. Sound /\ dumps' = dumps + 1 /\ UNCHANGED handled
      BY Zenon, <1>6, <2>0, <2>1 DEF dump_process_stats, RrmonInv, Failing
    <3>2. CASE Last(frames) = "deinit"
      <4>1. dumps = handled /\ ended' = "exited" /\ UNCHANGED frames
        BY Zenon, <1>6, <1>b, <2>1, <3>2 DEF dump_process_stats, In
      <4>2. QED
        BY SMTT(30), <1>0, <2>0, <3>1, <4>1 DEF RrmonInv, EveryEndReported
    <3>3. CASE Last(frames) # "deinit"
      <4>1. Last(frames) = "sighandler" /\ frames' = Front(frames) /\ UNCHANGED ended
        BY Zenon, <1>6, <2>1, <3>3 DEF dump_process_stats, In
      <4>2. PICK b \in Bottom : frames = <<b, "sighandler">> /\ handled = dumps + 1
        BY SMTT(30), <3>1, <4>1 DEF Sound, Bottom, Last
      <4>3. frames' = <<b>>
        BY Zenon, <4>1, <4>2, TwoFrames
      <4>4. dumps' = handled' /\ handled' > 0
        BY SMTT(30), <1>0, <3>1, <4>2
      <4>5. Sound'
        BY Zenon, <4>3, <4>4 DEF Sound
      <4>6. <<b>> \in Seq(Frames) /\ <<b>> # <<>>
        BY DEF Bottom, Frames
      <4>7. QED
        BY SMTT(30), <1>0, <2>0, <3>1, <4>1, <4>3, <4>5, <4>6
           DEF RrmonInv, EveryEndReported
    <3>4. QED
      BY Zenon, <3>2, <3>3
  <2>2. CASE ~NameRead
    <3>1. Deliver(Append(frames, "abort")) /\ UNCHANGED dumps
      BY Zenon, <1>6, <2>2 DEF dump_process_stats, fatal
    <3>2. Append(frames, "abort") \in Seq(Frames)
      BY SMTT(30), <1>0 DEF Bottom, Frames
    <3>3. ~NameRead' /\ (fds' = 0 \/ ~named')
      BY SMTT(30), <1>0, <2>0, <2>2 DEF NameRead
    <3>4. CASE Len(Append(frames, "abort")) < StackLimit
      <4>1. frames' = Append(Append(frames, "abort"), "sighandler") /\ handled' = handled + 1
            /\ UNCHANGED ended
        BY Zenon, <3>1, <3>4 DEF Deliver
      <4>2. frames' \in Seq(Frames) /\ frames' # <<>> /\ Last(frames') = "sighandler"
        BY Zenon, <3>2, <4>1, PushedLast
      <4>3. Failing'
        BY Zenon, <3>3, <4>2 DEF Failing
      <4>4. QED
        BY SMTT(30), <1>0, <2>0, <3>1, <4>1, <4>2, <4>3 DEF RrmonInv, EveryEndReported
    <3>5. CASE ~(Len(Append(frames, "abort")) < StackLimit)
      <4>1. ended' = "overflow" /\ UNCHANGED <<frames, handled>>
        BY Zenon, <3>1, <3>5 DEF Deliver
      <4>2. QED
        BY Zenon, <1>0, <2>0, <3>1, <3>3, <4>1 DEF RrmonInv, EveryEndReported
    <3>6. QED
      BY Zenon, <3>4, <3>5
  <2>3. QED
    BY Zenon, <2>1, <2>2
<1>7. CASE UNCHANGED rrmonVars
  BY Zenon, <1>7 DEF rrmonVars, RrmonInv, Sound, Failing, NameRead, EveryEndReported
<1>8. QED
  BY Zenon, <1>1, <1>2, <1>3, <1>4, <1>5, <1>6, <1>7 DEF RrmonNext

(* Whatever the number of descriptors, signals and stack frames, no exit,  *)
(* abort or fault goes unreported while there is a name and a descriptor   *)
(* to read it from.                                                        *)
THEOREM EndsReported == RrmonSpec => []EveryEndReported
<1>1. RrmonInit(BOOLEAN) => RrmonInv
  BY RrmonAssumption DEF RrmonInit, RrmonInv, Sound, Frames, Bottom, EveryEndReported
<1>2. RrmonInv => EveryEndReported
  BY Zenon DEF RrmonInv
<1>3. QED
  BY <1>1, <1>2, RrmonStep, PTL DEF RrmonSpec
------------------------------------------------------------------------------
(* lcmp.c.                                                                 *)

(* A set of naturals has a least element; with it, induction.              *)
LEMMA LeastNat ==
  ASSUME NEW T, T \subseteq Nat, T # {}
  PROVE  \E x \in T : \A y \in T : x <= y
<1>1. PICK x \in T : \A y \in T : ~(<<y, x>> \in OpToRel(<, Nat))
  BY Zenon, NatLessThanWellFounded, WFMin
<1>2. \A y \in T : ~(y < x)
  BY Zenon, <1>1 DEF OpToRel
<1>3. QED
  BY <1>2

(* fgets takes characters up to the first reason to stop, and there is one.*)
LEMMA ChunkExists ==
  ASSUME NEW f \in Seq(Char), NEW p \in 0 .. Len(f)
  PROVE  \E k \in 0 .. MAX_LINE_LEN - 1 :
           /\ k = MAX_LINE_LEN - 1 \/ p + k = Len(f) \/ (k > 0 /\ f[p + k] = nl)
           /\ \A j \in 1 .. k : p + j <= Len(f) /\ (j < k => f[p + j] # nl)
<1> DEFINE M == MAX_LINE_LEN - 1
           Stop(k) == k = M \/ p + k = Len(f) \/ (k > 0 /\ f[p + k] = nl)
           T == {k \in 0 .. M : Stop(k)}
<1>0. M \in Nat /\ Len(f) \in Nat /\ p \in Nat /\ p <= Len(f)
  BY LineAssumption
<1>1. T \subseteq Nat /\ T # {}
  <2>1. M \in T
    BY <1>0
  <2>2. QED
    BY SMTT(30), <1>0, <2>1
<1>2. PICK k \in T : \A y \in T : k <= y
  BY Zenon, <1>1, LeastNat
<1>3. k \in 0 .. M /\ Stop(k)
  BY Zenon, <1>2
<1>4. ASSUME NEW j \in 1 .. k PROVE p + j <= Len(f)
  <2>1. CASE Len(f) - p \in 0 .. M
    <3>1. Len(f) - p \in T
      BY SMTT(30), <1>0, <2>1
    <3>2. k <= Len(f) - p
      BY Zenon, <1>2, <3>1
    <3>3. QED
      BY SMTT(30), <1>0, <1>3, <3>2
  <2>2. CASE Len(f) - p > M
    BY SMTT(30), <1>0, <1>3, <2>2
  <2>3. QED
    BY SMTT(30), <1>0, <2>1, <2>2
<1>5. ASSUME NEW j \in 1 .. k, j < k PROVE f[p + j] # nl
  <2>1. SUFFICES ASSUME f[p + j] = nl PROVE FALSE
    BY Zenon
  <2>2. j \in T
    BY SMTT(30), <1>0, <1>3, <1>5, <2>1
  <2>3. QED
    BY SMTT(30), <1>0, <1>2, <1>3, <1>5, <2>2
<1>6. QED
  BY Zenon, <1>3, <1>4, <1>5

(* What one fgets takes stays inside the file, and is nothing only at its  *)
(* end.                                                                    *)
LEMMA ChunkFits ==
  ASSUME NEW f \in Seq(Char), NEW p \in 0 .. Len(f)
  PROVE  /\ Chunk(f, p) \in Nat
         /\ p + Chunk(f, p) \in 0 .. Len(f)
         /\ p = Len(f) => Chunk(f, p) = 0
         /\ Chunk(f, p) = 0 => p = Len(f)
<1> DEFINE k == Chunk(f, p)
<1>1. /\ k \in 0 .. MAX_LINE_LEN - 1
      /\ k = MAX_LINE_LEN - 1 \/ p + k = Len(f) \/ (k > 0 /\ f[p + k] = nl)
      /\ \A j \in 1 .. k : p + j <= Len(f)
  BY Zenon, ChunkExists DEF Chunk
<1> HIDE DEF k
<1>2. Len(f) \in Nat /\ MAX_LINE_LEN - 1 \in Nat \ {0}
  BY SMTT(30), LineAssumption
<1>3. p + k <= Len(f)
  BY SMTT(30), <1>1, <1>2
<1>4. k \in Nat /\ p \in Nat
  BY SMTT(30), <1>1, <1>2
<1>5. p + k \in 0 .. Len(f) /\ (p = Len(f) => k = 0)
  BY SMTT(30), <1>2, <1>3, <1>4
<1>6. k = 0 => p = Len(f)
  BY SMTT(30), <1>1, <1>2, <1>4
<1>7. QED
  BY Zenon, <1>4, <1>5, <1>6 DEF k

(* What fgets reads of a text at p.                                        *)
Read(f, p) ==
  IF Chunk(f, p) = 0 THEN NULL ELSE SubSeq(f, p + 1, p + Chunk(f, p))

(* The characters of a buffer are those of the file.                       *)
LEMMA ReadCharacters ==
  ASSUME NEW f \in Seq(Char), NEW p \in 0 .. Len(f), Chunk(f, p) # 0
  PROVE  /\ Read(f, p) \in Seq(Char) /\ Len(Read(f, p)) = Chunk(f, p)
         /\ \A j \in 1 .. Chunk(f, p) : Read(f, p)[j] = f[p + j]
         /\ Read(f, p) # NULL
<1> DEFINE k == Chunk(f, p)
<1>a. k \in Nat /\ p + k \in 0 .. Len(f) /\ k # 0
  BY Zenon, ChunkFits
<1>1. k \in Nat /\ k > 0 /\ p + k \in 0 .. Len(f) /\ p \in Nat /\ Len(f) \in Nat
  BY <1>a
<1>2. Read(f, p) = SubSeq(f, p + 1, p + k)
  BY Zenon DEF Read
<1> HIDE DEF k
<1>3. /\ SubSeq(f, p + 1, p + k) \in Seq(Char) /\ Len(SubSeq(f, p + 1, p + k)) = k
      /\ \A j \in 1 .. k : SubSeq(f, p + 1, p + k)[j] = f[p + j]
  BY SMTT(60), <1>1
<1>4. SubSeq(f, p + 1, p + k)[1] \in Char
  BY <1>1, <1>3
<1>5. SubSeq(f, p + 1, p + k) # NULL
  <2>1. NULL[1] = "NULL" /\ "NULL" \notin Char
    BY Zenon DEF NULL, Char
  <2>2. QED
    BY Zenon, <1>4, <2>1
<1>6. QED
  BY Zenon, <1>2, <1>3, <1>5 DEF k

(* What fgets hands over is a string of characters, or NULL.               *)
LEMMA ReadType ==
  ASSUME NEW f \in Seq(Char), NEW p \in 0 .. Len(f)
  PROVE  Read(f, p) \in Seq(Char) \cup {NULL}
<1>1. CASE Chunk(f, p) = 0
  BY Zenon, <1>1 DEF Read
<1>2. CASE Chunk(f, p) # 0
  BY Zenon, <1>2, ReadCharacters
<1>3. QED
  BY Zenon, <1>1, <1>2

(* Two buffers are equal only if as much was read of both files, and the   *)
(* same.                                                                   *)
LEMMA EqualReads ==
  ASSUME NEW f \in Seq(Char), NEW g \in Seq(Char), NEW p \in 0 .. Len(f), p <= Len(g),
         Read(f, p) = Read(g, p)
  PROVE  Chunk(f, p) = Chunk(g, p) /\ \A j \in 1 .. Chunk(f, p) : f[p + j] = g[p + j]
<1>0. p \in 0 .. Len(g)
  OBVIOUS
<1>1. CASE Chunk(f, p) = 0
  <2>1. Read(g, p) = NULL
    BY Zenon, <1>1 DEF Read
  <2>2. Chunk(g, p) = 0
    BY Zenon, <1>0, <2>1, ReadCharacters
  <2>3. QED
    BY SMTT(30), <1>1, <2>2
<1>2. CASE Chunk(f, p) # 0
  <2>1. Read(g, p) # NULL
    BY Zenon, <1>2, ReadCharacters
  <2>2. Chunk(g, p) # 0
    BY Zenon, <2>1 DEF Read
  <2>3. /\ Len(Read(f, p)) = Chunk(f, p)
        /\ \A j \in 1 .. Chunk(f, p) : Read(f, p)[j] = f[p + j]
    BY Zenon, <1>2, ReadCharacters
  <2>4. /\ Len(Read(g, p)) = Chunk(g, p)
        /\ \A j \in 1 .. Chunk(g, p) : Read(g, p)[j] = g[p + j]
    BY Zenon, <1>0, <2>2, ReadCharacters
  <2>5. Chunk(f, p) = Chunk(g, p)
    BY Zenon, <2>3, <2>4
  <2>6. QED
    BY Zenon, <2>3, <2>4, <2>5
<1>3. QED
  BY Zenon, <1>1, <1>2

(* In a text a buffer is its C string.                                     *)
LEMMA TextString ==
  ASSUME NEW f \in Seq(Char), NEW p \in 0 .. Len(f), Chunk(f, p) # 0, ~Contains(f, nul)
  PROVE  CString(Read(f, p)) = Read(f, p)
<1> DEFINE k == Chunk(f, p)
<1>1. k \in Nat /\ p + k \in 0 .. Len(f) /\ p \in Nat /\ Len(f) \in Nat
  BY SMTT(30), ChunkFits
<1>2. Len(Read(f, p)) = k /\ \A j \in 1 .. k : Read(f, p)[j] = f[p + j]
  BY Zenon, ReadCharacters
<1> HIDE DEF k
<1>3. ASSUME NEW j \in 1 .. k PROVE Read(f, p)[j] # nul
  <2>1. p + j \in 1 .. Len(f)
    BY SMTT(30), <1>1
  <2>2. f[p + j] # nul
    BY Zenon, <2>1 DEF Contains
  <2>3. QED
    BY Zenon, <1>2, <2>2
<1>4. ~Contains(Read(f, p), nul)
  BY Zenon, <1>2, <1>3 DEF Contains
<1>5. QED
  BY Zenon, <1>4 DEF CString

(* Without a NUL in the file the C string in the buffer is all that was    *)
(* read.                                                                   *)
LEMMA TextRead ==
  ASSUME NEW i \in 1 .. 2, i \notin bad, file[i] \in Seq(Char), pos[i] \in 0 .. Len(file[i]),
         ~Contains(file[i], nul)
  PROVE  fgets(i) = Read(file[i], pos[i])
<1>1. CASE Chunk(file[i], pos[i]) = 0
  BY Zenon, <1>1 DEF fgets, Read
<1>2. CASE Chunk(file[i], pos[i]) # 0
  <2>1. CString(Read(file[i], pos[i])) = Read(file[i], pos[i])
    BY Zenon, <1>2, TextString
  <2>2. QED
    BY Zenon, <1>2, <2>1 DEF fgets, Read
<1>3. QED
  BY Zenon, <1>1, <1>2

(* Each file has been read up to pos, and to its end once eof is set.      *)
Progress(i) ==
  /\ pos[i] \in 0 .. Len(file[i]) /\ eof[i] \in BOOLEAN
  /\ eof[i] => pos[i] = Len(file[i]) /\ i \notin bad

(* Both files have been read up to pos; they are closed when both are at   *)
(* their ends.                                                             *)
LcmpTypes ==
  /\ file[1] \in Seq(Char) /\ file[2] \in Seq(Char) /\ bad \subseteq {1, 2}
  /\ Progress(1) /\ Progress(2) /\ closed \in BOOLEAN
  /\ closed => eof[1] /\ eof[2]

(* Nothing was printed exactly if what was read of the two texts agrees.   *)
Texts == bad = {} /\ ~Contains(file[1], nul) /\ ~Contains(file[2], nul)
Agree == pos[1] = pos[2] /\ \A j \in 1 .. pos[1] : file[1][j] = file[2][j]

(* The invariant: of two texts the output is empty as long as what was read*)
(* agrees, and stays so if the files are equal.                            *)
LcmpInv ==
  /\ LcmpTypes
  /\ Texts => /\ out \in Seq({"+", "-"} \X Seq(Char))
              /\ out = <<>> => Agree
              /\ file[1] = file[2] => out = <<>>

(* A buffer more of one file.                                              *)
LEMMA ReadOnProgress ==
  ASSUME NEW i \in 1 .. 2, CompareLine, file[i] \in Seq(Char), Progress(i)
  PROVE  Progress(i)'
<1>1. /\ pos'[i] = IF i \in bad THEN pos[i] ELSE pos[i] + Chunk(file[i], pos[i])
      /\ eof'[i] = (eof[i] \/ (i \notin bad /\ MetEnd(file[i], pos[i])))
      /\ UNCHANGED <<file, bad>>
  BY Zenon DEF CompareLine, ReadOn
<1>2. /\ pos[i] + Chunk(file[i], pos[i]) \in 0 .. Len(file[i])
      /\ pos[i] = Len(file[i]) => Chunk(file[i], pos[i]) = 0
  BY Zenon, ChunkFits DEF Progress
<1>3. MetEnd(file[i], pos[i]) => pos[i] + Chunk(file[i], pos[i]) = Len(file[i])
  BY Zenon DEF MetEnd
<1>4. pos'[i] \in 0 .. Len(file[i]) /\ eof'[i] \in BOOLEAN
  BY Zenon, <1>1, <1>2 DEF Progress
<1>5. ASSUME eof[i] PROVE pos'[i] = Len(file[i]) /\ i \notin bad
  BY SMTT(30), <1>1, <1>2, <1>5, ChunkFits DEF Progress
<1>6. ASSUME i \notin bad, MetEnd(file[i], pos[i]) PROVE pos'[i] = Len(file[i])
  BY Zenon, <1>1, <1>3, <1>6
<1>7. QED
  BY Zenon, <1>1, <1>4, <1>5, <1>6 DEF Progress

(* Nothing is printed exactly for equal strings.                           *)
LEMMA DifferencesOf ==
  ASSUME NEW s1 \in Seq(Char) \cup {NULL}, NEW s2 \in Seq(Char) \cup {NULL}
  PROVE  /\ Differences(s1, s2) \in Seq({"+", "-"} \X Seq(Char))
         /\ Differences(s1, s2) = <<>> <=> s1 = s2
<1>1. CASE s1 = s2
  BY SMTT(30), <1>1 DEF Differences
<1>2. CASE s1 # s2 /\ s1 = NULL
  <2>1. Differences(s1, s2) = << <<"+", s2>> >> /\ s2 \in Seq(Char)
    BY Zenon, <1>2 DEF Differences
  <2>2. QED
    BY SMTT(30), <1>2, <2>1
<1>3. CASE s1 # s2 /\ s1 # NULL /\ s2 = NULL
  <2>1. Differences(s1, s2) = << <<"-", s1>> >> /\ s1 \in Seq(Char)
    BY Zenon, <1>3 DEF Differences
  <2>2. QED
    BY SMTT(30), <1>3, <2>1
<1>4. CASE s1 # s2 /\ s1 # NULL /\ s2 # NULL
  <2>1. Differences(s1, s2) = << <<"-", s1>>, <<"+", s2>> >> /\ s1 \in Seq(Char) /\ s2 \in Seq(Char)
    BY Zenon, <1>4 DEF Differences
  <2>2. QED
    BY SMTT(30), <1>4, <2>1
<1>5. QED
  BY Zenon, <1>1, <1>2, <1>3, <1>4

(* An iteration prints nothing exactly if it reads the same of both files. *)
LEMMA CompareTexts ==
  ASSUME LcmpInv, CompareLine, Texts
  PROVE  /\ out' \in Seq({"+", "-"} \X Seq(Char))
         /\ out' = <<>> => Agree'
         /\ file[1] = file[2] => out' = <<>>
<1> DEFINE d == Differences(Read(file[1], pos[1]), Read(file[2], pos[2]))
           P == {"+", "-"} \X Seq(Char)
<1>1. /\ file[1] \in Seq(Char) /\ file[2] \in Seq(Char) /\ bad = {} /\ UNCHANGED file
      /\ pos[1] \in 0 .. Len(file[1]) /\ pos[2] \in 0 .. Len(file[2])
      /\ ~Contains(file[1], nul) /\ ~Contains(file[2], nul)
      /\ out \in Seq(P) /\ (out = <<>> => Agree) /\ (file[1] = file[2] => out = <<>>)
  BY Zenon DEF LcmpInv, LcmpTypes, Progress, Texts, CompareLine
<1>2. /\ out' = out \o d
      /\ pos'[1] = pos[1] + Chunk(file[1], pos[1]) /\ pos'[2] = pos[2] + Chunk(file[2], pos[2])
  BY SMTT(60), <1>1, TextRead DEF CompareLine, ReadOn
<1>3. /\ Read(file[1], pos[1]) \in Seq(Char) \cup {NULL}
      /\ Read(file[2], pos[2]) \in Seq(Char) \cup {NULL}
  BY Zenon, <1>1, ReadType
<1>4. d \in Seq(P) /\ (d = <<>> <=> Read(file[1], pos[1]) = Read(file[2], pos[2]))
  BY Zenon, <1>3, DifferencesOf
<1> HIDE DEF d, P
<1>5. out' \in Seq(P) /\ (out' = <<>> <=> out = <<>> /\ d = <<>>)
  BY SMTT(30), <1>1, <1>2, <1>4, ConcatProperties, EmptySeq
<1>6. ASSUME out' = <<>> PROVE Agree'
  <2> DEFINE p == pos[1]
             k == Chunk(file[1], p)
  <2>1. Agree /\ Read(file[1], pos[1]) = Read(file[2], pos[2])
    BY Zenon, <1>1, <1>4, <1>5, <1>6
  <2>2. pos[2] = p /\ \A j \in 1 .. p : file[1][j] = file[2][j]
    BY Zenon, <2>1 DEF Agree
  <2>3. k = Chunk(file[2], p) /\ \A j \in 1 .. k : file[1][p + j] = file[2][p + j]
    BY SMTT(30), <1>1, <2>1, <2>2, EqualReads
  <2>4. p \in Nat /\ k \in Nat
    BY SMTT(60), <1>1, ChunkFits
  <2>5. pos'[1] = p + k /\ pos'[2] = p + k
    BY Zenon, <1>2, <2>2, <2>3
  <2> HIDE DEF p, k
  <2>6. ASSUME NEW j \in 1 .. p + k PROVE file[1][j] = file[2][j]
    <3>1. CASE j <= p
      BY SMTT(30), <2>2, <2>4, <3>1
    <3>2. CASE j > p
      <4>1. j - p \in 1 .. k /\ j = p + (j - p)
        BY SMTT(30), <2>4, <3>2
      <4>2. QED
        BY Zenon, <2>3, <4>1
    <3>3. QED
      BY SMTT(30), <2>4, <3>1, <3>2
  <2>7. QED
    BY Zenon, <1>1, <2>5, <2>6 DEF Agree
<1>7. ASSUME file[1] = file[2] PROVE out' = <<>>
  BY Zenon, <1>1, <1>4, <1>5, <1>7 DEF Agree
<1>8. QED
  BY Zenon, <1>5, <1>6, <1>7 DEF P

(* Every line compared keeps the invariant, and so does closing the files. *)
LEMMA LcmpStep == LcmpInv /\ [CompareLine \/ CloseFiles]_lcmpVars => LcmpInv'
<1> SUFFICES ASSUME LcmpInv, [CompareLine \/ CloseFiles]_lcmpVars PROVE LcmpInv'
  BY Zenon
<1>1. CASE CompareLine
  <2>1. UNCHANGED <<file, bad, closed>> /\ ~closed
    BY Zenon, <1>1 DEF CompareLine
  <2>2. Progress(1)' /\ Progress(2)'
    BY SMTT(30), <1>1, ReadOnProgress DEF LcmpInv, LcmpTypes
  <2>3. LcmpTypes'
    BY Zenon, <2>1, <2>2 DEF LcmpInv, LcmpTypes
  <2>4. Texts' = Texts
    BY Zenon, <2>1 DEF Texts
  <2>5. QED
    BY Zenon, <1>1, <2>1, <2>3, <2>4, CompareTexts DEF LcmpInv
<1>2. CASE CloseFiles
  <2>1. UNCHANGED <<file, bad, pos, eof, out>> /\ closed' = TRUE /\ eof[1] /\ eof[2]
    BY Zenon, <1>2 DEF CloseFiles, MoreToRead, LcmpInv, LcmpTypes, Progress
  <2>2. LcmpTypes'
    BY Zenon, <2>1 DEF LcmpInv, LcmpTypes, Progress
  <2>3. Texts' = Texts /\ Agree' = Agree
    BY Zenon, <2>1 DEF Texts, Agree
  <2>4. QED
    BY Zenon, <2>1, <2>2, <2>3 DEF LcmpInv
<1>3. CASE UNCHANGED lcmpVars
  <2>1. LcmpTypes' /\ Texts' = Texts /\ Agree' = Agree
    BY Zenon, <1>3 DEF lcmpVars, LcmpInv, LcmpTypes, Progress, Texts, Agree
  <2>2. QED
    BY Zenon, <1>3, <2>1 DEF lcmpVars, LcmpInv
<1>4. QED
  BY Zenon, <1>1, <1>2, <1>3

(* Two files read to their ends that agree are equal.                      *)
LEMMA LcmpSilent == LcmpInv => SilentIffEqual
<1> SUFFICES ASSUME LcmpInv, closed, ~Contains(file[1], nul), ~Contains(file[2], nul)
             PROVE  out = <<>> <=> file[1] = file[2]
  BY Zenon DEF SilentIffEqual
<1>1. /\ pos[1] = Len(file[1]) /\ pos[2] = Len(file[2]) /\ bad = {}
      /\ file[1] \in Seq(Char) /\ file[2] \in Seq(Char)
  BY Zenon DEF LcmpInv, LcmpTypes, Progress
<1>2. (out = <<>> => Agree) /\ (file[1] = file[2] => out = <<>>)
  BY Zenon, <1>1 DEF LcmpInv, Texts
<1>3. ASSUME Agree PROVE file[1] = file[2]
  BY Zenon, <1>1, <1>3, SeqEqual DEF Agree
<1>4. QED
  BY Zenon, <1>2, <1>3

(* Of files of any length, with lines and a buffer of any size, lcmp.c     *)
(* prints nothing exactly if they are equal.                               *)
THEOREM SilentForEqualFiles == LcmpSpec => []SilentIffEqual
<1>1. LcmpInit(LcmpInputs) => LcmpInv
  <2> SUFFICES ASSUME LcmpInit(LcmpInputs) PROVE LcmpInv
    BY Zenon
  <2>1. PICK in \in LcmpInputs : file = in.file /\ bad = in.bad
    BY Zenon DEF LcmpInit
  <2>2. file[1] \in Seq(Char) /\ file[2] \in Seq(Char) /\ bad \subseteq {1, 2}
    BY Zenon, <2>1 DEF LcmpInputs
  <2>3. pos = <<0, 0>> /\ eof = <<FALSE, FALSE>> /\ out = <<>> /\ closed = FALSE
    BY Zenon DEF LcmpInit
  <2>4. Progress(1) /\ Progress(2)
    BY SMTT(30), <2>2, <2>3 DEF Progress
  <2>5. Agree
    BY SMTT(30), <2>3 DEF Agree
  <2>6. LcmpTypes
    BY Zenon, <2>2, <2>3, <2>4 DEF LcmpTypes
  <2>7. QED
    BY SMTT(30), <2>3, <2>5, <2>6 DEF LcmpInv
<1>2. QED
  BY <1>1, LcmpStep, LcmpSilent, PTL DEF LcmpSpec
==============================================================================
