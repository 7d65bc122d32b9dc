----------------------------- MODULE LineCompare -----------------------------
(***************************************************************************)
(* lcmp.c: two files are read side by side, a buffer at a time, and the    *)
(* lines that differ are printed.  fgets is modelled by what it does at a  *)
(* newline, at a full buffer, at the end of the file and after an error:   *)
(* the loop depends on when feof becomes true.                             *)
(***************************************************************************)
EXTENDS Integers, Sequences, FiniteSets, SequencesExt

CONSTANT MAX_LINE_LEN

(* The buffer has room for a character and the terminating NUL.            *)
ASSUME LineAssumption == MAX_LINE_LEN \in Nat \ {0, 1}

VARIABLES
  file,   \* the contents of the two files, sequences of characters
  bad,    \* the files whose reads fail (a directory, say)
  pos,    \* how much of each has been read
  eof,    \* the end-of-file flag of each stream
  out,    \* what is printed after the header: a sign and a string
  closed  \* the loop is over

lcmpVars == <<file, bad, pos, eof, out, closed>>

nl == "nl"
nul == "nul"
NULL == <<"NULL">>

(* How many characters fgets(buf, MAX_LINE_LEN, f) takes from f at p.      *)
Chunk(f, p) ==
  CHOOSE k \in 0 .. MAX_LINE_LEN - 1 :
    /\ k = MAX_LINE_LEN - 1 \/ p + k = Len(f) \/ (k > 0 /\ f[p + k] = nl)
    /\ \A j \in 1 .. k : p + j <= Len(f) /\ (j < k => f[p + j] # nl)

(* It has met the end of the file: it wanted another character.            *)
MetEnd(f, p) ==
  LET k == Chunk(f, p) IN
  k < MAX_LINE_LEN - 1 /\ p + k = Len(f) /\ ~(k > 0 /\ f[p + k] = nl)

(* The C string in a buffer that holds s.                                  *)
CString(s) ==
  IF Contains(s, nul) THEN SubSeq(s, 1, SelectInSeq(s, LAMBDA c : c = nul) - 1) ELSE s

fgets(i) ==
  IF i \in bad \/ Chunk(file[i], pos[i]) = 0 THEN NULL
  ELSE CString(SubSeq(file[i], pos[i] + 1, pos[i] + Chunk(file[i], pos[i])))

(* Two files and those of them that cannot be read; NULL is no character.  *)
Char == STRING \ {"NULL"}
LcmpInputs == [file : Seq(Char) \X Seq(Char), bad : SUBSET {1, 2}]

LcmpInit(inputs) ==
  /\ \E in \in inputs : file = in.file /\ bad = in.bad
  /\ pos = <<0, 0>> /\ eof = <<FALSE, FALSE>> /\ out = <<>> /\ closed = FALSE

(* What an iteration prints for the strings s1 and s2.  Mutant: the second *)
(* file's line comes first.                                                *)
Differences_swapped(s1, s2) ==
  IF s1 = s2 THEN <<>>
  ELSE IF s1 = NULL THEN << <<"+", s2>> >>
  ELSE IF s2 = NULL THEN << <<"-", s1>> >>
  ELSE << <<"+", s2>>, <<"-", s1>> >>

Differences(s1, s2) ==
  IF s1 = s2 THEN <<>>
  ELSE IF s1 = NULL THEN << <<"+", s2>> >>
  ELSE IF s2 = NULL THEN << <<"-", s1>> >>
  ELSE << <<"-", s1>>, <<"+", s2>> >>

(* Where a file is read next.  Mutant: after the line, also if it did not  *)
(* fit the buffer.                                                         *)
ReadOn_line(f, p) ==
  CHOOSE q \in p .. Len(f) : /\ q = Len(f) \/ (q > p /\ f[q] = nl)
                            /\ \A j \in p + 1 .. q - 1 : f[j] # nl

ReadOn(f, p) == p + Chunk(f, p)

(* The condition of the loop.                                              *)
MoreToRead == ~eof[1] \/ ~eof[2]

CompareLine ==
  /\ ~closed /\ MoreToRead
  /\ out' = out \o Differences(fgets(1), fgets(2))
  /\ pos' = [i \in 1 .. 2 |->
               IF i \in bad THEN pos[i] ELSE ReadOn(file[i], pos[i])]
  /\ eof' = [i \in 1 .. 2 |-> eof[i] \/ (i \notin bad /\ MetEnd(file[i], pos[i]))]
  /\ UNCHANGED <<file, bad, closed>>

CloseFiles ==
  /\ ~closed /\ ~MoreToRead
  /\ closed' = TRUE
  /\ UNCHANGED <<file, bad, pos, eof, out>>

LcmpSpec == LcmpInit(LcmpInputs) /\ [][CompareLine \/ CloseFiles]_lcmpVars
------------------------------------------------------------------------------
(* The lines of f, each with its newline.                                  *)
Lines(f) ==
  LET ends == SetToSortSeq({k \in DOMAIN f : f[k] = nl \/ k = Len(f)},
                           LAMBDA a, b : a < b) IN
  [i \in DOMAIN ends |->
     SubSeq(f, 1 + IF i = 1 THEN 0 ELSE ends[i - 1], ends[i])]

LineOf(lines, i) == IF i \in DOMAIN lines THEN lines[i] ELSE NULL

(* The listing of the lines that differ, pair by pair.                     *)
Listing(a, b) ==
  LET n == IF Len(a) > Len(b) THEN Len(a) ELSE Len(b)
      pair(i) == LET s1 == LineOf(a, i) s2 == LineOf(b, i) IN
                 IF s1 = s2 THEN <<>>
                 ELSE (IF s1 = NULL THEN <<>> ELSE << <<"-", s1>> >>)
                        \o (IF s2 = NULL THEN <<>> ELSE << <<"+", s2>> >>) IN
  FlattenSeq([i \in 1 .. n |-> pair(i)])

Fits(f) ==
  ~Contains(f, nul) /\ \A i \in DOMAIN Lines(f) : Len(Lines(f)[i]) < MAX_LINE_LEN

(* For text files whose lines fit the buffer the program prints every line *)
(* that differs from its partner, and no other, in order: whether or not   *)
(* the files end with a newline, and wherever the shorter one ends.        *)
ListsDifferences ==
  closed /\ Fits(file[1]) /\ Fits(file[2]) =>
    out = Listing(Lines(file[1]), Lines(file[2]))

(* However long the lines are, two text files are equal exactly when       *)
(* nothing is printed: lines that a full buffer cuts are compared to their *)
(* ends.                                                                   *)
SilentIffEqual ==
  closed /\ ~Contains(file[1], nul) /\ ~Contains(file[2], nul) =>
    (out = <<>> <=> file[1] = file[2])

(* The loop ends, also after a buffer that the end of the file fills       *)
(* exactly, unless a file cannot be read: then its end-of-file flag is     *)
(* never set.                                                              *)
LcmpEnds == (bad = {}) => <>closed
==============================================================================
