------------------------- MODULE SeccompFilterProofs -------------------------
(***************************************************************************)
(* A filter made of the macros of seccomp-bpf.h, of any length, decides    *)
(* what its macros say, in the order in which they are written.            *)
(*                                                                         *)
(* Two folds over the macros are compared: Code, the instructions of the   *)
(* first i macros, and Judged, what these macros have decided.  The        *)
(* invariant (Running) places the interpreter inside one macro: what came  *)
(* before it decided nothing, and the accumulator holds the word that the  *)
(* fold says was looked at.  MacroStep, one case per kind of macro and     *)
(* instruction, carries it over a step.                                    *)
(***************************************************************************)
EXTENDS SeccompFilter, SequenceTheorems, WellFoundedInduction, TLAPS

(* A set of naturals has a least element; with it, induction.              *)
LEMMA LeastNat ==
  ASSUME NEW T, T \subseteq Nat, T # {}
  PROVE  \E x \in T : \A y \in T : x <= y
<1>1. PICK x \in T : \A y \in T : ~(<<y, x>> \in OpToRel(<, Nat))
  BY Zenon, NatLessThanWellFounded, WFMin
<1>2. \A y \in T : ~(y < x)
  BY Zenon, <1>1 DEF OpToRel
<1>3. QED
  BY <1>2

(* Where the elements of two sequences are after their concatenation.      *)
LEMMA ConcatParts ==
  ASSUME NEW S, NEW s \in Seq(S), NEW u \in Seq(S)
  PROVE  /\ s \o u \in Seq(S) /\ Len(s \o u) = Len(s) + Len(u) /\ Len(s) <= Len(s \o u)
         /\ \A x \in 1 .. Len(s) : (s \o u)[x] = s[x]
         /\ \A x \in 1 .. Len(u) : (s \o u)[Len(s) + x] = u[x]
<1>1. PICK m \in Nat, n \in Nat : m = Len(s) /\ n = Len(u)
  OBVIOUS
<1>2. s \o u \in Seq(S) /\ Len(s \o u) = m + n
  BY Zenon, <1>1, ConcatProperties
<1>3. ASSUME NEW x \in 1 .. m PROVE (s \o u)[x] = s[x]
  BY <1>1, ConcatProperties
<1>4. ASSUME NEW x \in 1 .. n PROVE (s \o u)[m + x] = u[x]
  BY <1>1, ConcatProperties
<1>5. m <= m + n
  OBVIOUS
<1>6. QED
  BY Zenon, <1>1, <1>2, <1>3, <1>4, <1>5

(* f solves the recursion of Code up to n.                                 *)
Writes(ms, f, n) ==
  f = [i \in 0 .. n |-> IF i = 0 THEN <<>> ELSE f[i - 1] \o Expand(ms[i])]

(* There is a solution.                                                    *)
LEMMA WritesExist ==
  ASSUME NEW ms, NEW N \in Nat
  PROVE  \E f : Writes(ms, f, N)
<1> DEFINE Step(f, i) == IF i = 0 THEN <<>> ELSE f[i - 1] \o Expand(ms[i])
           Solves(f, n) == Writes(ms, f, n)
           T == {n \in Nat : ~ \E f : Solves(f, n)}
<1>1. SUFFICES ASSUME T # {} PROVE FALSE
  BY Zenon
<1>2. PICK n \in T : \A m \in T : n <= m
  BY Zenon, <1>1, LeastNat
<1> HIDE DEF Solves
<1>3. n \in Nat /\ ~(\E f : Solves(f, n)) /\ \A m \in Nat : m < n => \E f : Solves(f, m)
  BY <1>2
<1>4. n # 0
  <2>1. Solves([k \in 0 .. 0 |-> <<>>], 0)
    BY DEF Solves, Writes
  <2>2. QED
    BY Zenon, <1>3, <2>1
<1>5. PICK f : Solves(f, n - 1)
  BY <1>3, <1>4
<1> DEFINE g == [k \in 0 .. n |-> IF k = n THEN Step(f, n) ELSE f[k]]
<1>6. ASSUME NEW k \in 0 .. n PROVE g[k] = Step(g, k)
  <2>1. k # 0 => k - 1 \in 0 .. n /\ k - 1 # n
    BY <1>3
  <2>2. k # 0 => g[k - 1] = f[k - 1]
    BY Zenon, <2>1
  <2>3. Step(g, k) = Step(f, k)
    BY <2>2
  <2>4. k # n => f[k] = Step(f, k)
    <3>1. k # n => k \in 0 .. n - 1
      BY <1>3
    <3>2. QED
      BY Zenon, <1>5, <3>1 DEF Solves, Writes
  <2>5. QED
    BY Zenon, <2>3, <2>4
<1> HIDE DEF Step
<1>7. Solves(g, n)
  BY Zenon, <1>6 DEF Solves, Writes, Step
<1>8. QED
  BY Zenon, <1>3, <1>7

(* f[i] is the concatenation of the first i sequences.                     *)
Chains(seqs, f, n) == \A i \in 1 .. n : f[i] = f[i - 1] \o seqs[i]

(* Sequences that grow by concatenation keep what they have.               *)
LEMMA PrefixKept ==
  ASSUME NEW S, NEW N \in Nat, NEW f \in [0 .. N -> Seq(S)], NEW s \in [1 .. N -> Seq(S)],
         Chains(s, f, N), NEW i \in 0 .. N
  PROVE  Len(f[i]) <= Len(f[N]) /\ \A x \in 1 .. Len(f[i]) : f[N][x] = f[i][x]
<1> DEFINE Good(j) == Len(f[i]) <= Len(f[j]) /\ \A x \in 1 .. Len(f[i]) : f[j][x] = f[i][x]
           T == {j \in i .. N : ~Good(j)}
<1>1. CASE T = {}
  <2>1. N \in i .. N
    OBVIOUS
  <2>2. Good(N)
    BY Zenon, <1>1, <2>1
  <2>3. QED
    BY Zenon, <2>2
<1>2. CASE T # {}
  <2>a. T \subseteq Nat
    OBVIOUS
  <2>1. PICK j \in T : \A y \in T : j <= y
    BY Zenon, <2>a, <1>2, LeastNat
  <2>b. f[i] \in Seq(S)
    BY Zenon
  <2>2. Len(f[i]) \in Nat
    BY <2>b
  <2>3. j \in i .. N /\ j # i
    BY <2>1, <2>2
  <2>4. j - 1 \in i .. N /\ j - 1 \notin T /\ j \in 1 .. N /\ j - 1 \in 0 .. N
    BY <2>1, <2>3
  <2>5. Good(j - 1) /\ ~Good(j)
    BY Zenon, <2>1, <2>4
  <2> HIDE DEF T
  <2>d. Len(f[i]) <= Len(f[j - 1]) /\ \A x \in 1 .. Len(f[i]) : f[j - 1][x] = f[i][x]
    BY Zenon, <2>5
  <2> HIDE DEF Good
  <2>6. f[j] = f[j - 1] \o s[j] /\ f[j - 1] \in Seq(S) /\ s[j] \in Seq(S)
    BY Zenon, <2>4 DEF Chains
  <2>e. PICK p \in Seq(S), q \in Seq(S) : p = f[j - 1] /\ q = s[j]
    BY Zenon, <2>6
  <2>7. /\ f[j] \in Seq(S) /\ Len(f[j - 1]) <= Len(f[j])
        /\ \A x \in 1 .. Len(f[j - 1]) : f[j][x] = f[j - 1][x]
    <3>1. /\ p \o q \in Seq(S) /\ Len(p) <= Len(p \o q)
          /\ \A x \in 1 .. Len(p) : (p \o q)[x] = p[x]
      BY Zenon, ConcatParts
    <3>2. QED
      BY Zenon, <2>6, <2>e, <3>1
  <2>f. Len(f[j - 1]) \in Nat /\ Len(f[j]) \in Nat
    <3>1. f[j - 1] \in Seq(S) /\ f[j] \in Seq(S)
      BY Zenon, <2>6, <2>7
    <3>2. QED
      BY <3>1
  <2>c. PICK a \in Nat, b \in Nat, c \in Nat :
                a = Len(f[i]) /\ b = Len(f[j - 1]) /\ c = Len(f[j])
    BY Zenon, <2>2, <2>f
  <2>8. Len(f[i]) <= Len(f[j])
    <3>1. a <= b /\ b <= c
      BY Zenon, <2>d, <2>7, <2>c
    <3>2. QED
      BY <2>c, <3>1
  <2>9. ASSUME NEW x \in 1 .. Len(f[i]) PROVE f[j][x] = f[i][x]
    <3>1. x \in 1 .. Len(f[j - 1])
      <4>1. a <= b /\ x \in 1 .. a
        BY Zenon, <2>d, <2>c
      <4>2. QED
        BY <2>c, <4>1
    <3>2. QED
      BY Zenon, <2>d, <2>7, <3>1
  <2>10. QED
    BY Zenon, <2>5, <2>8, <2>9 DEF Good
<1>3. QED
  BY Zenon, <1>1, <1>2

(* f solves the recursion of Judged up to n.                               *)
Judges(d, ms, f, n) ==
  f = [i \in 0 .. n |-> IF i = 0 THEN [looked |-> 0, verdict |-> "none"]
                        ELSE Judge(d, f[i - 1], ms[i])]

(* There is a solution.                                                    *)
LEMMA JudgesExist ==
  ASSUME NEW d, NEW ms, NEW N \in Nat
  PROVE  \E f : Judges(d, ms, f, N)
<1> DEFINE Step(f, i) == IF i = 0 THEN [looked |-> 0, verdict |-> "none"]
                         ELSE Judge(d, f[i - 1], ms[i])
           Solves(f, n) == Judges(d, ms, f, n)
           T == {n \in Nat : ~ \E f : Solves(f, n)}
<1>1. SUFFICES ASSUME T # {} PROVE FALSE
  BY Zenon
<1>2. PICK n \in T : \A m \in T : n <= m
  BY Zenon, <1>1, LeastNat
<1> HIDE DEF Solves
<1>3. n \in Nat /\ ~(\E f : Solves(f, n)) /\ \A m \in Nat : m < n => \E f : Solves(f, m)
  BY <1>2
<1>4. n # 0
  <2>1. Solves([k \in 0 .. 0 |-> [looked |-> 0, verdict |-> "none"]], 0)
    BY DEF Solves, Judges
  <2>2. QED
    BY Zenon, <1>3, <2>1
<1>5. PICK f : Solves(f, n - 1)
  BY <1>3, <1>4
<1> DEFINE g == [k \in 0 .. n |-> IF k = n THEN Step(f, n) ELSE f[k]]
<1>6. ASSUME NEW k \in 0 .. n PROVE g[k] = Step(g, k)
  <2>1. k # 0 => k - 1 \in 0 .. n /\ k - 1 # n
    BY <1>3
  <2>2. k # 0 => g[k - 1] = f[k - 1]
    BY Zenon, <2>1
  <2>3. Step(g, k) = Step(f, k)
    BY <2>2
  <2>4. k # n => f[k] = Step(f, k)
    <3>1. k # n => k \in 0 .. n - 1
      BY <1>3
    <3>2. QED
      BY Zenon, <1>5, <3>1 DEF Solves, Judges
  <2>5. QED
    BY Zenon, <2>3, <2>4
<1> HIDE DEF Step
<1>7. Solves(g, n)
  BY Zenon, <1>6 DEF Solves, Judges, Step
<1>8. QED
  BY Zenon, <1>3, <1>7

(* What the first i macros say is what the i-th makes of what the ones     *)
(* before it say.                                                          *)
LEMMA JudgedStep ==
  ASSUME NEW d, NEW ms \in Seq(Macro)
  PROVE  /\ Judged(d, ms)[0] = [looked |-> 0, verdict |-> "none"]
         /\ \A i \in 1 .. Len(ms) : Judged(d, ms)[i] = Judge(d, Judged(d, ms)[i - 1], ms[i])
<1> DEFINE N == Len(ms)
<1>1. N \in Nat
  OBVIOUS
<1>2. Judged(d, ms) = CHOOSE f : Judges(d, ms, f, N)
  BY Zenon DEF Judged, Judges
<1> HIDE DEF N
<1>3. \E f : Judges(d, ms, f, N)
  BY Zenon, <1>1, JudgesExist
<1>4. PICK f : f = Judged(d, ms) /\ Judges(d, ms, f, N)
  BY Zenon, <1>2, <1>3
<1>5. f[0] = [looked |-> 0, verdict |-> "none"]
  BY <1>1, <1>4 DEF Judges
<1>6. ASSUME NEW i \in 1 .. N PROVE f[i] = Judge(d, f[i - 1], ms[i])
  <2>1. i \in 0 .. N /\ i # 0
    BY <1>1
  <2>2. QED
    BY Zenon, <1>4, <2>1 DEF Judges
<1>7. QED
  BY Zenon, <1>4, <1>5, <1>6 DEF N

(* The macros without and with an argument.                                *)
Plain == {"EXAMINE_SYSCALL", "ALLOW_SOCKETCALL", "KILL_PROCESS", "ALLOW_PROCESS", "TRACE_PROCESS"}
WithWord == {"ALLOW_SYSCALLS_FROM_CALLSITE", "ALLOW_SYSCALL", "KILL_SYSCALL", "TRACE_SYSCALL"}

(* Every macro is of one of these kinds.                                   *)
LEMMA MacroKinds ==
  ASSUME NEW m \in Macro
  PROVE  m[1] \in Plain \cup WithWord
  BY DEF Macro, Plain, WithWord

(* The verdict a macro has in its name.                                    *)
Says(v) == CASE v \in {"KILL_SYSCALL", "KILL_PROCESS"} -> "KILL"
             [] v \in {"TRACE_SYSCALL", "TRACE_PROCESS"} -> "TRACE"
             [] OTHER -> "ALLOW"

(* What each macro says, given what was said before.                       *)
LEMMA JudgeKinds ==
  ASSUME NEW d \in Data, NEW m \in Macro, NEW l, NEW v,
         NEW st, st = [looked |-> l, verdict |-> v]
  PROVE  /\ v # "none" => Judge(d, st, m).verdict = v
         /\ Judge(d, st, m) = [looked |-> Judge(d, st, m).looked, verdict |-> Judge(d, st, m).verdict]
         /\ v = "none" =>
              /\ m[1] = "EXAMINE_SYSCALL" => Judge(d, st, m) = [looked |-> d.nr, verdict |-> "none"]
              /\ m[1] = "ALLOW_SYSCALLS_FROM_CALLSITE" =>
                   Judge(d, st, m) = [looked |-> d.instruction_pointer,
                     verdict |-> IF d.instruction_pointer = m[2] THEN "ALLOW" ELSE "none"]
              /\ m[1] \in {"ALLOW_SYSCALL", "KILL_SYSCALL", "TRACE_SYSCALL"} =>
                   Judge(d, st, m) = [looked |-> l, verdict |-> IF l = m[2] THEN Says(m[1]) ELSE "none"]
              /\ m[1] = "ALLOW_SOCKETCALL" =>
                   Judge(d, st, m) = [looked |-> l, verdict |->
                     IF l # socketcall THEN "none"
                     ELSE IF d.arg0 \in {SYS_RECV, SYS_ACCEPT} THEN "TRACE" ELSE "ALLOW"]
              /\ m[1] \in {"KILL_PROCESS", "ALLOW_PROCESS", "TRACE_PROCESS"} =>
                   Judge(d, st, m) = [looked |-> l, verdict |-> Says(m[1])]
<1>1. CASE m[1] = "EXAMINE_SYSCALL"
  BY Zenon, <1>1 DEF Judge, Decide
<1>2. CASE m[1] = "ALLOW_SYSCALLS_FROM_CALLSITE"
  BY Zenon, <1>2 DEF Judge, Decide
<1>3. CASE m[1] = "ALLOW_SYSCALL"
  BY Zenon, <1>3 DEF Judge, Decide, Says
<1>4. CASE m[1] = "KILL_SYSCALL"
  BY Zenon, <1>4 DEF Judge, Decide, Says
<1>5. CASE m[1] = "TRACE_SYSCALL"
  BY Zenon, <1>5 DEF Judge, Decide, Says
<1>6. CASE m[1] = "ALLOW_SOCKETCALL"
  BY <1>6 DEF Judge, Decide
<1>7. CASE m[1] = "KILL_PROCESS"
  BY <1>7 DEF Judge, Decide, Says
<1>8. CASE m[1] = "ALLOW_PROCESS"
  BY <1>8 DEF Judge, Decide, Says
<1>9. CASE m[1] = "TRACE_PROCESS"
  BY <1>9 DEF Judge, Decide, Says
<1>10. QED
  BY Zenon, MacroKinds, <1>1, <1>2, <1>3, <1>4, <1>5, <1>6, <1>7, <1>8, <1>9
     DEF Plain, WithWord

(* The instructions the macros expand to.                                  *)
Forms == {LD(f) : f \in {"nr", "instruction_pointer", "arg0"}} \cup
         [op : {"jeq"}, k : Words \cup {socketcall, SYS_RECV, SYS_ACCEPT}, jt : Nat, jf : Nat] \cup
         {RET(v) : v \in {"ALLOW", "KILL", "TRACE"}}

(* The instructions of each macro.                                         *)
LEMMA ExpandKinds ==
  ASSUME NEW m \in Macro
  PROVE  LET code == Expand(m) IN
         /\ code \in Seq(Forms) /\ Len(code) \in 1 .. 6
         /\ m[1] = "EXAMINE_SYSCALL" => Len(code) = 1 /\ code[1] = LD("nr")
         /\ m[1] \in {"KILL_PROCESS", "ALLOW_PROCESS", "TRACE_PROCESS"} =>
              Len(code) = 1 /\ code[1] = RET(Says(m[1]))
         /\ m[1] \in {"ALLOW_SYSCALL", "KILL_SYSCALL", "TRACE_SYSCALL"} =>
              Len(code) = 2 /\ code[1] = JEQ(m[2], 0, 1) /\ code[2] = RET(Says(m[1]))
         /\ m[1] = "ALLOW_SYSCALLS_FROM_CALLSITE" =>
              /\ Len(code) = 3 /\ code[1] = LD("instruction_pointer")
              /\ code[2] = JEQ(m[2], 0, 1) /\ code[3] = RET("ALLOW")
         /\ m[1] = "ALLOW_SOCKETCALL" =>
              /\ Len(code) = 6 /\ code[1] = JEQ(socketcall, 0, 5) /\ code[2] = LD("arg0")
              /\ code[3] = JEQ(SYS_RECV, 2, 0) /\ code[4] = JEQ(SYS_ACCEPT, 1, 0)
              /\ code[5] = RET("ALLOW") /\ code[6] = RET("TRACE")
<1>0. m[1] \in WithWord => m[2] \in Words
  BY DEF Macro, WithWord
<1>a. /\ \A f \in {"nr", "instruction_pointer", "arg0"} : LD(f) \in Forms
      /\ \A k \in Words \cup {socketcall, SYS_RECV, SYS_ACCEPT}, jt \in Nat, jf \in Nat :
           JEQ(k, jt, jf) \in Forms
      /\ \A v \in {"ALLOW", "KILL", "TRACE"} : RET(v) \in Forms
  BY Zenon DEF Forms, JEQ
<1> HIDE DEF Forms
<1>1. CASE m[1] = "EXAMINE_SYSCALL"
  <2>1. Expand(m) = <<LD("nr")>>
    BY Zenon, <1>1 DEF Expand, EXAMINE_SYSCALL
  <2>2. QED
    BY <1>1, <1>a, <2>1
<1>2. CASE m[1] = "ALLOW_SYSCALLS_FROM_CALLSITE"
  <2>1. Expand(m) = <<LD("instruction_pointer"), JEQ(m[2], 0, 1)>> \o <<RET("ALLOW")>>
    BY Zenon, <1>2 DEF Expand, ALLOW_SYSCALLS_FROM_CALLSITE, ALLOW_PROCESS
  <2>2. PICK a, b, c : a = LD("instruction_pointer") /\ b = JEQ(m[2], 0, 1) /\ c = RET("ALLOW")
    BY Zenon
  <2>3. a \in Forms /\ b \in Forms /\ c \in Forms
    BY Zenon, <1>0, <1>2, <1>a, <2>2 DEF WithWord
  <2>4. <<a, b>> \in Seq(Forms) /\ <<c>> \in Seq(Forms) /\ Len(<<a, b>>) = 2 /\ Len(<<c>>) = 1
    BY <2>3
  <2>5. /\ <<a, b>> \o <<c>> \in Seq(Forms) /\ Len(<<a, b>> \o <<c>>) = 3
        /\ (<<a, b>> \o <<c>>)[1] = a /\ (<<a, b>> \o <<c>>)[2] = b /\ (<<a, b>> \o <<c>>)[3] = c
    BY <2>4
  <2>6. QED
    BY <1>2, <2>1, <2>2, <2>5
<1>3. CASE m[1] \in {"ALLOW_SYSCALL", "KILL_SYSCALL", "TRACE_SYSCALL"}
  <2>1. Expand(m) = <<JEQ(m[2], 0, 1), RET(Says(m[1]))>>
    BY Zenon, <1>3 DEF Expand, ALLOW_SYSCALL, KILL_SYSCALL, TRACE_SYSCALL, Says
  <2>2. JEQ(m[2], 0, 1) \in Forms
    BY Zenon, <1>0, <1>3, <1>a DEF WithWord
  <2>3. RET(Says(m[1])) \in Forms
    BY Zenon, <1>3, <1>a DEF Says
  <2>4. QED
    BY <1>3, <2>1, <2>2, <2>3
<1>4. CASE m[1] = "ALLOW_SOCKETCALL"
  <2>1. Expand(m) = <<JEQ(socketcall, 0, 5), LD("arg0"), JEQ(SYS_RECV, 2, 0),
                      JEQ(SYS_ACCEPT, 1, 0), RET("ALLOW"), RET("TRACE")>>
    BY Zenon, <1>4 DEF Expand, ALLOW_SOCKETCALL
  <2>2. /\ JEQ(socketcall, 0, 5) \in Forms /\ LD("arg0") \in Forms
        /\ JEQ(SYS_RECV, 2, 0) \in Forms /\ JEQ(SYS_ACCEPT, 1, 0) \in Forms
        /\ RET("ALLOW") \in Forms /\ RET("TRACE") \in Forms
    BY Zenon, <1>a
  <2>3. QED
    BY <1>4, <2>1, <2>2
<1>5. CASE m[1] \in {"KILL_PROCESS", "ALLOW_PROCESS", "TRACE_PROCESS"}
  <2>1. Expand(m) = <<RET(Says(m[1]))>>
    BY Zenon, <1>5 DEF Expand, KILL_PROCESS, ALLOW_PROCESS, TRACE_PROCESS, Says
  <2>2. RET(Says(m[1])) \in Forms
    BY Zenon, <1>5, <1>a DEF Says
  <2>3. QED
    BY <1>5, <2>1, <2>2
<1>6. QED
  BY Zenon, MacroKinds, <1>1, <1>2, <1>3, <1>4, <1>5 DEF Plain, WithWord

(* The code of a filter is the last of a chain of growing prefixes.        *)
LEMMA CodePrefixes ==
  ASSUME NEW ms \in Seq(Macro)
  PROVE  /\ Code(ms) \in [0 .. Len(ms) -> Seq(Forms)] /\ Code(ms)[0] = <<>>
         /\ \A i \in 1 .. Len(ms) : Code(ms)[i] = Code(ms)[i - 1] \o Expand(ms[i])
         /\ \A i \in 0 .. Len(ms) :
              /\ Len(Code(ms)[i]) <= Len(Code(ms)[Len(ms)])
              /\ \A x \in 1 .. Len(Code(ms)[i]) : Code(ms)[Len(ms)][x] = Code(ms)[i][x]
<1> DEFINE N == Len(ms)
           S == Seq(Forms)
           s == [i \in 1 .. N |-> Expand(ms[i])]
<1>1. N \in Nat /\ \A i \in 1 .. N : ms[i] \in Macro
  OBVIOUS
<1>2. Code(ms) = CHOOSE f : Writes(ms, f, N)
  BY Zenon DEF Code, Writes
<1> HIDE DEF N, S
<1>3. \A i \in 1 .. N : Expand(ms[i]) \in S
  BY Zenon, <1>1, ExpandKinds DEF S
<1>4. s \in [1 .. N -> S] /\ \A i \in 1 .. N : s[i] = Expand(ms[i])
  BY Zenon, <1>3
<1>5. PICK f : f = Code(ms) /\ Writes(ms, f, N)
  BY Zenon, <1>1, <1>2, WritesExist
<1>6. f = [i \in 0 .. N |-> IF i = 0 THEN <<>> ELSE f[i - 1] \o Expand(ms[i])]
  BY Zenon, <1>5 DEF Writes
<1> HIDE DEF s
<1>7. f[0] = <<>> /\ \A i \in 1 .. N : f[i] = f[i - 1] \o Expand(ms[i])
  BY <1>1, <1>6
<1>8. Chains(s, f, N)
  BY Zenon, <1>4, <1>7 DEF Chains
<1>9. \A i \in 0 .. N : f[i] \in S
  <2> DEFINE T == {i \in 0 .. N : f[i] \notin S}
  <2>1. SUFFICES ASSUME T # {} PROVE FALSE
    BY Zenon
  <2>2. T \subseteq Nat
    BY <1>1
  <2>3. PICK i \in T : \A y \in T : i <= y
    BY Zenon, <2>1, <2>2, LeastNat
  <2>4. i \in 0 .. N /\ f[i] \notin S
    BY Zenon
  <2>5. i # 0
    <3>1. <<>> \in S
      BY DEF S
    <3>2. QED
      BY Zenon, <1>7, <2>4, <3>1
  <2>6. i - 1 \in 0 .. N /\ i \in 1 .. N /\ i - 1 \notin T
    BY <1>1, <2>3, <2>4, <2>5
  <2>7. f[i - 1] \in S /\ Expand(ms[i]) \in S
    BY Zenon, <1>3, <2>6
  <2>8. f[i - 1] \o Expand(ms[i]) \in S
    BY Zenon, <2>7, ConcatParts DEF S
  <2>9. QED
    BY Zenon, <1>7, <2>4, <2>6, <2>8
<1>10. f \in [0 .. N -> S]
  BY Zenon, <1>6, <1>9
<1>11. ASSUME NEW i \in 0 .. N
       PROVE  Len(f[i]) <= Len(f[N]) /\ \A x \in 1 .. Len(f[i]) : f[N][x] = f[i][x]
  BY ZenonT(30), <1>1, <1>4, <1>8, <1>10, PrefixKept DEF S
<1>12. QED
  BY Zenon, <1>5, <1>7, <1>10, <1>11 DEF N, S

(* What is known of the accumulator a, on the syscall d, at the o-th       *)
(* instruction of macro m, when l was looked at before it.                 *)
Inside(d, a, m, l, o) ==
  /\ o = 1 => a = l
  /\ m[1] = "ALLOW_SYSCALLS_FROM_CALLSITE" =>
       (o = 2 => a = d.instruction_pointer) /\ (o = 3 => d.instruction_pointer = m[2])
  /\ m[1] \in {"ALLOW_SYSCALL", "KILL_SYSCALL", "TRACE_SYSCALL"} => (o = 2 => l = m[2])
  /\ m[1] = "ALLOW_SOCKETCALL" =>
       /\ o > 1 => l = socketcall
       /\ o \in {3, 4} => a = d.arg0
       /\ o = 4 => d.arg0 # SYS_RECV
       /\ o = 5 => d.arg0 \notin {SYS_RECV, SYS_ACCEPT}
       /\ o = 6 => d.arg0 \in {SYS_RECV, SYS_ACCEPT}

(* What the kernel does with each instruction.                             *)
LEMMA Interpreted ==
  ASSUME FilterStep
  PROVE  /\ UNCHANGED <<macros, filter, data>> /\ verdict = "none"
         /\ \A f : filter[insn] = LD(f) => acc' = data[f] /\ insn' = insn + 1 /\ UNCHANGED verdict
         /\ \A k, jt, jf : filter[insn] = JEQ(k, jt, jf) =>
              /\ insn' = insn + 1 + (IF acc = k THEN jt ELSE jf)
              /\ UNCHANGED <<acc, verdict>>
         /\ \A v : filter[insn] = RET(v) => verdict' = v
  BY DEF FilterStep, LD, JEQ, RET

(* One instruction of macro m, whose code begins after instruction b: the  *)
(* macro decides, goes on, or leaves the decision to the next.             *)
Decides(m, st) == verdict' # "none" /\ verdict' = Judge(data, st, m).verdict
GoesOn(b, m, l) ==
  verdict' = "none" /\ \E o \in 1 .. Len(Expand(m)) : insn' = b + o /\ Inside(data, acc', m, l, o)
Leaves(b, m, st) ==
  /\ verdict' = "none" /\ insn' = b + Len(Expand(m)) + 1
  /\ Judge(data, st, m) = [looked |-> acc', verdict |-> "none"]

(* Inside a macro the interpreter does one of the three, whatever the      *)
(* macro.                                                                  *)
LEMMA MacroStep ==
  ASSUME FilterStep, data \in Data,
         NEW m \in Macro, NEW b \in Nat, NEW o \in 1 .. Len(Expand(m)),
         insn = b + o, filter[insn] = Expand(m)[o],
         NEW l, NEW st, st = [looked |-> l, verdict |-> "none"],
         Inside(data, acc, m, l, o)
  PROVE  Decides(m, st) \/ GoesOn(b, m, l) \/ Leaves(b, m, st)
<1>0. verdict = "none"
  BY Zenon DEF FilterStep
<1>1. CASE m[1] = "EXAMINE_SYSCALL"
  <2>1. Len(Expand(m)) = 1 /\ o = 1 /\ filter[insn] = LD("nr")
    BY <1>1, ExpandKinds
  <2>2. acc' = data.nr /\ insn' = b + 1 + 1 /\ verdict' = "none"
    BY Zenon, <1>0, <2>1, Interpreted
  <2>3. Judge(data, st, m) = [looked |-> data.nr, verdict |-> "none"]
    BY <1>1, JudgeKinds
  <2>4. QED
    BY Zenon, <2>1, <2>2, <2>3 DEF Leaves
<1>2. CASE m[1] = "ALLOW_SYSCALLS_FROM_CALLSITE"
  <2>0. /\ Len(Expand(m)) = 3
        /\ Judge(data, st, m) = [looked |-> data.instruction_pointer,
             verdict |-> IF data.instruction_pointer = m[2] THEN "ALLOW" ELSE "none"]
    BY <1>2, ExpandKinds, JudgeKinds
  <2>1. CASE o = 1
    <3>1. filter[insn] = LD("instruction_pointer")
      BY Zenon, <1>2, <2>1, ExpandKinds
    <3>2. acc' = data.instruction_pointer /\ insn' = b + 2 /\ verdict' = "none"
      BY <1>0, <2>1, <3>1, Interpreted
    <3>3. Inside(data, acc', m, l, 2)
      BY <1>2, <3>2 DEF Inside
    <3>4. QED
      BY <2>0, <3>2, <3>3 DEF GoesOn
  <2>2. CASE o = 2
    <3>1. filter[insn] = JEQ(m[2], 0, 1) /\ acc = data.instruction_pointer
      BY Zenon, <1>2, <2>2, ExpandKinds DEF Inside
    <3>2. insn' = b + (IF acc = m[2] THEN 3 ELSE 4) /\ acc' = acc /\ verdict' = "none"
      BY <1>0, <2>2, <3>1, Interpreted
    <3>3. CASE acc = m[2]
      <4>1. Inside(data, acc', m, l, 3)
        BY <1>2, <3>1, <3>3 DEF Inside
      <4>2. QED
        BY <2>0, <3>2, <3>3, <4>1 DEF GoesOn
    <3>4. CASE acc # m[2]
      BY <2>0, <3>1, <3>2, <3>4 DEF Leaves
    <3>5. QED
      BY Zenon, <3>3, <3>4
  <2>3. CASE o = 3
    <3>1. filter[insn] = RET("ALLOW") /\ data.instruction_pointer = m[2]
      BY Zenon, <1>2, <2>3, ExpandKinds DEF Inside
    <3>2. verdict' = "ALLOW"
      BY Zenon, <3>1, Interpreted
    <3>3. QED
      BY <2>0, <3>1, <3>2 DEF Decides
  <2>4. QED
    BY <2>0, <2>1, <2>2, <2>3
<1>3. CASE m[1] \in {"ALLOW_SYSCALL", "KILL_SYSCALL", "TRACE_SYSCALL"}
  <2>0. /\ Len(Expand(m)) = 2
        /\ Judge(data, st, m) = [looked |-> l, verdict |-> IF l = m[2] THEN Says(m[1]) ELSE "none"]
    BY <1>3, ExpandKinds, JudgeKinds
  <2>1. CASE o = 1
    <3>1. filter[insn] = JEQ(m[2], 0, 1) /\ acc = l
      BY Zenon, <1>3, <2>1, ExpandKinds DEF Inside
    <3>2. insn' = b + (IF acc = m[2] THEN 2 ELSE 3) /\ acc' = acc /\ verdict' = "none"
      BY <1>0, <2>1, <3>1, Interpreted
    <3>3. CASE acc = m[2]
      <4>1. Inside(data, acc', m, l, 2)
        BY <1>3, <3>1, <3>3 DEF Inside
      <4>2. QED
        BY <2>0, <3>2, <3>3, <4>1 DEF GoesOn
    <3>4. CASE acc # m[2]
      BY <2>0, <3>1, <3>2, <3>4 DEF Leaves
    <3>5. QED
      BY Zenon, <3>3, <3>4
  <2>2. CASE o = 2
    <3>1. filter[insn] = RET(Says(m[1])) /\ l = m[2]
      BY Zenon, <1>3, <2>2, ExpandKinds DEF Inside
    <3>2. verdict' = Says(m[1]) /\ Says(m[1]) # "none"
      BY Zenon, <1>3, <3>1, Interpreted DEF Says
    <3>3. QED
      BY <2>0, <3>1, <3>2 DEF Decides
  <2>3. QED
    BY <2>0, <2>1, <2>2
<1>4. CASE m[1] = "ALLOW_SOCKETCALL"
  <2>0. /\ Len(Expand(m)) = 6
        /\ Judge(data, st, m) = [looked |-> l, verdict |->
             IF l # socketcall THEN "none"
             ELSE IF data.arg0 \in {SYS_RECV, SYS_ACCEPT} THEN "TRACE" ELSE "ALLOW"]
    BY <1>4, ExpandKinds, JudgeKinds
  <2>1. CASE o = 1
    <3>1. filter[insn] = JEQ(socketcall, 0, 5) /\ acc = l
      BY Zenon, <1>4, <2>1, ExpandKinds DEF Inside
    <3>2. insn' = b + (IF acc = socketcall THEN 2 ELSE 7) /\ acc' = acc /\ verdict' = "none"
      BY <1>0, <2>1, <3>1, Interpreted
    <3>3. CASE acc = socketcall
      <4>1. Inside(data, acc', m, l, 2)
        BY <1>4, <3>1, <3>3 DEF Inside
      <4>2. QED
        BY <2>0, <3>2, <3>3, <4>1 DEF GoesOn
    <3>4. CASE acc # socketcall
      BY <2>0, <3>1, <3>2, <3>4 DEF Leaves
    <3>5. QED
      BY Zenon, <3>3, <3>4
  <2>2. CASE o = 2
    <3>1. filter[insn] = LD("arg0") /\ l = socketcall
      BY <1>4, <2>2, ExpandKinds DEF Inside
    <3>2. acc' = data.arg0 /\ insn' = b + 3 /\ verdict' = "none"
      BY <1>0, <2>2, <3>1, Interpreted
    <3>3. Inside(data, acc', m, l, 3)
      BY <1>4, <3>1, <3>2 DEF Inside
    <3>4. QED
      BY <2>0, <3>2, <3>3 DEF GoesOn
  <2>3. CASE o = 3
    <3>1. filter[insn] = JEQ(SYS_RECV, 2, 0) /\ acc = data.arg0 /\ l = socketcall
      BY <1>4, <2>3, ExpandKinds DEF Inside
    <3>2. insn' = b + (IF acc = SYS_RECV THEN 6 ELSE 4) /\ acc' = acc /\ verdict' = "none"
      BY <1>0, <2>3, <3>1, Interpreted
    <3>3. /\ acc = SYS_RECV => Inside(data, acc', m, l, 6)
          /\ acc # SYS_RECV => Inside(data, acc', m, l, 4)
      BY <1>4, <3>1, <3>2 DEF Inside
    <3>4. QED
      BY <2>0, <3>2, <3>3 DEF GoesOn
  <2>4. CASE o = 4
    <3>1. /\ filter[insn] = JEQ(SYS_ACCEPT, 1, 0) /\ acc = data.arg0 /\ l = socketcall
          /\ data.arg0 # SYS_RECV
      BY <1>4, <2>4, ExpandKinds DEF Inside
    <3>2. insn' = b + (IF acc = SYS_ACCEPT THEN 6 ELSE 5) /\ acc' = acc /\ verdict' = "none"
      BY <1>0, <2>4, <3>1, Interpreted
    <3>3. /\ acc = SYS_ACCEPT => Inside(data, acc', m, l, 6)
          /\ acc # SYS_ACCEPT => Inside(data, acc', m, l, 5)
      BY <1>4, <3>1, <3>2 DEF Inside
    <3>4. QED
      BY <2>0, <3>2, <3>3 DEF GoesOn
  <2>5. CASE o = 5
    <3>1. /\ filter[insn] = RET("ALLOW") /\ l = socketcall
          /\ data.arg0 \notin {SYS_RECV, SYS_ACCEPT}
      BY <1>4, <2>5, ExpandKinds DEF Inside
    <3>2. verdict' = "ALLOW"
      BY Zenon, <3>1, Interpreted
    <3>3. QED
      BY <2>0, <3>1, <3>2 DEF Decides
  <2>6. CASE o = 6
    <3>1. /\ filter[insn] = RET("TRACE") /\ l = socketcall
          /\ data.arg0 \in {SYS_RECV, SYS_ACCEPT}
      BY <1>4, <2>6, ExpandKinds DEF Inside
    <3>2. verdict' = "TRACE"
      BY Zenon, <3>1, Interpreted
    <3>3. QED
      BY <2>0, <3>1, <3>2 DEF Decides
  <2>7. QED
    BY <2>0, <2>1, <2>2, <2>3, <2>4, <2>5, <2>6
<1>5. CASE m[1] \in {"KILL_PROCESS", "ALLOW_PROCESS", "TRACE_PROCESS"}
  <2>1. o = 1 /\ filter[insn] = RET(Says(m[1]))
    BY <1>5, ExpandKinds
  <2>2. verdict' = Says(m[1]) /\ Says(m[1]) # "none"
    BY Zenon, <1>5, <2>1, Interpreted DEF Says
  <2>3. Judge(data, st, m).verdict = Says(m[1])
    BY <1>5, JudgeKinds
  <2>4. QED
    BY Zenon, <2>2, <2>3 DEF Decides
<1>6. QED
  BY Zenon, MacroKinds, <1>1, <1>2, <1>3, <1>4, <1>5 DEF Plain, WithWord

(* What was said is a record, and the first decision stands.               *)
LEMMA JudgedRecords ==
  ASSUME NEW d \in Data, NEW ms \in Seq(Macro), NEW i \in 0 .. Len(ms)
  PROVE  \E l, v : Judged(d, ms)[i] = [looked |-> l, verdict |-> v]
<1> DEFINE N == Len(ms)
           Good(j) == \E l, v : Judged(d, ms)[j] = [looked |-> l, verdict |-> v]
           T == {j \in 0 .. N : ~Good(j)}
<1>1. N \in Nat /\ \A j \in 1 .. N : ms[j] \in Macro
  OBVIOUS
<1>2. Judged(d, ms)[0] = [looked |-> 0, verdict |-> "none"]
  BY Zenon, JudgedStep
<1>3. \A j \in 1 .. N : Judged(d, ms)[j] = Judge(d, Judged(d, ms)[j - 1], ms[j])
  BY Zenon, JudgedStep
<1> HIDE DEF N, Good
<1>4. SUFFICES ASSUME T # {} PROVE FALSE
  BY Zenon DEF N, Good
<1>5. T \subseteq Nat
  BY <1>1
<1>6. PICK j \in T : \A y \in T : j <= y
  BY Zenon, <1>4, <1>5, LeastNat
<1>7. j \in 0 .. N /\ ~Good(j) /\ j # 0
  BY Zenon, <1>2, <1>6 DEF Good
<1>8. j \in 1 .. N /\ j - 1 \in 0 .. N /\ j - 1 \notin T
  BY <1>1, <1>6, <1>7
<1>9. PICK l, v : Judged(d, ms)[j - 1] = [looked |-> l, verdict |-> v]
  BY Zenon, <1>8 DEF Good
<1>10. PICK m \in Macro : m = ms[j]
  BY Zenon, <1>1, <1>8
<1>b. PICK st : st = Judged(d, ms)[j - 1]
  BY Zenon
<1>11. Judge(d, st, m) = [looked |-> Judge(d, st, m).looked, verdict |-> Judge(d, st, m).verdict]
  BY <1>9, <1>10, <1>b, JudgeKinds
<1>12. QED
  BY Zenon, <1>3, <1>7, <1>8, <1>10, <1>b, <1>11 DEF Good

(* What one macro has decided the later ones do not change.                *)
LEMMA JudgedKept ==
  ASSUME NEW d \in Data, NEW ms \in Seq(Macro), NEW i \in 0 .. Len(ms),
         Judged(d, ms)[i].verdict # "none"
  PROVE  Judged(d, ms)[Len(ms)].verdict = Judged(d, ms)[i].verdict
<1> DEFINE N == Len(ms)
           Good(j) == Judged(d, ms)[j].verdict = Judged(d, ms)[i].verdict
           T == {j \in i .. N : ~Good(j)}
<1>1. N \in Nat /\ i \in 0 .. N /\ \A j \in 1 .. N : ms[j] \in Macro
  OBVIOUS
<1>2. Good(i)
  BY Zenon
<1>3. \A j \in 1 .. N : Judged(d, ms)[j] = Judge(d, Judged(d, ms)[j - 1], ms[j])
  BY Zenon, JudgedStep
<1>a. \A j \in 0 .. N : \E l, v : Judged(d, ms)[j] = [looked |-> l, verdict |-> v]
  BY Zenon, JudgedRecords
<1> HIDE DEF N, Good
<1>4. SUFFICES ASSUME T # {} PROVE FALSE
  <2>1. N \in i .. N
    BY <1>1
  <2>2. T = {} => Good(N)
    BY Zenon, <2>1
  <2>3. QED
    BY Zenon, <2>2 DEF N, Good
<1>5. T \subseteq Nat
  BY <1>1
<1>6. PICK j \in T : \A y \in T : j <= y
  BY Zenon, <1>4, <1>5, LeastNat
<1>7. j \in i .. N /\ ~Good(j) /\ j # i
  BY Zenon, <1>2, <1>6
<1>8. j \in 1 .. N /\ j - 1 \in i .. N /\ j - 1 \in 0 .. N /\ j - 1 \notin T
  BY <1>1, <1>6, <1>7
<1>9. PICK l, v : Judged(d, ms)[j - 1] = [looked |-> l, verdict |-> v]
  BY Zenon, <1>a, <1>8
<1>10. PICK m \in Macro : m = ms[j]
  BY Zenon, <1>1, <1>8
<1>b. PICK st : st = Judged(d, ms)[j - 1]
  BY Zenon
<1>11. Good(j - 1)
  BY Zenon, <1>8
<1>12. v = Judged(d, ms)[i].verdict /\ v # "none"
  BY <1>9, <1>11 DEF Good
<1>13. Judge(d, st, m).verdict = v
  BY <1>9, <1>10, <1>b, <1>12, JudgeKinds
<1>14. QED
  BY Zenon, <1>3, <1>7, <1>8, <1>10, <1>b, <1>12, <1>13 DEF Good
------------------------------------------------------------------------------
(* The interpreter is past the end, or at an instruction of a macro that   *)
(* the macros before it left the decision to, with what they looked at.    *)
Running ==
  \/ insn = Len(filter) + 1
  \/ \E i \in 1 .. Len(macros) :
       /\ Judged(data, macros)[i - 1].verdict = "none"
       /\ \E o \in 1 .. Len(Expand(macros[i])) :
            /\ insn = Len(Code(macros)[i - 1]) + o
            /\ Inside(data, acc, macros[i], Judged(data, macros)[i - 1].looked, o)

(* The verdict is the one that was written; until there is one, the        *)
(* interpreter runs inside some macro.                                     *)
FilterInv ==
  /\ macros \in Seq(Macro) /\ data \in Data /\ filter = Code(macros)[Len(macros)]
  /\ FilterComposes
  /\ verdict = "none" => Running

(* Where the code of the i-th macro is.                                    *)
LEMMA CodeOf ==
  ASSUME NEW ms \in Seq(Macro), NEW i \in 1 .. Len(ms)
  PROVE  LET f == Code(ms) IN
         /\ ms[i] \in Macro /\ Len(f[i - 1]) \in Nat /\ Len(Expand(ms[i])) \in Nat \ {0}
         /\ Len(f[i]) = Len(f[i - 1]) + Len(Expand(ms[i]))
         /\ \A o \in 1 .. Len(Expand(ms[i])) :
              f[Len(ms)][Len(f[i - 1]) + o] = Expand(ms[i])[o]
<1> DEFINE f == Code(ms)
           N == Len(ms)
<1>1. ms[i] \in Macro /\ i - 1 \in 0 .. N /\ i \in 0 .. N /\ i \in 1 .. N
  OBVIOUS
<1>2. /\ f \in [0 .. N -> Seq(Forms)] /\ f[i] = f[i - 1] \o Expand(ms[i])
      /\ \A x \in 1 .. Len(f[i]) : f[N][x] = f[i][x]
  BY Zenon, <1>1, CodePrefixes
<1> HIDE DEF f, N
<1>3. PICK p \in Seq(Forms), q \in Seq(Forms) : p = f[i - 1] /\ q = Expand(ms[i])
  BY Zenon, <1>1, <1>2, ExpandKinds
<1>4. Len(q) \in 1 .. 6
  BY Zenon, <1>1, <1>3, ExpandKinds
<1>5. PICK a \in Nat, n \in Nat : a = Len(p) /\ n = Len(q)
  BY <1>3, <1>4
<1>6. f[i] = p \o q
  BY Zenon, <1>2, <1>3
<1>7. Len(f[i]) = a + n /\ \A o \in 1 .. n : f[i][a + o] = q[o]
  BY <1>5, <1>6, ConcatParts
<1>8. ASSUME NEW o \in 1 .. n PROVE f[N][a + o] = q[o]
  <2>1. a + o \in 1 .. Len(f[i])
    BY <1>7
  <2>2. QED
    BY Zenon, <1>2, <1>7, <2>1
<1>9. n # 0
  BY <1>4, <1>5
<1>10. a = Len(f[i - 1]) /\ n = Len(Expand(ms[i]))
  BY Zenon, <1>3, <1>5
<1>11. \A o \in 1 .. n : f[N][a + o] = Expand(ms[i])[o]
  BY Zenon, <1>3, <1>8
<1>12. QED
  BY Zenon, <1>1, <1>7, <1>9, <1>10, <1>11 DEF f, N

(* The interpreter starts at the first macro.                              *)
LEMMA FilterInitInv == FilterInit(Seq(Macro), Data) => FilterInv
<1> SUFFICES ASSUME FilterInit(Seq(Macro), Data) PROVE FilterInv
  BY Zenon
<1>1. /\ macros \in Seq(Macro) /\ data \in Data /\ verdict = "none" /\ insn = 1 /\ acc = 0
      /\ filter = Code(macros)[Len(macros)]
  BY Zenon DEF FilterInit
<1>2. Len(macros) \in Nat /\ Code(macros)[0] = <<>>
  <2>1. Len(macros) \in Nat
    BY <1>1
  <2>2. Code(macros)[0] = <<>>
    BY Zenon, <1>1, CodePrefixes
  <2>3. QED
    BY Zenon, <2>1, <2>2
<1>3. Running
  <2>1. CASE Len(macros) = 0
    BY <1>1, <1>2, <2>1 DEF Running
  <2>2. CASE Len(macros) # 0
    <3>1. 1 \in 1 .. Len(macros) /\ 1 - 1 = 0
      BY <1>2, <2>2
    <3>2. Judged(data, macros)[0] = [looked |-> 0, verdict |-> "none"]
      BY Zenon, <1>1, JudgedStep
    <3>3. Len(Expand(macros[1])) \in Nat \ {0}
      BY Zenon, <1>1, <3>1, CodeOf
    <3>4. 1 \in 1 .. Len(Expand(macros[1])) /\ insn = Len(Code(macros)[0]) + 1
      BY <1>1, <1>2, <3>3
    <3>5. Inside(data, acc, macros[1], 0, 1)
      BY <1>1 DEF Inside
    <3>6. QED
      BY <3>1, <3>2, <3>4, <3>5 DEF Running
  <2>3. QED
    BY Zenon, <2>1, <2>2
<1>4. QED
  BY Zenon, <1>1, <1>3 DEF FilterInv, FilterComposes

(* An instruction of the i-th macro keeps the invariant.                   *)
LEMMA RunningStep ==
  ASSUME macros \in Seq(Macro), data \in Data, FilterStep, Running,
         filter = Code(macros)[Len(macros)]
  PROVE  FilterComposes' /\ (verdict' = "none" => Running')
<1>0. UNCHANGED <<macros, filter, data>> /\ verdict = "none" /\ insn \in DOMAIN filter
  BY Zenon, Interpreted DEF FilterStep
<1>1. filter \in Seq(Forms) /\ Len(macros) \in Nat
  <2>1. Code(macros) \in [0 .. Len(macros) -> Seq(Forms)]
    BY Zenon, CodePrefixes
  <2>2. Len(macros) \in Nat /\ Len(macros) \in 0 .. Len(macros)
    OBVIOUS
  <2>3. QED
    BY Zenon, <2>1, <2>2
<1>2. insn # Len(filter) + 1
  BY <1>0, <1>1
<1>a. PICK i \in 1 .. Len(macros) :
        /\ Judged(data, macros)[i - 1].verdict = "none"
        /\ \E o \in 1 .. Len(Expand(macros[i])) :
             /\ insn = Len(Code(macros)[i - 1]) + o
             /\ Inside(data, acc, macros[i], Judged(data, macros)[i - 1].looked, o)
  BY Zenon, <1>2 DEF Running
<1>3. PICK o \in 1 .. Len(Expand(macros[i])) :
        /\ Judged(data, macros)[i - 1].verdict = "none" /\ insn = Len(Code(macros)[i - 1]) + o
        /\ Inside(data, acc, macros[i], Judged(data, macros)[i - 1].looked, o)
  BY Zenon, <1>a
<1>4. i - 1 \in 0 .. Len(macros) /\ i \in 0 .. Len(macros)
  BY <1>1
<1>5. PICK l, v : Judged(data, macros)[i - 1] = [looked |-> l, verdict |-> v]
  BY Zenon, <1>4, JudgedRecords
<1>6. PICK m \in Macro, b \in Nat : m = macros[i] /\ b = Len(Code(macros)[i - 1])
  BY Zenon, CodeOf
<1>b. PICK st : st = Judged(data, macros)[i - 1]
  BY Zenon
<1>7. st = [looked |-> l, verdict |-> "none"] /\ Judged(data, macros)[i - 1].looked = l
  BY <1>3, <1>5, <1>b
<1>8. Judged(data, macros)[i] = Judge(data, st, m)
  BY Zenon, <1>6, <1>b, JudgedStep
<1>9. insn = b + o /\ filter[insn] = Expand(m)[o] /\ Inside(data, acc, m, l, o)
  BY Zenon, <1>3, <1>6, <1>7, CodeOf
<1>10. Decides(m, st) \/ GoesOn(b, m, l) \/ Leaves(b, m, st)
  BY Zenon, <1>3, <1>6, <1>7, <1>9, MacroStep
<1>11. CASE Decides(m, st)
  <2>1. verdict' # "none" /\ verdict' = Judged(data, macros)[i].verdict
    BY Zenon, <1>8, <1>11 DEF Decides
  <2>2. verdict' = Decision
    BY Zenon, <1>4, <2>1, JudgedKept DEF Decision
  <2>3. Decision' = Decision
    BY Zenon, <1>0 DEF Decision
  <2>4. QED
    BY Zenon, <2>1, <2>2, <2>3 DEF FilterComposes
<1>12. CASE GoesOn(b, m, l)
  <2>1. PICK p \in 1 .. Len(Expand(m)) : insn' = b + p /\ Inside(data, acc', m, l, p)
    BY Zenon, <1>12 DEF GoesOn
  <2>2. /\ Judged(data, macros)[i - 1].verdict = "none" /\ insn' = Len(Code(macros)[i - 1]) + p
        /\ Inside(data, acc', macros[i], Judged(data, macros)[i - 1].looked, p)
        /\ p \in 1 .. Len(Expand(macros[i]))
    BY Zenon, <1>3, <1>6, <1>7, <2>1
  <2>3. Running'
    BY Zenon, <1>0, <2>2 DEF Running
  <2>4. QED
    BY Zenon, <1>12, <2>3 DEF GoesOn, FilterComposes
<1>13. CASE Leaves(b, m, st)
  <2>1. insn' = Len(Code(macros)[i]) + 1
    BY Zenon, <1>6, <1>13, CodeOf DEF Leaves
  <2>2. Judged(data, macros)[i] = [looked |-> acc', verdict |-> "none"]
    BY Zenon, <1>8, <1>13 DEF Leaves
  <2>3. CASE i = Len(macros)
    <3>1. insn' = Len(filter) + 1
      BY Zenon, <2>1, <2>3
    <3>2. QED
      BY Zenon, <1>0, <1>13, <3>1 DEF Running, Leaves, FilterComposes
  <2>4. CASE i # Len(macros)
    <3>1. PICK j \in 1 .. Len(macros) : j - 1 = i
      <4>1. i + 1 \in 1 .. Len(macros) /\ (i + 1) - 1 = i
        BY <1>1, <2>4
      <4>2. QED
        BY Zenon, <4>1
    <3>2. 1 \in 1 .. Len(Expand(macros[j]))
      <4>1. Len(Expand(macros[j])) \in Nat \ {0}
        BY Zenon, CodeOf
      <4>2. QED
        BY <4>1
    <3>3. Inside(data, acc', macros[j], acc', 1)
      BY DEF Inside
    <3>4. /\ Judged(data, macros)[j - 1].verdict = "none" /\ insn' = Len(Code(macros)[j - 1]) + 1
          /\ Inside(data, acc', macros[j], Judged(data, macros)[j - 1].looked, 1)
      BY <2>1, <2>2, <3>1, <3>3
    <3>5. Running'
      BY Zenon, <1>0, <3>2, <3>4 DEF Running
    <3>6. QED
      BY Zenon, <1>13, <3>5 DEF Leaves, FilterComposes
  <2>5. QED
    BY Zenon, <2>3, <2>4
<1>14. QED
  BY Zenon, <1>10, <1>11, <1>12, <1>13

(* Every instruction keeps the invariant.                                  *)
LEMMA FilterStepInv == FilterInv /\ [FilterStep]_filterVars => FilterInv'
<1> SUFFICES ASSUME FilterInv, [FilterStep]_filterVars PROVE FilterInv'
  BY Zenon
<1>1. /\ macros \in Seq(Macro) /\ data \in Data /\ FilterComposes
      /\ filter = Code(macros)[Len(macros)] /\ (verdict = "none" => Running)
  BY Zenon DEF FilterInv
<1>2. UNCHANGED <<macros, filter, data>>
  BY Zenon, Interpreted DEF filterVars
<1>3. FilterComposes' /\ (verdict' = "none" => Running')
  <2>1. CASE FilterStep
    <3>1. Running
      BY Zenon, <1>1, <2>1 DEF FilterStep
    <3>2. QED
      BY Zenon, <1>1, <2>1, <3>1, RunningStep
  <2>2. CASE UNCHANGED filterVars
    BY Zenon, <1>1, <2>2 DEF filterVars, FilterComposes, Decision, Running
  <2>3. QED
    BY Zenon, <2>1, <2>2
<1>4. QED
  BY Zenon, <1>1, <1>2, <1>3 DEF FilterInv

(* A filter of any number of macros decides what they say, on any syscall. *)
THEOREM FiltersCompose == FilterSpec => []FilterComposes
<1>1. FilterInv => FilterComposes
  BY Zenon DEF FilterInv
<1>2. QED
  BY <1>1, FilterInitInv, FilterStepInv, PTL DEF FilterSpec
==============================================================================
