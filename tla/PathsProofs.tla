----------------------------- MODULE PathsProofs ------------------------------
(***************************************************************************)
(* The trace of paths.c is complete, for any number of threads and         *)
(* iterations and any size of the buffer.                                  *)
(*                                                                         *)
(* Every step of the program is a step of the runtime or leaves it alone,  *)
(* so the invariants of PathLogProofs hold here too.  What is new is where *)
(* the threads are in their code (Places), that a thread has logged what   *)
(* its code up to there logs (Logging), and that main has waited for every *)
(* thread that its code up to there joins (Joined): when main exits, every *)
(* thread has come to an orderly end, and has saved all its code logs.     *)
(***************************************************************************)
EXTENDS Paths, PathLogProofs, WellFoundedInduction

(* A set of naturals has a least element; with it, induction.              *)
LEMMA LeastNat ==
  ASSUME NEW T, T \subseteq Nat, T # {}
  PROVE  \E x \in T : \A y \in T : x <= y
<1>1. PICK x \in T : \A y \in T : ~(<<y, x>> \in OpToRel(<, Nat))
  BY Zenon, NatLessThanWellFounded, WFMin
<1>2. \A y \in T : ~(y < x)
  BY Zenon, <1>1 DEF OpToRel
<1>3. QED
  BY <1>2

(* f solves the recursion of Logged up to n.                               *)
Logs(code, f, n) ==
  f = [k \in 0 .. n |->
         IF k = 0 THEN <<>>
         ELSE IF code[k].op = "log" THEN Append(f[k - 1], code[k].rec) ELSE f[k - 1]]

(* There is a solution.                                                    *)
LEMMA LogsExist ==
  ASSUME NEW code, NEW N \in Nat
  PROVE  \E f : Logs(code, f, N)
<1> DEFINE Step(f, k) == IF k = 0 THEN <<>>
           ELSE IF code[k].op = "log" THEN Append(f[k - 1], code[k].rec) ELSE f[k - 1]
           Solves(f, n) == Logs(code, f, n)
           T == {n \in Nat : ~ \E f : Solves(f, n)}
<1>1. SUFFICES ASSUME T # {} PROVE FALSE
  BY Zenon
<1>2. PICK n \in T : \A m \in T : n <= m
  BY Zenon, <1>1, LeastNat
<1> HIDE DEF Solves
<1>3. n \in Nat /\ ~(\E f : Solves(f, n)) /\ \A m \in Nat : m < n => \E f : Solves(f, m)
  BY <1>2
<1>4. n # 0
  <2>1. Solves([k \in 0 .. 0 |-> <<>>], 0)
    BY DEF Solves, Logs
  <2>2. QED
    BY Zenon, <1>3, <2>1
<1>5. PICK f : Solves(f, n - 1)
  BY <1>3, <1>4
<1> DEFINE g == [k \in 0 .. n |-> IF k = n THEN Step(f, n) ELSE f[k]]
<1>6. ASSUME NEW k \in 0 .. n PROVE g[k] = Step(g, k)
  <2>1. k # 0 => k - 1 \in 0 .. n /\ k - 1 # n
    BY <1>3
  <2>2. k # 0 => g[k - 1] = f[k - 1]
    BY Zenon, <2>1
  <2>3. Step(g, k) = Step(f, k)
    BY <2>2
  <2>4. k # n => f[k] = Step(f, k)
    <3>1. k # n => k \in 0 .. n - 1
      BY <1>3
    <3>2. QED
      BY Zenon, <1>5, <3>1 DEF Solves, Logs
  <2>5. QED
    BY Zenon, <2>3, <2>4
<1> HIDE DEF Step
<1>7. Solves(g, n)
  BY Zenon, <1>6 DEF Solves, Logs, Step
<1>8. QED
  BY Zenon, <1>3, <1>7

(* The records of a prefix are those of a shorter one and the next.        *)
LEMMA LoggedStep ==
  ASSUME NEW S, NEW code \in Seq(S)
  PROVE  /\ Logged(code)[0] = <<>>
         /\ \A k \in 1 .. Len(code) :
              Logged(code)[k] = IF code[k].op = "log"
                                THEN Append(Logged(code)[k - 1], code[k].rec)
                                ELSE Logged(code)[k - 1]
<1> DEFINE N == Len(code)
<1>1. N \in Nat
  OBVIOUS
<1>2. Logged(code) = CHOOSE f : Logs(code, f, N)
  BY Zenon DEF Logged, Logs
<1> HIDE DEF N
<1>3. \E f : Logs(code, f, N)
  BY Zenon, <1>1, LogsExist
<1>4. PICK f : f = Logged(code) /\ Logs(code, f, N)
  BY Zenon, <1>2, <1>3
<1>5. f[0] = <<>>
  BY <1>1, <1>4 DEF Logs
<1>6. ASSUME NEW k \in 1 .. N
      PROVE  f[k] = IF code[k].op = "log" THEN Append(f[k - 1], code[k].rec) ELSE f[k - 1]
  <2>1. k \in 0 .. N /\ k # 0
    BY <1>1
  <2>2. QED
    BY Zenon, <1>4, <2>1 DEF Logs
<1>7. QED
  BY Zenon, <1>4, <1>5, <1>6 DEF N
------------------------------------------------------------------------------
(* The instructions of a loop body and of its back edges.                  *)
LogOf == {Log(r) : r \in Recs}

(* The instructions on a thread, and all those of the loop bodies.         *)
ThreadOps(op) == [op : {op}, task : Tasks \ {MainTask}]
Body == LogOf \cup ThreadOps("create") \cup ThreadOps("join")

(* A loop has its body's instructions at the odd places.                   *)
LEMMA IterateBody ==
  ASSUME NEW body \in Seq(Body), NEW fn \in Recs
  PROVE  /\ Iterate(body, fn) \in Seq(Body)
         /\ \A i \in 1 .. Len(body) :
              2 * i - 1 \in 1 .. Len(Iterate(body, fn)) /\ Iterate(body, fn)[2 * i - 1] = body[i]
<1> DEFINE n == Len(body)
           e(i) == IF i % 2 = 1 THEN body[(i + 1) \div 2] ELSE Log(fn)
           loop == [i \in 1 .. 2 * n |-> e(i)]
<1>1. n \in Nat /\ 2 * n \in Nat
  OBVIOUS
<1>2. Iterate(body, fn) = loop
  BY Zenon DEF Iterate
<1>3. ASSUME NEW i \in 1 .. 2 * n PROVE e(i) \in Body
  <2>1. CASE i % 2 = 1
    <3>1. (i + 1) \div 2 \in 1 .. n
      BY <1>1, <2>1
    <3>2. QED
      BY <2>1, <3>1
  <2>2. CASE i % 2 # 1
    BY Zenon, <2>2 DEF Body, LogOf
  <2>3. QED
    BY Zenon, <2>1, <2>2
<1> HIDE DEF n
<1>4. loop \in Seq(Body) /\ Len(loop) = 2 * n
  BY <1>1, <1>3
<1>5. ASSUME NEW i \in 1 .. n PROVE 2 * i - 1 \in 1 .. 2 * n /\ loop[2 * i - 1] = body[i]
  <2>1. 2 * i - 1 \in 1 .. 2 * n /\ (2 * i - 1) % 2 = 1 /\ (2 * i - 1 + 1) \div 2 = i
    BY <1>1
  <2>2. QED
    BY Zenon, <2>1
<1>6. QED
  BY Zenon, <1>2, <1>4, <1>5 DEF n

(* The last instruction of a piece of code, and only that one, ends it.    *)
LEMMA CodeEnds ==
  ASSUME NEW loops \in Seq(Body), NEW last, NEW S, last \in S, Body \subseteq S, NEW r \in Recs
  PROVE  LET code == loops \o <<Log(r), last>> IN
         /\ code \in Seq(S) /\ Len(code) = Len(loops) + 2
         /\ code[Len(code)] = last
         /\ \A k \in 1 .. Len(code) : k # Len(code) => code[k] \in Body
         /\ \A k \in 1 .. Len(loops) : code[k] = loops[k]
<1> DEFINE e == <<Log(r), last>>
           code == loops \o e
<1>0. Log(r) \in Body
  BY Zenon DEF Body, LogOf
<1>1. loops \in Seq(S) /\ e \in Seq(S) /\ Len(e) = 2 /\ e[1] = Log(r) /\ e[2] = last
      /\ Len(loops) \in Nat
  BY <1>0
<1>2. code \in Seq(S) /\ Len(code) = Len(loops) + 2
      /\ \A k \in 1 .. Len(code) : code[k] = IF k <= Len(loops) THEN loops[k] ELSE e[k - Len(loops)]
  BY <1>1, ConcatProperties
<1> HIDE DEF code
<1>3. code[Len(code)] = last
  BY <1>1, <1>2
<1>4. ASSUME NEW k \in 1 .. Len(code), k # Len(code) PROVE code[k] \in Body
  <2>1. CASE k <= Len(loops)
    BY SMTT(30), <1>1, <1>2, <2>1
  <2>2. CASE ~(k <= Len(loops))
    <3>1. k - Len(loops) = 1
      BY SMTT(30), <1>1, <1>2, <1>4, <2>2
    <3>2. QED
      BY SMTT(30), <1>0, <1>1, <1>2, <2>2, <3>1
  <2>3. QED
    BY Zenon, <2>1, <2>2
<1>5. \A k \in 1 .. Len(loops) : code[k] = loops[k]
  BY SMTT(30), <1>1, <1>2
<1>6. QED
  BY Zenon, <1>2, <1>3, <1>4, <1>5 DEF code

(* The last instruction of a thread, and all its instructions.             *)
Finish(t) == IF t = MainTask THEN [op |-> "exit"] ELSE [op |-> "return"]
Instrs == Body \cup {[op |-> "exit"], [op |-> "return"]}

(* The loops of the two functions.                                         *)
Iterations(fn) == Iterate([i \in 1 .. NUM_ITS |-> Log("paths")], fn)
Loops(op) == Iterate([i \in 1 .. NUM_THREADS |-> [op |-> op, task |-> Order[i]]], "main")

(* What the loops are made of: every thread is joined somewhere.           *)
LEMMA LoopsOK ==
  /\ Iterations("thread") \in Seq(Body) /\ Iterations("main") \in Seq(Body)
  /\ Loops("create") \in Seq(Body) /\ Loops("join") \in Seq(Body)
  /\ \A i \in 1 .. Len(Order) :
       /\ 2 * i - 1 \in 1 .. Len(Loops("join"))
       /\ Loops("join")[2 * i - 1] = [op |-> "join", task |-> Order[i]]
<1> DEFINE work == [i \in 1 .. NUM_ITS |-> Log("paths")]
           each(op) == [i \in 1 .. NUM_THREADS |-> [op |-> op, task |-> Order[i]]]
<1>1. {"paths", "thread", "main"} \subseteq Recs /\ NUM_ITS \in Nat
  BY Zenon, PathsOK
<1>2. work \in Seq(Body)
  BY <1>1 DEF Body, LogOf
<1>3. Len(Order) \in Nat /\ \A i \in 1 .. Len(Order) : Order[i] \in Tasks \ {MainTask}
  BY PathsOK
<1>4. ASSUME NEW op \in {"create", "join"}
      PROVE  each(op) \in Seq(Body) /\ Len(each(op)) = Len(Order)
  <2>1. \A i \in 1 .. Len(Order) : [op |-> op, task |-> Order[i]] \in Body
    BY Zenon, <1>3 DEF Body, ThreadOps
  <2>2. QED
    BY SMTT(30), <1>3, <2>1 DEF NUM_THREADS
<1>5. \A i \in 1 .. Len(Order) : each("join")[i] = [op |-> "join", task |-> Order[i]]
  BY Zenon, <1>3 DEF NUM_THREADS
<1> HIDE DEF work, each
<1>6. Iterate(work, "thread") \in Seq(Body) /\ Iterate(work, "main") \in Seq(Body)
  BY Zenon, <1>1, <1>2, IterateBody
<1>7. ASSUME NEW op \in {"create", "join"}
      PROVE  /\ Iterate(each(op), "main") \in Seq(Body)
             /\ \A i \in 1 .. Len(Order) :
                  /\ 2 * i - 1 \in 1 .. Len(Iterate(each(op), "main"))
                  /\ Iterate(each(op), "main")[2 * i - 1] = each(op)[i]
  BY ZenonT(30), <1>1, <1>4, IterateBody
<1>8. QED
  BY Zenon, <1>5, <1>6, <1>7 DEF Iterations, Loops, work, each

(* Only the last instruction of a thread's code ends it, and main joins    *)
(* every other thread.                                                     *)
LEMMA CodeShape ==
  ASSUME NEW t \in Tasks
  PROVE  /\ Code(t) \in Seq(Instrs) /\ Len(Code(t)) \in Nat \ {0}
         /\ Code(t)[Len(Code(t))] = Finish(t)
         /\ \A k \in 1 .. Len(Code(t)) : k # Len(Code(t)) => Code(t)[k] \in Body
<1>0. {"paths", "thread", "main"} \subseteq Recs /\ Body \subseteq Instrs
  BY Zenon, PathsOK DEF Instrs
<1>1. CASE t = MainTask
  <2> DEFINE loops == Loops("create") \o Iterations("main") \o Loops("join")
  <2>1. loops \in Seq(Body)
    BY Zenon, LoopsOK, ConcatProperties
  <2>2. Code(t) = loops \o <<Log("main"), [op |-> "exit"]>>
    BY Zenon, <1>1 DEF Code, main, Loops, Iterations
  <2>3. [op |-> "exit"] \in Instrs /\ Finish(t) = [op |-> "exit"] /\ Len(loops) \in Nat
    BY SMTT(30), <1>1, <2>1 DEF Instrs, Finish
  <2> HIDE DEF loops
  <2>4. QED
    BY SMTT(30), <1>0, <2>1, <2>2, <2>3, CodeEnds
<1>2. CASE t # MainTask
  <2> DEFINE loops == Iterations("thread")
  <2>1. loops \in Seq(Body)
    BY Zenon, LoopsOK
  <2>2. Code(t) = loops \o <<Log("thread"), [op |-> "return"]>>
    BY Zenon, <1>2 DEF Code, thread, Iterations
  <2>3. [op |-> "return"] \in Instrs /\ Finish(t) = [op |-> "return"] /\ Len(loops) \in Nat
    BY <1>2, <2>1 DEF Instrs, Finish
  <2> HIDE DEF loops
  <2>4. QED
    BY SMTT(30), <1>0, <2>1, <2>2, <2>3, CodeEnds
<1>3. QED
  BY Zenon, <1>1, <1>2

(* main joins every thread.                                                *)
LEMMA MainJoins ==
  ASSUME NEW t \in Tasks \ {MainTask}
  PROVE  \E k \in 1 .. Len(main) : main[k] = [op |-> "join", task |-> t]
<1> DEFINE before == Loops("create") \o Iterations("main")
           joins == Loops("join")
           loops == before \o joins
<1>1. PICK i \in 1 .. Len(Order) : Order[i] = t
  BY PathsOK
<1>2. before \in Seq(Body) /\ joins \in Seq(Body) /\ loops \in Seq(Body)
  BY Zenon, LoopsOK, ConcatProperties
<1>3. 2 * i - 1 \in 1 .. Len(joins) /\ joins[2 * i - 1] = [op |-> "join", task |-> t]
  BY Zenon, <1>1, LoopsOK
<1>4. main = loops \o <<Log("main"), [op |-> "exit"]>>
  BY Zenon DEF main, Loops, Iterations
<1> HIDE DEF before, joins
<1> DEFINE k == Len(before) + (2 * i - 1)
<1>5. k \in 1 .. Len(loops) /\ loops[k] = joins[2 * i - 1]
  BY SMTT(30), <1>2, <1>3, ConcatProperties
<1> HIDE DEF loops, k
<1>6. "main" \in Recs /\ [op |-> "exit"] \in Instrs /\ Body \subseteq Instrs
  BY Zenon, PathsOK DEF Instrs
<1>7. Len(main) = Len(loops) + 2 /\ \A m \in 1 .. Len(loops) : main[m] = loops[m]
  BY SMTT(30), <1>2, <1>4, <1>6, CodeEnds
<1>8. Len(loops) \in Nat
  BY <1>2
<1>9. k \in 1 .. Len(main)
  BY SMTT(30), <1>5, <1>7, <1>8
<1>10. main[k] = [op |-> "join", task |-> t]
  BY Zenon, <1>3, <1>5, <1>7
<1>11. QED
  BY Zenon, <1>9, <1>10
------------------------------------------------------------------------------
(* Where each thread can be.                                               *)
Places ==
  /\ at \in [Tasks -> Nat] /\ \A t \in Tasks : at[t] \in 1 .. Len(Code(t)) + 1
  /\ phase[MainTask] \in {"run", "exiting", "exited"}
  /\ \A t \in Tasks \ {MainTask} :
       phase[t] \in {"unborn", "run", "tsd_pre", "tsd_post", "finished"}
  /\ \A t \in Tasks : phase[t] \notin {"unborn", "run"} => at[t] = Len(Code(t)) + 1

(* What main has waited for.                                               *)
Joined ==
  \A k \in 1 .. Len(main) :
    k < at[MainTask] /\ main[k].op = "join" => phase[main[k].task] = "finished"

(* The program has one process and no exit handlers of its own.            *)
Plain ==
  /\ late = {} /\ \A t \in Tasks : proc[t] = MainProc
  /\ \A i \in DOMAIN handlers[MainProc] : handlers[MainProc][i] = "hack"

(* What a thread has retired is what its code logs up to where it is.      *)
Logging == \A t \in Tasks : retired[t] = Logged(Code(t))[at[t] - 1]

(* The invariant of the program, and that of the runtime.                  *)
PathsInv == Places /\ Joined /\ Plain /\ Logging
RuntimeInv == TypeInv /\ BufferInv /\ MainInv /\ EndInv

(* The forms of a step of the program.                                     *)
Logs1(t) == \E r \in Recs : Code(t)[at[t]] = Log(r) /\ llvm_increment_path_count(t, r)
Creates(t) ==
  \E u \in Tasks \ {MainTask} : Code(t)[at[t]].op = "create" /\ CreateThread(t, u)
Joins(t) ==
  /\ Code(t)[at[t]].op = "join" /\ phase[Code(t)[at[t]].task] = "finished" /\ UNCHANGED vars
Returns(t) == t # MainTask /\ at[t] = Len(Code(t)) /\ ThreadReturn(t)
Exits(t) == t = MainTask /\ at[t] = Len(Code(t)) /\ Exit(t)

(* Executing an instruction is one of these.                               *)
LEMMA ExecuteForms ==
  ASSUME NEW t \in Tasks, Execute(t)
  PROVE  /\ at[t] \in 1 .. Len(Code(t)) /\ phase[t] = "run"
         /\ at' = [at EXCEPT ![t] = @ + 1]
         /\ Logs1(t) \/ Creates(t) \/ Joins(t) \/ Returns(t) \/ Exits(t)
<1> DEFINE i == Code(t)[at[t]]
           n == Len(Code(t))
<1>1. Code(t) \in Seq(Instrs) /\ n \in Nat
  BY Zenon, CodeShape
<1>2. at[t] \in 1 .. n /\ phase[t] = "run" /\ at' = [at EXCEPT ![t] = @ + 1]
  BY <1>1 DEF Execute
<1>3. CASE at[t] # n
  <2>1. i \in Body
    BY Zenon, <1>2, <1>3, CodeShape
  <2>2. CASE i \in LogOf
    <3>1. PICK r \in Recs : i = Log(r)
      BY Zenon, <2>2 DEF LogOf
    <3>2. i.op = "log" /\ i.rec = r
      BY <3>1 DEF Log
    <3>3. llvm_increment_path_count(t, r)
      BY Zenon, <3>2 DEF Execute
    <3>4. QED
      BY SMTT(30), <1>2, <3>1, <3>3 DEF Logs1
  <2>3. CASE i \in ThreadOps("create")
    <3>1. i.op = "create" /\ i.task \in Tasks \ {MainTask}
      BY Zenon, <2>3 DEF ThreadOps
    <3>2. CreateThread(t, i.task)
      BY Zenon, <3>1 DEF Execute
    <3>3. QED
      BY Zenon, <1>2, <3>1, <3>2 DEF Creates
  <2>4. CASE i \in ThreadOps("join")
    <3>1. i.op = "join"
      BY Zenon, <2>4 DEF ThreadOps
    <3>2. phase[i.task] = "finished" /\ UNCHANGED vars
      BY Zenon, <3>1 DEF Execute
    <3>3. QED
      BY Zenon, <1>2, <3>1, <3>2 DEF Joins
  <2>5. QED
    BY Zenon, <2>1, <2>2, <2>3, <2>4 DEF Body
<1>4. CASE at[t] = n
  <2>1. i = Finish(t)
    BY Zenon, <1>4, CodeShape
  <2>2. CASE t = MainTask
    <3>1. i.op = "exit"
      BY SMTT(30), <2>1, <2>2 DEF Finish
    <3>2. QED
      BY SMTT(30), <1>2, <1>4, <2>2, <3>1 DEF Execute, Exits
  <2>3. CASE t # MainTask
    <3>1. i.op = "return"
      BY SMTT(30), <2>1, <2>3 DEF Finish
    <3>2. QED
      BY SMTT(30), <1>2, <1>4, <2>3, <3>1 DEF Execute, Returns
  <2>4. QED
    BY Zenon, <2>2, <2>3
<1>5. QED
  BY Zenon, <1>3, <1>4

(* Every step of the program is one of the runtime's, or leaves it alone.  *)
LEMMA PathsIsRuntime == [PathsNext]_<<vars, at>> => [Next]_vars
<1> SUFFICES ASSUME NEW t \in Tasks, Execute(t) \/ Library(t) PROVE [Next]_vars
  BY Zenon DEF PathsNext
<1>1. CASE Execute(t)
  <2>1. Logs1(t) \/ Creates(t) \/ Joins(t) \/ Returns(t) \/ Exits(t)
    BY Zenon, <1>1, ExecuteForms
  <2>2. QED
    BY Zenon, <2>1 DEF Logs1, Creates, Joins, Returns, Exits, Next, TaskStep
<1>2. CASE Library(t)
  BY Zenon, <1>2 DEF Library, Next, TaskStep
<1>3. QED
  BY Zenon, <1>1, <1>2

(* When main is past its code every other thread has ended.                *)
LEMMA AllJoined ==
  ASSUME Places, Joined, phase[MainTask] # "run", NEW t \in Tasks \ {MainTask}
  PROVE  phase[t] = "finished"
<1>1. PICK k \in 1 .. Len(main) : main[k] = [op |-> "join", task |-> t]
  BY Zenon, MainJoins
<1>2. at[MainTask] = Len(main) + 1
  BY Zenon, ConstantsOK DEF Places, Code
<1>3. Len(main) \in Nat
  BY Zenon, CodeShape, ConstantsOK DEF Code
<1>4. k < at[MainTask] /\ main[k].op = "join" /\ main[k].task = t
  BY SMTT(30), <1>1, <1>2, <1>3
<1>5. QED
  BY Zenon, <1>4 DEF Joined

(* A thread that ended stays so, and main is past a join only after it.    *)
LEMMA JoinedKept ==
  ASSUME Joined,
         \A k \in 1 .. Len(main) :
           k < at'[MainTask] /\ main[k].op = "join"
             => k < at[MainTask] \/ phase[main[k].task] = "finished",
         \A u \in Tasks \ {MainTask} : phase[u] = "finished" => phase'[u] = "finished"
  PROVE  Joined'
<1>1. ASSUME NEW k \in 1 .. Len(main), main[k].op = "join" PROVE main[k].task \in Tasks \ {MainTask}
  <2>1. main = Code(MainTask) /\ MainTask \in Tasks
    BY Zenon, ConstantsOK DEF Code
  <2>2. main[k] # Finish(MainTask)
    BY SMTT(30), <1>1 DEF Finish
  <2>3. main[k] \in Body
    BY Zenon, <2>1, <2>2, CodeShape
  <2>4. main[k] \notin LogOf /\ main[k] \notin ThreadOps("create")
    BY <1>1 DEF LogOf, Log, ThreadOps
  <2>5. main[k] \in ThreadOps("join")
    BY Zenon, <2>3, <2>4 DEF Body
  <2>6. QED
    BY Zenon, <2>5 DEF ThreadOps
<1>2. QED
  BY Zenon, <1>1 DEF Joined

(* The runtime and the C library move threads that are past their code.    *)
LEMMA LibraryPlaces ==
  ASSUME TypeInv, Places, Joined, Plain, NEW t \in Tasks, Library(t)
  PROVE  Places' /\ Joined'
<1>0. phase \in [Tasks -> Phases] /\ UNCHANGED at /\ MainTask \in Tasks
  BY Zenon, ConstantsOK DEF TypeInv, TypeOK, Library
<1>1. CASE UNCHANGED phase
  BY Zenon, <1>0, <1>1 DEF Places, Joined
<1>2. CASE RunDestructor(t)
  <2>1. phase[t] = "tsd_pre" /\ phase' = [phase EXCEPT ![t] = "tsd_post"]
    BY Zenon, <1>2 DEF RunDestructor
  <2>2. t # MainTask /\ at[t] = Len(Code(t)) + 1
    BY Zenon, <2>1 DEF Places
  <2>3. Places'
    BY Zenon, <1>0, <2>1, <2>2 DEF Places
  <2>4. Joined'
    BY <1>0, <2>1, JoinedKept
  <2>5. QED
    BY Zenon, <2>3, <2>4
<1>3. CASE EndThread(t)
  <2>1. phase[t] = "tsd_post"
    BY Zenon, <1>3 DEF EndThread
  <2>2. t # MainTask /\ at[t] = Len(Code(t)) + 1
    BY Zenon, <2>1 DEF Places
  <2>3. phase[MainTask] = "run"
    BY SMTT(30), <2>1, <2>2, AllJoined
  <2>4. MainTask \in LiveIn(proc[t])
    BY Zenon, <1>0, <2>3 DEF LiveIn, InProc, Live, Plain
  <2>5. phase' = [phase EXCEPT ![t] = "finished"]
    <3>1. LiveIn(proc[t]) # {t}
      BY Zenon, <2>2, <2>4
    <3>2. QED
      BY Zenon, <1>3, <3>1 DEF EndThread
  <2>6. Places'
    BY Zenon, <1>0, <2>2, <2>5 DEF Places
  <2>7. Joined'
    BY Zenon, <1>0, <2>5, JoinedKept
  <2>8. QED
    BY Zenon, <2>6, <2>7
<1>4. CASE RunHandler(t)
  <2>1. Len(handlers[MainProc]) > 0 /\ proc[t] = MainProc
    BY Zenon, <1>4 DEF RunHandler, Plain
  <2>2. handlers[MainProc] \in Seq({"app", "hack"})
    BY Zenon, ConstantsOK DEF TypeInv, TypeOK
  <2>3. handlers[MainProc][Len(handlers[MainProc])] = "hack"
    BY SMTT(30), <2>1, <2>2 DEF Plain
  <2>4. QED
    BY Zenon, <1>1, <1>4, <2>1, <2>3 DEF RunHandler
<1>5. CASE ExitGroup(t)
  <2>1. phase[t] = "exiting"
    BY Zenon, <1>5 DEF ExitGroup
  <2>2. t = MainTask
    BY Zenon, <2>1 DEF Places
  <2>3. \A u \in Tasks \ {MainTask} : phase[u] = "finished"
    BY Zenon, <2>1, <2>2, AllJoined
  <2>4. \A u \in Tasks : phase'[u] = IF u = MainTask THEN "exited" ELSE phase[u]
    BY Zenon, <1>5, <2>2, <2>3 DEF ExitGroup, LiveIn, Live
  <2>5. Places'
    BY Zenon, <1>0, <2>1, <2>2, <2>4 DEF Places
  <2>6. Joined'
    BY Zenon, <1>0, <2>4, JoinedKept
  <2>7. QED
    BY Zenon, <2>5, <2>6
<1>6. QED
  BY Zenon, <1>1, <1>2, <1>3, <1>4, <1>5 DEF Library, FlushFull, taskVars

(* An instruction of the program.                                          *)
LEMMA ExecutePlaces ==
  ASSUME TypeInv, Places, Joined, NEW t \in Tasks, Execute(t)
  PROVE  Places' /\ Joined'
<1>0. phase \in [Tasks -> Phases] /\ MainTask \in Tasks /\ Len(Code(t)) \in Nat
      /\ at \in [Tasks -> Nat]
  BY Zenon, ConstantsOK, CodeShape DEF TypeInv, TypeOK, Places
<1>1. at[t] \in 1 .. Len(Code(t)) /\ phase[t] = "run" /\ at' = [at EXCEPT ![t] = @ + 1]
  BY Zenon, ExecuteForms
<1>2. at' \in [Tasks -> Nat] /\ \A u \in Tasks : at'[u] \in 1 .. Len(Code(u)) + 1
  BY SMTT(30), <1>0, <1>1 DEF Places
<1>3. \A u \in Tasks : phase[u] # "run" => at'[u] = at[u]
  BY Zenon, <1>0, <1>1
<1>4. ASSUME Code(t)[at[t]].op = "join" => phase[Code(t)[at[t]].task] = "finished",
             \A u \in Tasks \ {MainTask} : phase[u] = "finished" => phase'[u] = "finished"
      PROVE  Joined'
  <2>1. ASSUME NEW k \in 1 .. Len(main), k < at'[MainTask], main[k].op = "join"
        PROVE  k < at[MainTask] \/ phase[main[k].task] = "finished"
    <3>1. CASE t = MainTask
      <4>1. k <= at[t] /\ main = Code(t)
        BY SMTT(30), <1>0, <1>1, <2>1, <3>1 DEF Code
      <4>2. QED
        BY SMTT(30), <1>0, <1>4, <2>1, <3>1, <4>1
    <3>2. CASE t # MainTask
      BY Zenon, <1>0, <1>1, <2>1, <3>2
    <3>3. QED
      BY Zenon, <3>1, <3>2
  <2>2. QED
    BY Zenon, <1>4, <2>1, JoinedKept
<1>5. CASE Logs1(t) \/ Joins(t)
  <2>1. UNCHANGED phase
    BY Zenon, <1>5
       DEF Logs1, Joins, llvm_increment_path_count, BufferFull, vars, taskVars
  <2>2. Code(t)[at[t]].op = "join" => phase[Code(t)[at[t]].task] = "finished"
    <3>1. CASE Logs1(t)
      <4>1. PICK r \in Recs : Code(t)[at[t]] = Log(r)
        BY Zenon, <3>1 DEF Logs1
      <4>2. Code(t)[at[t]].op = "log"
        BY <4>1 DEF Log
      <4>3. QED
        BY Zenon, <4>2
    <3>2. CASE Joins(t)
      BY Zenon, <3>2 DEF Joins
    <3>3. QED
      BY Zenon, <1>5, <3>1, <3>2
  <2>3. QED
    BY SMTT(30), <1>2, <1>3, <1>4, <2>1, <2>2 DEF Places
<1>6. CASE Creates(t)
  <2>1. PICK u \in Tasks \ {MainTask} : Code(t)[at[t]].op = "create" /\ CreateThread(t, u)
    BY Zenon, <1>6 DEF Creates
  <2>2. phase[u] = "unborn" /\ phase' = [phase EXCEPT ![u] = "run"]
    BY Zenon, <2>1 DEF CreateThread
  <2>3. Joined'
    BY Zenon, <1>0, <1>4, <2>1, <2>2
  <2>4. Places'
    BY Zenon, <1>0, <1>2, <1>3, <2>2 DEF Places
  <2>5. QED
    BY Zenon, <2>3, <2>4
<1>7. CASE Returns(t)
  <2>1. /\ t # MainTask /\ at[t] = Len(Code(t)) /\ phase' = [phase EXCEPT ![t] = "tsd_pre"]
        /\ Code(t)[at[t]].op = "return"
    BY SMTT(30), <1>7, CodeShape DEF Returns, ThreadReturn, Finish
  <2>2. Joined'
    BY SMTT(30), <1>0, <1>1, <1>4, <2>1
  <2>3. at'[t] = Len(Code(t)) + 1
    BY Zenon, <1>0, <1>1, <2>1
  <2>4. Places'
    BY SMTT(60), <1>0, <1>2, <1>3, <2>1, <2>3 DEF Places
  <2>5. QED
    BY Zenon, <2>2, <2>4
<1>8. CASE Exits(t)
  <2>1. /\ t = MainTask /\ at[t] = Len(Code(t)) /\ phase' = [phase EXCEPT ![t] = "exiting"]
        /\ Code(t)[at[t]].op = "exit"
    BY SMTT(30), <1>8, CodeShape DEF Exits, Exit, Finish
  <2>2. Joined'
    BY Zenon, <1>0, <1>1, <1>4, <2>1
  <2>3. at'[t] = Len(Code(t)) + 1
    BY Zenon, <1>0, <1>1, <2>1
  <2>4. Places'
    BY <1>0, <1>2, <1>3, <2>1, <2>3 DEF Places
  <2>5. QED
    BY Zenon, <2>2, <2>4
<1>9. QED
  BY Zenon, <1>5, <1>6, <1>7, <1>8, ExecuteForms

(* No thread logs after its last flush, and no handler but the runtime's   *)
(* is registered.                                                          *)
LEMMA NextPlain ==
  ASSUME TypeInv, Places, Plain, NEW t \in Tasks, Execute(t) \/ Library(t)
  PROVE  Plain'
<1> DEFINE Only(s) == \A i \in DOMAIN s : s[i] = "hack"
<1>0. /\ proc \in [Tasks -> Procs] /\ MainProc \in Procs /\ proc[t] = MainProc
      /\ handlers \in [Procs -> Seq({"app", "hack"})] /\ Only(handlers[MainProc]) /\ late = {}
  BY Zenon, ConstantsOK DEF TypeInv, TypeOK, Plain
<1>1. SUFFICES /\ late' = late /\ \A u \in Tasks : proc'[u] = MainProc
               /\ Only(handlers'[MainProc])
  BY Zenon, <1>0 DEF Plain
<1>2. CASE Execute(t)
  <2>0. phase[t] = "run" /\ (Logs1(t) \/ Creates(t) \/ Joins(t) \/ Returns(t) \/ Exits(t))
    BY Zenon, <1>2, ExecuteForms
  <2>1. CASE Logs1(t)
    <3>1. PICK r \in Recs : llvm_increment_path_count(t, r)
      BY Zenon, <2>1 DEF Logs1
    <3>2. UNCHANGED <<proc, late>>
      BY Zenon, <2>0, <3>1
         DEF llvm_increment_path_count, BufferFull, taskVars, PastLastFlush
    <3>3. PICK a \in Addr : ensure_thread_init(t, a)
      BY Zenon, <3>1 DEF llvm_increment_path_count, BufferFull
    <3>4. \/ handlers' = handlers
          \/ handlers' = [handlers EXCEPT ![MainProc] = Append(@, "hack")]
      BY Zenon, <1>0, <3>3 DEF ensure_thread_init, init_process, initVars
    <3>5. CASE handlers' = handlers
      BY Zenon, <1>0, <3>2, <3>5 DEF Plain
    <3>6. CASE handlers' = [handlers EXCEPT ![MainProc] = Append(@, "hack")]
      <4>1. /\ handlers'[MainProc] = Append(handlers[MainProc], "hack")
            /\ handlers[MainProc] \in Seq({"app", "hack"})
        BY Zenon, <1>0, <3>6
      <4>2. Only(handlers'[MainProc])
        BY SMTT(30), <1>0, <4>1
      <4>3. QED
        BY Zenon, <1>0, <3>2, <4>2 DEF Plain
    <3>7. QED
      BY Zenon, <3>4, <3>5, <3>6
  <2>2. CASE Creates(t)
    BY SMTT(60), <1>0, <2>2 DEF Creates, CreateThread, initVars, Plain
  <2>3. CASE Joins(t)
    BY Zenon, <1>0, <2>3 DEF Joins, vars, taskVars, initVars, Plain
  <2>4. CASE Returns(t)
    BY Zenon, <1>0, <2>4 DEF Returns, ThreadReturn, initVars, Plain
  <2>5. CASE Exits(t)
    BY Zenon, <1>0, <2>5 DEF Exits, Exit, initVars, Plain
  <2>6. QED
    BY <2>0, <2>1, <2>2, <2>3, <2>4, <2>5
<1>3. CASE Library(t)
  <2>1. UNCHANGED <<proc, late>>
    BY Zenon, <1>3 DEF Library, FlushFull, RunDestructor, EndThread,
       RunHandler, ExitGroup, taskVars
  <2>2. CASE RunHandler(t)
    <3>1. handlers' = [handlers EXCEPT ![MainProc] = SubSeq(@, 1, Len(@) - 1)]
      BY Zenon, <1>0, <2>2 DEF RunHandler
    <3>2. Only(handlers'[MainProc])
      BY <1>0, <3>1
    <3>3. QED
      BY Zenon, <2>1, <3>2 DEF Plain
  <2>3. CASE ~RunHandler(t)
    <3>1. UNCHANGED handlers
      BY Zenon, <1>3, <2>3
         DEF Library, FlushFull, RunDestructor, EndThread, ExitGroup, initVars
    <3>2. QED
      BY Zenon, <1>0, <2>1, <3>1 DEF Plain
  <2>4. QED
    BY Zenon, <2>2, <2>3
<1>4. QED
  BY Zenon, <1>2, <1>3

(* A step retires the record of a log instruction, and nothing else.       *)
LEMMA NextLogging ==
  ASSUME TypeInv, Places, Logging, NEW t \in Tasks, Execute(t) \/ Library(t)
  PROVE  Logging'
<1>0. /\ retired \in [Tasks -> Seq(Recs)] /\ at \in [Tasks -> Nat]
      /\ Code(t) \in Seq(Instrs) /\ Len(Code(t)) \in Nat
  BY Zenon, CodeShape DEF TypeInv, TypeOK, Places
<1>1. CASE Execute(t)
  <2>0. /\ at[t] \in 1 .. Len(Code(t)) /\ at' = [at EXCEPT ![t] = @ + 1]
        /\ Logs1(t) \/ Creates(t) \/ Joins(t) \/ Returns(t) \/ Exits(t)
    BY Zenon, <1>1, ExecuteForms
  <2>1. at'[t] - 1 = at[t] /\ \A u \in Tasks \ {t} : at'[u] = at[u]
    BY SMTT(60), <1>0, <2>0
  <2>2. Logged(Code(t))[at[t]] = IF Code(t)[at[t]].op = "log"
                                 THEN Append(Logged(Code(t))[at[t] - 1], Code(t)[at[t]].rec)
                                 ELSE Logged(Code(t))[at[t] - 1]
    BY Zenon, <1>0, <2>0, LoggedStep
  <2>3. retired[t] = Logged(Code(t))[at[t] - 1]
    BY Zenon DEF Logging
  <2>4. CASE Logs1(t)
    <3>1. PICK r \in Recs : Code(t)[at[t]] = Log(r) /\ llvm_increment_path_count(t, r)
      BY Zenon, <2>4 DEF Logs1
    <3>2. retired' = [retired EXCEPT ![t] = Append(@, r)]
      BY Zenon, <3>1 DEF llvm_increment_path_count, BufferFull
    <3>3. Code(t)[at[t]].op = "log" /\ Code(t)[at[t]].rec = r
      BY <3>1 DEF Log
    <3>4. retired'[t] = Logged(Code(t))[at'[t] - 1]
      BY Zenon, <1>0, <2>1, <2>2, <2>3, <3>2, <3>3
    <3>5. \A u \in Tasks \ {t} : retired'[u] = retired[u]
      BY Zenon, <1>0, <3>2
    <3>6. QED
      BY Zenon, <2>1, <3>4, <3>5 DEF Logging
  <2>5. CASE ~Logs1(t)
    <3>1. UNCHANGED retired
      BY Zenon, <2>0, <2>5
         DEF Creates, CreateThread, Joins, vars, Returns, ThreadReturn, Exits, Exit
    <3>2. CASE Returns(t) \/ Exits(t)
      <4>1. Code(t)[at[t]] = Finish(t)
        BY Zenon, <3>2, CodeShape DEF Returns, Exits
      <4>2. Code(t)[at[t]].op # "log"
        BY SMTT(30), <4>1 DEF Finish
      <4>3. QED
        BY Zenon, <2>1, <2>2, <3>1, <4>2 DEF Logging
    <3>3. CASE Creates(t) \/ Joins(t)
      <4>1. Code(t)[at[t]].op # "log"
        BY Zenon, <3>3 DEF Creates, Joins
      <4>2. QED
        BY Zenon, <2>1, <2>2, <3>1, <4>1 DEF Logging
    <3>4. QED
      BY Zenon, <2>0, <2>5, <3>2, <3>3
  <2>6. QED
    BY Zenon, <2>4, <2>5
<1>2. CASE Library(t)
  <2>1. UNCHANGED <<retired, at>>
    BY Zenon, <1>2
       DEF Library, FlushFull, RunDestructor, EndThread, RunHandler, ExitGroup
  <2>2. QED
    BY Zenon, <2>1 DEF Logging
<1>3. QED
  BY Zenon, <1>1, <1>2

(* The invariant holds when main starts.                                   *)
LEMMA InitPathsInv == PathsInit => PathsInv
<1> SUFFICES ASSUME PathsInit PROVE PathsInv
  BY Zenon
<1>0. MainTask \in Tasks /\ MainProc \in Procs
  BY Zenon, ConstantsOK
<1>1. \A t \in Tasks : Len(Code(t)) \in Nat \ {0} /\ Logged(Code(t))[0] = <<>>
  BY Zenon, CodeShape, LoggedStep
<1>2. /\ at = [t \in Tasks |-> 1] /\ retired = [t \in Tasks |-> <<>>] /\ late = {}
      /\ phase = [t \in Tasks |-> IF t = MainTask THEN "run" ELSE "unborn"]
      /\ proc = [t \in Tasks |-> MainProc] /\ handlers = [p \in Procs |-> <<>>]
  BY Zenon DEF PathsInit, Init
<1>3. Places
  BY SMTT(30), <1>0, <1>1, <1>2 DEF Places
<1>4. Joined
  BY SMTT(30), <1>0, <1>2 DEF Joined
<1>5. Plain
  BY SMTT(30), <1>0, <1>2 DEF Plain
<1>6. Logging
  <2> SUFFICES ASSUME NEW t \in Tasks PROVE retired[t] = Logged(Code(t))[at[t] - 1]
    BY Zenon DEF Logging
  <2>1. retired[t] = <<>>
    BY Zenon, <1>2
  <2>2. at[t] = 1
    BY Zenon, <1>2
  <2>3. at[t] - 1 = 0
    BY SMTT(30), <2>2
  <2>4. QED
    BY Zenon, <1>1, <2>1, <2>3
<1>7. QED
  BY Zenon, <1>3, <1>4, <1>5, <1>6 DEF PathsInv

(* Every step of the program keeps it.                                     *)
LEMMA NextPathsInv == RuntimeInv /\ PathsInv /\ [PathsNext]_<<vars, at>> => PathsInv'
<1> SUFFICES ASSUME RuntimeInv, PathsInv, [PathsNext]_<<vars, at>> PROVE PathsInv'
  BY Zenon
<1>1. ASSUME NEW t \in Tasks, Execute(t) \/ Library(t) PROVE PathsInv'
  BY Zenon, <1>1, ExecutePlaces, LibraryPlaces, NextPlain, NextLogging
     DEF RuntimeInv, PathsInv
<1>2. CASE UNCHANGED <<vars, at>>
  BY Zenon, <1>2 DEF vars, taskVars, initVars, PathsInv, Places, Joined, Plain, Logging
<1>3. QED
  BY Zenon, <1>1, <1>2 DEF PathsNext

(* Everything was saved when main's exit() is through.                     *)
LEMMA PathsComplete == RuntimeInv /\ PathsInv => TraceComplete
<1> SUFFICES ASSUME RuntimeInv, PathsInv, phase[MainTask] = "exited", NEW t \in Tasks
             PROVE  saved[t] = Script(t)
  BY Zenon DEF TraceComplete
<1>1. phase[t] \in {"finished", "exited"}
  BY Zenon, AllJoined DEF PathsInv
<1>2. saved[t] = retired[t]
  BY Zenon, <1>1, InvOrderly DEF RuntimeInv, PathsInv, Plain, OrderlyEndSavesAll
<1>3. at[t] = Len(Code(t)) + 1 /\ Len(Code(t)) \in Nat
  BY Zenon, <1>1, CodeShape DEF PathsInv, Places
<1>4. at[t] - 1 = Len(Code(t))
  BY <1>3
<1>5. QED
  BY Zenon, <1>2, <1>4 DEF PathsInv, Logging, Script

(* With any number of threads, iterations and records per buffer, the      *)
(* trace of paths.c has every record of every thread when main has         *)
(* returned.                                                               *)
THEOREM PathsTraceComplete == PathsSpec => []TraceComplete
<1>1. PathsInit => RuntimeInv
  BY Zenon, InitTypeInv, InitBufferInv, InitMainInv, InitEndInv
     DEF PathsInit, RuntimeInv
<1>2. RuntimeInv /\ [PathsNext]_<<vars, at>> => RuntimeInv'
  BY Zenon, PathsIsRuntime, NextTypeInv, NextBufferInv, NextMainInv, NextEndInv
     DEF RuntimeInv
<1>3. QED
  BY <1>1, <1>2, InitPathsInv, NextPathsInv, PathsComplete, PTL DEF PathsSpec
==============================================================================
