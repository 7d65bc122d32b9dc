---------------------------- MODULE PathInsertion ----------------------------
(***************************************************************************)
(* How the pass turns the increments of the edges into code                *)
(* (insertInstrumentationStartingAt in PathLogging.cpp), and what this     *)
(* code logs when the function runs.                                       *)
(*                                                                         *)
(* The path register is an SSA value.  The code of an edge goes to the end *)
(* of its source or the beginning of its target, critical edges are split, *)
(* and a block with several predecessors gets a PHI.  Every block has the  *)
(* value of the register at its start and at its end.  Code at either      *)
(* place runs exactly when the edge is taken, so it belongs to the edge.   *)
(***************************************************************************)
EXTENDS PathIncrements, FiniteSets, SequencesExt

CONSTANTS
  PathBits,    \* width of the path register, 32 in the code
  MaxRefused   \* bound: nodes of the DAGs for which LLVM may refuse to split edges

HASH_THRESHHOLD == 0

VARIABLES
  phase,           \* "pass", "insert" or "run"
  original,        \* history: the DAG before edges were split
  unsplittable,    \* edges that LLVM does not split
  work,            \* edges still to be visited, the next one first
  hasInstrumentation,
  nums,            \* the values, PHIs and code inserted so far
  warned,          \* an edge could not be instrumented
  block, adds, phis,                \* execution: block, values of registers
  taken, logs,     \* history: edges and log entries of the current path
  ended            \* history: edges and log entries of a path that just ended

R == INSTANCE BallLarusDag

runVars == <<block, adds, phis, taken, logs, ended>>
insertVars == <<phase, original, unsplittable, work, hasInstrumentation, nums, warned>>
allVars == <<vars, insertVars, runVars>>

(* Values: none, a constant, the PHI of a block, the sum made on an edge.  *)
Value(kind, n) == [kind |-> kind, n |-> n]
Null == Value("null", 0)
createIncrementConstant(c) == Value("const", c % 2^PathBits)

InsInit ==
  /\ Init
  /\ phase = "pass" /\ original = <<>> /\ unsplittable = {} /\ work = <<>>
  /\ hasInstrumentation = {} /\ warned = FALSE /\ nums = [fault |-> FALSE]
  /\ block = dag.exit /\ adds = <<>> /\ phis = <<>>
  /\ taken = <<>> /\ logs = <<>> /\ ended = <<>>

(* The passes of PathIncrements.  Calls that are pending move increments   *)
(* across blocks of their own, so their order makes no difference: here    *)
(* they are made in the order of the edges.                                *)
passStep ==
  /\ phase = "pass" /\ Pass
  /\ pending # {} => Min(pending) \notin pending'
  /\ UNCHANGED <<insertVars, runVars>>

(* insertInstrumentation: from the exit->root edge.  LLVM does not split   *)
(* the edges out of an indirect branch nor those into a landing pad.       *)
insertInstrumentation ==
  /\ phase = "pass" /\ pc = "placed"
  /\ phase' = "insert"
  /\ \/ unsplittable' = {}
     \/ /\ Cardinality(dag.Node) <= MaxRefused
        /\ \E n \in dag.Node \ {dag.exit} : unsplittable' \in {Succs(n), Preds(n)}
  /\ work' = <<dag.exitRoot>> /\ original' = dag
  /\ nums' = [starting |-> [n \in dag.Node |-> Null], ending |-> [n \in dag.Node |-> Null],
              pathPHI |-> {}, incoming |-> [e \in dag.Edge |-> Null],
              code |-> [e \in dag.Edge |-> <<>>], fault |-> FALSE]
  /\ UNCHANGED <<vars, hasInstrumentation, warned, runVars>>
------------------------------------------------------------------------------
(* splitCritical: whether the edge is critical.                            *)
Critical(e) ==
  /\ dag.src[e] # dag.exit /\ dag.tgt[e] # dag.exit
  /\ Several(Succs(dag.src[e])) /\ Cardinality(Preds(dag.tgt[e])) # 1

(* splitUpdate: e ends at the new block n, and the new edge f leads on; a  *)
(* back edge or a split edge hands its type and its phony edges on to f.   *)
splitUpdate(e, n, f) ==
  LET moved == dag.type[e] \in Replaced
      with(g, x) == [h \in DOMAIN g \cup {f} |-> IF h = f THEN x ELSE g[h]] IN
  /\ dag' = [dag EXCEPT
       !.Node = @ \cup {n}, !.Edge = @ \cup {f},
       !.src = with(@, n), !.tgt = with([@ EXCEPT ![e] = n], dag.tgt[e]),
       !.type = with([@ EXCEPT ![e] = "NORMAL"], dag.type[e]),
       !.weight = with(@, 0),
       !.top = with(@, IF moved THEN dag.top[e] ELSE 0),
       !.bottom = with(@, IF moved THEN dag.bottom[e] ELSE 0)]
  /\ linked' = linked \cup {f}
  /\ increment' = with(increment, 0)
  /\ isInitialization' = with(isInitialization, FALSE)
  /\ isCounterIncrement' = with(isCounterIncrement, FALSE)

(* LLVM renames the block in the PHI of the target when it splits e.       *)
withBlock(s, e, n, f) ==
  LET with(g, h, x) == [y \in DOMAIN g \cup {h} |-> IF y = h THEN x ELSE g[y]] IN
  [s EXCEPT !.starting = with(@, n, Null), !.ending = with(@, n, Null),
            !.incoming = with(@, f, s.incoming[e]), !.code = with(@, f, <<>>)]

(* The number at the end of block u goes over edge e into block w; for     *)
(* several predecessors it goes into a PHI, whose entries start as -1.     *)
preparePHI(s, w) ==
  [s EXCEPT !.pathPHI = @ \cup {w}, !.starting[w] = Value("phi", w),
            !.ending[w] = Value("phi", w),
            !.incoming = [f \in DOMAIN @ |->
              IF f \in Preds(w) THEN createIncrementConstant(-1) ELSE @[f]]]

pushValueIntoPHI(s, e, u) == [s EXCEPT !.incoming[e] = s.ending[u]]

pushValueIntoNode(s, e, u, w) ==
  IF w = dag.exit THEN s
  ELSE IF ~Several(Preds(w))
  THEN [s EXCEPT !.fault = @ \/ s.starting[w] # Null,
                 !.starting[w] = s.ending[u], !.ending[w] = s.ending[u]]
  ELSE pushValueIntoPHI(IF w \in s.pathPHI THEN s ELSE preparePHI(s, w), e, u)

(* Instructions: sums and calls that log.  Without an operand the pass     *)
(* itself fails, as it does on counters in an array.                       *)
insertAdd(s, e, v, inc) ==
  [s EXCEPT !.fault = @ \/ v = Null,
            !.code[e] = Append(@, [op |-> "add", of |-> v, inc |-> inc])]

insertCounterIncrement(s, e, v) ==
  [s EXCEPT !.fault = @ \/ v = Null \/ dag.paths <= HASH_THRESHHOLD,
            !.code[e] = Append(@, [op |-> "log", of |-> v, inc |-> 0])]

(* The number a new path starts with.  Mutant: that of the other phony     *)
(* edge.                                                                   *)
firstNumber_of_bottom(e) == createIncrementConstant(increment[dag.bottom[e]])

firstNumber(e) == createIncrementConstant(increment[dag.top[e]])

(* "split edge has yet to be initialized".  Mutant: it is not.             *)
initializeSplit_not(s, n) == s

initializeSplit(s, n) ==
  IF s.ending[n] # Null THEN s
  ELSE [s EXCEPT !.starting[n] = createIncrementConstant(0),
                 !.ending[n] = createIncrementConstant(0)]

(* A path ends on e with the bottom phony edge and one starts with the top *)
(* one.                                                                    *)
instrumentReplaced(s, e, n, atBeginning) ==
  LET top == dag.top[e]
      bottom == dag.bottom[e]
      marked == [s EXCEPT !.fault = @ \/ ~isInitialization[top]
                                      \/ ~isCounterIncrement[bottom]]
      s1 == initializeSplit(marked, n)
      s2 == IF increment[bottom] = 0 THEN s1
            ELSE [insertAdd(s1, e, s1.starting[n], increment[bottom])
                    EXCEPT !.ending[n] = Value("add", e)]
      s3 == insertCounterIncrement(s2, e, s2.ending[n])
      first == firstNumber(e)
      s4 == [s3 EXCEPT !.starting[n] = IF atBeginning THEN first ELSE @,
                       !.ending[n] = first] IN
  IF isCounterIncrement[top]
  THEN [insertCounterIncrement(s4, e, first) EXCEPT !.ending[n] = Null] ELSE s4

instrumentNormal(s, e, n, atBeginning) ==
  LET sum1 == Value("add", e)
      s1 == IF isInitialization[e]
            THEN [s EXCEPT !.ending[n] = createIncrementConstant(increment[e])]
            ELSE IF increment[e] = 0 THEN s
            ELSE [insertAdd(s, e, s.starting[n], increment[e])
                    EXCEPT !.ending[n] = sum1,
                           !.starting[n] = IF atBeginning THEN sum1 ELSE @] IN
  IF isCounterIncrement[e]
  THEN [insertCounterIncrement(s1, e, s1.ending[n]) EXCEPT !.ending[n] = Null] ELSE s1

(* insertInstrumentationStartingAt visits edge e.  The recursion over the  *)
(* successors of its target is the list of work: the next call is made for *)
(* the first edge that has no instrumentation when its turn comes.         *)
instrumentEdge(e) ==
  LET v == dag.src[e]
      split == Critical(e)
      n == Cardinality(dag.Node)
      f == Cardinality(dag.Edge) + 1
      w == IF split THEN n ELSE dag.tgt[e]
      atEnd == v # dag.exit /\ ~Several(Succs(v))
      at1 == IF atEnd THEN v ELSE w
      s0 == IF split THEN withBlock(nums, e, n, f) ELSE nums
      s1 == IF atEnd THEN s0 ELSE pushValueIntoNode(s0, e, v, w)
      s2 == IF dag.type[e] \in Replaced /\ ~split
            THEN instrumentReplaced(s1, e, at1, ~atEnd)
            ELSE instrumentNormal(s1, e, at1, ~atEnd)
      s3 == IF atEnd /\ s2.ending[v] # Null
            THEN pushValueIntoNode(s2, e, v, w) ELSE s2 IN
  /\ nums' = [s3 EXCEPT !.fault = @ \/ at1 = dag.exit]
  /\ work' = (IF split THEN <<f>> ELSE SetToSortSeq(Succs(w), <)) \o Tail(work)
  /\ IF split THEN splitUpdate(e, n, f)
     ELSE UNCHANGED <<dag, linked, increment, isInitialization, isCounterIncrement>>

(* The loop over the successors passes over an edge that was visited.      *)
(* Mutant: it does not advance.                                            *)
passOver_stays == work

passOver == Tail(work)

insertInstrumentationStartingAt ==
  /\ phase = "insert" /\ work # <<>>
  /\ LET e == Head(work) IN
     /\ hasInstrumentation' = hasInstrumentation \cup {e}
     /\ \/ /\ e \in hasInstrumentation
           /\ work' = passOver
           /\ UNCHANGED <<dag, linked, increment, isInitialization,
                          isCounterIncrement, nums, warned>>
        \/ /\ e \notin hasInstrumentation /\ Critical(e) /\ e \in unsplittable
           /\ warned' = TRUE
           /\ work' = Tail(work)
           /\ UNCHANGED <<dag, linked, increment, isInitialization,
                          isCounterIncrement, nums>>
        \/ /\ e \notin hasInstrumentation /\ ~(Critical(e) /\ e \in unsplittable)
           /\ instrumentEdge(e)
           /\ UNCHANGED warned
  /\ UNCHANGED <<phase, original, unsplittable, pc, color, dfsStack, treeEdges,
                 frames, pending, above, below, pot, walkVars, runVars>>

runFunction ==
  /\ phase = "insert" /\ work = <<>>
  /\ phase' = "run"
  /\ adds' = [e \in dag.Edge |-> -1] /\ phis' = [n \in dag.Node |-> -1]
  /\ UNCHANGED <<vars, original, unsplittable, work, hasInstrumentation, nums,
                 warned, block, taken, logs, ended>>
------------------------------------------------------------------------------
(* Execution.  -1 stands for a register without a value.                   *)
valueOf(a, v) ==
  CASE v.kind = "const" -> v.n [] v.kind = "phi" -> phis[v.n]
    [] v.kind = "add" -> a[v.n] [] OTHER -> -1

addsAfter(e) ==
  [g \in DOMAIN adds |->
     IF g = e /\ \E i \in DOMAIN nums.code[e] : nums.code[e][i].op = "add"
     THEN LET c == Head(nums.code[e])
              v == valueOf(adds, c.of) IN
          IF v = -1 THEN -1 ELSE (v + c.inc) % 2^PathBits
     ELSE adds[g]]

(* Control takes edge e: from the end of a block, or into the function.    *)
takeCodeEdge(e) ==
  LET a == addsAfter(e)
      new == [i \in DOMAIN SelectSeq(nums.code[e], LAMBDA c : c.op = "log") |->
                valueOf(a, SelectSeq(nums.code[e], LAMBDA c : c.op = "log")[i].of)]
      w == dag.tgt[e]
      old == e \in original.Edge /\ original.type[e] = "NORMAL" /\ e # dag.exitRoot
      now == IF old THEN Append(taken, e) ELSE taken IN
  /\ phase = "run" /\ e \in linked /\ dag.src[e] = block
  /\ block' = w
  /\ IF dag.type[e] \in Replaced
     THEN /\ ended' = [taken |-> Append(taken, dag.bottom[e]),
                       logs |-> logs \o SubSeq(new, 1, Min({1, Len(new)}))]
          /\ taken' = <<dag.top[e]>> /\ logs' = SubSeq(new, 2, Len(new))
     ELSE IF w = dag.exit
     THEN /\ ended' = [taken |-> now, logs |-> logs \o new]
          /\ taken' = <<>> /\ logs' = <<>>
     ELSE taken' = now /\ logs' = logs \o new /\ ended' = <<>>
  /\ adds' = IF w = dag.exit THEN [g \in DOMAIN adds |-> -1] ELSE a
  /\ phis' = IF w = dag.exit THEN [n \in DOMAIN phis |-> -1]
             ELSE IF w \in nums.pathPHI
             THEN [phis EXCEPT ![w] = valueOf(a, nums.incoming[e])] ELSE phis
  /\ UNCHANGED <<vars, insertVars>>

InsNext ==
  \/ passStep \/ insertInstrumentation \/ insertInstrumentationStartingAt
  \/ runFunction \/ \E e \in linked : takeCodeEdge(e)

Insert == passStep \/ insertInstrumentation \/ insertInstrumentationStartingAt
InsSpec == InsInit /\ [][InsNext]_allVars /\ WF_allVars(Insert)
------------------------------------------------------------------------------
(* The assertions of the code that inserts hold, and it never lacks an     *)
(* operand: on every graph, and also after it gave up on an edge.          *)
NoFault == ~nums.fault

(* Each path that the function executed, from its entry or a back edge to  *)
(* its return or the next back edge, was logged once, when it ended at the *)
(* latest, and the number logged tells which path it was.                  *)
PathRecovered ==
  ended # <<>> /\ ~warned =>
    /\ Len(ended.logs) = 1 /\ ended.logs[1] \in 0 .. original.paths - 1
    /\ R!regenerate(original, original.root, ended.logs[1]) = ended.taken

(* The recursion ends, although it creates edges on the way.               *)
InsertionEnds == <>(phase = "insert" /\ work = <<>>)
==============================================================================
