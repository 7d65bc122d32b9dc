---------------------------- MODULE PathIncrements ----------------------------
(***************************************************************************)
(* Where the path-logging pass (PathLogging.cpp) places its increments:    *)
(* calculateSpanningTree, calculateChordIncrements, pushInitialization,    *)
(* pushCounters and unlinkPhony, on the Ball-Larus DAG of one function,    *)
(* followed by walks along the paths of the DAG.                           *)
(*                                                                         *)
(* Each edge ends up with an increment of the path register, and possibly  *)
(* with its initialization or a call that logs it.  The passes move these  *)
(* along the edges; on every path the number logged must stay the sum of   *)
(* the weights of the path.                                                *)
(***************************************************************************)
EXTENDS Integers, Sequences

CONSTANT Dags              \* the DAGs of the functions to instrument

Phony == {"BACKEDGE_PHONY", "SPLITEDGE_PHONY", "CALLEDGE_PHONY"}
Replaced == {"BACKEDGE", "SPLITEDGE"}   \* a path ends on such an edge
EdgeTypes == {"NORMAL"} \cup Phony \cup Replaced

(* What BallLarusDag guarantees.  The exit->root edge is the only one into *)
(* the root and out of the exit; the phony edges of an edge v->w are       *)
(* root->w (top) and v->exit (bottom).                                     *)
DagOK(d) ==
  /\ d.Edge \subseteq Nat /\ d.root \in d.Node /\ d.exit \in d.Node /\ d.root # d.exit
  /\ d.src \in [d.Edge -> d.Node] /\ d.tgt \in [d.Edge -> d.Node]
  /\ d.type \in [d.Edge -> EdgeTypes] /\ d.weight \in [d.Edge -> Nat]
  /\ d.exitRoot \in d.Edge /\ d.type[d.exitRoot] = "NORMAL"
  /\ d.src[d.exitRoot] = d.exit /\ d.tgt[d.exitRoot] = d.root
  /\ d.weight[d.exitRoot] = 0
  /\ \A e \in d.Edge \ {d.exitRoot} : d.src[e] # d.exit /\ d.tgt[e] # d.root
  /\ \A e \in d.Edge : d.type[e] \notin Replaced => d.src[e] # d.tgt[e]
  /\ \A e \in d.Edge : d.type[e] \in Replaced =>
       /\ d.top[e] \in d.Edge \ {e} /\ d.bottom[e] \in d.Edge \ {e}
       /\ d.type[d.top[e]] \in Phony /\ d.type[d.bottom[e]] \in Phony
       /\ d.src[d.top[e]] = d.root /\ d.tgt[d.top[e]] = d.tgt[e]
       /\ d.src[d.bottom[e]] = d.src[e] /\ d.tgt[d.bottom[e]] = d.exit

ASSUME DagsOK == \A d \in Dags : DagOK(d)

(* A back edge has no number, and returns to a block its source is reached *)
(* from: to every set with its source that is closed under predecessors.   *)
ASSUME BackEdgesOK ==
  \A d \in Dags : \A e \in {f \in d.Edge : d.type[f] = "BACKEDGE"} :
    /\ d.weight[e] = 0
    /\ \A A \in SUBSET d.Node :
         /\ d.src[e] \in A
         /\ \A f \in d.Edge \ {d.exitRoot} : d.tgt[f] \in A => d.src[f] \in A
         => d.tgt[e] \in A

VARIABLES
  dag,          \* the DAG of the function
  pc,           \* the pass that runs
  color, dfsStack, treeEdges,             \* calculateSpanningTree
  frames,       \* pending calls of calculateChordIncrementsDfs
  pending,      \* pending calls of pushInitializationFromEdge, ...
  increment, isInitialization, isCounterIncrement,   \* of each edge
  linked,       \* edges in the successor and predecessor lists
  above, below, \* history: blocks the initialization, the counters passed
  pot,          \* history: what the passes moved across each block
  at, register, defined, sum, count, logged          \* the walk

passVars == <<dag, color, dfsStack, treeEdges, frames, pending, increment,
              isInitialization, isCounterIncrement, linked, above, below, pot>>
walkVars == <<at, register, defined, sum, count, logged>>
vars == <<pc, passVars, walkVars>>

Succs(n) == {e \in linked : dag.src[e] = n}
Preds(n) == {e \in linked : dag.tgt[e] = n}
Several(S) == \E x, y \in S : x # y
Split == {e \in dag.Edge : dag.type[e] = "SPLITEDGE"}

Init ==
  /\ dag \in Dags
  /\ pc = "spanning"
  /\ color = [n \in dag.Node |-> "WHITE"]
  /\ dfsStack = <<dag.root>>
  /\ treeEdges = {} /\ frames = {} /\ pending = {}
  /\ increment = [e \in dag.Edge |-> 0]
  /\ isInitialization = [e \in dag.Edge |-> FALSE]
  /\ isCounterIncrement = [e \in dag.Edge |-> FALSE]
  /\ linked = dag.Edge
  /\ above = {} /\ below = {} /\ pot = [n \in dag.Node |-> 0]
  /\ at = dag.root /\ register = 0 /\ defined = FALSE
  /\ sum = 0 /\ count = 0 /\ logged = 0
------------------------------------------------------------------------------
(* calculateSpanningTree: one iteration of the search.  The successors     *)
(* come before the predecessors, each in the order of their creation.      *)
NextNode(n, e) == IF dag.src[e] = n THEN dag.tgt[e] ELSE dag.src[e]

Before(n, e, f) ==
  \/ dag.src[e] = n /\ dag.src[f] # n
  \/ (dag.src[e] = n) = (dag.src[f] = n) /\ e < f

(* Mutant: top() without pop().                                            *)
spanningStep_no_pop ==
  /\ pc = "spanning" /\ dfsStack # <<>>
  /\ UNCHANGED vars

spanningStep ==
  /\ pc = "spanning" /\ dfsStack # <<>>
  /\ LET n == dfsStack[Len(dfsStack)]
         reach == {e \in (Succs(n) \cup Preds(n)) \ Split :
                     NextNode(n, e) # n /\ color[NextNode(n, e)] # "WHITE"}
         first == {e \in reach : \A f \in reach :
                     NextNode(n, f) = NextNode(n, e) => ~Before(n, f, e)} IN
     IF color[n] = "WHITE" THEN UNCHANGED <<color, treeEdges>>
     ELSE /\ color' = [m \in dag.Node |->
                         IF m = n \/ \E e \in first : NextNode(n, e) = m
                         THEN "WHITE" ELSE color[m]]
          /\ treeEdges' = treeEdges \cup first
  /\ dfsStack' = SubSeq(dfsStack, 1, Len(dfsStack) - 1)
  /\ UNCHANGED <<pc, dag, frames, pending, increment, isInitialization,
                 isCounterIncrement, linked, above, below, pot, walkVars>>

chordEdges == (dag.Edge \ treeEdges) \ Split

calculateChordIncrementsDir(e, f) ==
  IF e = {} \/ \E x \in e : dag.src[x] = dag.tgt[f] \/ dag.tgt[x] = dag.src[f]
  THEN 1 ELSE -1

(* calculateChordIncrements starts the search at the root, without an edge *)
(* to come from.                                                           *)
calculateChordIncrements ==
  /\ pc = "spanning" /\ dfsStack = <<>>
  /\ pc' = "chords"
  /\ frames' = {[weight |-> 0, v |-> dag.root, e |-> {}]}
  /\ UNCHANGED <<dag, color, dfsStack, treeEdges, pending, increment,
                 isInitialization, isCounterIncrement, linked, above, below, pot,
                 walkVars>>

calculateChordIncrementsDfs(fr) ==
  LET dir(f) == calculateChordIncrementsDir(fr.e, f) IN
  /\ pc = "chords" /\ fr \in frames
  /\ frames' = (frames \ {fr}) \cup
       {[weight |-> dir(f) * fr.weight + dag.weight[f],
         v |-> NextNode(fr.v, f), e |-> {f}] :
          f \in {g \in treeEdges : {g} # fr.e /\ fr.v \in {dag.src[g], dag.tgt[g]}}}
  /\ increment' = [f \in dag.Edge |->
       IF f \in chordEdges /\ fr.v \in {dag.src[f], dag.tgt[f]}
       THEN increment[f] + dir(f) * fr.weight ELSE increment[f]]
  /\ UNCHANGED <<pc, dag, color, dfsStack, treeEdges, pending, isInitialization,
                 isCounterIncrement, linked, above, below, pot, walkVars>>

(* The second half of calculateChordIncrements.                            *)
addWeights ==
  /\ pc = "chords" /\ frames = {}
  /\ pc' = "weighted"
  /\ increment' = [e \in dag.Edge |-> IF e \in chordEdges
                     THEN increment[e] + dag.weight[e] ELSE increment[e]]
  /\ UNCHANGED <<dag, color, dfsStack, treeEdges, frames, pending,
                 isInitialization, isCounterIncrement, linked, above, below, pot,
                 walkVars>>
------------------------------------------------------------------------------
(* The recursions below touch every edge at most once on the way down and  *)
(* once on the way up, so the calls that are still to be made are a set.   *)
pushInitialization ==
  /\ pc = "weighted"
  /\ pc' = "pushInitialization"
  /\ isInitialization' = [isInitialization EXCEPT ![dag.exitRoot] = TRUE]
  /\ pending' = {dag.exitRoot}
  /\ UNCHANGED <<dag, color, dfsStack, treeEdges, frames, increment,
                 isCounterIncrement, linked, above, below, pot, walkVars>>

(* A move takes the increment of e to other edges, one block further.      *)
(* Mutants: the increment is lost; a split edge beside them gets it too.   *)
moveIncrement_loses(e, others) == [increment EXCEPT ![e] = 0]

moveIncrement_into_split(e, others) ==
  [f \in dag.Edge |-> IF f = e THEN 0
     ELSE IF f \in others \/ (f \in Split /\ dag.src[f] = dag.tgt[e])
     THEN increment[f] + increment[e] ELSE increment[f]]

moveIncrement(e, others) ==
  [f \in dag.Edge |-> IF f = e THEN 0
                      ELSE IF f \in others THEN increment[f] + increment[e]
                      ELSE increment[f]]

(* The initialization stops at a block with other predecessors.            *)
initializationStops(target) == Several(Preds(target)) \/ target = dag.exit

(* The edges it moves to.  Mutant: no phony edges.                         *)
initializationInto_no_phony(target) == {e \in Succs(target) : dag.type[e] = "NORMAL"}

initializationInto(target) == Succs(target) \ Split

pushInitializationFromEdge(e) ==
  LET target == dag.tgt[e]
      into == initializationInto(target) IN
  /\ pc = "pushInitialization" /\ e \in pending
  /\ IF initializationStops(target)
     THEN /\ pending' = pending \ {e}
          /\ UNCHANGED <<increment, isInitialization, above, pot>>
     ELSE /\ increment' = moveIncrement(e, into)
          /\ isInitialization' = [f \in dag.Edge |->
               f # e /\ (f \in into \/ isInitialization[f])]
          /\ pending' = (pending \ {e}) \cup into
          /\ above' = above \cup {target}
          /\ pot' = [pot EXCEPT ![target] = @ + increment[e]]
  /\ UNCHANGED <<pc, dag, color, dfsStack, treeEdges, frames,
                 isCounterIncrement, linked, below, walkVars>>

pushCounters ==
  /\ pc = "pushInitialization" /\ pending = {}
  /\ pc' = "pushCounters"
  /\ isCounterIncrement' = [isCounterIncrement EXCEPT ![dag.exitRoot] = TRUE]
  /\ pending' = {dag.exitRoot}
  /\ UNCHANGED <<dag, color, dfsStack, treeEdges, frames, increment,
                 isInitialization, linked, above, below, pot, walkVars>>

(* Where the counters stop.  Mutant: not at an initialization.             *)
countersStop_past_init(e) == Several(Succs(dag.src[e])) \/ dag.src[e] = dag.root

countersStop(e) ==
  Several(Succs(dag.src[e])) \/ dag.src[e] = dag.root \/ isInitialization[e]

pushCountersFromEdge(e) ==
  LET source == dag.src[e]
      from == Preds(source) \ Split IN
  /\ pc = "pushCounters" /\ e \in pending
  /\ IF countersStop(e)
     THEN /\ pending' = pending \ {e}
          /\ UNCHANGED <<increment, isCounterIncrement, below, pot>>
     ELSE /\ increment' = moveIncrement(e, from)
          /\ isCounterIncrement' = [f \in dag.Edge |->
               f # e /\ (f \in from \/ isCounterIncrement[f])]
          /\ pending' = (pending \ {e}) \cup from
          /\ below' = below \cup {source}
          /\ pot' = [pot EXCEPT ![source] = @ - increment[e]]
  /\ UNCHANGED <<pc, dag, color, dfsStack, treeEdges, frames, isInitialization,
                 linked, above, walkVars>>

(* The edges that go.                                                      *)
Unlinked == {e \in linked : dag.type[e] \in Phony}

unlinkPhony ==
  /\ pc = "pushCounters" /\ pending = {}
  /\ pc' = "placed"
  /\ linked' = linked \ Unlinked
  /\ UNCHANGED <<dag, color, dfsStack, treeEdges, frames, pending, increment,
                 isInitialization, isCounterIncrement, above, below, pot, walkVars>>
------------------------------------------------------------------------------
(* What the code inserted for an edge does when a path takes the edge.  A  *)
(* path takes the phony edges in place of a back edge or a split edge.     *)
takeEdge(e) ==
  LET r == IF isInitialization[e] THEN increment[e] ELSE register + increment[e] IN
  /\ pc = "placed" /\ dag.src[e] = at
  /\ dag.type[e] \notin Replaced /\ e # dag.exitRoot
  /\ at' = dag.tgt[e]
  /\ register' = r
  /\ defined' = (defined \/ isInitialization[e])
  /\ sum' = sum + dag.weight[e]
  /\ count' = IF isCounterIncrement[e] THEN count + 1 ELSE count
  /\ logged' = IF isCounterIncrement[e] THEN r ELSE logged
  /\ UNCHANGED <<pc, passVars>>

nextPath ==
  /\ pc = "placed" /\ at = dag.exit
  /\ at' = dag.root /\ register' = 0 /\ defined' = FALSE
  /\ sum' = 0 /\ count' = 0 /\ logged' = 0
  /\ UNCHANGED <<pc, passVars>>

Pass ==
  \/ spanningStep \/ calculateChordIncrements
  \/ \E fr \in frames : calculateChordIncrementsDfs(fr)
  \/ addWeights
  \/ pushInitialization \/ \E e \in pending : pushInitializationFromEdge(e)
  \/ pushCounters \/ \E e \in pending : pushCountersFromEdge(e)
  \/ unlinkPhony
Walk == nextPath \/ \E e \in dag.Edge : takeEdge(e)
Next == Pass \/ Walk

Spec == Init /\ [][Next]_vars
FairSpec == Spec /\ WF_vars(Pass)
------------------------------------------------------------------------------
TypeOK ==
  /\ DagOK(dag)
  /\ pc \in {"spanning", "chords", "weighted", "pushInitialization",
             "pushCounters", "placed"}
  /\ color \in [dag.Node -> {"WHITE"}] /\ dfsStack \in Seq(dag.Node)
  /\ treeEdges = {} /\ pending \subseteq dag.Edge \ Split
  /\ frames \subseteq {[weight |-> 0, v |-> dag.root, e |-> {}]}
  /\ increment \in [dag.Edge -> Int]
  /\ isInitialization \in [dag.Edge -> BOOLEAN]
  /\ isCounterIncrement \in [dag.Edge -> BOOLEAN]
  /\ linked = IF pc = "placed" THEN {e \in dag.Edge : dag.type[e] \notin Phony}
              ELSE dag.Edge
  /\ above \subseteq dag.Node /\ below \subseteq dag.Node
  /\ pot \in [dag.Node -> Int]
  /\ at \in dag.Node /\ register \in Int /\ defined \in BOOLEAN
  /\ sum \in Nat /\ count \in Nat /\ logged \in Int

(* Wherever increments, initializations and counters were moved: every     *)
(* path through the DAG logs exactly one number, and it is the number of   *)
(* the path, the sum of its weights.                                       *)
PathNumberLogged ==
  pc = "placed" /\ at = dag.exit => count = 1 /\ logged = sum

(* No path adds to the register or logs it before initializing it.         *)
RegisterReady ==
  pc = "placed" /\ ~defined =>
    \A e \in dag.Edge :
      /\ dag.src[e] = at /\ dag.type[e] \notin Replaced /\ e # dag.exitRoot
      /\ ~isInitialization[e]
      => increment[e] = 0 /\ ~isCounterIncrement[e]

(* The assertions of insertInstrumentationStartingAt: "Top phony edge did  *)
(* not contain a path number initialization", "Bottom phony edge did not   *)
(* contain a path counter increment".                                      *)
PhonyEdgesMarked ==
  pc = "placed" => \A e \in dag.Edge : dag.type[e] \in Replaced =>
    isInitialization[dag.top[e]] /\ isCounterIncrement[dag.bottom[e]]

(* A back edge carries nothing itself.  The passes do not skip it, and     *)
(* splitUpdate makes the first half of a split back edge a normal edge,    *)
(* which would be instrumented with what the passes left there, in         *)
(* addition to the phony edges.                                            *)
ReplacedEdgesBare ==
  pc = "placed" => \A e \in dag.Edge : dag.type[e] \in Replaced =>
    /\ increment[e] = 0
    /\ ~isInitialization[e] /\ ~isCounterIncrement[e]

(* "Calculates a spanning tree of the DAG": "A subgraph, S, is a spanning  *)
(* tree if S covers all vertices and is a tree."                           *)
SpanningTreeCovers ==
  pc # "spanning" => \A n \in dag.Node :
    \E e \in treeEdges : n \in {dag.src[e], dag.tgt[e]}

(* The recursions end, on every graph.                                     *)
PassEnds == <>(pc = "placed")
==============================================================================
