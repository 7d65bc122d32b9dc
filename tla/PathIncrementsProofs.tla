------------------------ MODULE PathIncrementsProofs ------------------------
(***************************************************************************)
(* For every Ball-Larus DAG, whatever its size and its weights: the passes *)
(* keep the number that each path logs, and the assertions of the code     *)
(* that inserts the instrumentation hold.                                  *)
(*                                                                         *)
(* The argument: moving an increment across a block changes the increments *)
(* of the edges into and out of the block by opposite amounts.  So at any  *)
(* time the increments are the weights plus the difference of a potential  *)
(* (pot) between the ends of each edge, and the register at a block is the *)
(* sum of the weights so far minus the potential of the block.             *)
(***************************************************************************)
EXTENDS PathIncrements, TLAPS

(* The passes before the increments have their values, and after the push. *)
Early == {"spanning", "chords"}
Pushed == {"pushCounters", "placed"}

(* Nothing has been moved yet.                                             *)
Untouched ==
  /\ \A e \in dag.Edge : ~isInitialization[e] /\ ~isCounterIncrement[e]
  /\ above = {} /\ below = {} /\ pending = {}
  /\ \A n \in dag.Node : pot[n] = 0

(* The increments are the weights plus the difference of the potential.    *)
Coboundary ==
  \A e \in dag.Edge \ Split :
    increment[e] = dag.weight[e] + pot[dag.src[e]] - pot[dag.tgt[e]]

(* The blocks the initialization passed form a tree below the exit->root   *)
(* edge; it sits on the edges that leave the tree.                         *)
InitPlaced ==
  /\ dag.exit \notin above
  /\ \A e \in dag.Edge : dag.tgt[e] \in above =>
       /\ e \notin Split /\ increment[e] = 0 /\ ~isInitialization[e]
       /\ e = dag.exitRoot \/ dag.src[e] \in above
       /\ \A f \in dag.Edge : dag.tgt[f] = dag.tgt[e] => f = e
  /\ \A e \in dag.Edge : isInitialization[e] =>
       e \notin Split /\ (e = dag.exitRoot \/ dag.src[e] \in above)
  /\ \A e \in dag.Edge \ Split :
       dag.src[e] \in above /\ dag.tgt[e] \notin above => isInitialization[e]

(* The blocks the counters passed form a tree above the same edge.         *)
CountersPlaced ==
  /\ above \cap below = {}
  /\ \A e \in dag.Edge : dag.src[e] \in below =>
       /\ dag.src[e] # dag.root
       /\ e \notin Split /\ increment[e] = 0
       /\ ~isInitialization[e] /\ ~isCounterIncrement[e]
       /\ e = dag.exitRoot \/ dag.tgt[e] \in below
       /\ \A f \in dag.Edge : dag.src[f] = dag.src[e] => f = e
  /\ \A e \in dag.Edge : isCounterIncrement[e] =>
       e \notin Split /\ (e = dag.exitRoot \/ dag.tgt[e] \in below)
  /\ \A e \in dag.Edge \ Split :
       dag.tgt[e] \in below /\ dag.src[e] \notin below => isCounterIncrement[e]

(* The inductive invariant of the passes.                                  *)
PassInv ==
  /\ pot[dag.root] = 0 /\ pot[dag.exit] = 0
  /\ pc \in Early => Untouched /\ \A e \in dag.Edge : increment[e] = 0
  /\ pc \notin Early => Coboundary
  /\ pc = "weighted" => Untouched
  /\ pc = "pushInitialization" =>
       /\ InitPlaced /\ below = {}
       /\ \A e \in dag.Edge : ~isCounterIncrement[e]
       /\ \A e \in pending : isInitialization[e]
       /\ dag.exitRoot \in pending \/ dag.root \in above
  /\ pc \in Pushed => InitPlaced /\ CountersPlaced /\ dag.root \in above
  /\ pc = "pushCounters" =>
       /\ \A e \in pending : isCounterIncrement[e]
       /\ dag.exitRoot \in pending \/ dag.exit \in below
  /\ pc = "placed" => dag.exit \in below

(* On a walk: above the initialization the potential is the sum so far,    *)
(* below it the register makes up the difference, below the counters the   *)
(* number logged does.                                                     *)
WalkInv ==
  /\ pc # "placed" => at = dag.root /\ sum = 0 /\ count = 0
  /\ pc = "placed" =>
       /\ at \in above => sum = pot[at] /\ count = 0
       /\ at \notin above => defined
       /\ at \notin above \cup below => register = sum - pot[at] /\ count = 0
       /\ at \in below => logged = sum - pot[at] /\ count = 1

(* Stacks: one element, and the top of one that is not empty.              *)
LEMMA OneElement == ASSUME NEW S, NEW x \in S PROVE <<x>> \in Seq(S)
  OBVIOUS

(* What is on top of a stack is an element, and what is below is a stack.  *)
LEMMA TopOfStack ==
  ASSUME NEW S, NEW q \in Seq(S), q # <<>>
  PROVE  q[Len(q)] \in S /\ SubSeq(q, 1, Len(q) - 1) \in Seq(S)
<1>1. Len(q) \in Nat /\ Len(q) >= 1
  OBVIOUS
<1>2. QED
  BY <1>1

(* The initial state.                                                      *)
LEMMA InitInv == Init => TypeOK /\ PassInv /\ WalkInv
<1> SUFFICES ASSUME Init PROVE TypeOK /\ PassInv /\ WalkInv
  BY Zenon
<1>1. DagOK(dag)
  BY Zenon, DagsOK DEF Init
<1>2. /\ dag.root \in dag.Node /\ dag.exit \in dag.Node
  BY Zenon, <1>1 DEF DagOK
<1>3. TypeOK
  <2>1. <<dag.root>> \in Seq(dag.Node)
    BY Zenon, <1>2, OneElement
  <2>3. /\ color \in [dag.Node -> {"WHITE"}] /\ increment \in [dag.Edge -> Int]
        /\ pot \in [dag.Node -> Int]
    BY DEF Init
  <2>4. /\ isInitialization \in [dag.Edge -> BOOLEAN]
        /\ isCounterIncrement \in [dag.Edge -> BOOLEAN] /\ defined \in BOOLEAN
    BY Zenon DEF Init
  <2>5. QED
    BY Zenon, <1>1, <1>2, <2>1, <2>3, <2>4 DEF Init, TypeOK
<1>4. PassInv
  BY Zenon, <1>2 DEF Init, PassInv, Untouched, Early, Pushed
<1>5. WalkInv
  BY Zenon DEF Init, WalkInv
<1>6. QED
  BY Zenon, <1>3, <1>4, <1>5

(* The search for a spanning tree finds every node WHITE.                  *)
LEMMA SpanningStepInv ==
  ASSUME TypeOK, PassInv, WalkInv, spanningStep
  PROVE  TypeOK' /\ PassInv' /\ WalkInv'
<1>1. UNCHANGED <<color, treeEdges>> /\ dfsStack' \in Seq(dag.Node)
  <2>1. dfsStack # <<>> /\ dfsStack \in Seq(dag.Node)
    BY Zenon DEF spanningStep, TypeOK
  <2>2. /\ dfsStack[Len(dfsStack)] \in dag.Node
        /\ SubSeq(dfsStack, 1, Len(dfsStack) - 1) \in Seq(dag.Node)
    BY Zenon, <2>1, TopOfStack
  <2>3. color[dfsStack[Len(dfsStack)]] = "WHITE"
    BY Zenon, <2>2 DEF TypeOK
  <2>4. QED
    BY Zenon, <2>2, <2>3 DEF spanningStep
<1>2. UNCHANGED <<pc, dag, frames, pending, increment, isInitialization,
                  isCounterIncrement, linked, above, below, pot, walkVars>>
  BY Zenon DEF spanningStep
<1>3. TypeOK'
  BY Zenon, <1>1, <1>2 DEF TypeOK, walkVars, Split
<1>4. PassInv'
  BY ZenonT(30), <1>2
     DEF PassInv, Untouched, Coboundary, InitPlaced, CountersPlaced, Split
<1>5. WalkInv'
  BY Zenon, <1>2 DEF WalkInv, walkVars
<1>6. QED
  BY Zenon, <1>3, <1>4, <1>5

(* The search for the increments of the chords starts.                     *)
LEMMA ChordStartInv ==
  ASSUME TypeOK, PassInv, WalkInv, calculateChordIncrements
  PROVE  TypeOK' /\ PassInv' /\ WalkInv'
<1>1. /\ UNCHANGED <<dag, color, dfsStack, treeEdges, pending, increment,
                     isInitialization, isCounterIncrement, linked, above, below, pot,
                     walkVars>>
      /\ pc = "spanning" /\ pc' = "chords"
      /\ frames' = {[weight |-> 0, v |-> dag.root, e |-> {}]}
  BY Zenon DEF calculateChordIncrements
<1>2. TypeOK'
  BY Zenon, <1>1 DEF TypeOK, walkVars, Split
<1>3. PassInv'
  BY Zenon, <1>1 DEF PassInv, Untouched, Early, Pushed
<1>4. WalkInv'
  BY Zenon, <1>1 DEF WalkInv, walkVars
<1>5. QED
  BY Zenon, <1>2, <1>3, <1>4

(* Without tree edges the search ends at the root, and adds 0 everywhere.  *)
LEMMA ChordDfsInv ==
  ASSUME TypeOK, PassInv, WalkInv, NEW fr \in frames, calculateChordIncrementsDfs(fr)
  PROVE  TypeOK' /\ PassInv' /\ WalkInv'
<1>1. /\ UNCHANGED <<pc, dag, color, dfsStack, treeEdges, pending, isInitialization,
                     isCounterIncrement, linked, above, below, pot, walkVars>>
      /\ pc = "chords" /\ fr.weight = 0 /\ treeEdges = {}
  BY DEF calculateChordIncrementsDfs, TypeOK
<1>2. frames' \subseteq frames
  BY Zenon, <1>1 DEF calculateChordIncrementsDfs
<1>3. \A e, f : calculateChordIncrementsDir(e, f) \in Int
  BY DEF calculateChordIncrementsDir
<1>4. \A f \in dag.Edge : calculateChordIncrementsDir(fr.e, f) * fr.weight = 0
  BY <1>1, <1>3
<1>5. increment' = increment
  <2>1. \A f \in dag.Edge : increment'[f] = increment[f]
    <3> SUFFICES ASSUME NEW f \in dag.Edge PROVE increment'[f] = increment[f]
      BY Zenon
    <3>1. increment'[f] \in {increment[f] + calculateChordIncrementsDir(fr.e, f) * fr.weight,
                             increment[f]}
      BY Zenon DEF calculateChordIncrementsDfs
    <3>2. increment[f] \in Int
      BY Zenon DEF TypeOK
    <3>3. QED
      BY SMTT(30), <1>4, <3>1, <3>2
  <2>2. increment' = [f \in dag.Edge |-> increment'[f]]
    BY Zenon DEF calculateChordIncrementsDfs
  <2>3. increment = [f \in dag.Edge |-> increment[f]]
    BY Zenon DEF TypeOK
  <2>4. QED
    BY Zenon, <2>1, <2>2, <2>3
<1>6. TypeOK'
  BY Zenon, <1>1, <1>2, <1>5 DEF TypeOK, walkVars, Split
<1>7. PassInv'
  BY Zenon, <1>1, <1>5 DEF PassInv, Untouched, Early, Pushed
<1>8. WalkInv'
  BY Zenon, <1>1 DEF WalkInv, walkVars
<1>9. QED
  BY Zenon, <1>6, <1>7, <1>8

(* All edges but the split ones are chords, so the increments are the      *)
(* weights.                                                                *)
LEMMA AddWeightsInv ==
  ASSUME TypeOK, PassInv, WalkInv, addWeights
  PROVE  TypeOK' /\ PassInv' /\ WalkInv'
<1>1. /\ UNCHANGED <<dag, color, dfsStack, treeEdges, frames, pending,
                     isInitialization, isCounterIncrement, linked, above, below, pot,
                     walkVars>>
      /\ pc = "chords" /\ pc' = "weighted"
      /\ increment' = [e \in dag.Edge |-> IF e \in chordEdges
                         THEN increment[e] + dag.weight[e] ELSE increment[e]]
  BY Zenon DEF addWeights
<1>2. /\ dag.weight \in [dag.Edge -> Nat] /\ dag.src \in [dag.Edge -> dag.Node]
      /\ dag.tgt \in [dag.Edge -> dag.Node]
  BY Zenon DEF TypeOK, DagOK
<1>3. chordEdges = dag.Edge \ Split
  BY Zenon DEF TypeOK, chordEdges
<1>4. increment' \in [dag.Edge -> Int]
  BY <1>1, <1>2 DEF TypeOK
<1>5. \A e \in dag.Edge \ Split : increment'[e] = dag.weight[e]
  BY <1>1, <1>2, <1>3 DEF PassInv, Early
<1>6. TypeOK'
  BY Zenon, <1>1, <1>4 DEF TypeOK, walkVars, Split
<1>7. Coboundary'
  BY SMTT(30), <1>1, <1>2, <1>5 DEF Coboundary, PassInv, Untouched, Early, Split
<1>8. PassInv'
  BY Zenon, <1>1, <1>7 DEF PassInv, Untouched, Early, Pushed
<1>9. WalkInv'
  BY Zenon, <1>1 DEF WalkInv, walkVars
<1>10. QED
  BY Zenon, <1>6, <1>8, <1>9

(* The initialization starts on the exit->root edge.                       *)
LEMMA InitStartInv ==
  ASSUME TypeOK, PassInv, WalkInv, pushInitialization
  PROVE  TypeOK' /\ PassInv' /\ WalkInv'
<1>1. /\ UNCHANGED <<dag, color, dfsStack, treeEdges, frames, increment,
                     isCounterIncrement, linked, above, below, pot, walkVars>>
      /\ pc = "weighted" /\ pc' = "pushInitialization"
      /\ isInitialization' = [isInitialization EXCEPT ![dag.exitRoot] = TRUE]
      /\ pending' = {dag.exitRoot}
  BY Zenon DEF pushInitialization
<1>2. dag.exitRoot \in dag.Edge \ Split
  BY Zenon DEF TypeOK, DagOK, Split
<1>3. /\ isInitialization'[dag.exitRoot]
      /\ \A e \in dag.Edge : isInitialization'[e] => e = dag.exitRoot
      /\ isInitialization' \in [dag.Edge -> BOOLEAN]
  BY Zenon, <1>1, <1>2 DEF TypeOK, PassInv, Untouched
<1>4. TypeOK'
  BY Zenon, <1>1, <1>2, <1>3 DEF TypeOK, walkVars, Split
<1>5. InitPlaced'
  BY Zenon, <1>1, <1>2, <1>3 DEF InitPlaced, PassInv, Untouched, Split
<1>6. PassInv'
  BY Zenon, <1>1, <1>3, <1>5 DEF PassInv, Untouched, Early, Pushed, Coboundary, Split
<1>7. WalkInv'
  BY Zenon, <1>1 DEF WalkInv, walkVars
<1>8. QED
  BY Zenon, <1>4, <1>6, <1>7

(* A call that stops where it is leaves everything but the set of calls.   *)
LEMMA StopInv ==
  ASSUME TypeOK, PassInv, WalkInv, NEW e \in pending,
         pc \in {"pushInitialization", "pushCounters"},
         e # dag.exitRoot,
         pending' = pending \ {e},
         UNCHANGED <<pc, dag, color, dfsStack, treeEdges, frames, increment,
                     isInitialization, isCounterIncrement, linked, above, below, pot,
                     walkVars>>
  PROVE  TypeOK' /\ PassInv' /\ WalkInv'
<1>1. TypeOK'
  BY Zenon DEF TypeOK, walkVars, Split
<1>2. Coboundary' = Coboundary /\ InitPlaced' = InitPlaced
      /\ CountersPlaced' = CountersPlaced
  BY Zenon DEF Coboundary, InitPlaced, CountersPlaced, Split
<1>3. PassInv'
  BY Zenon, <1>2 DEF PassInv, Early, Pushed
<1>4. WalkInv'
  BY Zenon DEF WalkInv, walkVars
<1>5. QED
  BY Zenon, <1>1, <1>3, <1>4

(* The initialization moves across a block with one predecessor.           *)
LEMMA InitPushInv ==
  ASSUME TypeOK, PassInv, WalkInv, NEW e \in pending, pushInitializationFromEdge(e)
  PROVE  TypeOK' /\ PassInv' /\ WalkInv'
<1> DEFINE v == dag.tgt[e]
           into == Succs(v) \ Split
<1>0. /\ dag.weight \in [dag.Edge -> Nat] /\ dag.src \in [dag.Edge -> dag.Node]
      /\ dag.tgt \in [dag.Edge -> dag.Node] /\ dag.type \in [dag.Edge -> EdgeTypes]
      /\ increment \in [dag.Edge -> Int] /\ pot \in [dag.Node -> Int]
      /\ e \in dag.Edge \ Split /\ dag.root \in dag.Node /\ dag.exit \in dag.Node
      /\ isInitialization \in [dag.Edge -> BOOLEAN]
      /\ DagOK(dag)
  BY Zenon DEF TypeOK, DagOK
<1>1. /\ UNCHANGED <<pc, dag, color, dfsStack, treeEdges, frames,
                     isCounterIncrement, linked, below, walkVars>>
      /\ pc = "pushInitialization" /\ linked = dag.Edge
      /\ InitPlaced /\ Coboundary /\ isInitialization[e] /\ below = {}
      /\ pot[dag.root] = 0 /\ pot[dag.exit] = 0
  BY Zenon DEF pushInitializationFromEdge, initializationStops, initializationInto, moveIncrement,
         PassInv, Early, TypeOK
<1>2. CASE Several(Preds(v)) \/ v = dag.exit
  <2>1. e # dag.exitRoot
    <3>1. e = dag.exitRoot => v = dag.root /\ \A f \in dag.Edge : dag.tgt[f] = v => f = e
      BY SMTT(30), <1>0 DEF DagOK
    <3>2. dag.root # dag.exit
      BY Zenon, <1>0 DEF DagOK
    <3>3. QED
      BY Zenon, <1>1, <1>2, <3>1, <3>2 DEF Several, Preds
  <2>2. /\ pending' = pending \ {e}
        /\ UNCHANGED <<increment, isInitialization, above, pot>>
    BY Zenon, <1>2
       DEF pushInitializationFromEdge, initializationStops, initializationInto, moveIncrement
  <2>3. QED
    BY Zenon, <1>1, <2>1, <2>2, StopInv
<1>3. CASE ~(Several(Preds(v)) \/ v = dag.exit)
  <2>1. /\ increment' = [f \in dag.Edge |->
             IF f = e THEN 0 ELSE IF f \in into THEN increment[f] + increment[e]
             ELSE increment[f]]
        /\ isInitialization' = [f \in dag.Edge |->
             f # e /\ (f \in into \/ isInitialization[f])]
        /\ pending' = (pending \ {e}) \cup into
        /\ above' = above \cup {v}
        /\ pot' = [pot EXCEPT ![v] = @ + increment[e]]
    BY Zenon, <1>3
       DEF pushInitializationFromEdge, initializationStops, initializationInto, moveIncrement
  <2>2. \A f \in dag.Edge : dag.tgt[f] = v => f = e
    BY Zenon, <1>0, <1>1, <1>3 DEF Several, Preds
  <2>3. \A f \in dag.Edge : f \in into <=> dag.src[f] = v /\ f \notin Split
    BY Zenon, <1>1 DEF Succs
  <2>4. v \in dag.Node /\ v \notin above /\ v # dag.exit /\ dag.src[e] # v
    <3>1. v \notin above
      BY Zenon, <1>0, <1>1 DEF InitPlaced
    <3>2. dag.src[e] # v
      BY <1>0, <2>2 DEF DagOK, Replaced, Phony
    <3>3. QED
      BY Zenon, <1>0, <1>3, <3>1, <3>2
  <2>5. /\ \A f \in dag.Edge : f # e /\ f \in into => increment'[f] = increment[f] + increment[e]
        /\ \A f \in dag.Edge : f # e /\ f \notin into => increment'[f] = increment[f]
        /\ increment'[e] = 0 /\ increment' \in [dag.Edge -> Int]
    <3>1. /\ \A f \in dag.Edge : f # e /\ f \in into => increment'[f] = increment[f] + increment[e]
          /\ \A f \in dag.Edge : f # e /\ f \notin into => increment'[f] = increment[f]
          /\ increment'[e] = 0 /\ increment' = [f \in dag.Edge |-> increment'[f]]
      BY Zenon, <1>0, <2>1
    <3>2. increment[e] \in Int /\ \A f \in dag.Edge : increment[f] \in Int
      BY Zenon, <1>0
    <3>3. \A f \in dag.Edge : increment'[f] \in Int
      BY SMTT(30), <3>1, <3>2
    <3>4. QED
      BY Zenon, <3>1, <3>3
  <2>6. /\ pot'[v] = pot[v] + increment[e] /\ pot' \in [dag.Node -> Int]
        /\ \A n \in dag.Node : n # v => pot'[n] = pot[n]
    <3>1. pot[v] \in Int /\ increment[e] \in Int
      BY Zenon, <1>0, <2>4
    <3>2. pot[v] + increment[e] \in Int
      BY <3>1
    <3>3. QED
      BY Zenon, <1>0, <2>1, <2>4, <3>2
  <2>7. /\ ~isInitialization'[e] /\ isInitialization' \in [dag.Edge -> BOOLEAN]
        /\ \A f \in dag.Edge : f # e =>
             (isInitialization'[f] <=> f \in into \/ isInitialization[f])
    BY Zenon, <1>0, <2>1
  <2>8. Coboundary'
    <3> SUFFICES ASSUME NEW f \in dag.Edge \ Split
                 PROVE  increment'[f] = dag.weight[f] + pot'[dag.src[f]] - pot'[dag.tgt[f]]
      BY Zenon, <1>1 DEF Coboundary, Split
    <3>1. /\ increment[f] = dag.weight[f] + pot[dag.src[f]] - pot[dag.tgt[f]]
          /\ dag.weight[f] \in Int /\ dag.src[f] \in dag.Node /\ dag.tgt[f] \in dag.Node
          /\ increment[f] \in Int /\ increment[e] \in Int
          /\ pot[dag.src[f]] \in Int /\ pot[dag.tgt[f]] \in Int
      BY SMTT(30), <1>0, <1>1 DEF Coboundary
    <3>2. CASE f = e
      BY SMTT(30), <2>4, <2>5, <2>6, <3>1, <3>2
    <3>3. CASE dag.src[f] = v
      <4>1. f # e /\ dag.tgt[f] # v /\ f \in into
        BY Zenon, <2>2, <2>3, <2>4, <3>3
      <4>2. QED
        BY SMTT(30), <2>5, <2>6, <3>1, <3>3, <4>1
    <3>4. CASE f # e /\ dag.src[f] # v
      <4>1. dag.tgt[f] # v /\ f \notin into
        BY Zenon, <2>2, <2>3, <3>4
      <4>2. QED
        BY Zenon, <2>5, <2>6, <3>1, <3>4, <4>1
    <3>5. QED
      BY Zenon, <3>2, <3>3, <3>4
  <2>9. /\ dag.exit \notin above'
        /\ \A f \in dag.Edge : dag.tgt[f] \in above' =>
             /\ f \notin Split /\ increment'[f] = 0 /\ ~isInitialization'[f]
             /\ f = dag.exitRoot \/ dag.src[f] \in above'
             /\ \A g \in dag.Edge : dag.tgt[g] = dag.tgt[f] => g = f
    <3>1. dag.exit \notin above'
      BY Zenon, <1>1, <2>1, <2>4 DEF InitPlaced
    <3>2. ASSUME NEW f \in dag.Edge, dag.tgt[f] = v
          PROVE  /\ f \notin Split /\ increment'[f] = 0 /\ ~isInitialization'[f]
                 /\ f = dag.exitRoot \/ dag.src[f] \in above'
                 /\ \A g \in dag.Edge : dag.tgt[g] = dag.tgt[f] => g = f
      <4>1. f = e
        BY Zenon, <2>2, <3>2
      <4>2. f = dag.exitRoot \/ dag.src[f] \in above
        BY Zenon, <1>0, <1>1, <4>1 DEF InitPlaced
      <4>3. QED
        BY Zenon, <1>0, <2>1, <2>2, <2>5, <2>7, <3>2, <4>1, <4>2
    <3>3. ASSUME NEW f \in dag.Edge, dag.tgt[f] \in above
          PROVE  /\ f \notin Split /\ increment'[f] = 0 /\ ~isInitialization'[f]
                 /\ f = dag.exitRoot \/ dag.src[f] \in above'
                 /\ \A g \in dag.Edge : dag.tgt[g] = dag.tgt[f] => g = f
      <4>1. /\ f \notin Split /\ increment[f] = 0 /\ ~isInitialization[f]
            /\ f = dag.exitRoot \/ dag.src[f] \in above
            /\ \A g \in dag.Edge : dag.tgt[g] = dag.tgt[f] => g = f
        BY Zenon, <1>1, <3>3 DEF InitPlaced
      <4>2. f # e /\ dag.src[f] # v
        BY Zenon, <1>0, <1>3, <2>4, <3>3, <4>1 DEF DagOK
      <4>3. QED
        BY Zenon, <2>1, <2>3, <2>5, <2>7, <4>1, <4>2
    <3>4. QED
      BY Zenon, <2>1, <3>1, <3>2, <3>3
  <2>10. \A f \in dag.Edge : isInitialization'[f] =>
           f \notin Split /\ (f = dag.exitRoot \/ dag.src[f] \in above')
    BY Zenon, <1>1, <2>1, <2>3, <2>7 DEF InitPlaced
  <2>11. \A f \in dag.Edge \ Split :
           dag.src[f] \in above' /\ dag.tgt[f] \notin above' => isInitialization'[f]
    BY Zenon, <1>1, <2>1, <2>3, <2>7 DEF InitPlaced
  <2>12. InitPlaced'
    BY Zenon, <1>1, <2>9, <2>10, <2>11 DEF InitPlaced, Split
  <2>13. pot'[dag.root] = 0 /\ pot'[dag.exit] = 0
    <3>1. CASE v = dag.root
      <4>1. e = dag.exitRoot
        BY Zenon, <1>0, <3>1 DEF DagOK
      <4>2. increment[e] = 0
        <5>1. dag.src[e] = dag.exit /\ dag.weight[e] = 0
          BY Zenon, <1>0, <4>1 DEF DagOK
        <5>2. increment[e] = dag.weight[e] + pot[dag.src[e]] - pot[v]
          BY Zenon, <1>0, <1>1 DEF Coboundary
        <5>3. QED
          BY SMTT(30), <1>1, <3>1, <5>1, <5>2
      <4>3. QED
        BY SMTT(30), <1>0, <1>1, <2>4, <2>6, <3>1, <4>2
    <3>2. CASE v # dag.root
      BY Zenon, <1>0, <1>1, <2>4, <2>6, <3>2
    <3>3. QED
      BY Zenon, <3>1, <3>2
  <2>14. /\ \A f \in pending' : isInitialization'[f]
         /\ pending' \subseteq dag.Edge \ Split
         /\ dag.exitRoot \in pending' \/ dag.root \in above'
    <3>1. /\ \A f \in pending : isInitialization[f]
          /\ pending \subseteq dag.Edge \ Split
      <4>1. \A f \in pending : isInitialization[f]
        BY Zenon, <1>1 DEF PassInv
      <4>2. pending \subseteq dag.Edge \ Split
        BY Zenon DEF TypeOK
      <4>3. QED
        BY Zenon, <4>1, <4>2
    <3>2. e \notin into
      BY Zenon, <1>0, <2>3, <2>4
    <3>3. into \subseteq dag.Edge \ Split
      BY Zenon, <1>1 DEF Succs
    <3>4. e = dag.exitRoot => v = dag.root
      BY Zenon, <1>0 DEF DagOK
    <3>5. dag.exitRoot \in pending \/ dag.root \in above
      BY Zenon, <1>1 DEF PassInv
    <3>6. pending' \subseteq dag.Edge \ Split /\ e \notin pending'
      BY Zenon, <2>1, <3>1, <3>2, <3>3
    <3>7. \A f \in pending' : isInitialization'[f]
      BY Zenon, <2>1, <2>7, <3>1, <3>6
    <3>8. QED
      BY Zenon, <2>1, <3>4, <3>5, <3>6, <3>7
  <2>15. TypeOK'
    <3>1. DagOK(dag') /\ Split' = Split
      BY Zenon, <1>0, <1>1 DEF Split
    <3>2. pending' \subseteq dag'.Edge \ Split' /\ above' \subseteq dag'.Node
      BY Zenon, <1>1, <2>14, <2>1, <2>4, <3>1 DEF TypeOK
    <3>3. /\ increment' \in [dag'.Edge -> Int] /\ pot' \in [dag'.Node -> Int]
          /\ isInitialization' \in [dag'.Edge -> BOOLEAN]
      BY Zenon, <1>1, <2>5, <2>6, <2>7
    <3>4. QED
      BY Zenon, <1>1, <3>1, <3>2, <3>3 DEF TypeOK, walkVars
  <2>16. PassInv'
    BY Zenon, <1>1, <2>8, <2>12, <2>13, <2>14 DEF PassInv, Early, Pushed
  <2>17. WalkInv'
    BY Zenon, <1>1 DEF WalkInv, walkVars
  <2>18. QED
    BY Zenon, <2>15, <2>16, <2>17
<1>4. QED
  BY Zenon, <1>2, <1>3
------------------------------------------------------------------------------
(* The pass that pushes the counters, the unlinking, the walks along the   *)
(* paths and the theorems.                                                 *)

(* The counters start on the exit->root edge.                              *)
LEMMA CountersStartInv ==
  ASSUME TypeOK, PassInv, WalkInv, pushCounters
  PROVE  TypeOK' /\ PassInv' /\ WalkInv'
<1>1. /\ UNCHANGED <<dag, color, dfsStack, treeEdges, frames, increment,
                     isInitialization, linked, above, below, pot, walkVars>>
      /\ pc = "pushInitialization" /\ pc' = "pushCounters" /\ pending = {}
      /\ isCounterIncrement' = [isCounterIncrement EXCEPT ![dag.exitRoot] = TRUE]
      /\ pending' = {dag.exitRoot}
  BY Zenon DEF pushCounters
<1>2. dag.exitRoot \in dag.Edge \ Split
  BY Zenon DEF TypeOK, DagOK, Split
<1>3. /\ InitPlaced /\ Coboundary /\ below = {} /\ dag.root \in above
      /\ \A e \in dag.Edge : ~isCounterIncrement[e]
      /\ pot[dag.root] = 0 /\ pot[dag.exit] = 0
  BY Zenon, <1>1 DEF PassInv, Early
<1>4. /\ isCounterIncrement'[dag.exitRoot]
      /\ \A e \in dag.Edge : isCounterIncrement'[e] => e = dag.exitRoot
      /\ isCounterIncrement' \in [dag.Edge -> BOOLEAN]
  BY Zenon, <1>1, <1>2, <1>3 DEF TypeOK
<1>5. TypeOK'
  BY Zenon, <1>1, <1>2, <1>4 DEF TypeOK, walkVars, Split
<1>6. InitPlaced' /\ Coboundary'
  BY Zenon, <1>1, <1>3 DEF InitPlaced, Coboundary, Split
<1>7. CountersPlaced'
  BY Zenon, <1>1, <1>2, <1>3, <1>4 DEF CountersPlaced, Split
<1>8. PassInv'
  BY Zenon, <1>1, <1>3, <1>4, <1>6, <1>7 DEF PassInv, Early, Pushed
<1>9. WalkInv'
  BY Zenon, <1>1 DEF WalkInv, walkVars
<1>10. QED
  BY Zenon, <1>5, <1>8, <1>9

(* The counters move up across a block with one successor.                 *)
LEMMA CountersPushInv ==
  ASSUME TypeOK, PassInv, WalkInv, NEW e \in pending, pushCountersFromEdge(e)
  PROVE  TypeOK' /\ PassInv' /\ WalkInv'
<1> DEFINE u == dag.src[e]
           from == Preds(u) \ Split
<1>0. /\ dag.weight \in [dag.Edge -> Nat] /\ dag.src \in [dag.Edge -> dag.Node]
      /\ dag.tgt \in [dag.Edge -> dag.Node] /\ dag.type \in [dag.Edge -> EdgeTypes]
      /\ increment \in [dag.Edge -> Int] /\ pot \in [dag.Node -> Int]
      /\ e \in dag.Edge \ Split /\ dag.root \in dag.Node /\ dag.exit \in dag.Node
      /\ isCounterIncrement \in [dag.Edge -> BOOLEAN]
      /\ DagOK(dag)
  BY Zenon DEF TypeOK, DagOK
<1>1. /\ UNCHANGED <<pc, dag, color, dfsStack, treeEdges, frames,
                     isInitialization, linked, above, walkVars>>
      /\ pc = "pushCounters" /\ linked = dag.Edge
      /\ InitPlaced /\ CountersPlaced /\ Coboundary /\ isCounterIncrement[e]
      /\ pot[dag.root] = 0 /\ pot[dag.exit] = 0 /\ dag.root \in above
  BY Zenon DEF pushCountersFromEdge, countersStop, moveIncrement, PassInv, Early, Pushed, TypeOK
<1>2. CASE Several(Succs(u)) \/ u = dag.root \/ isInitialization[e]
  <2>1. e # dag.exitRoot
    <3>1. e = dag.exitRoot => u = dag.exit /\ \A f \in dag.Edge : dag.src[f] = u => f = e
      BY SMTT(30), <1>0 DEF DagOK
    <3>2. dag.root # dag.exit
      BY Zenon, <1>0 DEF DagOK
    <3>3. ~isInitialization[dag.exitRoot]
      <4>1. dag.tgt[dag.exitRoot] = dag.root /\ dag.exitRoot \in dag.Edge
        BY Zenon, <1>0 DEF DagOK
      <4>2. QED
        BY Zenon, <1>1, <4>1 DEF InitPlaced
    <3>4. QED
      BY SMTT(30), <1>1, <1>2, <3>1, <3>2, <3>3 DEF Several, Succs
  <2>2. /\ pending' = pending \ {e}
        /\ UNCHANGED <<increment, isCounterIncrement, below, pot>>
    BY Zenon, <1>2 DEF pushCountersFromEdge, countersStop, moveIncrement
  <2>3. QED
    BY Zenon, <1>1, <2>1, <2>2, StopInv
<1>3. CASE ~(Several(Succs(u)) \/ u = dag.root \/ isInitialization[e])
  <2>1. /\ increment' = [f \in dag.Edge |->
             IF f = e THEN 0 ELSE IF f \in from THEN increment[f] + increment[e]
             ELSE increment[f]]
        /\ isCounterIncrement' = [f \in dag.Edge |->
             f # e /\ (f \in from \/ isCounterIncrement[f])]
        /\ pending' = (pending \ {e}) \cup from
        /\ below' = below \cup {u}
        /\ pot' = [pot EXCEPT ![u] = @ - increment[e]]
    BY Zenon, <1>3 DEF pushCountersFromEdge, countersStop, moveIncrement
  <2>2. \A f \in dag.Edge : dag.src[f] = u => f = e
    BY Zenon, <1>0, <1>1, <1>3 DEF Several, Succs
  <2>3. \A f \in dag.Edge : f \in from <=> dag.tgt[f] = u /\ f \notin Split
    BY Zenon, <1>1 DEF Preds
  <2>4. u \in dag.Node /\ u \notin below /\ u # dag.root /\ dag.tgt[e] # u
    <3>1. u \notin below
      BY Zenon, <1>0, <1>1 DEF CountersPlaced
    <3>2. dag.tgt[e] # u
      BY Zenon, <1>0, <2>2 DEF DagOK, Replaced, Phony
    <3>3. QED
      BY Zenon, <1>0, <1>3, <3>1, <3>2
  <2>5. u \notin above /\ (e = dag.exitRoot \/ dag.tgt[e] \in below)
    <3>1. e = dag.exitRoot \/ dag.tgt[e] \in below
      BY Zenon, <1>0, <1>1 DEF CountersPlaced
    <3>2. e = dag.exitRoot => u = dag.exit
      BY Zenon, <1>0 DEF DagOK
    <3>3. dag.tgt[e] \in below => dag.tgt[e] \notin above
      BY Zenon, <1>1 DEF CountersPlaced
    <3>4. QED
      BY Zenon, <1>0, <1>1, <1>3, <3>1, <3>2, <3>3 DEF InitPlaced
  <2>6. /\ \A f \in dag.Edge : f # e /\ f \in from => increment'[f] = increment[f] + increment[e]
        /\ \A f \in dag.Edge : f # e /\ f \notin from => increment'[f] = increment[f]
        /\ increment'[e] = 0 /\ increment' \in [dag.Edge -> Int]
    <3>1. /\ \A f \in dag.Edge : f # e /\ f \in from => increment'[f] = increment[f] + increment[e]
          /\ \A f \in dag.Edge : f # e /\ f \notin from => increment'[f] = increment[f]
          /\ increment'[e] = 0 /\ increment' = [f \in dag.Edge |-> increment'[f]]
      BY Zenon, <1>0, <2>1
    <3>2. increment[e] \in Int /\ \A f \in dag.Edge : increment[f] \in Int
      BY Zenon, <1>0
    <3>3. \A f \in dag.Edge : increment'[f] \in Int
      BY SMTT(30), <3>1, <3>2
    <3>4. QED
      BY Zenon, <3>1, <3>3
  <2>7. /\ pot'[u] = pot[u] - increment[e] /\ pot' \in [dag.Node -> Int]
        /\ \A n \in dag.Node : n # u => pot'[n] = pot[n]
    <3>1. pot[u] \in Int /\ increment[e] \in Int
      BY Zenon, <1>0, <2>4
    <3>2. pot[u] - increment[e] \in Int
      BY <3>1
    <3>3. QED
      BY Zenon, <1>0, <2>1, <2>4, <3>2
  <2>8. /\ ~isCounterIncrement'[e] /\ isCounterIncrement' \in [dag.Edge -> BOOLEAN]
        /\ \A f \in dag.Edge : f # e =>
             (isCounterIncrement'[f] <=> f \in from \/ isCounterIncrement[f])
    BY Zenon, <1>0, <2>1
  <2>9. Coboundary'
    <3> SUFFICES ASSUME NEW f \in dag.Edge \ Split
                 PROVE  increment'[f] = dag.weight[f] + pot'[dag.src[f]] - pot'[dag.tgt[f]]
      BY Zenon, <1>1 DEF Coboundary, Split
    <3>1. /\ increment[f] = dag.weight[f] + pot[dag.src[f]] - pot[dag.tgt[f]]
          /\ dag.weight[f] \in Int /\ dag.src[f] \in dag.Node /\ dag.tgt[f] \in dag.Node
          /\ increment[f] \in Int /\ increment[e] \in Int
          /\ pot[dag.src[f]] \in Int /\ pot[dag.tgt[f]] \in Int
      BY SMTT(30), <1>0, <1>1 DEF Coboundary
    <3>2. CASE f = e
      BY SMTT(30), <2>4, <2>6, <2>7, <3>1, <3>2
    <3>3. CASE dag.tgt[f] = u
      <4>1. f # e /\ dag.src[f] # u /\ f \in from
        BY Zenon, <2>2, <2>3, <2>4, <3>3
      <4>2. QED
        BY SMTT(30), <2>6, <2>7, <3>1, <3>3, <4>1
    <3>4. CASE f # e /\ dag.tgt[f] # u
      <4>1. dag.src[f] # u /\ f \notin from
        BY Zenon, <2>2, <2>3, <3>4
      <4>2. QED
        BY Zenon, <2>6, <2>7, <3>1, <3>4, <4>1
    <3>5. QED
      BY Zenon, <3>2, <3>3, <3>4
  <2>10. InitPlaced'
    <3>1. \A f \in dag.Edge : dag.tgt[f] \in above => increment'[f] = 0
      <4> SUFFICES ASSUME NEW f \in dag.Edge, dag.tgt[f] \in above
                   PROVE  increment'[f] = 0
        BY Zenon
      <4>1. increment[f] = 0 /\ f \notin from
        BY Zenon, <1>1, <2>3, <2>5 DEF InitPlaced
      <4>2. QED
        BY Zenon, <2>6, <4>1
    <3>2. QED
      BY Zenon, <1>1, <3>1 DEF InitPlaced, Split
  <2>11. CountersPlaced'
    <3>1. above' \cap below' = {}
      BY Zenon, <1>1, <2>1, <2>5 DEF CountersPlaced
    <3>2. ASSUME NEW f \in dag.Edge, dag.src[f] = u
          PROVE  /\ dag.src[f] # dag.root /\ f \notin Split /\ increment'[f] = 0
                 /\ ~isInitialization[f] /\ ~isCounterIncrement'[f]
                 /\ f = dag.exitRoot \/ dag.tgt[f] \in below'
                 /\ \A g \in dag.Edge : dag.src[g] = dag.src[f] => g = f
      <4>1. f = e
        BY Zenon, <2>2, <3>2
      <4>2. QED
        BY Zenon, <1>0, <1>3, <2>1, <2>2, <2>4, <2>5, <2>6, <2>8, <4>1
    <3>3. ASSUME NEW f \in dag.Edge, dag.src[f] \in below
          PROVE  /\ dag.src[f] # dag.root /\ f \notin Split /\ increment'[f] = 0
                 /\ ~isInitialization[f] /\ ~isCounterIncrement'[f]
                 /\ f = dag.exitRoot \/ dag.tgt[f] \in below'
                 /\ \A g \in dag.Edge : dag.src[g] = dag.src[f] => g = f
      <4>1. /\ dag.src[f] # dag.root /\ f \notin Split /\ increment[f] = 0
            /\ ~isInitialization[f] /\ ~isCounterIncrement[f]
            /\ f = dag.exitRoot \/ dag.tgt[f] \in below
            /\ \A g \in dag.Edge : dag.src[g] = dag.src[f] => g = f
        BY Zenon, <1>1, <3>3 DEF CountersPlaced
      <4>2. f = dag.exitRoot => dag.tgt[f] = dag.root
        BY Zenon, <1>0 DEF DagOK
      <4>3. f # e /\ dag.tgt[f] # u
        BY Zenon, <2>4, <3>3, <4>1, <4>2
      <4>4. QED
        BY Zenon, <2>1, <2>3, <2>6, <2>8, <4>1, <4>3
    <3>4. \A f \in dag.Edge : isCounterIncrement'[f] =>
            f \notin Split /\ (f = dag.exitRoot \/ dag.tgt[f] \in below')
      BY Zenon, <1>1, <2>1, <2>3, <2>8 DEF CountersPlaced
    <3>5. \A f \in dag.Edge \ Split :
            dag.tgt[f] \in below' /\ dag.src[f] \notin below' => isCounterIncrement'[f]
      BY Zenon, <1>1, <2>1, <2>3, <2>8 DEF CountersPlaced
    <3>6. QED
      <4>1. \A f \in dag.Edge : dag.src[f] \in below' =>
              /\ dag.src[f] # dag.root /\ f \notin Split /\ increment'[f] = 0
              /\ ~isInitialization[f] /\ ~isCounterIncrement'[f]
              /\ f = dag.exitRoot \/ dag.tgt[f] \in below'
              /\ \A g \in dag.Edge : dag.src[g] = dag.src[f] => g = f
        BY Zenon, <2>1, <3>2, <3>3
      <4>2. QED
        BY Zenon, <1>1, <3>1, <3>4, <3>5, <4>1 DEF CountersPlaced, Split
  <2>12. pot'[dag.root] = 0 /\ pot'[dag.exit] = 0
    <3>1. CASE u = dag.exit
      <4>1. e = dag.exitRoot
        BY Zenon, <1>0, <3>1 DEF DagOK
      <4>2. dag.tgt[e] = dag.root /\ dag.weight[e] = 0
        BY Zenon, <1>0, <4>1 DEF DagOK
      <4>3. increment[e] = dag.weight[e] + pot[u] - pot[dag.tgt[e]]
        BY Zenon, <1>0, <1>1 DEF Coboundary
      <4>4. increment[e] = 0
        BY <1>1, <3>1, <4>2, <4>3
      <4>5. QED
        BY SMTT(30), <1>0, <1>1, <2>4, <2>7, <3>1, <4>4
    <3>2. CASE u # dag.exit
      BY Zenon, <1>0, <1>1, <2>4, <2>7, <3>2
    <3>3. QED
      BY Zenon, <3>1, <3>2
  <2>13. /\ \A f \in pending' : isCounterIncrement'[f]
         /\ pending' \subseteq dag.Edge \ Split
         /\ dag.exitRoot \in pending' \/ dag.exit \in below'
    <3>1. pending \subseteq dag.Edge \ Split
      BY Zenon DEF TypeOK
    <3>2. \A f \in pending : isCounterIncrement[f]
      BY Zenon, <1>1 DEF PassInv
    <3>3. e \notin from
      BY Zenon, <1>0, <2>3, <2>4
    <3>4. from \subseteq dag.Edge \ Split
      BY Zenon, <1>1 DEF Preds
    <3>5. e = dag.exitRoot => u = dag.exit
      BY Zenon, <1>0 DEF DagOK
    <3>6. dag.exitRoot \in pending \/ dag.exit \in below
      BY Zenon, <1>1 DEF PassInv
    <3>7. pending' \subseteq dag.Edge \ Split /\ e \notin pending'
      BY Zenon, <2>1, <3>1, <3>3, <3>4
    <3>8. \A f \in pending' : isCounterIncrement'[f]
      BY Zenon, <2>1, <2>8, <3>2, <3>7
    <3>9. QED
      BY Zenon, <2>1, <3>5, <3>6, <3>7, <3>8
  <2>14. TypeOK'
    <3>1. DagOK(dag') /\ Split' = Split
      BY Zenon, <1>0, <1>1 DEF Split
    <3>2. pending' \subseteq dag'.Edge \ Split' /\ below' \subseteq dag'.Node
      BY Zenon, <1>1, <2>13, <2>1, <2>4, <3>1 DEF TypeOK
    <3>3. /\ increment' \in [dag'.Edge -> Int] /\ pot' \in [dag'.Node -> Int]
          /\ isCounterIncrement' \in [dag'.Edge -> BOOLEAN]
      BY Zenon, <1>1, <2>6, <2>7, <2>8
    <3>4. QED
      BY Zenon, <1>1, <3>1, <3>2, <3>3 DEF TypeOK, walkVars
  <2>15. PassInv'
    BY Zenon, <1>1, <2>9, <2>10, <2>11, <2>12, <2>13 DEF PassInv, Early, Pushed
  <2>16. WalkInv'
    BY Zenon, <1>1 DEF WalkInv, walkVars
  <2>17. QED
    BY Zenon, <2>14, <2>15, <2>16
<1>4. QED
  BY Zenon, <1>2, <1>3

(* Unlinking the phony edges ends the passes.                              *)
LEMMA UnlinkInv ==
  ASSUME TypeOK, PassInv, WalkInv, unlinkPhony
  PROVE  TypeOK' /\ PassInv' /\ WalkInv'
<1>1. /\ UNCHANGED <<dag, color, dfsStack, treeEdges, frames, pending, increment,
                     isInitialization, isCounterIncrement, above, below, pot, walkVars>>
      /\ pc = "pushCounters" /\ pc' = "placed" /\ pending = {}
      /\ linked' = {e \in dag.Edge : dag.type[e] \notin Phony}
  BY Zenon DEF unlinkPhony, Unlinked, TypeOK
<1>2. /\ InitPlaced /\ CountersPlaced /\ Coboundary /\ dag.root \in above
      /\ dag.exit \in below /\ pot[dag.root] = 0 /\ pot[dag.exit] = 0
  BY Zenon, <1>1 DEF PassInv, Early, Pushed
<1>3. TypeOK'
  BY Zenon, <1>1 DEF TypeOK, walkVars, Split
<1>4. InitPlaced' /\ CountersPlaced' /\ Coboundary'
  BY Zenon, <1>1, <1>2 DEF InitPlaced, CountersPlaced, Coboundary, Split
<1>5. PassInv'
  BY Zenon, <1>1, <1>2, <1>4 DEF PassInv, Early, Pushed
<1>6. at' = dag.root /\ sum' = 0 /\ count' = 0 /\ above \cap below = {}
  BY Zenon, <1>1, <1>2 DEF WalkInv, walkVars, CountersPlaced
<1>7. WalkInv'
  BY Zenon, <1>1, <1>2, <1>6 DEF WalkInv
<1>8. QED
  BY Zenon, <1>3, <1>5, <1>7

(* What no pass touches stays as the passes left it.                       *)
LEMMA PassKept ==
  ASSUME PassInv,
         UNCHANGED <<pc, dag, pending, increment, isInitialization, isCounterIncrement,
                     above, below, pot>>
  PROVE  PassInv'
<1>1. InitPlaced' <=> InitPlaced
  BY Zenon DEF InitPlaced, Split
<1>2. CountersPlaced' <=> CountersPlaced
  BY Zenon DEF CountersPlaced, Split
<1>3. Coboundary' <=> Coboundary
  BY Zenon DEF Coboundary, Split
<1>4. Untouched' <=> Untouched
  BY Zenon DEF Untouched
<1>5. QED
  BY Zenon, <1>1, <1>2, <1>3, <1>4 DEF PassInv, Early, Pushed

(* A walk keeps the relation between register, sum and potential.          *)
LEMMA TakeEdgeInv ==
  ASSUME TypeOK, PassInv, WalkInv, NEW e \in dag.Edge, takeEdge(e)
  PROVE  TypeOK' /\ PassInv' /\ WalkInv'
<1> DEFINE u == dag.src[e]
           v == dag.tgt[e]
           r == IF isInitialization[e] THEN increment[e] ELSE register + increment[e]
<1>1. /\ UNCHANGED <<pc, dag, color, dfsStack, treeEdges, frames, pending, increment,
                     isInitialization, isCounterIncrement, linked, above, below, pot>>
      /\ pc = "placed" /\ u = at /\ e \notin Split /\ e # dag.exitRoot
      /\ at' = v /\ register' = r /\ defined' = (defined \/ isInitialization[e])
      /\ sum' = sum + dag.weight[e]
      /\ count' = (IF isCounterIncrement[e] THEN count + 1 ELSE count)
      /\ logged' = (IF isCounterIncrement[e] THEN r ELSE logged)
  BY Zenon DEF takeEdge, passVars, Split, Replaced
<1>2. /\ InitPlaced /\ CountersPlaced /\ Coboundary
  BY Zenon, <1>1 DEF PassInv, Early, Pushed
<1>3. /\ u \in dag.Node /\ v \in dag.Node /\ dag.weight[e] \in Nat /\ increment[e] \in Int
      /\ pot[u] \in Int /\ pot[v] \in Int /\ register \in Int /\ sum \in Nat
      /\ count \in Nat /\ logged \in Int /\ defined \in BOOLEAN
      /\ isInitialization[e] \in BOOLEAN
  <2>1. u \in dag.Node /\ v \in dag.Node /\ dag.weight[e] \in Nat
    BY Zenon DEF TypeOK, DagOK
  <2>2. QED
    BY Zenon, <2>1 DEF TypeOK
<1>4. TypeOK'
  <2>1. defined' \in BOOLEAN
    BY Zenon, <1>1, <1>3
  <2>2. r \in Int /\ sum + dag.weight[e] \in Nat /\ count + 1 \in Nat
    BY SMTT(30), <1>3
  <2>3. QED
    BY Zenon, <1>1, <1>3, <2>1, <2>2 DEF TypeOK, Split
<1>5. PassInv' /\ sum' = sum + dag.weight[e]
  BY Zenon, <1>1, PassKept
<1>6. increment[e] = dag.weight[e] + pot[u] - pot[v]
  BY Zenon, <1>1, <1>2 DEF Coboundary
<1>7. above \cap below = {}
  BY Zenon, <1>2 DEF CountersPlaced
<1>8. /\ u \in above => sum = pot[u] /\ count = 0
      /\ u \notin above => defined
      /\ u \notin above \cup below => register = sum - pot[u] /\ count = 0
      /\ u \in below => logged = sum - pot[u] /\ count = 1
  BY Zenon, <1>1 DEF WalkInv
<1>9. /\ v \in above => increment[e] = 0 /\ u \in above
      /\ isInitialization[e] => u \in above
      /\ u \in above /\ v \notin above => isInitialization[e]
  BY Zenon, <1>1, <1>2 DEF InitPlaced
<1>10. /\ u \in below => /\ increment[e] = 0 /\ ~isInitialization[e]
                         /\ ~isCounterIncrement[e] /\ v \in below
       /\ isCounterIncrement[e] => v \in below
       /\ v \in below /\ u \notin below => isCounterIncrement[e]
  BY Zenon, <1>1, <1>2 DEF CountersPlaced
<1>11. /\ v \in above => sum' = pot[v] /\ count' = 0
       /\ v \notin above \cup below => register' = sum' - pot[v] /\ count' = 0
       /\ v \in below => logged' = sum' - pot[v] /\ count' = 1
  <2>1. CASE u \in above /\ v \in above
    <3>1. v \notin below /\ count' = count
      BY Zenon, <1>1, <1>7, <1>10, <2>1
    <3>2. sum = pot[u] /\ count = 0 /\ increment[e] = 0
      BY Zenon, <1>8, <1>9, <2>1
    <3>3. sum' = pot[v]
      BY SMTT(30), <1>3, <1>5, <1>6, <3>2
    <3>4. QED
      BY Zenon, <2>1, <3>1, <3>2, <3>3
  <2>2. CASE u \in above /\ v \notin above
    <3>1. r = sum' - pot[v] /\ u \notin below /\ count = 0
      <4>1. isInitialization[e] /\ sum = pot[u] /\ u \notin below /\ count = 0
        BY Zenon, <1>7, <1>8, <1>9, <2>2
      <4>2. QED
        BY SMTT(30), <1>3, <1>5, <1>6, <4>1
    <3>2. CASE v \in below
      <4>1. isCounterIncrement[e]
        BY Zenon, <1>10, <3>1, <3>2
      <4>2. logged' = r /\ count' = count + 1
        BY Zenon, <1>1, <4>1
      <4>3. QED
        BY SMTT(30), <2>2, <3>1, <3>2, <4>2
    <3>3. CASE v \notin below
      <4>1. ~isCounterIncrement[e]
        BY Zenon, <1>10, <3>3
      <4>2. register' = r /\ count' = count
        BY Zenon, <1>1, <4>1
      <4>3. QED
        BY Zenon, <2>2, <3>1, <3>3, <4>2
    <3>4. QED
      BY Zenon, <3>2, <3>3
  <2>3. CASE u \notin above \cup below
    <3>1. r = sum' - pot[v] /\ v \notin above /\ count = 0
      <4>1. /\ ~isInitialization[e] /\ v \notin above /\ count = 0
            /\ register = sum - pot[u]
        BY Zenon, <1>8, <1>9, <2>3
      <4>2. QED
        BY SMTT(30), <1>3, <1>5, <1>6, <4>1
    <3>2. CASE v \in below
      <4>1. isCounterIncrement[e]
        BY Zenon, <1>10, <2>3, <3>2
      <4>2. logged' = r /\ count' = count + 1
        BY Zenon, <1>1, <4>1
      <4>3. QED
        BY <3>1, <3>2, <4>2
    <3>3. CASE v \notin below
      <4>1. ~isCounterIncrement[e]
        BY Zenon, <1>10, <3>3
      <4>2. register' = r /\ count' = count
        BY Zenon, <1>1, <4>1
      <4>3. QED
        BY Zenon, <3>1, <3>3, <4>2
    <3>4. QED
      BY Zenon, <3>2, <3>3
  <2>4. CASE u \in below
    <3>1. v \in below /\ v \notin above /\ count' = count /\ logged' = logged
      BY Zenon, <1>1, <1>7, <1>10, <2>4
    <3>2. sum' = sum + pot[v] - pot[u]
      <4>1. increment[e] = 0
        BY Zenon, <1>10, <2>4
      <4>2. QED
        BY SMTT(30), <1>3, <1>5, <1>6, <4>1
    <3>3. QED
      <4>1. logged = sum - pot[u] /\ count = 1
        BY Zenon, <1>8, <2>4
      <4>2. logged' = sum' - pot[v]
        BY SMTT(30), <1>3, <3>1, <3>2, <4>1
      <4>3. QED
        BY Zenon, <1>7, <2>4, <3>1, <4>1, <4>2
  <2>5. QED
    BY Zenon, <2>1, <2>2, <2>3, <2>4
<1>12. v \notin above => defined'
  BY Zenon, <1>1, <1>8, <1>9
<1>13. WalkInv'
  BY Zenon, <1>1, <1>11, <1>12 DEF WalkInv
<1>14. QED
  BY Zenon, <1>4, <1>5, <1>13

(* The next walk starts afresh.                                            *)
LEMMA NextPathInv ==
  ASSUME TypeOK, PassInv, WalkInv, nextPath
  PROVE  TypeOK' /\ PassInv' /\ WalkInv'
<1>1. /\ UNCHANGED <<pc, dag, color, dfsStack, treeEdges, frames, pending, increment,
                     isInitialization, isCounterIncrement, linked, above, below, pot>>
      /\ pc = "placed" /\ at' = dag.root /\ register' = 0 /\ defined' = FALSE
      /\ sum' = 0 /\ count' = 0 /\ logged' = 0
  BY Zenon DEF nextPath, passVars
<1>2. /\ dag.root \in above /\ CountersPlaced /\ pot[dag.root] = 0
  BY Zenon, <1>1 DEF PassInv, Pushed
<1>3. TypeOK'
  <2>1. dag.root \in dag.Node
    BY Zenon DEF TypeOK, DagOK
  <2>2. defined' \in BOOLEAN
    BY Zenon, <1>1
  <2>3. register' \in Int /\ logged' \in Int /\ sum' \in Nat /\ count' \in Nat
    BY <1>1
  <2>4. at' \in dag.Node
    BY Zenon, <1>1, <2>1
  <2>5. QED
    BY Zenon, <1>1, <2>2, <2>3, <2>4 DEF TypeOK, Split
<1>4. PassInv'
  BY Zenon, <1>1, PassKept
<1>5. WalkInv'
  BY Zenon, <1>1, <1>2 DEF WalkInv, CountersPlaced
<1>6. QED
  BY Zenon, <1>3, <1>4, <1>5

(* A step keeps the invariants of the passes and of the walks.             *)
LEMMA StepInv ==
  ASSUME TypeOK, PassInv, WalkInv, [Next]_vars
  PROVE  (TypeOK /\ PassInv /\ WalkInv)'
<1>1. CASE UNCHANGED vars
  <2>1. TypeOK'
    BY Zenon, <1>1 DEF vars, passVars, walkVars, TypeOK, Split
  <2>2. PassInv'
    BY Zenon, <1>1, PassKept DEF vars, passVars
  <2>3. WalkInv'
    BY Zenon, <1>1 DEF vars, passVars, walkVars, WalkInv
  <2>4. QED
    BY Zenon, <2>1, <2>2, <2>3
<1>2. CASE Pass
  BY Zenon, <1>2, SpanningStepInv, ChordStartInv, ChordDfsInv, AddWeightsInv,
     InitStartInv,
     InitPushInv, CountersStartInv, CountersPushInv, UnlinkInv DEF Pass
<1>3. CASE Walk
  BY Zenon, <1>3, TakeEdgeInv, NextPathInv DEF Walk
<1>4. QED
  BY Zenon, <1>1, <1>2, <1>3 DEF Next

(* They hold together, always.                                             *)
LEMMA Invariance == Spec => [](TypeOK /\ PassInv /\ WalkInv)
<1>1. TypeOK /\ PassInv /\ WalkInv /\ [Next]_vars => (TypeOK /\ PassInv /\ WalkInv)'
  BY Zenon, StepInv
<1>2. QED
  BY <1>1, InitInv, PTL DEF Spec

(* The passes keep the types of what they compute; in particular the       *)
(* spanning tree of calculateSpanningTree stays empty on every DAG.        *)
THEOREM IncrementsTypeCorrect == Spec => []TypeOK
  BY Invariance, PTL

(* On every DAG, with every numbering of its paths: pushInitialization and *)
(* pushCounters keep the number that each path logs, and each path logs    *)
(* once.                                                                   *)
THEOREM NumbersKept == Spec => []PathNumberLogged
<1>1. TypeOK /\ PassInv /\ WalkInv => PathNumberLogged
  <2> SUFFICES ASSUME TypeOK, PassInv, WalkInv, pc = "placed", at = dag.exit
               PROVE  count = 1 /\ logged = sum
    BY Zenon DEF PathNumberLogged
  <2>1. dag.exit \in below /\ pot[dag.exit] = 0
    BY Zenon DEF PassInv
  <2>2. logged = sum - pot[at] /\ count = 1
    BY Zenon, <2>1 DEF WalkInv
  <2>3. QED
    BY SMTT(30), <2>1, <2>2 DEF TypeOK
<1>2. QED
  BY <1>1, Invariance, PTL

(* No path uses the register before its initialization, on any DAG.        *)
THEOREM RegisterAlwaysReady == Spec => []RegisterReady
<1>1. TypeOK /\ PassInv /\ WalkInv => RegisterReady
  <2> SUFFICES ASSUME TypeOK, PassInv, WalkInv, pc = "placed", ~defined,
                      NEW e \in dag.Edge, dag.src[e] = at,
                      dag.type[e] \notin Replaced, e # dag.exitRoot,
                      ~isInitialization[e]
               PROVE  increment[e] = 0 /\ ~isCounterIncrement[e]
    BY Zenon DEF RegisterReady
  <2>1. at \in above
    BY Zenon DEF WalkInv
  <2>2. InitPlaced /\ CountersPlaced
    BY Zenon DEF PassInv, Pushed
  <2>3. e \notin Split
    BY Zenon DEF Split, Replaced
  <2>4. dag.tgt[e] \in above /\ increment[e] = 0
    BY Zenon, <2>1, <2>2, <2>3 DEF InitPlaced
  <2>5. ~isCounterIncrement[e]
    BY Zenon, <2>2, <2>4 DEF CountersPlaced
  <2>6. QED
    BY Zenon, <2>4, <2>5
<1>2. QED
  BY <1>1, Invariance, PTL

(* The marks of the phony edges when the passes have ended.                *)
LEMMA PhonyMarks ==
  ASSUME TypeOK, PassInv
  PROVE  PhonyEdgesMarked
<1> SUFFICES ASSUME TypeOK, PassInv, pc = "placed",
                    NEW e \in dag.Edge, dag.type[e] \in Replaced
             PROVE  isInitialization[dag.top[e]] /\ isCounterIncrement[dag.bottom[e]]
  BY Zenon DEF PhonyEdgesMarked
<1> DEFINE t == dag.top[e]
           b == dag.bottom[e]
<1>1. /\ t \in dag.Edge /\ t # e /\ dag.src[t] = dag.root /\ dag.tgt[t] = dag.tgt[e]
      /\ b \in dag.Edge /\ b # e /\ dag.src[b] = dag.src[e] /\ dag.tgt[b] = dag.exit
  BY Zenon DEF TypeOK, DagOK
<1>2. t \notin Split /\ b \notin Split
  BY Zenon DEF TypeOK, DagOK, Split, Phony
<1>3. /\ InitPlaced /\ CountersPlaced /\ dag.root \in above /\ dag.exit \in below
  BY Zenon DEF PassInv, Pushed
<1>4. dag.tgt[t] \notin above
  BY Zenon, <1>1, <1>3 DEF InitPlaced
<1>5. dag.src[b] \notin below
  BY Zenon, <1>1, <1>3 DEF CountersPlaced
<1>6. isInitialization[t]
  BY Zenon, <1>1, <1>2, <1>3, <1>4 DEF InitPlaced
<1>7. isCounterIncrement[b]
  BY Zenon, <1>1, <1>2, <1>3, <1>5 DEF CountersPlaced
<1>8. QED
  BY Zenon, <1>6, <1>7

(* The assertions of insertInstrumentationStartingAt on the phony edges    *)
(* hold on every DAG: the initialization never passes the target of a top  *)
(* phony edge, nor the counter the source of a bottom one, since the edge  *)
(* they replace also ends, or starts, there.                               *)
THEOREM PhonyAssertionsHold == Spec => []PhonyEdgesMarked
  BY PhonyMarks, Invariance, PTL
------------------------------------------------------------------------------
(* What the passes moved lies across the blocks they passed, and never on  *)
(* a split edge.                                                           *)
BareInv ==
  /\ dag \in Dags
  /\ \A n \in dag.Node \ (above \cup below) : pot[n] = 0
  /\ \A e \in Split : increment[e] = 0

(* No step of a pass breaks this.                                          *)
LEMMA BareStep ==
  ASSUME TypeOK, PassInv, BareInv, [Next]_vars
  PROVE  BareInv'
<1>1. CASE UNCHANGED <<dag, above, below, pot, increment>>
  BY Zenon, <1>1 DEF BareInv, Split
<1>2. CASE \E fr \in frames : calculateChordIncrementsDfs(fr)
  <2>1. UNCHANGED <<dag, above, below, pot>>
    BY Zenon, <1>2 DEF calculateChordIncrementsDfs
  <2>2. \A e \in Split : increment'[e] = increment[e]
    BY Zenon, <1>2 DEF calculateChordIncrementsDfs, chordEdges, Split
  <2>3. QED
    BY Zenon, <2>1, <2>2 DEF BareInv, Split
<1>3. CASE addWeights
  <2>1. UNCHANGED <<dag, above, below, pot>>
    BY Zenon, <1>3 DEF addWeights
  <2>2. \A e \in Split : increment'[e] = increment[e]
    BY Zenon, <1>3 DEF addWeights, chordEdges, Split
  <2>3. QED
    BY Zenon, <2>1, <2>2 DEF BareInv, Split
<1>4. ASSUME NEW e \in pending, pushInitializationFromEdge(e),
             ~initializationStops(dag.tgt[e])
      PROVE  BareInv'
  <2>1. /\ UNCHANGED <<dag, below>> /\ above' = above \cup {dag.tgt[e]}
        /\ pot' = [pot EXCEPT ![dag.tgt[e]] = @ + increment[e]]
        /\ increment' = moveIncrement(e, initializationInto(dag.tgt[e]))
    BY Zenon, <1>4 DEF pushInitializationFromEdge
  <2>2. \A n \in dag.Node \ (above' \cup below') : pot'[n] = pot[n]
    BY Zenon, <2>1 DEF TypeOK
  <2>3. \A f \in Split : f # e /\ f \notin initializationInto(dag.tgt[e])
    BY Zenon DEF TypeOK, initializationInto
  <2>4. \A f \in Split : increment'[f] = increment[f]
    BY Zenon, <2>1, <2>3 DEF moveIncrement, Split
  <2>5. QED
    BY Zenon, <2>1, <2>2, <2>4 DEF BareInv, Split
<1>5. ASSUME NEW e \in pending, pushCountersFromEdge(e), ~countersStop(e)
      PROVE  BareInv'
  <2> DEFINE from == Preds(dag.src[e]) \ Split
  <2>1. /\ UNCHANGED <<dag, above>> /\ below' = below \cup {dag.src[e]}
        /\ pot' = [pot EXCEPT ![dag.src[e]] = @ - increment[e]]
        /\ increment' = moveIncrement(e, from)
    BY Zenon, <1>5 DEF pushCountersFromEdge
  <2>2. \A n \in dag.Node \ (above' \cup below') : pot'[n] = pot[n]
    BY Zenon, <2>1 DEF TypeOK
  <2>3. \A f \in Split : f # e /\ f \notin from
    BY Zenon DEF TypeOK
  <2>4. \A f \in Split : increment'[f] = increment[f]
    BY Zenon, <2>1, <2>3 DEF moveIncrement, Split
  <2>5. QED
    BY Zenon, <2>1, <2>2, <2>4 DEF BareInv, Split
<1>6. QED
  BY Zenon, <1>1, <1>2, <1>3, <1>4, <1>5 DEF Next, Pass, Walk, vars, passVars,
     spanningStep, calculateChordIncrements, pushInitialization,
     pushInitializationFromEdge, pushCounters, pushCountersFromEdge, unlinkPhony,
     takeEdge, nextPath

(* It leaves nothing on the edges that are replaced.                       *)
LEMMA ReplacedBare ==
  ASSUME TypeOK, PassInv, BareInv
  PROVE  ReplacedEdgesBare
<1> SUFFICES ASSUME TypeOK, PassInv, BareInv, pc = "placed",
                    NEW e \in dag.Edge, dag.type[e] \in Replaced
             PROVE  increment[e] = 0 /\ ~isInitialization[e] /\ ~isCounterIncrement[e]
  BY Zenon DEF ReplacedEdgesBare
<1>1. InitPlaced /\ CountersPlaced /\ Coboundary
  BY Zenon DEF PassInv, Pushed, Early
<1>2. CASE e \in Split
  BY Zenon, <1>1, <1>2 DEF BareInv, InitPlaced, CountersPlaced
<1>3. CASE e \notin Split
  <2> DEFINE v == dag.src[e]
             w == dag.tgt[e]
  <2>1. dag.type[e] = "BACKEDGE" /\ e # dag.exitRoot
    <3>1. dag.type[e] = "BACKEDGE"
      BY Zenon, <1>3 DEF Split, Replaced
    <3>2. dag.type[dag.exitRoot] = "NORMAL"
      BY Zenon DEF TypeOK, DagOK
    <3>3. QED
      BY Zenon, <3>1, <3>2
  <2>2. /\ v \in dag.Node /\ w \in dag.Node
        /\ \E f \in dag.Edge : f # e /\ dag.tgt[f] = w
        /\ \E f \in dag.Edge : f # e /\ dag.src[f] = v
    BY ZenonT(30) DEF TypeOK, DagOK
  <2>3. w \notin above /\ v \notin below
    BY Zenon, <2>2, <1>1 DEF InitPlaced, CountersPlaced
  <2>4. /\ dag.weight[e] = 0
        /\ \A A \in SUBSET dag.Node :
             /\ v \in A
             /\ \A f \in dag.Edge \ {dag.exitRoot} : dag.tgt[f] \in A => dag.src[f] \in A
             => w \in A
    BY Zenon, <2>1, BackEdgesOK DEF BareInv
  <2>5. v \notin above
    <3>1. above \in SUBSET dag.Node
      BY Zenon DEF TypeOK
    <3>2. \A f \in dag.Edge \ {dag.exitRoot} : dag.tgt[f] \in above => dag.src[f] \in above
      BY Zenon, <1>1 DEF InitPlaced
    <3>3. QED
      BY Zenon, <3>1, <3>2, <2>3, <2>4
  <2>6. w \notin below
    <3> DEFINE A == dag.Node \ below
    <3>1. A \in SUBSET dag.Node /\ v \in A
      BY Zenon, <2>2, <2>3
    <3>2. \A f \in dag.Edge \ {dag.exitRoot} : dag.tgt[f] \in A => dag.src[f] \in A
      BY Zenon, <1>1 DEF CountersPlaced, TypeOK, DagOK
    <3>3. w \in A
      BY Zenon, <3>1, <3>2, <2>4
    <3>4. QED
      BY Zenon, <3>3
  <2>7. ~isInitialization[e] /\ ~isCounterIncrement[e]
    BY Zenon, <1>1, <2>1, <2>5, <2>6 DEF InitPlaced, CountersPlaced
  <2>8. pot[v] = 0 /\ pot[w] = 0
    BY Zenon, <2>2, <2>3, <2>5, <2>6 DEF BareInv
  <2>9. increment[e] = 0
    <3>1. increment[e] = dag.weight[e] + pot[v] - pot[w]
      BY Zenon, <1>1, <1>3 DEF Coboundary
    <3>2. QED
      BY SMTT(30), <3>1, <2>4, <2>8
  <2>10. QED
    BY Zenon, <2>7, <2>9
<1>4. QED
  BY Zenon, <1>2, <1>3

(* On every DAG nothing is left on the edges that phony edges replace: the *)
(* initialization would have to pass the target of a back edge to get to   *)
(* its source, and the target has another predecessor, the top phony edge; *)
(* the counters likewise.                                                  *)
THEOREM BackEdgesBare == Spec => []ReplacedEdgesBare
<1>1. Init => BareInv
  BY Zenon DEF Init, BareInv, Split
<1>2. TypeOK /\ PassInv /\ BareInv => ReplacedEdgesBare
  BY Zenon, ReplacedBare
<1>3. TypeOK /\ PassInv /\ BareInv /\ [Next]_vars => BareInv'
  BY Zenon, BareStep
<1>4. QED
  BY <1>1, <1>2, <1>3, Invariance, PTL DEF Spec
==============================================================================
