----------------------------- MODULE BallLarusDag -----------------------------
(***************************************************************************)
(* The Ball-Larus DAG of a function, as LLVM's BallLarusDag builds it for  *)
(* PathLogging.cpp: a depth-first search turns the control-flow graph into *)
(* a DAG, every edge of the DAG gets a weight such that the weights along  *)
(* a path add up to the number of the path, and a block with too many      *)
(* paths is cut off from its successors.  LLVM is not part of this         *)
(* repository; the definitions follow what the pass relies on.             *)
(*                                                                         *)
(* A control-flow graph is the sequence of its blocks' successor lists;    *)
(* block 1 is the entry, an empty list ends in a return.  Edges are        *)
(* numbered in the order of their creation, which is also their order in   *)
(* the successor and predecessor lists.                                    *)
(***************************************************************************)
EXTENDS Naturals, FiniteSets, SequencesExt

Root == 1
Exit == 0

Edge(u, v, type, top, bottom) ==
  [src |-> u, tgt |-> v, type |-> type, top |-> top, bottom |-> bottom]

(* addBackedge: the phony edges of v->w are ENTRY->w and v->EXIT.          *)
addBackedge(edges, u, v) ==
  LET k == Len(edges) IN
  edges \o << Edge(u, v, "BACKEDGE", k + 2, k + 3),
              Edge(Root, v, "BACKEDGE_PHONY", 0, 0),
              Edge(u, Exit, "BACKEDGE_PHONY", 0, 0) >>

buildEdge(st, u, v) ==
  IF st.color[v] = "gray" THEN [st EXCEPT !.edges = addBackedge(@, u, v)]
  ELSE [st EXCEPT !.edges = Append(@, Edge(u, v, "NORMAL", 0, 0)),
                  !.stack = IF st.color[v] = "white" THEN Append(@, v) ELSE @]

(* The search; finished is the order in which blocks turn black.           *)
RECURSIVE buildNodes(_, _)
buildNodes(cfg, st) ==
  IF st.stack = <<>> THEN st
  ELSE LET u == Last(st.stack) IN
    IF st.color[u] # "white"
    THEN buildNodes(cfg, [st EXCEPT !.stack = Front(@), !.color[u] = "black",
           !.finished = IF st.color[u] = "gray" THEN Append(@, u) ELSE @])
    ELSE LET gray == [st EXCEPT !.color[u] = "gray",
                        !.edges = IF cfg[u] = <<>>
                                  THEN Append(@, Edge(u, Exit, "NORMAL", 0, 0))
                                  ELSE @] IN
         buildNodes(cfg, FoldLeft(LAMBDA s, v : buildEdge(s, u, v), gray, cfg[u]))

init(cfg) ==
  LET st == buildNodes(cfg, [edges |-> <<>>, stack |-> <<Root>>, finished |-> <<>>,
                             color |-> [b \in DOMAIN cfg |-> "white"]]) IN
  [st EXCEPT !.edges = Append(@, Edge(Exit, Root, "NORMAL", 0, 0))]

(* The edges out of u with one of the types, and those that paths follow.  *)
Out(edges, u, types) ==
  SelectSeq([k \in DOMAIN edges |-> k],
            LAMBDA k : edges[k].src = u /\ edges[k].type \in types)

Followed(edges, u) ==
  Out(edges, u, {"NORMAL", "BACKEDGE_PHONY", "SPLITEDGE_PHONY"})

PathsFrom(edges, paths, u) ==
  FoldLeft(LAMBDA n, k : n + paths[edges[k].tgt], 0, Followed(edges, u))

(* Paths end at u and new ones start at each of its successors.            *)
split(edges, u) ==
  LET real == Out(edges, u, {"NORMAL"})
      e0 == Len(edges) + 1
      cut == [k \in DOMAIN edges |->
        IF \E i \in DOMAIN real : real[i] = k
        THEN [edges[k] EXCEPT !.type = "SPLITEDGE", !.bottom = e0,
                              !.top = e0 + (CHOOSE i \in DOMAIN real : real[i] = k)]
        ELSE edges[k]] IN
  Append(cut, Edge(u, Exit, "SPLITEDGE_PHONY", 0, 0))
    \o [i \in DOMAIN real |-> Edge(Root, edges[real[i]].tgt, "SPLITEDGE_PHONY", 0, 0)]

(* calculatePathNumbers, with the limit on the paths of a block.           *)
numberNode(acc, u, limit) ==
  LET edges == IF u # Root /\ PathsFrom(acc.edges, acc.paths, u) > limit
               THEN split(acc.edges, u) ELSE acc.edges IN
  [edges |-> edges, paths |-> [acc.paths EXCEPT ![u] = PathsFrom(edges, acc.paths, u)]]

weightOf(edges, paths, e) ==
  IF edges[e].type \in {"BACKEDGE", "SPLITEDGE"} \/ edges[e].src = Exit THEN 0
  ELSE FoldLeft(LAMBDA n, k : IF k < e THEN n + paths[edges[k].tgt] ELSE n, 0,
                Followed(edges, edges[e].src))

Dag(cfg, limit) ==
  LET st == init(cfg)
      acc == FoldLeft(LAMBDA a, u : numberNode(a, u, limit),
                      [edges |-> st.edges,
                       paths |-> [b \in 0 .. Len(cfg) |-> IF b = Exit THEN 1 ELSE 0]],
                      st.finished)
      field(f) == [e \in DOMAIN acc.edges |-> acc.edges[e][f]] IN
  [Node |-> {Exit} \cup ToSet(st.finished), Edge |-> DOMAIN acc.edges,
   root |-> Root, exit |-> Exit,
   exitRoot |-> CHOOSE e \in DOMAIN acc.edges : acc.edges[e].src = Exit,
   src |-> field("src"), tgt |-> field("tgt"), type |-> field("type"),
   top |-> field("top"), bottom |-> field("bottom"),
   weight |-> [e \in DOMAIN acc.edges |-> weightOf(acc.edges, acc.paths, e)],
   paths |-> acc.paths[Root]]

(* What a reader of the trace does with path number n: at each block the   *)
(* path took the last edge whose weight is not above what is left of n.    *)
RECURSIVE regenerate(_, _, _)
regenerate(d, u, n) ==
  IF u = d.exit THEN <<>>
  ELSE LET e == CHOOSE k \in d.Edge :
                  /\ d.src[k] = u /\ d.type[k] \notin {"BACKEDGE", "SPLITEDGE"}
                  /\ d.weight[k] <= n
                  /\ \A j \in d.Edge :
                       d.src[j] = u /\ d.type[j] \notin {"BACKEDGE", "SPLITEDGE"}
                         /\ d.weight[j] <= n => d.weight[j] <= d.weight[k] IN
       <<e>> \o regenerate(d, d.tgt[e], n - d.weight[e])
==============================================================================
