--------------------------- MODULE MCPathIncrements ---------------------------
(* The passes on every small control-flow graph.                           *)
EXTENDS PathIncrements, ControlFlowGraphs
==============================================================================
