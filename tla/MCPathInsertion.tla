--------------------------- MODULE MCPathInsertion ---------------------------
(* The code inserted into every small control-flow graph.                  *)
EXTENDS PathInsertion, ControlFlowGraphs
==============================================================================
