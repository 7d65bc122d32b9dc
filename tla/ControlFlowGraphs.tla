--------------------------- MODULE ControlFlowGraphs ---------------------------
(* All control-flow graphs of up to MaxBlocks blocks with up to two        *)
(* successors each, and their Ball-Larus DAGs.                             *)
EXTENDS Naturals, SequencesExt

CONSTANTS
  MaxBlocks,   \* bound: basic blocks of a function
  Limits       \* limits on the paths of a block (100000000 in LLVM)

B == INSTANCE BallLarusDag

SuccLists(n) ==
  {<<>>} \cup {<<b>> : b \in 2 .. n} \cup {<<b, c>> : b \in 2 .. n, c \in 2 .. n}

(* All blocks are reachable and are named in the order of their discovery. *)
Named(cfg) ==
  LET flat == FlattenSeq(cfg)
      found(b) == CHOOSE i \in DOMAIN flat :
                    flat[i] = b /\ \A j \in 1 .. i - 1 : flat[j] # b IN
  /\ \A b \in 2 .. Len(cfg) : \E a \in 1 .. b - 1 : Contains(cfg[a], b)
  /\ \A b \in 2 .. Len(cfg) - 1 : found(b) < found(b + 1)

Cfgs == UNION {{cfg \in [1 .. n -> SuccLists(n)] : Named(cfg)} : n \in 1 .. MaxBlocks}

AllDags == {B!Dag(cfg, limit) : cfg \in Cfgs, limit \in Limits}
==============================================================================
