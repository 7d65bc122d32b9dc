--------------------------- MODULE MCPathLogFaults ---------------------------
(* PathLogFaults with three tasks: one that initialises its process, one   *)
(* that forks meanwhile, and the child.  The i-th record of a task is i:   *)
(* one that is lost, repeated or reordered shows, and one filed under      *)
(* another task makes the records of that task too many or breaks their    *)
(* order.  There are at most MaxTotal records, over all tasks.             *)
EXTENDS PathLogFaults, FiniteSetsExt, TLC

CONSTANT MaxTotal

MCRecs == 1 .. MaxRetired

Counted == \A t \in Tasks : \A i \in DOMAIN retired[t] : retired[t][i] = i

FewRecords == MapThenSumSet(LAMBDA t : Len(retired[t]), Tasks) <= MaxTotal

CountedFaultSpec ==
  FaultInit /\ [][FaultNext /\ Counted' /\ FewRecords']_faultVars

Symmetry ==
  Permutations(Tasks \ {MainTask}) \cup Permutations(Addr)
    \cup Permutations(Procs \ {MainProc})
==============================================================================
