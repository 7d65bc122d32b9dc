------------------------------ MODULE MCPathLog ------------------------------
(* PathLog on a small instance.  The runtime copies records and never      *)
(* looks at them, so it is enough to let the i-th record of task t be      *)
(* <<t, i>>: all records differ, and one that is lost, repeated, reordered *)
(* or filed under another task shows.  The tasks other than the main one   *)
(* are interchangeable, and so are addresses.                              *)
EXTENDS PathLog, TLC

MCRecs == Tasks \X (1 .. MaxRetired)

AllDifferent == \A t \in Tasks : \A i \in DOMAIN retired[t] : retired[t][i] = <<t, i>>

DifferentSpec == Init /\ [][Next /\ AllDifferent']_vars

Symmetry ==
  Permutations(Tasks \ {MainTask}) \cup Permutations(Addr)
    \cup Permutations(Procs \ {MainProc})
==============================================================================
