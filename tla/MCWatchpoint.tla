----------------------------- MODULE MCWatchpoint -----------------------------
(* watchpoint.c as it is: one process, one thread.                         *)
EXTENDS Watchpoint
==============================================================================
