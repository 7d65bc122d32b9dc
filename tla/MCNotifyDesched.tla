--------------------------- MODULE MCNotifyDesched ---------------------------
(* notify_desched.c with a few writes.                                     *)
EXTENDS NotifyDesched
==============================================================================
