------------------------------- MODULE MCPaths -------------------------------
(* paths.c with two threads.                                               *)
EXTENDS Paths

CONSTANTS t1, t2

TwoThreads == <<t1, t2>>
PathRecs == {"paths", "thread", "main"}
==============================================================================
