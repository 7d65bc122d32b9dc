------------------------------ MODULE PathTrace ------------------------------
(***************************************************************************)
(* What path_logging.c promises to whoever reads the saved trace.  Every   *)
(* thread retires path records one at a time and the recorder saves them   *)
(* in batches.  Per thread the trace is a prefix of what the thread        *)
(* retired, in that order and without a repetition, and it lags behind by  *)
(* no more than one buffer.                                                *)
(***************************************************************************)
EXTENDS Naturals, Sequences

CONSTANTS
  Tasks,                   \* thread identities, over all processes
  Recs,                    \* path records, (fn, path) pairs
  PATH_RECORD_BUFFER_SIZE  \* the most records a thread may have unsaved

VARIABLES
  retired,  \* retired[t]: the records t passed to llvm_increment_path_count
  saved     \* saved[t]: the records of t that reached the trace

traceVars == <<retired, saved>>

TraceInit ==
  /\ retired = [t \in Tasks |-> <<>>]
  /\ saved = [t \in Tasks |-> <<>>]

(* t retires r: a thread whose lag is a whole buffer must save first.      *)
Retire(t, r) ==
  /\ Len(retired[t]) < Len(saved[t]) + PATH_RECORD_BUFFER_SIZE
  /\ retired' = [retired EXCEPT ![t] = Append(@, r)]
  /\ UNCHANGED saved

(* Everything t has retired becomes part of the trace.                     *)
Save(t) ==
  /\ saved' = [saved EXCEPT ![t] = retired[t]]
  /\ UNCHANGED retired

TraceNext == \E t \in Tasks : Save(t) \/ \E r \in Recs : Retire(t, r)

TraceSpec == TraceInit /\ [][TraceNext]_traceVars
==============================================================================
