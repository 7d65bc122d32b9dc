----------------------------- MODULE LossyTrace ------------------------------
(***************************************************************************)
(* What the trace of path_logging.c is worth when the write that should    *)
(* save a batch may fail, which flush_buffer does not look at.  Records    *)
(* then go missing, but only from the end of a batch: the trace still has  *)
(* records of one thread in the order that thread retired them, never one  *)
(* twice, and each hole ends where a batch ended.                          *)
(***************************************************************************)
EXTENDS Naturals, Sequences

CONSTANTS
  Tasks,                   \* thread identities, over all processes
  Recs,                    \* path records, (fn, path) pairs
  PATH_RECORD_BUFFER_SIZE  \* the largest batch

VARIABLES
  retired,  \* retired[t]: the records t passed to llvm_increment_path_count
  pending,  \* pending[t]: those not yet offered to the recorder
  trace     \* trace[t]: the records of t the recorder has

lossyVars == <<retired, pending, trace>>

LossyInit ==
  /\ retired = [t \in Tasks |-> <<>>]
  /\ pending = [t \in Tasks |-> <<>>]
  /\ trace = [t \in Tasks |-> <<>>]

Retire(t, r) ==
  /\ Len(pending[t]) < PATH_RECORD_BUFFER_SIZE
  /\ retired' = [retired EXCEPT ![t] = Append(@, r)]
  /\ pending' = [pending EXCEPT ![t] = Append(@, r)]
  /\ UNCHANGED trace

(* The batch of t is over, and the recorder has its first k records.       *)
Offer(t, k) ==
  /\ trace' = [trace EXCEPT ![t] = @ \o SubSeq(pending[t], 1, k)]
  /\ pending' = [pending EXCEPT ![t] = <<>>]
  /\ UNCHANGED retired

LossyNext ==
  \E t \in Tasks :
    \/ \E r \in Recs : Retire(t, r)
    \/ \E k \in 0 .. Len(pending[t]) : Offer(t, k)

LossySpec == LossyInit /\ [][LossyNext]_lossyVars
==============================================================================
