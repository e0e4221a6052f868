------------------------------- MODULE MCVms -------------------------------
(* Instances of Vms. *)
EXTENDS Vms, TLC

CONSTANTS t1, t2

\* One tenant may have one VM, so that a second one is an overshoot; the
\* other tenant has its quota used up from the start.
OneAndNone == t1 :> 1 @@ t2 :> 0

\* A redelivered task needs one id more than there are rows.
MCPids == 1..3

IdsThreads == Permutations(Ids) \cup Permutations(Threads)
=============================================================================
