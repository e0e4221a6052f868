------------------------------ MODULE MCSizes ------------------------------
(* Instances of Sizes. *)
EXTENDS Sizes, TLC

ThreadsRows == Permutations(Threads) \cup Permutations(Rows)
=============================================================================
