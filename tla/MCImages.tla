------------------------------ MODULE MCImages ------------------------------
(* Instances of Images. *)
EXTENDS Images

\* Two ids, so that the second build may get the first one's or its own.
MCVmids == 9000..9001
=============================================================================
