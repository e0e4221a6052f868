------------------------------ MODULE MCAccess ------------------------------
(* Instances of Access. *)
EXTENDS Access, TLC

Symmetric ==
    Permutations(People) \cup Permutations(Tenants) \cup Permutations(Invitations)
        \cup Permutations(Threads)
=============================================================================
