------------------------------- MODULE Leases -------------------------------
(***************************************************************************)
(* What a pool of addresses promises, whichever table keeps it: a row is   *)
(* leased to one user at a time, passes to the next only after it was      *)
(* returned, and is never lost.  Networks and WireGuard implement it.      *)
(*                                                                         *)
(* Some users break the promise for the row they hold, by a second         *)
(* deletion say.  Such a row is spoilt: it may have several users, but     *)
(* spoils no other row and is not lost either.                             *)
(***************************************************************************)
CONSTANTS Rows, Users

VARIABLES
    free,       \* the rows nobody has leased
    holders,    \* the users of each row
    spoilt      \* rows about which less is promised

leases == <<free, holders, spoilt>>

Init ==
    /\ free \subseteq Rows
    /\ holders \in [Rows -> SUBSET Users]
    /\ \A x \in Rows : IF x \in free THEN holders[x] = {} ELSE \E u \in Users : holders[x] = {u}
    /\ spoilt = {}

Lease(x, u) ==
    /\ x \in free
    /\ free' = free \ {x}
    /\ holders' = [holders EXCEPT ![x] = {u}]
    /\ UNCHANGED spoilt

Return(x) ==
    /\ x \notin free
    /\ free' = free \cup {x}
    /\ holders' = [holders EXCEPT ![x] = {}]
    /\ UNCHANGED spoilt

Spoil ==
    /\ spoilt \subseteq spoilt' /\ spoilt' \subseteq Rows
    /\ free' \subseteq Rows /\ holders' \in [Rows -> SUBSET Users]
    /\ \A x \in Rows \ spoilt' : (x \in free' <=> x \in free) /\ holders'[x] = holders[x]
    /\ \A x \in Rows \ free' : holders'[x] # {}

Next ==
    \/ \E x \in Rows \ spoilt : Return(x) \/ \E u \in Users : Lease(x, u)
    \/ Spoil

Spec == Init /\ [][Next]_leases
=============================================================================
