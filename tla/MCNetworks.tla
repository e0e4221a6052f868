----------------------------- MODULE MCNetworks -----------------------------
(* Instances of Networks.  VLAN tags and network ids are both small numbers *)
(* on purpose: in production ids pass the smallest tag, 10, after a few     *)
(* networks, and the worker confuses the two.                               *)
EXTENDS Networks, TLC

CONSTANTS t1, p1, s1, s2, s3, s4, o1

\* One tenant with two additional networks; tag 1 is its default network's
\* id and tag 2 that of its first additional network.  There is one /24 more
\* than they need, so that a third creation runs out of tags.
OnePodOf == t1 :> p1
OneDefaultNet == t1 :> 1
OneDefaultSubnet == t1 :> s1
OneOpnVmOf == t1 :> o1
OneNetIds == 1..3
OneTags == {1, 2}

RowSymmetry == Permutations(Workers) \cup Permutations(Overflow)
=============================================================================
