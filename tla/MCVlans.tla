------------------------------- MODULE MCVlans -------------------------------
(* Instances of Vlans. *)
EXTENDS Vlans, TLC

CONSTANTS t1, t2, p1, p2, s1, s2, s3, s4, o1, o2

\* Two tenants of two pods, of whom the first one's firewall is the default
\* VM, two additional networks and two tags, which are the ids of a default
\* network and of an additional one.
TwoPodsOf == t1 :> p1 @@ t2 :> p2
TwoDefaultNets == t1 :> 1 @@ t2 :> 2
TwoDefaultSubnets == t1 :> s1 @@ t2 :> s2
TwoOpnVmsOf == t1 :> o1 @@ t2 :> o2
TwoNetIds == 1..4
TwoTags == {1, 3}
SubnetSymmetry == Permutations({s3, s4})
=============================================================================
