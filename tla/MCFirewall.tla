----------------------------- MODULE MCFirewall -----------------------------
(* Instances of Firewall.  A row is needed for every rule OPNsense may hold *)
(* and every rule that never reaches it, hence two more rows than ids.      *)
EXTENDS Firewall, TLC

MCRows == 1..5
MCUuids == 1..3
ValueSymmetry == Permutations(Values)
=============================================================================
