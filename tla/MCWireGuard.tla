----------------------------- MODULE MCWireGuard -----------------------------
(* Instances of WireGuard. *)
EXTENDS WireGuard

MCHosts == 2..3
=============================================================================
