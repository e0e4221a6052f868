-------------------------- MODULE MCWireGuardAccess --------------------------
(* Instances of WireGuardAccess. *)
EXTENDS WireGuardAccess

CONSTANTS office, office2

\* The one name starts with the other.
MCStartsWith == {<<office, office>>, <<office2, office2>>, <<office2, office>>}
=============================================================================
