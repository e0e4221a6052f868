---------------------------- MODULE MCOnboarding ----------------------------
(* Instances of Onboarding. *)
EXTENDS Onboarding, TLC

CONSTANTS d1, d2

\* Two approvals are enough for a second approval of a tenant, for a retry
\* after an error, and for a tenant that gets a released bridge.
MCMessages == 1..2

\* Two pods: one is full after its first tenant, the other is not.
TwoPods == d1 :> 1 @@ d2 :> 2

\* One pod, with room for both approvals.
OnePod == d2 :> 2

TenantsBridgesThreads ==
    Permutations(Tenants) \cup Permutations(Bridges) \cup Permutations(Threads)
=============================================================================
