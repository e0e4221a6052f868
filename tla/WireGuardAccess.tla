--------------------------- MODULE WireGuardAccess ---------------------------
(***************************************************************************)
(* What the tunnels of one tenant give access to: the list of networks of  *)
(* each tunnel, the firewall rules made from it, and the OPNsense          *)
(* interface those rules are on.  The life of a tunnel's server, /24 and   *)
(* peers is in module WireGuard; here a task is the part of it that reads  *)
(* or writes names, rules and interfaces.                                  *)
(*                                                                         *)
(* A rule is found by its description, "WireGuard <name> -> <network>",    *)
(* never by the tunnel's id, although names change and are used again.     *)
(* Networks are active throughout.  Left out: the rule that lets the       *)
(* handshake in, which has a description of its own, and rule order.       *)
(***************************************************************************)
EXTENDS Naturals, Sequences, FiniteSets

CONSTANTS
    Tunnels,        \* ids of tunnel rows, in order: bounds the tunnels ever created
    Names,          \* names of tunnels
    StartsWith,     \* pairs <<n, m>> of names where n starts with m
    Nets,           \* the tenant's active networks
    MaxUpdates,     \* bound on updates of tunnels
    MaxMishaps,     \* bound on failing calls and crashes
    None            \* the SQL NULL

ASSUME WireGuardAccessAssumption ==
    /\ Tunnels \subseteq Nat
    /\ MaxUpdates \in Nat /\ MaxMishaps \in Nat
    /\ StartsWith \subseteq Names \X Names
    /\ \A n \in Names : <<n, n>> \in StartsWith
    /\ None \notin Tunnels \cup Names

VARIABLES
    tunnel,     \* table wireguard_tunnels
    rules,      \* the tunnels' rows of opnsense_firewall_rules
    setup,      \* the provision_wireguard_tunnel message of each tunnel
    destroy,    \* the name its destroy_wireguard_tunnel task has read
    ifaces,     \* OPNsense: opt1, opt2, ... and the tunnel each belongs to
    updates,    \* updates so far
    mishaps,    \* mishaps so far
    marks       \* history: what has disturbed each tunnel

vars == <<tunnel, rules, setup, destroy, ifaces, updates, mishaps, marks>>

-----------------------------------------------------------------------------
Status == {"pending", "provisioning", "active", "error", "destroying"}
Absent(st) == [st |-> st, name |-> None, opt |-> 0, allow |-> {}]
Tunnel == {Absent("unused"), Absent("gone")}
          \cup [st : Status, name : Names, opt : Nat, allow : SUBSET Nets]

\* on: the number of its interface; of: history, the tunnel it was made for.
Rule == [name : Names, net : Nets, on : Nat, of : Tunnels,
         st : {"pending", "synced", "pending_delete"}]

\* opt: the interface chosen; allow: the networks the message carries.
SetupPc == {"none", "queued", "named", "opted", "ruled", "done"}
Setup == [pc : SetupPc, opt : Nat, allow : SUBSET Nets]

Marks == {"overlap",    \* another tunnel's task was choosing an interface as well
          "renamed",    \* its name was changed
          "stale",      \* its list was changed before its rules were inserted, or
                        \* while a rule of the list waited for its deletion
          "leftover",   \* it was created with a name that rules already carried
          "prefix",     \* a tunnel whose name its own name starts with was deleted
          "repeated"}   \* its task failed or died after adding an interface

TypeOK ==
    /\ tunnel \in [Tunnels -> Tunnel]
    /\ rules \subseteq Rule
    /\ setup \in [Tunnels -> Setup]
    /\ destroy \in [Tunnels -> Names \cup {None}]
    /\ ifaces \in Seq(Tunnels)
    /\ updates \in 0..MaxUpdates
    /\ mishaps \in 0..MaxMishaps
    /\ marks \in [Tunnels -> SUBSET Marks]

-----------------------------------------------------------------------------
Live(t) == tunnel[t].st \in Status
SetupDue(t) == setup[t].pc \notin {"none", "done"}
Unnamed == {n \in Names : \A t \in Tunnels : tunnel[t].name # n}
NoSetup(pc) == [pc |-> pc, opt |-> 0, allow |-> {}]

Mishap == mishaps < MaxMishaps /\ mishaps' = mishaps + 1
Mark(S, m) == marks' = [t \in Tunnels |-> IF t \in S THEN marks[t] \cup {m} ELSE marks[t]]

Init ==
    /\ tunnel = [t \in Tunnels |-> Absent("unused")]
    /\ rules = {}
    /\ setup = [t \in Tunnels |-> NoSetup("none")]
    /\ destroy = [t \in Tunnels |-> None]
    /\ ifaces = <<>>
    /\ updates = 0 /\ mishaps = 0
    /\ marks = [t \in Tunnels |-> {}]

-----------------------------------------------------------------------------
(* POST and PATCH /wireguard/tunnels.  The message carries the list too.   *)

CreateTunnel(t, n, A) ==
    /\ tunnel[t].st = "unused" /\ \A u \in Tunnels : u < t => tunnel[u].st # "unused"
    /\ n \in Unnamed
    /\ tunnel' = [tunnel EXCEPT ![t] = [st |-> "pending", name |-> n, opt |-> 0, allow |-> A]]
    /\ setup' = [setup EXCEPT ![t] = [pc |-> "queued", opt |-> 0, allow |-> A]]
    /\ IF \E r \in rules : r.name = n THEN Mark({t}, "leftover") ELSE UNCHANGED marks
    /\ UNCHANGED <<rules, destroy, ifaces, updates, mishaps>>

RulesOf(n, D) == {r \in rules : r.name = n /\ r.net \in D}
\* Mutant: a rule that was never brought to OPNsense stays.
WithdrawSynced(R) == {r \in rules : r \notin R \/ r.st # "synced"}
                     \cup {[r EXCEPT !.st = "pending_delete"] :
                              r \in {q \in R : q.st = "synced"}}
Withdraw(R) == (rules \ R) \cup {[r EXCEPT !.st = "pending_delete"] :
                                    r \in {q \in R : q.st = "synced"}}

\* A rule is made only where none has its description, whatever its status.
Missing(t, n, D, o) == {[name |-> n, net |-> d, on |-> o, of |-> t, st |-> "pending"] :
                           d \in {e \in D : RulesOf(n, {e}) = {}}}

\* The new name is set first, and the rules are looked for under it.  The list
\* is ignored while the tunnel has no interface.
UpdateTunnel(t, n, A) ==
    LET old == tunnel[t].allow
        asked == IF tunnel[t].opt # 0 THEN A ELSE old
        waiting == RulesOf(n, asked \ old) # {}
    IN  /\ updates < MaxUpdates     \* bound
        /\ Live(t) /\ n \in {tunnel[t].name} \cup Unnamed
        /\ <<n, asked>> # <<tunnel[t].name, old>>
        /\ updates' = updates + 1
        /\ tunnel' = [tunnel EXCEPT ![t].name = n, ![t].allow = asked]
        /\ rules' = Withdraw(RulesOf(n, old \ asked)) \cup Missing(t, n, asked \ old, tunnel[t].opt)
        /\ marks' = [marks EXCEPT ![t] = @ \cup
                        (IF n # tunnel[t].name THEN {"renamed"} ELSE {}) \cup
                        (IF asked # old /\ (SetupDue(t) \/ waiting) THEN {"stale"} ELSE {})]
        /\ UNCHANGED <<setup, destroy, ifaces, mishaps>>

\* An apply task of module Firewall brings all of them to OPNsense.
ApplyRules ==
    /\ rules' = {[r EXCEPT !.st = "synced"] : r \in {q \in rules : q.st # "pending_delete"}}
    /\ rules' # rules
    /\ UNCHANGED <<tunnel, setup, destroy, ifaces, updates, mishaps, marks>>

-----------------------------------------------------------------------------
(* provision_wireguard_tunnel_task, from the choice of the interface on.   *)

\* Mutant: the last interface's number is used again.
NextOptOverlap == IF ifaces = <<>> THEN 1 ELSE Len(ifaces)
NextOpt == Len(ifaces) + 1

\* Asks for the names of the interfaces, then for the device of the server.
SetupNames(t) ==
    /\ setup[t].pc = "queued" /\ Live(t) /\ tunnel[t].st # "active"
    /\ setup' = [setup EXCEPT ![t].pc = "named", ![t].opt = NextOpt]
    /\ tunnel' = [tunnel EXCEPT ![t].st = "provisioning"]
    /\ LET others == {u \in Tunnels \ {t} : setup[u].pc = "named"}
       IN  IF others = {} THEN UNCHANGED marks ELSE Mark(others \cup {t}, "overlap")
    /\ UNCHANGED <<rules, destroy, ifaces, updates, mishaps>>

\* An interface of that name is overwritten.
Assigned(o, t) == IF o \in DOMAIN ifaces THEN [ifaces EXCEPT ![o] = t] ELSE Append(ifaces, t)

SetupInterface(t) ==
    /\ setup[t].pc = "named" /\ Live(t)
    /\ ifaces' = Assigned(setup[t].opt, t)
    /\ tunnel' = [tunnel EXCEPT ![t].opt = setup[t].opt]
    /\ setup' = [setup EXCEPT ![t].pc = "opted"]
    /\ UNCHANGED <<rules, destroy, updates, mishaps, marks>>

\* The message's list comes before the row's.
Effective(t) == IF setup[t].allow # {} THEN setup[t].allow ELSE tunnel[t].allow

SetupRules(t) ==
    /\ setup[t].pc = "opted" /\ Live(t)
    /\ rules' = rules \cup Missing(t, tunnel[t].name, Effective(t), setup[t].opt)
    /\ setup' = [setup EXCEPT ![t].pc = "ruled"]
    /\ UNCHANGED <<tunnel, destroy, ifaces, updates, mishaps, marks>>

\* Sends the message of an apply task first.
SetupActivate(t) ==
    /\ setup[t].pc = "ruled" /\ Live(t)
    /\ tunnel' = [tunnel EXCEPT ![t].st = "active"]
    /\ setup' = [setup EXCEPT ![t] = NoSetup("done")]
    /\ UNCHANGED <<rules, destroy, ifaces, updates, mishaps, marks>>

\* The row is gone: the task ends, or fails and ends when it is tried again.
SetupEnd(t) ==
    /\ SetupDue(t) /\ (~Live(t) \/ (setup[t].pc = "queued" /\ tunnel[t].st = "active"))
    /\ setup' = [setup EXCEPT ![t] = NoSetup("done")]
    /\ UNCHANGED <<tunnel, rules, destroy, ifaces, updates, mishaps, marks>>

\* A call fails, also the one that adds the interface after it has, or the
\* worker dies; the task starts over.
SetupFail(t) ==
    /\ setup[t].pc \in {"named", "opted", "ruled"} /\ Live(t)
    /\ Mishap
    /\ \/ UNCHANGED ifaces
       \/ setup[t].pc = "named" /\ ifaces' = Assigned(setup[t].opt, t)
    /\ tunnel' = [tunnel EXCEPT ![t].st = "error"]
    /\ setup' = [setup EXCEPT ![t].pc = "queued", ![t].opt = 0]
    /\ Mark({t}, "repeated")
    /\ UNCHANGED <<rules, destroy, updates>>

-----------------------------------------------------------------------------
(* DELETE /wireguard/tunnels/{id} and destroy_wireguard_tunnel_task.       *)

\* Reads the row, and calls OPNsense before it uses the name.
DestroyRead(t) ==
    /\ Live(t) /\ destroy[t] = None
    /\ destroy' = [destroy EXCEPT ![t] = tunnel[t].name]
    /\ tunnel' = [tunnel EXCEPT ![t].st = "destroying"]
    /\ UNCHANGED <<rules, setup, ifaces, updates, mishaps, marks>>

\* Mutant: a rule that was never brought to OPNsense is not found.
AlikeSynced(n) == {r \in rules : <<r.name, n>> \in StartsWith /\ r.st = "synced"}

\* LIKE "WireGuard <name>%" finds the rules of every name that starts with it.
Alike(n) == {r \in rules : <<r.name, n>> \in StartsWith}

\* The rules wait for the next apply task; none is sent for.  The interface
\* stays.
DestroyCommit(t) ==
    /\ destroy[t] # None
    /\ rules' = Withdraw(Alike(destroy[t]))
    /\ tunnel' = [tunnel EXCEPT ![t] = Absent("gone")]
    /\ destroy' = [destroy EXCEPT ![t] = None]
    /\ Mark({u \in Tunnels \ {t} : <<tunnel[u].name, destroy[t]>> \in StartsWith}, "prefix")
    /\ UNCHANGED <<setup, ifaces, updates, mishaps>>

-----------------------------------------------------------------------------
Next ==
    \/ \E t \in Tunnels, n \in Names, A \in SUBSET Nets :
          CreateTunnel(t, n, A) \/ UpdateTunnel(t, n, A)
    \/ ApplyRules
    \/ \E t \in Tunnels :
          \/ SetupNames(t) \/ SetupInterface(t) \/ SetupRules(t) \/ SetupActivate(t)
          \/ SetupEnd(t) \/ SetupFail(t)
          \/ DestroyRead(t) \/ DestroyCommit(t)

Spec == Init /\ [][Next]_vars

-----------------------------------------------------------------------------
RulesOn(o) == {r \in rules : r.on = o /\ r.st # "pending_delete"}

\* The networks an active tunnel reaches, by the rules on its interface, are
\* those of its list, unless it was renamed, its list was changed too early,
\* its name was used before, a namesake was deleted, or its task was repeated
\* or chose its interface while another one did.
AccessAsListed ==
    \A t \in Tunnels : tunnel[t].st = "active" /\ marks[t] = {} =>
        {r.net : r \in RulesOn(tunnel[t].opt)} = tunnel[t].allow

\* The interface an active tunnel names is its own, unless two tasks chose a
\* name at once (tasks/wireguard.py:311-316).
InterfaceOfOne ==
    \A t \in Tunnels : tunnel[t].st = "active" /\ "overlap" \notin marks[t] =>
        ifaces[tunnel[t].opt] = t

\* A tunnel that is gone leaves no rule that gives access, unless it was
\* renamed (api/wireguard.py:430, tasks/wireguard.py:446).
NoRuleLeft ==
    \A r \in rules : r.st # "pending_delete" =>
        \/ Live(r.of)
        \/ "renamed" \in marks[r.of]
=============================================================================
