------------------------ MODULE WireGuardAccessProofs ------------------------
(***************************************************************************)
(* Proofs about module WireGuardAccess, for any number of tunnels, names,  *)
(* networks, updates, failures and crashes: type correctness, that the     *)
(* interface an active tunnel names is its own, that a tunnel that is gone *)
(* leaves no rule, and that an undisturbed tunnel reaches the networks of  *)
(* its list and no others.                                                 *)
(*                                                                         *)
(* IInv is about interfaces: a task that chose its name while no other one *)
(* had a name in hand holds the next free one, and nobody holds the number *)
(* of an interface that a tunnel has already.  LeftInv adds the names: the *)
(* rules of a tunnel that was never renamed carry its name, and so does a  *)
(* deletion that has read it.  ListInv adds the list: where the rules of   *)
(* an undisturbed tunnel are in each phase of its task, and that nobody    *)
(* else's rule has its name or is on its interface.                        *)
(***************************************************************************)
EXTENDS WireGuardAccess, TLAPS

\* A tunnel that was never created has no task; one that is active, or whose
\* task is past its interface, has an interface.
OptInv ==
    \A t \in Tunnels :
        /\ tunnel[t].st = "unused" => setup[t].pc = "none"
        /\ Live(t) /\ (tunnel[t].st = "active" \/ setup[t].pc \in {"opted", "ruled"}) =>
              tunnel[t].opt # 0

Chosen(u) == setup[u].pc = "named"

OwnInv ==
    \A t \in Tunnels : "overlap" \notin marks[t] =>
        /\ Chosen(t) => /\ setup[t].opt = Len(ifaces) + 1
                        /\ \A u \in Tunnels : Chosen(u) => u = t
        /\ tunnel[t].opt # 0 =>
              /\ tunnel[t].opt \in DOMAIN ifaces /\ ifaces[tunnel[t].opt] = t
              /\ \A u \in Tunnels : Chosen(u) => setup[u].opt # tunnel[t].opt

NumberInv == \A t \in Tunnels : Chosen(t) => setup[t].opt \in 1..Len(ifaces) + 1

IInv == TypeOK /\ OptInv /\ NumberInv /\ OwnInv

LEMMA InitIInv == Init => IInv
<1> SUFFICES ASSUME Init PROVE IInv
  OBVIOUS
<1> USE DEF Init, Absent, NoSetup
<1>1. TypeOK
  BY WireGuardAccessAssumption DEF TypeOK, Tunnel, Setup, SetupPc, Absent
<1>2. OptInv
  BY DEF OptInv, Live, Status
<1>3. NumberInv /\ OwnInv
  BY DEF NumberInv, OwnInv, Chosen
<1> QED
  BY <1>1, <1>2, <1>3 DEF IInv

-----------------------------------------------------------------------------
(* Type correctness.                                                       *)

LEMMA LiveFields ==
  ASSUME TypeOK, NEW t \in Tunnels, Live(t)
  PROVE  /\ tunnel[t] \in [st : Status, name : Names, opt : Nat, allow : SUBSET Nets]
         /\ tunnel[t].name \in Names /\ tunnel[t].opt \in Nat /\ tunnel[t].allow \subseteq Nets
  BY DEF TypeOK, Live, Tunnel, Absent, Status

\* Marking adds marks to some tunnels and takes none away.
LEMMA MarkFacts ==
  ASSUME TypeOK, NEW S, NEW m \in Marks, Mark(S, m)
  PROVE  /\ marks' \in [Tunnels -> SUBSET Marks]
         /\ \A t \in Tunnels : marks[t] \subseteq marks'[t] /\ (t \in S => m \in marks'[t])
  BY DEF TypeOK, Mark

LEMMA RulesType ==
  ASSUME TypeOK
  PROVE  /\ \A R \in SUBSET rules : Withdraw(R) \subseteq Rule
         /\ \A t \in Tunnels, n \in Names, D \in SUBSET Nets, o \in Nat :
               Missing(t, n, D, o) \subseteq Rule
<1>1. ASSUME NEW R \in SUBSET rules, NEW r \in R PROVE [r EXCEPT !.st = "pending_delete"] \in Rule
  BY DEF TypeOK, Rule
<1>2. ASSUME NEW R \in SUBSET rules PROVE Withdraw(R) \subseteq Rule
  BY <1>1 DEF Withdraw, TypeOK
<1>3. ASSUME NEW t \in Tunnels, NEW n \in Names, NEW D \in SUBSET Nets, NEW o \in Nat
      PROVE  Missing(t, n, D, o) \subseteq Rule
  <2>1. ASSUME NEW d \in D
        PROVE  [name |-> n, net |-> d, on |-> o, of |-> t, st |-> "pending"] \in Rule
    BY DEF Rule
  <2> QED
    BY <2>1 DEF Missing
<1> QED
  BY <1>2, <1>3

\* Assigning an interface sets its entry and leaves the others.
LEMMA AssignedFacts ==
  ASSUME ifaces \in Seq(Tunnels), NEW t \in Tunnels, NEW o \in 1..Len(ifaces) + 1
  PROVE  /\ Assigned(o, t) \in Seq(Tunnels)
         /\ Len(Assigned(o, t)) >= Len(ifaces)
         /\ o \in DOMAIN Assigned(o, t) /\ Assigned(o, t)[o] = t
         /\ \A i \in DOMAIN ifaces : i \in DOMAIN Assigned(o, t)
                                     /\ (i # o => Assigned(o, t)[i] = ifaces[i])
         /\ o = Len(ifaces) + 1 => Len(Assigned(o, t)) = Len(ifaces) + 1
<1>1. CASE o \in DOMAIN ifaces
  BY <1>1 DEF Assigned
<1>2. CASE o \notin DOMAIN ifaces
  BY <1>2 DEF Assigned
<1> QED
  BY <1>1, <1>2

LEMMA TypeStep == TypeOK /\ NumberInv /\ [Next]_vars => TypeOK'
<1> SUFFICES ASSUME TypeOK, NumberInv, [Next]_vars PROVE TypeOK'
  OBVIOUS
<1>1. ASSUME NEW t \in Tunnels, NEW n \in Names, NEW A \in SUBSET Nets, CreateTunnel(t, n, A)
      PROVE  TypeOK'
  <2>1. tunnel' \in [Tunnels -> Tunnel]
    BY <1>1 DEF CreateTunnel, TypeOK, Tunnel, Status
  <2>2. setup' \in [Tunnels -> Setup]
    BY <1>1 DEF CreateTunnel, TypeOK, Setup, SetupPc
  <2>3. marks' \in [Tunnels -> SUBSET Marks]
    BY <1>1, MarkFacts DEF CreateTunnel, TypeOK, Marks
  <2> QED
    BY <1>1, <2>1, <2>2, <2>3 DEF CreateTunnel, TypeOK
<1>2. ASSUME NEW t \in Tunnels, NEW n \in Names, NEW A \in SUBSET Nets, UpdateTunnel(t, n, A)
      PROVE  TypeOK'
  <2> DEFINE old == tunnel[t].allow
             asked == IF tunnel[t].opt # 0 THEN A ELSE old
  <2>1. /\ old \subseteq Nets /\ asked \subseteq Nets
        /\ tunnel[t] \in [st : Status, name : Names, opt : Nat, allow : SUBSET Nets]
    BY <1>2, LiveFields DEF UpdateTunnel
  <2>2. tunnel' \in [Tunnels -> Tunnel]
    <3>1. [tunnel[t] EXCEPT !.name = n, !.allow = asked] \in Tunnel
      BY <2>1 DEF Tunnel
    <3>2. tunnel' = [tunnel EXCEPT ![t] = [@ EXCEPT !.name = n, !.allow = asked]]
      BY <1>2, <2>1 DEF UpdateTunnel, TypeOK
    <3> QED
      BY <3>1, <3>2 DEF TypeOK
  <2>3. rules' \subseteq Rule
    <3>1. RulesOf(n, old \ asked) \in SUBSET rules
      BY DEF RulesOf
    <3> QED
      BY <1>2, <2>1, <3>1, RulesType DEF UpdateTunnel
  <2>4. updates' \in 0..MaxUpdates
    BY <1>2, WireGuardAccessAssumption DEF UpdateTunnel, TypeOK
  <2>5. marks' \in [Tunnels -> SUBSET Marks]
    BY <1>2 DEF UpdateTunnel, TypeOK, Marks
  <2> QED
    BY <1>2, <2>2, <2>3, <2>4, <2>5 DEF UpdateTunnel, TypeOK
<1>3. CASE ApplyRules
  BY <1>3 DEF ApplyRules, TypeOK, Rule
<1>4. ASSUME NEW t \in Tunnels, SetupNames(t)
      PROVE  TypeOK'
  <2>1. tunnel' \in [Tunnels -> Tunnel]
    BY <1>4, LiveFields DEF SetupNames, TypeOK, Tunnel, Status
  <2>2. setup' \in [Tunnels -> Setup]
    <3>1. [setup[t] EXCEPT !.pc = "named", !.opt = NextOpt] \in Setup
      <4>1. NextOpt \in Nat /\ setup[t] \in Setup
        BY DEF NextOpt, TypeOK
      <4> QED
        BY <4>1 DEF Setup, SetupPc
    <3>2. setup' = [setup EXCEPT ![t] = [@ EXCEPT !.pc = "named", !.opt = NextOpt]]
      BY <1>4 DEF SetupNames, TypeOK, Setup
    <3> QED
      BY <3>1, <3>2 DEF TypeOK
  <2>3. marks' \in [Tunnels -> SUBSET Marks]
    BY <1>4, MarkFacts DEF SetupNames, TypeOK, Marks
  <2> QED
    BY <1>4, <2>1, <2>2, <2>3 DEF SetupNames, TypeOK
<1>5. ASSUME NEW t \in Tunnels, SetupInterface(t)
      PROVE  TypeOK'
  <2>1. setup[t].opt \in 1..Len(ifaces) + 1 /\ setup[t].opt \in Nat
    BY <1>5 DEF SetupInterface, NumberInv, Chosen, TypeOK, Setup
  <2>2. tunnel' \in [Tunnels -> Tunnel]
    BY <1>5, <2>1, LiveFields DEF SetupInterface, TypeOK, Tunnel
  <2>3. setup' \in [Tunnels -> Setup]
    BY <1>5 DEF SetupInterface, TypeOK, Setup, SetupPc
  <2>4. ifaces' \in Seq(Tunnels)
    BY <1>5, <2>1, AssignedFacts DEF SetupInterface, TypeOK
  <2> QED
    BY <1>5, <2>2, <2>3, <2>4 DEF SetupInterface, TypeOK
<1>6. ASSUME NEW t \in Tunnels, SetupRules(t)
      PROVE  TypeOK'
  <2>1. /\ tunnel[t].name \in Names /\ Effective(t) \in SUBSET Nets /\ setup[t].opt \in Nat
    BY <1>6, LiveFields DEF SetupRules, Effective, TypeOK, Setup
  <2>2. rules' \subseteq Rule
    BY <1>6, <2>1, RulesType DEF SetupRules, TypeOK
  <2>3. setup' \in [Tunnels -> Setup]
    BY <1>6 DEF SetupRules, TypeOK, Setup, SetupPc
  <2> QED
    BY <1>6, <2>2, <2>3 DEF SetupRules, TypeOK
<1>7. ASSUME NEW t \in Tunnels, SetupActivate(t)
      PROVE  TypeOK'
  <2>1. tunnel' \in [Tunnels -> Tunnel]
    BY <1>7, LiveFields DEF SetupActivate, TypeOK, Tunnel, Status
  <2> QED
    BY <1>7, <2>1 DEF SetupActivate, TypeOK, NoSetup, Setup, SetupPc
<1>8. ASSUME NEW t \in Tunnels, SetupEnd(t)
      PROVE  TypeOK'
  BY <1>8 DEF SetupEnd, TypeOK, NoSetup, Setup, SetupPc
<1>9. ASSUME NEW t \in Tunnels, SetupFail(t)
      PROVE  TypeOK'
  <2>1. tunnel' \in [Tunnels -> Tunnel]
    BY <1>9, LiveFields DEF SetupFail, TypeOK, Tunnel, Status
  <2>2. setup' \in [Tunnels -> Setup]
    BY <1>9 DEF SetupFail, TypeOK, Setup, SetupPc
  <2>3. marks' \in [Tunnels -> SUBSET Marks]
    BY <1>9, MarkFacts DEF SetupFail, Marks
  <2>4. ifaces' \in Seq(Tunnels)
    BY <1>9, AssignedFacts DEF SetupFail, NumberInv, Chosen, TypeOK
  <2>5. mishaps' \in 0..MaxMishaps
    BY <1>9, WireGuardAccessAssumption DEF SetupFail, Mishap, TypeOK
  <2> QED
    BY <1>9, <2>1, <2>2, <2>3, <2>4, <2>5 DEF SetupFail, TypeOK
<1>10. ASSUME NEW t \in Tunnels, DestroyRead(t)
       PROVE  TypeOK'
  <2>1. tunnel' \in [Tunnels -> Tunnel]
    BY <1>10, LiveFields DEF DestroyRead, TypeOK, Tunnel, Status
  <2> QED
    BY <1>10, <2>1, LiveFields DEF DestroyRead, TypeOK
<1>11. ASSUME NEW t \in Tunnels, DestroyCommit(t)
       PROVE  TypeOK'
  <2>1. rules' \subseteq Rule
    BY <1>11, RulesType DEF DestroyCommit, Alike
  <2>2. tunnel' \in [Tunnels -> Tunnel]
    BY <1>11 DEF DestroyCommit, TypeOK, Tunnel
  <2>3. marks' \in [Tunnels -> SUBSET Marks]
    BY <1>11, MarkFacts DEF DestroyCommit, Marks
  <2> QED
    BY <1>11, <2>1, <2>2, <2>3 DEF DestroyCommit, TypeOK
<1>12. CASE UNCHANGED vars
  BY <1>12 DEF vars, TypeOK
<1> QED
  BY <1>1, <1>2, <1>3, <1>4, <1>5, <1>6, <1>7, <1>8, <1>9, <1>10, <1>11, <1>12 DEF Next

-----------------------------------------------------------------------------
(* The interface an active tunnel names is its own.                        *)

\* A step that assigns no interface, sends no task to its choice and changes
\* the number in no row, except by removing it.
LEMMA Unassigned ==
  ASSUME TypeOK, NumberInv, OwnInv, UNCHANGED ifaces,
         \A t \in Tunnels : marks[t] \subseteq marks'[t],
         \A t \in Tunnels : tunnel'[t].opt \in {0, tunnel[t].opt},
         \A t \in Tunnels : Chosen(t)' => Chosen(t) /\ setup'[t].opt = setup[t].opt
  PROVE  NumberInv' /\ OwnInv'
<1>1. NumberInv'
  BY DEF NumberInv
<1>2. OwnInv'
  <2> SUFFICES ASSUME NEW t \in Tunnels, "overlap" \notin marks'[t]
               PROVE  /\ Chosen(t)' => /\ setup'[t].opt = Len(ifaces) + 1
                                       /\ \A u \in Tunnels : Chosen(u)' => u = t
                      /\ tunnel'[t].opt # 0 =>
                            /\ tunnel'[t].opt \in DOMAIN ifaces /\ ifaces[tunnel'[t].opt] = t
                            /\ \A u \in Tunnels : Chosen(u)' => setup'[u].opt # tunnel'[t].opt
    BY DEF OwnInv
  <2>1. "overlap" \notin marks[t]
    OBVIOUS
  <2> QED
    BY <2>1 DEF OwnInv
<1> QED
  BY <1>1, <1>2

LEMMA OptStep == TypeOK /\ NumberInv /\ OptInv /\ [Next]_vars => OptInv'
<1> SUFFICES ASSUME TypeOK, NumberInv, OptInv, [Next]_vars, NEW t \in Tunnels
             PROVE  /\ tunnel'[t].st = "unused" => setup'[t].pc = "none"
                    /\ /\ tunnel'[t].st \in Status
                       /\ tunnel'[t].st = "active" \/ setup'[t].pc \in {"opted", "ruled"}
                       => tunnel'[t].opt # 0
  BY DEF OptInv, Live
<1> DEFINE Fine == /\ tunnel'[t].st = "unused" => setup'[t].pc = "none"
                   /\ /\ tunnel'[t].st \in Status
                      /\ tunnel'[t].st = "active" \/ setup'[t].pc \in {"opted", "ruled"}
                      => tunnel'[t].opt # 0
<1> USE DEF OptInv, Live, TypeOK
<1>1. ASSUME NEW s \in Tunnels, NEW n \in Names, NEW A \in SUBSET Nets,
             CreateTunnel(s, n, A)
      PROVE  Fine
  BY <1>1 DEF CreateTunnel, Status
<1>2. ASSUME NEW s \in Tunnels, NEW n \in Names, NEW A \in SUBSET Nets,
             UpdateTunnel(s, n, A)
      PROVE  Fine
  <2>1. tunnel'[t].st = tunnel[t].st /\ tunnel'[t].opt = tunnel[t].opt
    BY <1>2, LiveFields DEF UpdateTunnel
  <2> QED
    BY <1>2, <2>1 DEF UpdateTunnel
<1>3. CASE ApplyRules
  BY <1>3 DEF ApplyRules
<1>4. ASSUME NEW s \in Tunnels, SetupNames(s) \/ SetupRules(s) \/ SetupActivate(s)
      PROVE  Fine
  <2>1. CASE SetupNames(s)
    BY <1>4, <2>1, LiveFields DEF SetupNames, Status, Setup, SetupPc
  <2>2. CASE SetupRules(s)
    BY <1>4, <2>2 DEF SetupRules, Status, Setup, SetupPc
  <2>3. CASE SetupActivate(s)
    <3>1. tunnel[s].opt # 0
      BY <2>3 DEF SetupActivate
    <3> QED
      BY <2>3, <3>1, LiveFields DEF SetupActivate, Status, NoSetup
  <2> QED
    BY <1>4, <2>1, <2>2, <2>3
<1>5. ASSUME NEW s \in Tunnels, SetupInterface(s)
      PROVE  Fine
  <2>1. setup[s].opt # 0
    BY <1>5 DEF SetupInterface, NumberInv, Chosen
  <2> QED
    BY <1>5, <2>1, LiveFields DEF SetupInterface, Status, Setup, SetupPc
<1>6. ASSUME NEW s \in Tunnels, SetupEnd(s)
      PROVE  Fine
  BY <1>6 DEF SetupEnd, SetupDue, NoSetup, Status
<1>7. ASSUME NEW s \in Tunnels, SetupFail(s)
      PROVE  Fine
  BY <1>7, LiveFields DEF SetupFail, Status, Setup, SetupPc
<1>8. ASSUME NEW s \in Tunnels, DestroyRead(s)
      PROVE  Fine
  BY <1>8, LiveFields DEF DestroyRead, Status
<1>9. ASSUME NEW s \in Tunnels, DestroyCommit(s)
      PROVE  Fine
  BY <1>9 DEF DestroyCommit, Absent, Status
<1>10. CASE UNCHANGED vars
  BY <1>10 DEF vars
<1> QED
  BY <1>1, <1>2, <1>3, <1>4, <1>5, <1>6, <1>7, <1>8, <1>9, <1>10 DEF Next

\* The choice of a name: another task that has a name in hand is marked with
\* this one.
LEMMA NamesStep ==
  ASSUME IInv, NEW s \in Tunnels, SetupNames(s)
  PROVE  NumberInv' /\ OwnInv'
<1> USE DEF IInv
<1>1. /\ setup' = [setup EXCEPT ![s] = [@ EXCEPT !.pc = "named", !.opt = Len(ifaces) + 1]]
      /\ ifaces' = ifaces
      /\ \A t \in Tunnels : tunnel'[t].opt = tunnel[t].opt
  BY LiveFields DEF SetupNames, NextOpt, TypeOK, Setup
<1>2. /\ Chosen(s)' /\ setup'[s].opt = Len(ifaces) + 1
      /\ \A t \in Tunnels : t # s => setup'[t] = setup[t]
  BY <1>1 DEF TypeOK, Setup, Chosen
<1>3. /\ \A t \in Tunnels : marks[t] \subseteq marks'[t]
      /\ \A t \in Tunnels : t # s /\ Chosen(t) =>
            "overlap" \in marks'[t] /\ "overlap" \in marks'[s]
  <2> DEFINE others == {u \in Tunnels \ {s} : setup[u].pc = "named"}
  <2>1. CASE others = {}
    BY <2>1 DEF SetupNames, Chosen
  <2>2. CASE others # {}
    <3>1. Mark(others \cup {s}, "overlap")
      BY <2>2 DEF SetupNames
    <3> QED
      BY <3>1, MarkFacts DEF Marks, Chosen
  <2> QED
    BY <2>1, <2>2
<1>4. NumberInv'
  BY <1>1, <1>2 DEF NumberInv, Chosen, TypeOK
<1>5. OwnInv'
  <2> SUFFICES ASSUME NEW t \in Tunnels, "overlap" \notin marks'[t]
               PROVE  /\ Chosen(t)' => /\ setup'[t].opt = Len(ifaces) + 1
                                       /\ \A u \in Tunnels : Chosen(u)' => u = t
                      /\ tunnel[t].opt # 0 =>
                            /\ tunnel[t].opt \in DOMAIN ifaces /\ ifaces[tunnel[t].opt] = t
                            /\ \A u \in Tunnels : Chosen(u)' => setup'[u].opt # tunnel[t].opt
    BY <1>1 DEF OwnInv
  <2>1. "overlap" \notin marks[t]
    BY <1>3
  <2>2. ASSUME Chosen(t)'
        PROVE  /\ setup'[t].opt = Len(ifaces) + 1
               /\ \A u \in Tunnels : Chosen(u)' => u = t
    <3>1. t = s
      BY <1>2, <1>3, <2>2 DEF Chosen
    <3> QED
      BY <1>2, <1>3, <3>1 DEF Chosen
  <2>3. ASSUME tunnel[t].opt # 0
        PROVE  /\ tunnel[t].opt \in DOMAIN ifaces /\ ifaces[tunnel[t].opt] = t
               /\ \A u \in Tunnels : Chosen(u)' => setup'[u].opt # tunnel[t].opt
    <3>1. /\ tunnel[t].opt \in DOMAIN ifaces /\ ifaces[tunnel[t].opt] = t
          /\ \A u \in Tunnels : Chosen(u) => setup[u].opt # tunnel[t].opt
      BY <2>1, <2>3 DEF OwnInv
    <3>2. tunnel[t].opt # Len(ifaces) + 1
      BY <3>1 DEF TypeOK
    <3> QED
      BY <1>2, <3>1, <3>2 DEF Chosen
  <2> QED
    BY <2>2, <2>3
<1> QED
  BY <1>4, <1>5

\* The interface is assigned: by SetupInterface, and by a call that fails
\* after it has.  The row then names it, or keeps what it named.
LEMMA AssignStep ==
  ASSUME IInv, NEW s \in Tunnels, Chosen(s), ifaces' = Assigned(setup[s].opt, s),
         ~Chosen(s)', \A t \in Tunnels : t # s => setup'[t] = setup[t],
         \A t \in Tunnels : marks[t] \subseteq marks'[t],
         \A t \in Tunnels : t # s => tunnel'[t].opt = tunnel[t].opt,
         tunnel'[s].opt \in {tunnel[s].opt, setup[s].opt}
  PROVE  NumberInv' /\ OwnInv'
<1> USE DEF IInv
<1> DEFINE o == setup[s].opt
<1>1. /\ o \in 1..Len(ifaces) + 1
      /\ ifaces \in Seq(Tunnels) /\ ifaces' \in Seq(Tunnels)
      /\ Len(ifaces') >= Len(ifaces)
      /\ o \in DOMAIN ifaces' /\ ifaces'[o] = s
      /\ \A i \in DOMAIN ifaces : i \in DOMAIN ifaces' /\ (i # o => ifaces'[i] = ifaces[i])
  BY AssignedFacts DEF NumberInv, TypeOK
<1>2. NumberInv'
  <2> SUFFICES ASSUME NEW t \in Tunnels, Chosen(t)'
               PROVE  setup'[t].opt \in 1..Len(ifaces') + 1
    BY DEF NumberInv
  <2>1. setup'[t] = setup[t] /\ Chosen(t)
    BY DEF Chosen
  <2>2. setup[t].opt \in 1..Len(ifaces) + 1
    BY <2>1 DEF NumberInv
  <2> QED
    BY <1>1, <2>1, <2>2
<1>3. OwnInv'
  <2> SUFFICES ASSUME NEW t \in Tunnels, "overlap" \notin marks'[t]
               PROVE  /\ ~Chosen(t)'
                      /\ tunnel'[t].opt # 0 =>
                            /\ tunnel'[t].opt \in DOMAIN ifaces' /\ ifaces'[tunnel'[t].opt] = t
                            /\ \A u \in Tunnels : Chosen(u)' => setup'[u].opt # tunnel'[t].opt
    BY DEF OwnInv
  <2>1. "overlap" \notin marks[t]
    OBVIOUS
  <2>2. ~Chosen(t)'
    BY <2>1 DEF OwnInv, Chosen
  <2>3. ASSUME tunnel[t].opt # 0, tunnel'[t].opt = tunnel[t].opt
        PROVE  /\ tunnel'[t].opt \in DOMAIN ifaces' /\ ifaces'[tunnel'[t].opt] = t
               /\ \A u \in Tunnels : Chosen(u)' => setup'[u].opt # tunnel'[t].opt
    <3>1. /\ tunnel[t].opt \in DOMAIN ifaces /\ ifaces[tunnel[t].opt] = t
          /\ \A u \in Tunnels : Chosen(u) => setup[u].opt # tunnel[t].opt
      BY <2>1, <2>3 DEF OwnInv
    <3>2. tunnel[t].opt # o
      BY <3>1
    <3>3. ASSUME NEW u \in Tunnels, Chosen(u)' PROVE setup'[u].opt # tunnel[t].opt
      BY <3>1, <3>3 DEF Chosen
    <3> QED
      BY <1>1, <2>3, <3>1, <3>2, <3>3
  <2>4. CASE t = s /\ tunnel'[s].opt = o
    \* No other task has a name in hand: this one is not marked.
    <3>1. \A u \in Tunnels : ~Chosen(u)'
      BY <2>1, <2>4 DEF OwnInv, Chosen
    <3> QED
      BY <1>1, <2>2, <2>4, <3>1
  <2> QED
    BY <2>2, <2>3, <2>4
<1> QED
  BY <1>2, <1>3

LEMMA OwnStep == IInv /\ [Next]_vars => NumberInv' /\ OwnInv'
<1> SUFFICES ASSUME IInv, [Next]_vars PROVE NumberInv' /\ OwnInv'
  OBVIOUS
<1> USE DEF IInv
<1>1. ASSUME NEW t \in Tunnels, NEW n \in Names, NEW A \in SUBSET Nets, CreateTunnel(t, n, A)
      PROVE  NumberInv' /\ OwnInv'
  <2>1. \A u \in Tunnels : marks[u] \subseteq marks'[u]
    BY <1>1, MarkFacts DEF CreateTunnel, Marks
  <2>2. \A u \in Tunnels : tunnel'[u].opt \in {0, tunnel[u].opt}
    BY <1>1 DEF CreateTunnel, TypeOK
  <2>3. \A u \in Tunnels : Chosen(u)' => Chosen(u) /\ setup'[u].opt = setup[u].opt
    BY <1>1 DEF CreateTunnel, TypeOK, Chosen
  <2> QED
    BY <1>1, <2>1, <2>2, <2>3, Unassigned DEF CreateTunnel
<1>2. ASSUME NEW t \in Tunnels, NEW n \in Names, NEW A \in SUBSET Nets, UpdateTunnel(t, n, A)
      PROVE  NumberInv' /\ OwnInv'
  <2>1. \A u \in Tunnels : marks[u] \subseteq marks'[u]
    BY <1>2 DEF UpdateTunnel, TypeOK
  <2>2. \A u \in Tunnels : tunnel'[u].opt \in {0, tunnel[u].opt}
    BY <1>2, LiveFields DEF UpdateTunnel, TypeOK
  <2>3. \A u \in Tunnels : Chosen(u)' => Chosen(u) /\ setup'[u].opt = setup[u].opt
    BY <1>2 DEF UpdateTunnel, Chosen
  <2> QED
    BY <1>2, <2>1, <2>2, <2>3, Unassigned DEF UpdateTunnel
<1>3. CASE ApplyRules
  BY <1>3, Unassigned DEF ApplyRules, Chosen
<1>4. ASSUME NEW t \in Tunnels, SetupNames(t)
      PROVE  NumberInv' /\ OwnInv'
  BY <1>4, NamesStep
<1>5. ASSUME NEW t \in Tunnels, SetupInterface(t)
      PROVE  NumberInv' /\ OwnInv'
  <2>1. Chosen(t) /\ ifaces' = Assigned(setup[t].opt, t) /\ marks' = marks
    BY <1>5 DEF SetupInterface, Chosen
  <2>2. ~Chosen(t)' /\ \A u \in Tunnels : u # t => setup'[u] = setup[u]
    BY <1>5 DEF SetupInterface, TypeOK, Setup, Chosen
  <2>3. /\ \A u \in Tunnels : u # t => tunnel'[u].opt = tunnel[u].opt
        /\ tunnel'[t].opt = setup[t].opt
    BY <1>5, LiveFields DEF SetupInterface, TypeOK
  <2> QED
    BY <2>1, <2>2, <2>3, AssignStep
<1>6. ASSUME NEW t \in Tunnels, SetupRules(t) \/ SetupActivate(t) \/ SetupEnd(t)
      PROVE  NumberInv' /\ OwnInv'
  <2>1. UNCHANGED <<ifaces, marks>>
    BY <1>6 DEF SetupRules, SetupActivate, SetupEnd
  <2>2. \A u \in Tunnels : tunnel'[u].opt = tunnel[u].opt
    BY <1>6, LiveFields DEF SetupRules, SetupActivate, SetupEnd, TypeOK
  <2>3. \A u \in Tunnels : Chosen(u)' => Chosen(u) /\ setup'[u].opt = setup[u].opt
    <3>1. ~Chosen(t)' /\ \A u \in Tunnels : u # t => setup'[u] = setup[u]
      <4>1. CASE SetupRules(t)
        BY <4>1 DEF SetupRules, TypeOK, Setup, Chosen
      <4>2. CASE SetupActivate(t) \/ SetupEnd(t)
        BY <4>2 DEF SetupActivate, SetupEnd, NoSetup, TypeOK, Chosen
      <4> QED
        BY <1>6, <4>1, <4>2
    <3> QED
      BY <3>1 DEF Chosen
  <2> QED
    BY <2>1, <2>2, <2>3, Unassigned
<1>7. ASSUME NEW t \in Tunnels, SetupFail(t)
      PROVE  NumberInv' /\ OwnInv'
  <2>1. \A u \in Tunnels : marks[u] \subseteq marks'[u]
    BY <1>7, MarkFacts DEF SetupFail, Marks
  <2>2. ~Chosen(t)' /\ \A u \in Tunnels : u # t => setup'[u] = setup[u]
    BY <1>7 DEF SetupFail, TypeOK, Setup, Chosen
  <2>3. \A u \in Tunnels : tunnel'[u].opt = tunnel[u].opt
    BY <1>7, LiveFields DEF SetupFail, TypeOK
  <2>4. CASE UNCHANGED ifaces
    <3>1. \A u \in Tunnels : Chosen(u)' => Chosen(u) /\ setup'[u].opt = setup[u].opt
      BY <2>2 DEF Chosen
    <3> QED
      BY <2>1, <2>3, <2>4, <3>1, Unassigned
  <2>5. CASE setup[t].pc = "named" /\ ifaces' = Assigned(setup[t].opt, t)
    BY <2>1, <2>2, <2>3, <2>5, AssignStep DEF Chosen
  <2> QED
    BY <1>7, <2>4, <2>5 DEF SetupFail
<1>8. ASSUME NEW t \in Tunnels, DestroyRead(t)
      PROVE  NumberInv' /\ OwnInv'
  <2>1. \A u \in Tunnels : tunnel'[u].opt = tunnel[u].opt
    BY <1>8, LiveFields DEF DestroyRead, TypeOK
  <2> QED
    BY <1>8, <2>1, Unassigned DEF DestroyRead, Chosen
<1>9. ASSUME NEW t \in Tunnels, DestroyCommit(t)
      PROVE  NumberInv' /\ OwnInv'
  <2>1. \A u \in Tunnels : tunnel'[u].opt \in {0, tunnel[u].opt}
    BY <1>9 DEF DestroyCommit, Absent, TypeOK
  <2>2. \A u \in Tunnels : marks[u] \subseteq marks'[u]
    BY <1>9, MarkFacts DEF DestroyCommit, Marks
  <2> QED
    BY <1>9, <2>1, <2>2, Unassigned DEF DestroyCommit, Chosen
<1>10. CASE UNCHANGED vars
  BY <1>10, Unassigned DEF vars, Chosen
<1> QED
  BY <1>1, <1>2, <1>3, <1>4, <1>5, <1>6, <1>7, <1>8, <1>9, <1>10 DEF Next

-----------------------------------------------------------------------------
LEMMA Inductive == Spec => []IInv
<1>1. IInv /\ [Next]_vars => IInv'
  BY TypeStep, OptStep, OwnStep DEF IInv
<1> QED
  BY InitIInv, <1>1, PTL DEF Spec

\* Every reachable state is well typed.
THEOREM TypeCorrect == Spec => []TypeOK
  BY Inductive, PTL DEF IInv

\* The interface an active tunnel names is its own, unless its task and that
\* of another tunnel had both chosen a name and not used it.
THEOREM InterfaceOfOneCorrect == Spec => []InterfaceOfOne
<1>1. IInv => InterfaceOfOne
  <2> SUFFICES ASSUME IInv, NEW t \in Tunnels, tunnel[t].st = "active",
                      "overlap" \notin marks[t]
               PROVE  ifaces[tunnel[t].opt] = t
    BY DEF InterfaceOfOne
  <2>1. tunnel[t].opt # 0
    BY DEF IInv, OptInv, Live, Status
  <2> QED
    BY <2>1 DEF IInv, OwnInv
<1> QED
  BY Inductive, <1>1, PTL

-----------------------------------------------------------------------------
(* Rules.  Unless a tunnel is renamed, the rules that were made for it     *)
(* carry its name, and so does a deletion that has read it.                *)

Given(r) == r.st # "pending_delete"

RuleNamed ==
    \A r \in rules : Given(r) /\ "renamed" \notin marks[r.of] =>
        Live(r.of) /\ r.name = tunnel[r.of].name

DestroyNamed ==
    \A t \in Tunnels : destroy[t] # None =>
        /\ Live(t)
        /\ "renamed" \notin marks[t] => destroy[t] = tunnel[t].name

LeftInv == IInv /\ RuleNamed /\ DestroyNamed

\* A rule after a step that is one from before it, and one that is new.
Like(q, r) ==
    /\ q.name = r.name /\ q.net = r.net /\ q.on = r.on /\ q.of = r.of
    /\ Given(q) => Given(r)
NewRule(q) ==
    \E t \in Tunnels :
        /\ q.of = t /\ Live(t) /\ tunnel'[t].name = q.name
        /\ \/ SetupRules(t) /\ q.on = setup[t].opt
           \/ /\ \E n \in Names, A \in SUBSET Nets : UpdateTunnel(t, n, A)
              /\ q.on = tunnel[t].opt /\ tunnel[t].opt # 0

\* A withdrawn rule goes, or waits for its deletion.
LEMMA WithdrawFacts ==
  ASSUME TypeOK, NEW R \in SUBSET rules
  PROVE  /\ \A q \in Withdraw(R) : Given(q) => q \in rules \ R
         /\ \A q \in Withdraw(R) : \E r \in rules : Like(q, r)
         /\ rules \ R \subseteq Withdraw(R)
<1>1. ASSUME NEW q \in R
      PROVE  /\ Like([q EXCEPT !.st = "pending_delete"], q)
             /\ ~Given([q EXCEPT !.st = "pending_delete"])
  <2>1. q \in Rule
    BY DEF TypeOK
  <2> QED
    BY <2>1 DEF Rule, Like, Given
<1>2. \A q \in rules : Like(q, q)
  BY DEF Like
<1> QED
  BY <1>1, <1>2 DEF Withdraw

\* A rule is made for each network for which there is none of that name.
LEMMA MissingFacts ==
  ASSUME NEW t \in Tunnels, NEW n \in Names, NEW D \in SUBSET Nets, NEW o \in Nat
  PROVE  /\ \A q \in Missing(t, n, D, o) :
               /\ q.name = n /\ q.of = t /\ q.on = o /\ q.net \in D
               /\ q.st = "pending"
               /\ \A r \in rules : r.name = n => r.net # q.net
         /\ \A d \in D : (\A r \in rules : r.name = n => r.net # d) =>
               \E q \in Missing(t, n, D, o) : q.net = d
<1> DEFINE made(d) == [name |-> n, net |-> d, on |-> o, of |-> t, st |-> "pending"]
           none(d) == \A r \in rules : r.name = n => r.net # d
<1>1. Missing(t, n, D, o) = {made(d) : d \in {e \in D : none(e)}}
  <2>1. \A e : RulesOf(n, {e}) = {} <=> none(e)
    BY DEF RulesOf
  <2> QED
    BY <2>1 DEF Missing
<1>2. ASSUME NEW q \in Missing(t, n, D, o)
      PROVE  /\ q.name = n /\ q.of = t /\ q.on = o /\ q.net \in D
             /\ q.st = "pending" /\ none(q.net)
  <2>1. PICK d \in D : q = made(d) /\ none(d)
    BY <1>1
  <2> QED
    BY <2>1
<1>3. ASSUME NEW d \in D, none(d) PROVE \E q \in Missing(t, n, D, o) : q.net = d
  <2>1. made(d) \in Missing(t, n, D, o) /\ made(d).net = d
    BY <1>1, <1>3
  <2> QED
    BY <2>1
<1> QED
  BY <1>2, <1>3

LEMMA MarksGrow ==
  ASSUME TypeOK, Next, NEW t \in Tunnels
  PROVE  marks[t] \subseteq marks'[t]
<1>1. ASSUME NEW S, NEW m, Mark(S, m) PROVE marks[t] \subseteq marks'[t]
  BY <1>1 DEF Mark, TypeOK
<1>2. ASSUME NEW u \in Tunnels, NEW n \in Names, NEW A \in SUBSET Nets, UpdateTunnel(u, n, A)
      PROVE  marks[t] \subseteq marks'[t]
  <2>1. \E M : marks' = [marks EXCEPT ![u] = @ \cup M]
    <3>1. \E M, N : marks' = [marks EXCEPT ![u] = @ \cup M \cup N]
      BY <1>2, Zenon DEF UpdateTunnel
    <3> QED
      BY <3>1
  <2> QED
    BY <2>1 DEF TypeOK
<1>3. ASSUME NEW u \in Tunnels, SetupNames(u)
      PROVE  marks' = marks \/ \E S : Mark(S, "overlap")
  BY <1>3 DEF SetupNames
<1>4. ASSUME NEW u \in Tunnels, NEW n \in Names, NEW A \in SUBSET Nets, CreateTunnel(u, n, A)
      PROVE  marks' = marks \/ \E S : Mark(S, "leftover")
  BY <1>4 DEF CreateTunnel
<1> QED
  BY <1>1, <1>2, <1>3, <1>4 DEF Next, ApplyRules, SetupInterface, SetupRules, SetupActivate, SetupEnd,
     SetupFail, DestroyRead, DestroyCommit

\* What a step may do to a tunnel's row: make it, write its status, list or
\* number, rename it or remove it.
LEMMA RowSteps ==
  ASSUME TypeOK, Next, NEW t \in Tunnels
  PROVE  \/ \E n \in Names, A \in SUBSET Nets : CreateTunnel(t, n, A)
         \/ DestroyCommit(t)
         \/ /\ Live(t)' <=> Live(t)
            /\ tunnel'[t].name = tunnel[t].name \/ "renamed" \in marks'[t]
            /\ tunnel'[t].opt = tunnel[t].opt \/ SetupInterface(t)
            /\ tunnel'[t].allow = tunnel[t].allow
                  \/ \E n \in Names, A \in SUBSET Nets : UpdateTunnel(t, n, A)
            /\ tunnel'[t].st = tunnel[t].st
                  \/ SetupNames(t) \/ SetupActivate(t) \/ SetupFail(t) \/ DestroyRead(t)
<1> DEFINE Kept == /\ Live(t)' <=> Live(t)
                   /\ tunnel'[t].name = tunnel[t].name \/ "renamed" \in marks'[t]
                   /\ tunnel'[t].opt = tunnel[t].opt \/ SetupInterface(t)
                   /\ tunnel'[t].allow = tunnel[t].allow
                         \/ \E n \in Names, A \in SUBSET Nets : UpdateTunnel(t, n, A)
                   /\ tunnel'[t].st = tunnel[t].st
                         \/ SetupNames(t) \/ SetupActivate(t) \/ SetupFail(t) \/ DestroyRead(t)
<1>1. tunnel'[t] = tunnel[t] => Kept
  BY DEF Live
<1>2. ASSUME NEW s \in Status, Live(t), tunnel' = [tunnel EXCEPT ![t].st = s],
             SetupNames(t) \/ SetupActivate(t) \/ SetupFail(t) \/ DestroyRead(t)
      PROVE  Kept
  BY <1>2, LiveFields DEF Live, TypeOK
<1>3. ASSUME SetupInterface(t) PROVE Kept
  <2>1. Live(t) /\ tunnel' = [tunnel EXCEPT ![t].opt = setup[t].opt]
    BY <1>3 DEF SetupInterface
  <2> QED
    BY <1>3, <2>1, LiveFields DEF Live, TypeOK
<1>4. ASSUME NEW n \in Names, NEW A \in SUBSET Nets, UpdateTunnel(t, n, A) PROVE Kept
  <2>1. Live(t)
    BY <1>4 DEF UpdateTunnel
  <2>2. \E B : tunnel' = [tunnel EXCEPT ![t] = [@ EXCEPT !.name = n, !.allow = B]]
    <3>1. \E B : tunnel' = [tunnel EXCEPT ![t].name = n, ![t].allow = B]
      BY <1>4 DEF UpdateTunnel
    <3> QED
      BY <2>1, <3>1, LiveFields DEF TypeOK
  <2>3. tunnel'[t].st = tunnel[t].st /\ tunnel'[t].opt = tunnel[t].opt /\ tunnel'[t].name = n
    BY <2>1, <2>2, LiveFields DEF TypeOK
  <2>4. n # tunnel[t].name => "renamed" \in marks'[t]
    <3>1. ASSUME n # tunnel[t].name PROVE "renamed" \in marks'[t]
      <4>1. \E M : marks' = [marks EXCEPT ![t] = @ \cup {"renamed"} \cup M]
        BY <1>4, <3>1, Zenon DEF UpdateTunnel
      <4> QED
        BY <4>1 DEF TypeOK
    <3> QED
      BY <3>1
  <2> QED
    BY <1>4, <2>1, <2>3, <2>4 DEF Live
<1>5. ASSUME NEW u \in Tunnels, u # t
      PROVE  /\ \A n \in Names, A \in SUBSET Nets :
                   CreateTunnel(u, n, A) \/ UpdateTunnel(u, n, A) => tunnel'[t] = tunnel[t]
             /\ SetupNames(u) \/ SetupInterface(u) \/ SetupActivate(u) \/ SetupFail(u)
                   \/ DestroyRead(u) \/ DestroyCommit(u) => tunnel'[t] = tunnel[t]
  BY <1>5 DEF CreateTunnel, UpdateTunnel, SetupNames, SetupInterface, SetupActivate, SetupFail,
     DestroyRead, DestroyCommit, TypeOK
<1>6. ASSUME NEW u \in Tunnels, SetupRules(u) \/ SetupEnd(u) \/ ApplyRules
      PROVE  tunnel'[t] = tunnel[t]
  BY <1>6 DEF SetupRules, SetupEnd, ApplyRules
<1>7. SetupNames(t) \/ SetupActivate(t) \/ SetupFail(t) \/ DestroyRead(t) => Kept
  BY <1>2 DEF SetupNames, SetupActivate, SetupFail, DestroyRead, Status
<1>8. ApplyRules => tunnel'[t] = tunnel[t]
  BY DEF ApplyRules
<1> QED
  BY <1>1, <1>3, <1>4, <1>5, <1>6, <1>7, <1>8 DEF Next

\* Where the rules of the next state come from.
LEMMA RuleSteps ==
  ASSUME TypeOK, Next, NEW q \in rules'
  PROVE  (\E r \in rules : Like(q, r)) \/ NewRule(q)
<1>1. ASSUME NEW t \in Tunnels, NEW n \in Names, NEW A \in SUBSET Nets, UpdateTunnel(t, n, A)
      PROVE  (\E r \in rules : Like(q, r)) \/ NewRule(q)
  <2> DEFINE old == tunnel[t].allow
             asked == IF tunnel[t].opt # 0 THEN A ELSE old
  <2>1. rules' = Withdraw(RulesOf(n, old \ asked)) \cup Missing(t, n, asked \ old, tunnel[t].opt)
    BY <1>1 DEF UpdateTunnel
  <2>2. RulesOf(n, old \ asked) \in SUBSET rules
    BY DEF RulesOf
  <2>3. CASE q \in Withdraw(RulesOf(n, old \ asked))
    BY <2>2, <2>3, WithdrawFacts
  <2>4. CASE q \in Missing(t, n, asked \ old, tunnel[t].opt)
    <3>1. q.of = t /\ q.name = n /\ q.on = tunnel[t].opt /\ q.net \in asked \ old
      <4>1. /\ Live(t)
            /\ asked \ old \in SUBSET Nets /\ tunnel[t].opt \in Nat
        BY <1>1, LiveFields DEF UpdateTunnel
      <4> HIDE DEF asked, old
      <4> QED
        BY <2>4, <4>1, MissingFacts
    <3>2. tunnel[t].opt # 0
      BY <3>1
    <3>3. Live(t) /\ tunnel'[t].name = n
      <4>1. Live(t) /\ \E B : tunnel' = [tunnel EXCEPT ![t].name = n, ![t].allow = B]
        BY <1>1 DEF UpdateTunnel
      <4> QED
        BY <4>1, LiveFields DEF TypeOK
    <3> QED
      BY <1>1, <3>1, <3>2, <3>3 DEF NewRule
  <2> QED
    BY <2>1, <2>3, <2>4
<1>2. ASSUME NEW t \in Tunnels, SetupRules(t)
      PROVE  (\E r \in rules : Like(q, r)) \/ NewRule(q)
  <2>1. CASE q \in rules
    BY <2>1 DEF Like
  <2>2. CASE q \in Missing(t, tunnel[t].name, Effective(t), setup[t].opt)
    <3>1. q.of = t /\ q.name = tunnel[t].name /\ q.on = setup[t].opt
      <4>1. /\ tunnel[t].name \in Names /\ Effective(t) \in SUBSET Nets
            /\ setup[t].opt \in Nat
        BY <1>2, LiveFields DEF SetupRules, Effective, TypeOK, Setup
      <4> QED
        BY <2>2, <4>1, MissingFacts
    <3> QED
      BY <1>2, <3>1 DEF NewRule, SetupRules
  <2> QED
    BY <1>2, <2>1, <2>2 DEF SetupRules
<1>3. ASSUME ApplyRules PROVE \E r \in rules : Like(q, r)
  <2>1. PICK r \in rules : r.st # "pending_delete" /\ q = [r EXCEPT !.st = "synced"]
    BY <1>3 DEF ApplyRules
  <2>2. r \in Rule
    BY DEF TypeOK
  <2> QED
    BY <2>1, <2>2 DEF Rule, Like, Given
<1>4. ASSUME NEW t \in Tunnels, DestroyCommit(t) PROVE \E r \in rules : Like(q, r)
  BY <1>4, WithdrawFacts DEF DestroyCommit, Alike
<1>5. rules' = rules => Like(q, q)
  BY DEF Like
<1> QED
  BY <1>1, <1>2, <1>3, <1>4, <1>5 DEF Next, CreateTunnel, SetupNames, SetupInterface, SetupActivate,
     SetupEnd, SetupFail, DestroyRead

LEMMA RuleNamedNext ==
  ASSUME LeftInv, Next
  PROVE  RuleNamed'
<1> TypeOK
  BY DEF LeftInv, IInv
<1> SUFFICES ASSUME NEW q \in rules', Given(q), "renamed" \notin marks'[q.of]
             PROVE  tunnel'[q.of].st \in Status /\ q.name = tunnel'[q.of].name
  BY DEF RuleNamed, Live, Given
<1>1. ASSUME NEW r \in rules, Like(q, r)
      PROVE  tunnel'[q.of].st \in Status /\ q.name = tunnel'[q.of].name
  <2>1. PICK t \in Tunnels : t = q.of /\ t = r.of /\ q.name = r.name /\ Given(r)
    BY <1>1 DEF Like, TypeOK, Rule
  <2>2. Live(t) /\ q.name = tunnel[t].name /\ "renamed" \notin marks[t]
    BY <2>1, MarksGrow DEF LeftInv, RuleNamed
  <2>3. ~DestroyCommit(t)
    <3>1. ASSUME DestroyCommit(t) PROVE FALSE
      <4>1. destroy[t] = tunnel[t].name /\ rules' = Withdraw(Alike(destroy[t]))
        BY <2>2, <3>1 DEF DestroyCommit, LeftInv, DestroyNamed
      <4>2. q \in rules \ Alike(destroy[t])
        BY <4>1, WithdrawFacts DEF Alike
      <4>3. <<q.name, q.name>> \in StartsWith
        BY <4>2, WireGuardAccessAssumption DEF TypeOK, Rule
      <4> QED
        BY <2>2, <4>1, <4>2, <4>3 DEF Alike
    <3> QED
      BY <3>1
  <2>4. \A n \in Names, A \in SUBSET Nets : ~CreateTunnel(t, n, A)
    BY <2>2 DEF CreateTunnel, Live, Status
  <2> QED
    BY <2>1, <2>2, <2>3, <2>4, RowSteps DEF Live
<1>2. ASSUME NewRule(q)
      PROVE  tunnel'[q.of].st \in Status /\ q.name = tunnel'[q.of].name
  <2>1. PICK t \in Tunnels : /\ q.of = t /\ Live(t) /\ tunnel'[t].name = q.name
                             /\ SetupRules(t) \/ \E n \in Names, A \in SUBSET Nets : UpdateTunnel(t, n, A)
    BY <1>2 DEF NewRule
  <2>2. tunnel'[t].st = tunnel[t].st
    <3>1. SetupRules(t) => tunnel' = tunnel
      BY DEF SetupRules
    <3>2. ASSUME NEW n \in Names, NEW A \in SUBSET Nets, UpdateTunnel(t, n, A)
          PROVE  tunnel'[t].st = tunnel[t].st
      <4>1. \E B : tunnel' = [tunnel EXCEPT ![t].name = n, ![t].allow = B]
        BY <3>2 DEF UpdateTunnel
      <4> QED
        BY <2>1, <4>1, LiveFields DEF TypeOK
    <3> QED
      BY <2>1, <3>1, <3>2
  <2> QED
    BY <2>1, <2>2 DEF Live
<1> QED
  BY <1>1, <1>2, RuleSteps

LEMMA DestroyNamedNext ==
  ASSUME LeftInv, Next
  PROVE  DestroyNamed'
<1> TypeOK
  BY DEF LeftInv, IInv
<1> SUFFICES ASSUME NEW t \in Tunnels, destroy'[t] # None
             PROVE  Live(t)' /\ ("renamed" \notin marks'[t] => destroy'[t] = tunnel'[t].name)
  BY DEF DestroyNamed
<1>1. CASE DestroyRead(t)
  <2>1. /\ destroy'[t] = tunnel[t].name /\ tunnel'[t].name = tunnel[t].name
        /\ tunnel'[t].st = "destroying"
    BY <1>1, LiveFields DEF DestroyRead, TypeOK
  <2> QED
    BY <2>1 DEF Live, Status
<1>2. CASE destroy'[t] = destroy[t]
  <2>1. Live(t) /\ ("renamed" \notin marks'[t] => destroy[t] = tunnel[t].name)
    BY <1>2, MarksGrow DEF LeftInv, DestroyNamed
  <2>2. ~DestroyCommit(t)
    BY <1>2 DEF DestroyCommit, TypeOK
  <2>3. \A n \in Names, A \in SUBSET Nets : ~CreateTunnel(t, n, A)
    BY <2>1 DEF CreateTunnel, Live, Status
  <2> QED
    BY <1>2, <2>1, <2>2, <2>3, RowSteps
<1>3. destroy'[t] = destroy[t] \/ DestroyRead(t)
  <2>1. ASSUME NEW u \in Tunnels, DestroyRead(u), u # t PROVE destroy'[t] = destroy[t]
    BY <2>1 DEF DestroyRead, TypeOK
  <2>2. ASSUME NEW u \in Tunnels, DestroyCommit(u) PROVE destroy'[t] = destroy[t]
    <3>1. destroy' = [destroy EXCEPT ![u] = None]
      BY <2>2, Zenon DEF DestroyCommit
    <3> QED
      BY <3>1 DEF TypeOK
  <2>3. ASSUME NEW u \in Tunnels, NEW n \in Names, NEW A \in SUBSET Nets,
               CreateTunnel(u, n, A) \/ UpdateTunnel(u, n, A)
        PROVE  destroy' = destroy
    BY <2>3, Zenon DEF CreateTunnel, UpdateTunnel
  <2>4. ASSUME NEW u \in Tunnels,
               SetupNames(u) \/ SetupInterface(u) \/ SetupRules(u) \/ SetupActivate(u)
                  \/ SetupEnd(u) \/ SetupFail(u)
        PROVE  destroy' = destroy
    BY <2>4, Zenon DEF SetupNames, SetupInterface, SetupRules, SetupActivate, SetupEnd, SetupFail
  <2>5. ApplyRules => destroy' = destroy
    BY DEF ApplyRules
  <2> QED
    BY <2>1, <2>2, <2>3, <2>4, <2>5 DEF Next
<1> QED
  BY <1>1, <1>2, <1>3

LEMMA LeftNext == LeftInv /\ [Next]_vars => LeftInv'
<1>1. ASSUME LeftInv, [Next]_vars PROVE IInv'
  BY <1>1, TypeStep, OptStep, OwnStep DEF IInv, LeftInv
<1>2. ASSUME LeftInv, Next PROVE LeftInv'
  BY <1>1, <1>2, RuleNamedNext, DestroyNamedNext DEF LeftInv
<1>3. ASSUME LeftInv, UNCHANGED vars PROVE LeftInv'
  BY <1>1, <1>3 DEF LeftInv, vars, RuleNamed, DestroyNamed, Live
<1> QED
  BY <1>2, <1>3

LEMMA LeftInit == Init => LeftInv
  BY InitIInv DEF Init, LeftInv, RuleNamed, DestroyNamed

\* A tunnel that is gone has left no rule that gives access, however its
\* deletion met its provisioning and however often that was repeated, unless
\* the tunnel was renamed: what the deletion withdraws by the name it has read
\* is all that was made under it (api/wireguard.py:430, tasks/wireguard.py:446).
THEOREM NoRuleLeftCorrect == Spec => []NoRuleLeft
<1>1. LeftInv => NoRuleLeft
  BY DEF LeftInv, RuleNamed, NoRuleLeft, Given
<1> QED
  BY <1>1, LeftInit, LeftNext, PTL DEF Spec

-----------------------------------------------------------------------------
(* Lists.  A tunnel that nothing has disturbed has the rules of its list.  *)

\* A live tunnel has been given its task, whose end makes it active; no two
\* have the same name; a tunnel yet to be created has no rules.
LifeInv ==
    \A t \in Tunnels :
        /\ Live(t) => setup[t].pc # "none"
        /\ tunnel[t].st = "active" => setup[t].pc = "done"
        /\ tunnel[t].st = "unused" => \A r \in rules : r.of # t
        /\ \A u \in Tunnels : Live(t) /\ Live(u) /\ tunnel[t].name = tunnel[u].name => t = u

\* Numbers in use are those of interfaces that are there.
UsedInv ==
    /\ \A r \in rules : r.on \in 0..Len(ifaces)
    /\ \A t \in Tunnels :
          /\ tunnel[t].opt \in 0..Len(ifaces)
          /\ setup[t].pc \in {"opted", "ruled"} => setup[t].opt \in 1..Len(ifaces)

\* What is on the interface of a tunnel that chose it alone is the tunnel's.
AloneInv ==
    \A t \in Tunnels : "overlap" \notin marks[t] /\ tunnel[t].opt # 0 =>
        /\ \A u \in Tunnels \ {t} :
              /\ tunnel[u].opt # tunnel[t].opt
              /\ setup[u].pc \in {"opted", "ruled"} => setup[u].opt # tunnel[t].opt
        /\ \A r \in rules : r.on = tunnel[t].opt => r.of = t

\* The rules of a tunnel that nothing has disturbed: none before its task
\* inserts them, and one for each network of the list from then on.
Reaches(t, d) == \E r \in rules : r.of = t /\ r.net = d /\ Given(r)
Listed(t) ==
    marks[t] = {} /\ Live(t) =>
        /\ \A r \in rules : (r.of = t <=> r.name = tunnel[t].name)
                            /\ (r.of = t => r.on = tunnel[t].opt)
        /\ setup[t].pc \in {"queued", "named"} => tunnel[t].opt = 0
        /\ setup[t].pc \in {"opted", "ruled"} => tunnel[t].opt = setup[t].opt
        /\ setup[t].pc # "done" => setup[t].allow = tunnel[t].allow
        /\ setup[t].pc \in {"queued", "named", "opted"} => \A r \in rules : r.of # t
        /\ setup[t].pc \in {"ruled", "done"} =>
              \A d \in Nets : d \in tunnel[t].allow <=> Reaches(t, d)

ListInv == LeftInv /\ LifeInv /\ UsedInv /\ AloneInv /\ \A t \in Tunnels : Listed(t)

\* What a step may do to a tunnel's task, and from where.
LEMMA SetupSteps ==
  ASSUME TypeOK, Next, NEW t \in Tunnels
  PROVE  \/ setup'[t] = setup[t]
         \/ /\ \E n \in Names, A \in SUBSET Nets : CreateTunnel(t, n, A)
            /\ setup'[t].pc = "queued"
         \/ /\ SetupNames(t) /\ setup[t].pc = "queued" /\ setup'[t].pc = "named"
            /\ setup'[t].allow = setup[t].allow
         \/ /\ SetupInterface(t) /\ setup[t].pc = "named" /\ setup'[t].pc = "opted"
            /\ setup'[t].opt = setup[t].opt /\ setup'[t].allow = setup[t].allow
         \/ /\ SetupRules(t) /\ setup[t].pc = "opted" /\ setup'[t].pc = "ruled"
            /\ setup'[t].opt = setup[t].opt /\ setup'[t].allow = setup[t].allow
         \/ /\ SetupActivate(t) /\ setup[t].pc = "ruled" /\ setup'[t].pc = "done"
         \/ /\ SetupEnd(t) /\ setup'[t].pc = "done"
         \/ /\ SetupFail(t) /\ setup'[t].pc = "queued"
            /\ setup[t].pc \in {"named", "opted", "ruled"} /\ "repeated" \in marks'[t]
<1>1. ASSUME NEW u \in Tunnels, u # t
      PROVE  /\ \A n \in Names, A \in SUBSET Nets :
                   CreateTunnel(u, n, A) \/ UpdateTunnel(u, n, A) => setup'[t] = setup[t]
             /\ SetupNames(u) \/ SetupInterface(u) \/ SetupRules(u) \/ SetupActivate(u)
                   \/ SetupEnd(u) \/ SetupFail(u) => setup'[t] = setup[t]
  BY <1>1 DEF CreateTunnel, UpdateTunnel, SetupNames, SetupInterface, SetupRules, SetupActivate,
     SetupEnd, SetupFail, TypeOK
<1>2. ASSUME NEW u \in Tunnels PROVE DestroyRead(u) \/ DestroyCommit(u) => setup' = setup
  BY DEF DestroyRead, DestroyCommit
<1>3. ASSUME NEW n \in Names, NEW A \in SUBSET Nets
      PROVE  /\ CreateTunnel(t, n, A) => setup'[t].pc = "queued"
             /\ UpdateTunnel(t, n, A) => setup'[t] = setup[t]
  BY DEF CreateTunnel, UpdateTunnel, TypeOK
<1>4. ApplyRules => setup' = setup
  BY DEF ApplyRules
<1>5. setup[t] \in Setup /\ setup \in [Tunnels -> Setup]
  BY DEF TypeOK
<1>6. SetupNames(t) => /\ setup[t].pc = "queued" /\ setup'[t].pc = "named"
                       /\ setup'[t].allow = setup[t].allow
  BY <1>5 DEF SetupNames, Setup
<1>7. /\ SetupInterface(t) => /\ setup[t].pc = "named" /\ setup'[t].pc = "opted"
                              /\ setup'[t].opt = setup[t].opt /\ setup'[t].allow = setup[t].allow
      /\ SetupRules(t) => /\ setup[t].pc = "opted" /\ setup'[t].pc = "ruled"
                          /\ setup'[t].opt = setup[t].opt /\ setup'[t].allow = setup[t].allow
  BY <1>5 DEF SetupInterface, SetupRules, Setup
<1>8. /\ SetupActivate(t) => setup[t].pc = "ruled" /\ setup'[t].pc = "done"
      /\ SetupEnd(t) => setup'[t].pc = "done"
  BY <1>5 DEF SetupActivate, SetupEnd, NoSetup
<1>9. ASSUME SetupFail(t)
      PROVE  /\ setup'[t].pc = "queued" /\ setup[t].pc \in {"named", "opted", "ruled"}
             /\ "repeated" \in marks'[t]
  <2>1. /\ setup' = [setup EXCEPT ![t].pc = "queued", ![t].opt = 0]
        /\ setup[t].pc \in {"named", "opted", "ruled"} /\ Mark({t}, "repeated")
    BY <1>9, Zenon DEF SetupFail
  <2>2. "repeated" \in marks'[t]
    BY <2>1, MarkFacts DEF Marks
  <2> QED
    BY <1>5, <2>1, <2>2 DEF Setup
<1> QED
  BY <1>1, <1>2, <1>3, <1>4, <1>6, <1>7, <1>8, <1>9 DEF Next

\* Interfaces are added or taken over, never removed.
LEMMA IfacesGrow ==
  ASSUME TypeOK, NumberInv, Next
  PROVE  /\ Len(ifaces) \in Nat /\ Len(ifaces') \in Nat /\ Len(ifaces') >= Len(ifaces)
         /\ \A t \in Tunnels : SetupInterface(t) =>
               setup[t].opt \in 1..Len(ifaces') /\ tunnel'[t].opt = setup[t].opt
<1>1. ASSUME NEW t \in Tunnels, Chosen(t), ifaces' = Assigned(setup[t].opt, t)
      PROVE  /\ ifaces' \in Seq(Tunnels) /\ Len(ifaces') >= Len(ifaces)
             /\ setup[t].opt \in 1..Len(ifaces')
  <2>1. setup[t].opt \in 1..Len(ifaces) + 1
    BY <1>1 DEF NumberInv
  <2> QED
    BY <1>1, <2>1, AssignedFacts DEF TypeOK
<1>2. ASSUME NEW t \in Tunnels, SetupInterface(t)
      PROVE  /\ Chosen(t) /\ ifaces' = Assigned(setup[t].opt, t)
             /\ tunnel'[t].opt = setup[t].opt
  BY <1>2, LiveFields DEF SetupInterface, Chosen, TypeOK
<1>3. ASSUME NEW t \in Tunnels, SetupFail(t)
      PROVE  ifaces' = ifaces \/ (Chosen(t) /\ ifaces' = Assigned(setup[t].opt, t))
  BY <1>3, Zenon DEF SetupFail, Chosen
<1>4. \/ ifaces' = ifaces \/ \E t \in Tunnels : SetupInterface(t) \/ SetupFail(t)
  <2>1. ASSUME NEW t \in Tunnels, NEW n \in Names, NEW A \in SUBSET Nets,
               CreateTunnel(t, n, A) \/ UpdateTunnel(t, n, A)
        PROVE  ifaces' = ifaces
    BY <2>1, Zenon DEF CreateTunnel, UpdateTunnel
  <2>2. ASSUME NEW t \in Tunnels,
               SetupNames(t) \/ SetupRules(t) \/ SetupActivate(t) \/ SetupEnd(t)
                  \/ DestroyRead(t) \/ DestroyCommit(t)
        PROVE  ifaces' = ifaces
    BY <2>2, Zenon DEF SetupNames, SetupRules, SetupActivate, SetupEnd, DestroyRead, DestroyCommit
  <2>3. ApplyRules => ifaces' = ifaces
    BY DEF ApplyRules
  <2> QED
    BY <2>1, <2>2, <2>3 DEF Next
<1>5. ifaces' \in Seq(Tunnels) /\ Len(ifaces') >= Len(ifaces)
  <2>1. ifaces \in Seq(Tunnels)
    BY DEF TypeOK
  <2>2. CASE ifaces' = ifaces
    BY <2>1, <2>2
  <2>3. ASSUME NEW t \in Tunnels, SetupInterface(t) \/ SetupFail(t)
        PROVE  ifaces' \in Seq(Tunnels) /\ Len(ifaces') >= Len(ifaces)
    BY <1>1, <1>2, <1>3, <2>2, <2>3
  <2> QED
    BY <1>4, <2>2, <2>3
<1>6. ASSUME NEW t \in Tunnels, SetupInterface(t)
      PROVE  setup[t].opt \in 1..Len(ifaces') /\ tunnel'[t].opt = setup[t].opt
  BY <1>1, <1>2, <1>6
<1> QED
  BY <1>5, <1>6 DEF TypeOK

\* A name is kept, or is one that nobody has.
LEMMA NamesUnused ==
  ASSUME TypeOK, Next, NEW t \in Tunnels, Live(t)'
  PROVE  \/ Live(t) /\ tunnel'[t].name = tunnel[t].name
         \/ tunnel'[t].name \in Unnamed /\ \A u \in Tunnels \ {t} : tunnel'[u] = tunnel[u]
<1>1. ASSUME NEW n \in Names, NEW A \in SUBSET Nets, CreateTunnel(t, n, A)
      PROVE  tunnel'[t].name \in Unnamed /\ \A u \in Tunnels \ {t} : tunnel'[u] = tunnel[u]
  BY <1>1 DEF CreateTunnel, TypeOK
<1>2. ASSUME NEW n \in Names, NEW A \in SUBSET Nets, UpdateTunnel(t, n, A)
      PROVE  \/ Live(t) /\ tunnel'[t].name = tunnel[t].name
             \/ tunnel'[t].name \in Unnamed /\ \A u \in Tunnels \ {t} : tunnel'[u] = tunnel[u]
  <2>1. /\ \E B : tunnel' = [tunnel EXCEPT ![t].name = n, ![t].allow = B]
        /\ Live(t) /\ n \in {tunnel[t].name} \cup Unnamed
    BY <1>2 DEF UpdateTunnel
  <2> QED
    BY <2>1, LiveFields DEF TypeOK
<1>3. ASSUME NEW u \in Tunnels, u # t
      PROVE  \A n \in Names, A \in SUBSET Nets :
                CreateTunnel(u, n, A) \/ UpdateTunnel(u, n, A) => tunnel'[t] = tunnel[t]
  BY <1>3 DEF CreateTunnel, UpdateTunnel, TypeOK
<1>4. ASSUME NEW u \in Tunnels,
             SetupNames(u) \/ SetupInterface(u) \/ SetupActivate(u) \/ SetupFail(u) \/ DestroyRead(u)
      PROVE  tunnel'[t].name = tunnel[t].name /\ (Live(t)' => Live(t))
  <2>1. /\ Live(u)
        /\ \/ \E s \in Status : tunnel' = [tunnel EXCEPT ![u].st = s]
           \/ tunnel' = [tunnel EXCEPT ![u].opt = setup[u].opt]
    BY <1>4 DEF SetupNames, SetupInterface, SetupActivate, SetupFail, DestroyRead, Status
  <2> QED
    BY <2>1, LiveFields DEF TypeOK, Live
<1>5. ASSUME NEW u \in Tunnels, DestroyCommit(u) PROVE u # t /\ tunnel'[t] = tunnel[t]
  <2>1. tunnel' = [tunnel EXCEPT ![u] = Absent("gone")]
    BY <1>5, Zenon DEF DestroyCommit
  <2> QED
    BY <2>1 DEF Absent, Live, Status, TypeOK
<1>6. ASSUME NEW u \in Tunnels, SetupRules(u) \/ SetupEnd(u) PROVE tunnel' = tunnel
  BY <1>6 DEF SetupRules, SetupEnd
<1>7. ApplyRules => tunnel' = tunnel
  BY DEF ApplyRules
<1> QED
  BY <1>1, <1>2, <1>3, <1>4, <1>5, <1>6, <1>7 DEF Next, Live

LEMMA LifeNext ==
  ASSUME TypeOK, LifeInv, Next
  PROVE  LifeInv'
<1>1. ASSUME NEW t \in Tunnels, Live(t)' PROVE setup'[t].pc # "none"
  <2>1. Live(t) => setup[t].pc # "none"
    BY DEF LifeInv
  <2>2. ~DestroyCommit(t)
    <3>1. DestroyCommit(t) => tunnel' = [tunnel EXCEPT ![t] = Absent("gone")]
      BY Zenon DEF DestroyCommit
    <3> QED
      BY <1>1, <3>1 DEF Absent, Live, Status, TypeOK
  <2>3. ASSUME NEW n \in Names, NEW A \in SUBSET Nets, CreateTunnel(t, n, A)
        PROVE  setup'[t].pc # "none"
    BY <2>3 DEF CreateTunnel, TypeOK
  <2> QED
    BY <1>1, <2>1, <2>2, <2>3, RowSteps, SetupSteps
<1>2. ASSUME NEW t \in Tunnels, tunnel'[t].st = "active" PROVE setup'[t].pc = "done"
  <2>1. SetupActivate(t) \/ tunnel'[t].st = tunnel[t].st
    <3>1. tunnel'[t].st \notin {"gone", "pending", "provisioning", "error", "destroying"}
      BY <1>2
    <3>2. /\ SetupNames(t) => tunnel'[t].st = "provisioning"
          /\ SetupFail(t) => tunnel'[t].st = "error"
          /\ DestroyRead(t) => tunnel'[t].st = "destroying"
      BY LiveFields DEF SetupNames, SetupFail, DestroyRead, TypeOK
    <3>3. DestroyCommit(t) => tunnel'[t].st = "gone"
      <4>1. DestroyCommit(t) => tunnel' = [tunnel EXCEPT ![t] = Absent("gone")]
        BY Zenon DEF DestroyCommit
      <4> QED
        BY <4>1 DEF Absent, TypeOK
    <3>4. ASSUME NEW n \in Names, NEW A \in SUBSET Nets, CreateTunnel(t, n, A)
          PROVE  tunnel'[t].st = "pending"
      BY <3>4 DEF CreateTunnel, TypeOK
    <3> QED
      BY <3>1, <3>2, <3>3, <3>4, RowSteps
  <2>2. SetupActivate(t) => setup'[t].pc = "done"
    BY DEF SetupActivate, NoSetup, TypeOK
  <2>3. tunnel'[t].st = tunnel[t].st => setup[t].pc = "done" /\ tunnel[t].st = "active"
    BY <1>2 DEF LifeInv
  <2>4. ASSUME NEW n \in Names, NEW A \in SUBSET Nets, CreateTunnel(t, n, A)
        PROVE  tunnel[t].st = "unused"
    BY <2>4 DEF CreateTunnel
  <2> QED
    BY <2>1, <2>2, <2>3, <2>4, SetupSteps
<1>3. ASSUME NEW t \in Tunnels, tunnel'[t].st = "unused", NEW q \in rules' PROVE q.of # t
  <2>1. tunnel[t].st = "unused" /\ ~Live(t)
    <3>1. /\ SetupNames(t) => tunnel'[t].st = "provisioning"
          /\ SetupFail(t) => tunnel'[t].st = "error"
          /\ SetupActivate(t) => tunnel'[t].st = "active"
          /\ DestroyRead(t) => tunnel'[t].st = "destroying"
      BY LiveFields DEF SetupNames, SetupFail, SetupActivate, DestroyRead, TypeOK
    <3>2. DestroyCommit(t) => tunnel'[t].st = "gone"
      <4>1. DestroyCommit(t) => tunnel' = [tunnel EXCEPT ![t] = Absent("gone")]
        BY Zenon DEF DestroyCommit
      <4> QED
        BY <4>1 DEF Absent, TypeOK
    <3>3. ASSUME NEW n \in Names, NEW A \in SUBSET Nets, CreateTunnel(t, n, A)
          PROVE  tunnel'[t].st = "pending"
      BY <3>3 DEF CreateTunnel, TypeOK
    <3> QED
      BY <1>3, <3>1, <3>2, <3>3, RowSteps DEF Live, Status
  <2>2. \A r \in rules : r.of # t
    BY <2>1 DEF LifeInv
  <2>3. NewRule(q) => q.of # t
    BY <2>1 DEF NewRule
  <2> QED
    BY <2>2, <2>3, RuleSteps DEF Like
<1>4. ASSUME NEW t \in Tunnels, NEW u \in Tunnels, Live(t)', Live(u)',
             tunnel'[t].name = tunnel'[u].name
      PROVE  t = u
  BY <1>4, NamesUnused DEF LifeInv, Unnamed
<1> QED
  BY <1>1, <1>2, <1>3, <1>4, Zenon DEF LifeInv

LEMMA UsedNext ==
  ASSUME TypeOK, NumberInv, UsedInv, Next
  PROVE  UsedInv'
<1> DEFINE L == Len(ifaces)
           M == Len(ifaces')
<1>1. L \in Nat /\ M \in Nat /\ M >= L
  BY IfacesGrow
<1> HIDE DEF L, M
<1>2. ASSUME NEW t \in Tunnels PROVE tunnel'[t].opt \in 0..M
  <2>1. tunnel[t].opt \in 0..L
    BY DEF UsedInv, L
  <2>2. SetupInterface(t) => tunnel'[t].opt \in 1..M
    BY IfacesGrow DEF M
  <2>3. DestroyCommit(t) => tunnel'[t].opt = 0
    <3>1. DestroyCommit(t) => tunnel' = [tunnel EXCEPT ![t] = Absent("gone")]
      BY Zenon DEF DestroyCommit
    <3> QED
      BY <3>1 DEF Absent, TypeOK
  <2>4. ASSUME NEW n \in Names, NEW A \in SUBSET Nets, CreateTunnel(t, n, A)
        PROVE  tunnel'[t].opt = 0
    BY <2>4 DEF CreateTunnel, TypeOK
  <2> QED
    BY <1>1, <2>1, <2>2, <2>3, <2>4, RowSteps
<1>3. ASSUME NEW t \in Tunnels, setup'[t].pc \in {"opted", "ruled"} PROVE setup'[t].opt \in 1..M
  <2>1. setup[t].pc \in {"opted", "ruled"} => setup[t].opt \in 1..L
    BY DEF UsedInv, L
  <2>2. SetupInterface(t) => setup[t].opt \in 1..M
    BY IfacesGrow DEF M
  <2> QED
    BY <1>1, <1>3, <2>1, <2>2, SetupSteps
<1>4. ASSUME NEW q \in rules' PROVE q.on \in 0..M
  <2>1. CASE \E r \in rules : Like(q, r)
    BY <1>1, <2>1 DEF Like, UsedInv, L
  <2>2. CASE NewRule(q)
    <3>1. PICK t \in Tunnels : \/ SetupRules(t) /\ q.on = setup[t].opt
                               \/ q.on = tunnel[t].opt
      BY <2>2 DEF NewRule
    <3>2. SetupRules(t) => setup[t].opt \in 1..L
      BY DEF SetupRules, UsedInv, L
    <3>3. tunnel[t].opt \in 0..L
      BY DEF UsedInv, L
    <3> QED
      BY <1>1, <3>1, <3>2, <3>3
  <2> QED
    BY <2>1, <2>2, RuleSteps
<1> QED
  BY <1>2, <1>3, <1>4 DEF UsedInv, M

\* The number of an interface that a tunnel chose alone: a tunnel that has it
\* already keeps it for itself, and one that gets it takes one never used.
LEMMA AloneNext ==
  ASSUME IInv, UsedInv, AloneInv, Next
  PROVE  AloneInv'
<1> USE DEF IInv
<1> SUFFICES ASSUME NEW t \in Tunnels, "overlap" \notin marks'[t], tunnel'[t].opt # 0
             PROVE  /\ \A u \in Tunnels \ {t} :
                          /\ tunnel'[u].opt # tunnel'[t].opt
                          /\ setup'[u].pc \in {"opted", "ruled"} => setup'[u].opt # tunnel'[t].opt
                    /\ \A q \in rules' : q.on = tunnel'[t].opt => q.of = t
  BY DEF AloneInv
<1>1. "overlap" \notin marks[t]
  BY MarksGrow
<1>2. ASSUME NEW u \in Tunnels
      PROVE  tunnel'[u].opt \in {0, tunnel[u].opt} \/ SetupInterface(u)
  <2>1. DestroyCommit(u) => tunnel'[u].opt = 0
    <3>1. DestroyCommit(u) => tunnel' = [tunnel EXCEPT ![u] = Absent("gone")]
      BY Zenon DEF DestroyCommit
    <3> QED
      BY <3>1 DEF Absent, TypeOK
  <2>2. ASSUME NEW n \in Names, NEW A \in SUBSET Nets, CreateTunnel(u, n, A)
        PROVE  tunnel'[u].opt = 0
    BY <2>2 DEF CreateTunnel, TypeOK
  <2> QED
    BY <2>1, <2>2, RowSteps
<1>3. \A u \in Tunnels : SetupInterface(u) => Chosen(u) /\ tunnel'[u].opt = setup[u].opt
  BY IfacesGrow DEF SetupInterface, Chosen
<1>4. CASE tunnel'[t].opt = tunnel[t].opt
  <2> DEFINE o == tunnel[t].opt
  <2>1. /\ \A u \in Tunnels \ {t} :
              /\ tunnel[u].opt # o
              /\ setup[u].pc \in {"opted", "ruled"} => setup[u].opt # o
        /\ \A r \in rules : r.on = o => r.of = t
        /\ \A u \in Tunnels : Chosen(u) => setup[u].opt # o
    BY <1>1, <1>4 DEF AloneInv, OwnInv
  <2>2. ASSUME NEW u \in Tunnels \ {t}
        PROVE  /\ tunnel'[u].opt # o
               /\ setup'[u].pc \in {"opted", "ruled"} => setup'[u].opt # o
    <3>1. tunnel'[u].opt # o
      BY <1>2, <1>3, <1>4, <2>1
    <3>2. ASSUME setup'[u].pc \in {"opted", "ruled"} PROVE setup'[u].opt # o
      BY <1>3, <2>1, <3>2, SetupSteps
    <3> QED
      BY <3>1, <3>2
  <2>3. ASSUME NEW q \in rules', q.on = o PROVE q.of = t
    <3>1. CASE \E r \in rules : Like(q, r)
      BY <2>1, <2>3, <3>1 DEF Like
    <3>2. CASE NewRule(q)
      <4>1. PICK u \in Tunnels : /\ q.of = u
                                 /\ \/ SetupRules(u) /\ q.on = setup[u].opt
                                    \/ q.on = tunnel[u].opt
        BY <3>2 DEF NewRule
      <4>2. SetupRules(u) => setup[u].pc \in {"opted", "ruled"}
        BY DEF SetupRules
      <4> QED
        BY <2>1, <2>3, <4>1, <4>2
    <3> QED
      BY <3>1, <3>2, RuleSteps
  <2> QED
    BY <1>4, <2>2, <2>3
<1>5. CASE SetupInterface(t)
  <2> DEFINE o == setup[t].opt
  <2>1. /\ tunnel'[t].opt = o /\ o = Len(ifaces) + 1 /\ Len(ifaces) \in Nat
    BY <1>1, <1>3, <1>5, IfacesGrow DEF OwnInv
  <2>2. /\ rules' = rules
        /\ \A u \in Tunnels \ {t} : tunnel'[u] = tunnel[u] /\ setup'[u] = setup[u]
    BY <1>5 DEF SetupInterface, TypeOK
  <2>3. /\ \A u \in Tunnels : tunnel[u].opt # o
        /\ \A u \in Tunnels : setup[u].pc \in {"opted", "ruled"} => setup[u].opt # o
        /\ \A r \in rules : r.on # o
    BY <2>1 DEF UsedInv
  <2> QED
    BY <2>1, <2>2, <2>3
<1> QED
  BY <1>2, <1>4, <1>5

\* An update that leaves the tunnel without a mark: it keeps the name, the
\* tunnel's task has ended, and no rule of the networks it adds waits.
LEMMA CleanUpdate ==
  ASSUME TypeOK, NEW t \in Tunnels, NEW n \in Names, NEW A \in SUBSET Nets,
         UpdateTunnel(t, n, A), marks'[t] = {}
  PROVE  LET N == tunnel[t].name
             old == tunnel[t].allow
         IN  /\ n = N /\ Live(t) /\ ~SetupDue(t) /\ tunnel[t].opt # 0
             /\ tunnel'[t].allow = A /\ tunnel'[t].opt = tunnel[t].opt
             /\ rules' = Withdraw(RulesOf(N, old \ A)) \cup Missing(t, N, A \ old, tunnel[t].opt)
             /\ \A r \in rules : r.name = N => r.net \notin A \ old
<1> DEFINE old == tunnel[t].allow
           asked == IF tunnel[t].opt # 0 THEN A ELSE old
           waiting == RulesOf(n, asked \ old) # {}
<1>1. /\ Live(t) /\ <<n, asked>> # <<tunnel[t].name, old>>
      /\ tunnel' = [tunnel EXCEPT ![t].name = n, ![t].allow = asked]
      /\ rules' = Withdraw(RulesOf(n, old \ asked)) \cup Missing(t, n, asked \ old, tunnel[t].opt)
  BY DEF UpdateTunnel
<1>2. marks' = [marks EXCEPT ![t] = @ \cup
                  (IF n # tunnel[t].name THEN {"renamed"} ELSE {}) \cup
                  (IF asked # old /\ (SetupDue(t) \/ waiting) THEN {"stale"} ELSE {})]
  BY DEF UpdateTunnel
<1> HIDE DEF waiting
<1>3. n = tunnel[t].name
  <2>1. ASSUME n # tunnel[t].name PROVE FALSE
    <3>1. \E M : marks' = [marks EXCEPT ![t] = @ \cup {"renamed"} \cup M]
      BY <1>2, <2>1, Zenon
    <3> QED
      BY <3>1 DEF TypeOK
  <2> QED
    BY <2>1
<1>4. asked # old
  BY <1>1, <1>3
<1>5. ~(SetupDue(t) \/ waiting)
  <2>1. ASSUME SetupDue(t) \/ waiting PROVE FALSE
    <3>1. \E M : marks' = [marks EXCEPT ![t] = @ \cup M \cup {"stale"}]
      BY <1>2, <1>4, <2>1, Zenon
    <3> QED
      BY <3>1 DEF TypeOK
  <2> QED
    BY <2>1
<1>6. tunnel[t].opt # 0 /\ asked = A
  BY <1>4
<1>7. tunnel'[t].allow = A /\ tunnel'[t].opt = tunnel[t].opt
  BY <1>1, <1>6, LiveFields DEF TypeOK
<1>8. \A r \in rules : r.name = n => r.net \notin A \ old
  BY <1>5, <1>6 DEF waiting, RulesOf
<1> QED
  BY <1>1, <1>3, <1>5, <1>6, <1>7, <1>8

\* The rules of a tunnel that the step of another tunnel leaves unmarked stay.
LEMMA OthersLeave ==
  ASSUME TypeOK, LifeInv', Next, NEW t \in Tunnels, marks'[t] = {}, Live(t), Live(t)',
         tunnel'[t].name = tunnel[t].name,
         \A r \in rules : r.of = t => r.name = tunnel[t].name,
         ~SetupRules(t), \A n \in Names, A \in SUBSET Nets : ~UpdateTunnel(t, n, A),
         NEW d
  PROVE  Reaches(t, d)' <=> Reaches(t, d)
<1> DEFINE N == tunnel[t].name
<1>1. ASSUME Reaches(t, d)' PROVE Reaches(t, d)
  <2>1. PICK q \in rules' : q.of = t /\ q.net = d /\ q.st # "pending_delete"
    BY <1>1 DEF Reaches, Given
  <2>2. ~NewRule(q)
    BY <2>1 DEF NewRule
  <2>3. PICK r \in rules : Like(q, r)
    BY <2>2, RuleSteps
  <2> QED
    BY <2>1, <2>3 DEF Reaches, Like, Given
<1>2. ASSUME NEW r \in rules, r.of = t, r.net = d, Given(r)
      PROVE  \E q \in rules' : q.of = t /\ q.net = d /\ q.st # "pending_delete"
  <2> r \in Rule /\ r.name = N /\ r.st # "pending_delete"
    BY <1>2 DEF TypeOK, Given
  <2>1. CASE r \in rules'
    BY <1>2, <2>1
  <2>2. ASSUME NEW u \in Tunnels, NEW n \in Names, NEW A \in SUBSET Nets, UpdateTunnel(u, n, A)
        PROVE  r \in rules'
    <3>1. u # t
      BY <2>2
    <3>2. PICK D \in SUBSET Nets : rules \ RulesOf(n, D) \subseteq rules'
      <4> DEFINE old == tunnel[u].allow
                 asked == IF tunnel[u].opt # 0 THEN A ELSE old
      <4>1. /\ Live(u)
            /\ rules' = Withdraw(RulesOf(n, old \ asked))
                        \cup Missing(u, n, asked \ old, tunnel[u].opt)
        BY <2>2 DEF UpdateTunnel
      <4>2. old \ asked \in SUBSET Nets /\ RulesOf(n, old \ asked) \in SUBSET rules
        BY <4>1, LiveFields DEF RulesOf
      <4>3. rules \ RulesOf(n, old \ asked) \subseteq Withdraw(RulesOf(n, old \ asked))
        BY <4>2, WithdrawFacts
      <4> HIDE DEF old, asked
      <4> QED
        BY <4>1, <4>2, <4>3
    <3>3. tunnel'[u].name = n /\ Live(u)'
      <4>1. Live(u) /\ \E B : tunnel' = [tunnel EXCEPT ![u].name = n, ![u].allow = B]
        BY <2>2 DEF UpdateTunnel
      <4> QED
        BY <4>1, LiveFields DEF TypeOK, Live
    <3>4. n # N
      BY <3>1, <3>3 DEF LifeInv
    <3> QED
      BY <3>2, <3>4 DEF RulesOf
  <2>3. ASSUME NEW u \in Tunnels, DestroyCommit(u) PROVE r \in rules'
    <3>1. /\ rules' = Withdraw(Alike(destroy[u]))
          /\ tunnel' = [tunnel EXCEPT ![u] = Absent("gone")]
          /\ Mark({v \in Tunnels \ {u} : <<tunnel[v].name, destroy[u]>> \in StartsWith}, "prefix")
      BY <2>3, Zenon DEF DestroyCommit
    <3>2. u # t
      BY <3>1 DEF Absent, Live, Status, TypeOK
    <3>3. <<N, destroy[u]>> \notin StartsWith
      BY <3>1, <3>2, MarkFacts DEF Marks
    <3>4. rules \ Alike(destroy[u]) \subseteq rules'
      BY <3>1, WithdrawFacts DEF Alike
    <3> QED
      BY <3>3, <3>4 DEF Alike
  <2>4. CASE ApplyRules
    <3>1. [r EXCEPT !.st = "synced"] \in rules'
      BY <2>4 DEF ApplyRules
    <3>2. /\ [r EXCEPT !.st = "synced"].of = t /\ [r EXCEPT !.st = "synced"].net = d
          /\ [r EXCEPT !.st = "synced"].st = "synced"
      BY <1>2 DEF Rule
    <3> QED
      BY <3>1, <3>2
  <2>5. ASSUME NEW u \in Tunnels, SetupRules(u) PROVE r \in rules'
    BY <2>5 DEF SetupRules
  <2>6. ASSUME NEW u \in Tunnels, NEW n \in Names, NEW A \in SUBSET Nets, CreateTunnel(u, n, A)
        PROVE  rules' = rules
    BY <2>6, Zenon DEF CreateTunnel
  <2>7. ASSUME NEW u \in Tunnels,
               SetupNames(u) \/ SetupInterface(u) \/ SetupActivate(u) \/ SetupEnd(u)
                  \/ SetupFail(u) \/ DestroyRead(u)
        PROVE  rules' = rules
    BY <2>7, Zenon DEF SetupNames, SetupInterface, SetupActivate, SetupEnd, SetupFail, DestroyRead
  <2> QED
    BY <2>1, <2>2, <2>3, <2>4, <2>5, <2>6, <2>7 DEF Next
<1> QED
  BY <1>1, <1>2 DEF Reaches, Given

LEMMA ListedNext ==
  ASSUME ListInv, LifeInv', Next, NEW t \in Tunnels
  PROVE  Listed(t)'
<1> TypeOK /\ LifeInv /\ Listed(t)
  BY DEF ListInv, LeftInv, IInv
<1> SUFFICES ASSUME marks'[t] = {}, Live(t)' PROVE Listed(t)'
  BY DEF Listed
<1>1. marks[t] = {}
  BY MarksGrow
<1>2. ~DestroyCommit(t)
  <2>1. DestroyCommit(t) => tunnel' = [tunnel EXCEPT ![t] = Absent("gone")]
    BY Zenon DEF DestroyCommit
  <2> QED
    BY <2>1 DEF Absent, Live, Status, TypeOK
<1>3. ASSUME NEW n \in Names, NEW A \in SUBSET Nets, CreateTunnel(t, n, A) PROVE Listed(t)'
  <2>1. /\ tunnel'[t].name = n /\ tunnel'[t].opt = 0 /\ tunnel'[t].allow = A
        /\ setup'[t].pc = "queued" /\ setup'[t].allow = A
        /\ rules' = rules /\ tunnel[t].st = "unused"
    BY <1>3, Zenon DEF CreateTunnel, TypeOK
  <2>2. \A r \in rules : r.name # n
    <3>1. ASSUME \E r \in rules : r.name = n PROVE FALSE
      <4>1. Mark({t}, "leftover")
        BY <1>3, <3>1, Zenon DEF CreateTunnel
      <4> QED
        BY <4>1, MarkFacts DEF Marks
    <3> QED
      BY <3>1
  <2>3. \A r \in rules : r.of # t
    BY <2>1 DEF LifeInv
  <2> QED
    BY <2>1, <2>2, <2>3 DEF Listed
<1>4. ASSUME Live(t), tunnel'[t].name = tunnel[t].name,
             tunnel'[t].opt = tunnel[t].opt \/ SetupInterface(t),
             tunnel'[t].allow = tunnel[t].allow
                \/ \E n \in Names, A \in SUBSET Nets : UpdateTunnel(t, n, A),
             ~\E n \in Names, A \in SUBSET Nets : CreateTunnel(t, n, A)
      PROVE  Listed(t)'
  <2> DEFINE N == tunnel[t].name
  <2>1. /\ \A r \in rules : (r.of = t <=> r.name = N) /\ (r.of = t => r.on = tunnel[t].opt)
        /\ setup[t].pc \in {"queued", "named"} => tunnel[t].opt = 0
        /\ setup[t].pc \in {"opted", "ruled"} => tunnel[t].opt = setup[t].opt
        /\ setup[t].pc # "done" => setup[t].allow = tunnel[t].allow
        /\ setup[t].pc \in {"queued", "named", "opted"} => \A r \in rules : r.of # t
        /\ setup[t].pc \in {"ruled", "done"} =>
              \A d \in Nets : d \in tunnel[t].allow <=> Reaches(t, d)
    BY <1>1, <1>4 DEF Listed
  <2>2. ASSUME NEW n \in Names, NEW A \in SUBSET Nets, UpdateTunnel(t, n, A)
        PROVE  /\ ~SetupDue(t) /\ tunnel[t].opt # 0
               /\ tunnel'[t].allow = A /\ tunnel'[t].opt = tunnel[t].opt
               /\ rules' = Withdraw(RulesOf(N, tunnel[t].allow \ A))
                           \cup Missing(t, N, A \ tunnel[t].allow, tunnel[t].opt)
               /\ \A r \in rules : r.name = N => r.net \notin A \ tunnel[t].allow
               /\ setup' = setup /\ setup[t].pc = "done"
    <3>1. setup' = setup
      BY <2>2 DEF UpdateTunnel
    <3>2. setup[t].pc # "none"
      BY <1>4 DEF LifeInv
    <3> QED
      BY <2>2, <3>1, <3>2, CleanUpdate DEF SetupDue
  <2>3. /\ SetupInterface(t) => /\ setup[t].pc = "named" /\ setup'[t].pc = "opted"
                                /\ rules' = rules /\ tunnel'[t].opt = setup[t].opt
        /\ SetupRules(t) => setup'[t].pc = "ruled"
    <3>1. /\ SetupInterface(t) => /\ setup[t].pc = "named" /\ setup'[t].pc = "opted"
                                  /\ rules' = rules
          /\ SetupRules(t) => setup'[t].pc = "ruled"
      BY DEF SetupInterface, SetupRules, TypeOK, Setup
    <3> QED
      BY <3>1, IfacesGrow DEF ListInv, LeftInv, IInv
  <2>4. ~SetupFail(t) /\ ~SetupEnd(t)
    <3>1. SetupFail(t) => "repeated" \in marks'[t]
      <4>1. SetupFail(t) => Mark({t}, "repeated")
        BY Zenon DEF SetupFail
      <4> QED
        BY <4>1, MarkFacts DEF Marks
    <3>2. ~SetupEnd(t)
      BY <1>4 DEF SetupEnd, LifeInv
    <3> QED
      BY <3>1, <3>2
  \* Names, and the interface.
  <2>5. ASSUME NEW q \in rules'
        PROVE  (q.of = t <=> q.name = N) /\ (q.of = t => q.on = tunnel'[t].opt)
    <3>1. CASE \E r \in rules : Like(q, r)
      BY <1>4, <2>1, <2>3, <3>1 DEF Like
    <3>2. CASE NewRule(q)
      <4>1. PICK u \in Tunnels :
               /\ q.of = u /\ Live(u) /\ tunnel'[u].name = q.name
               /\ \/ SetupRules(u) /\ q.on = setup[u].opt
                  \/ /\ \E n \in Names, A \in SUBSET Nets : UpdateTunnel(u, n, A)
                     /\ q.on = tunnel[u].opt
        BY <3>2 DEF NewRule
      <4>2. Live(u)'
        <5>1. ASSUME SetupRules(u) PROVE tunnel' = tunnel
          BY <5>1 DEF SetupRules
        <5>2. ASSUME NEW n \in Names, NEW A \in SUBSET Nets, UpdateTunnel(u, n, A)
              PROVE  tunnel'[u].st = tunnel[u].st
          <6>1. \E B : tunnel' = [tunnel EXCEPT ![u].name = n, ![u].allow = B]
            BY <5>2 DEF UpdateTunnel
          <6> QED
            BY <4>1, <6>1, LiveFields DEF TypeOK
        <5> QED
          BY <4>1, <5>1, <5>2 DEF Live
      <4>3. CASE u = t
        <5>1. SetupRules(t) => setup[t].pc = "opted" /\ tunnel' = tunnel
          BY DEF SetupRules
        <5> QED
          BY <1>4, <2>1, <2>2, <4>1, <4>3, <5>1
      <4>4. CASE u # t
        BY <1>4, <4>1, <4>2, <4>4 DEF LifeInv
      <4> QED
        BY <4>3, <4>4
    <3> QED
      BY <3>1, <3>2, RuleSteps
  <2>6. setup'[t].pc \in {"queued", "named"} => tunnel'[t].opt = 0
    BY <1>4, <2>1, <2>3, <2>4, SetupSteps
  <2>7. setup'[t].pc \in {"opted", "ruled"} => tunnel'[t].opt = setup'[t].opt
    BY <1>4, <2>1, <2>3, <2>4, SetupSteps
  <2>8. setup'[t].pc # "done" => setup'[t].allow = tunnel'[t].allow
    BY <1>4, <2>1, <2>2, <2>4, SetupSteps
  <2>9. ASSUME setup'[t].pc \in {"queued", "named", "opted"}, NEW q \in rules' PROVE q.of # t
    <3>1. setup[t].pc \in {"queued", "named", "opted"} /\ ~SetupRules(t)
      BY <1>4, <2>3, <2>4, <2>9, SetupSteps
    <3>2. \A r \in rules : r.of # t
      BY <2>1, <3>1
    <3>3. ASSUME NewRule(q) PROVE q.of # t
      BY <2>2, <3>1, <3>3 DEF NewRule
    <3> QED
      BY <3>2, <3>3, RuleSteps DEF Like
  \* The list.
  <2>10. ASSUME setup'[t].pc \in {"ruled", "done"}, NEW d \in Nets
         PROVE  d \in tunnel'[t].allow <=> Reaches(t, d)'
    <3>1. ASSUME NEW n \in Names, NEW A \in SUBSET Nets, UpdateTunnel(t, n, A)
          PROVE  d \in tunnel'[t].allow <=> Reaches(t, d)'
      <4> DEFINE old == tunnel[t].allow
                 R == RulesOf(N, old \ A)
                 M == Missing(t, N, A \ old, tunnel[t].opt)
      <4>1. /\ tunnel'[t].allow = A /\ rules' = Withdraw(R) \cup M
            /\ \A r \in rules : r.name = N => r.net \notin A \ old
            /\ d \in old <=> Reaches(t, d)
        BY <2>1, <2>2, <3>1
      <4>2. /\ R \in SUBSET rules /\ \A r \in rules : r \in R <=> r.name = N /\ r.net \in old \ A
        BY DEF RulesOf
      <4>3. /\ \A q \in Withdraw(R) : q.st # "pending_delete" => q \in rules \ R
            /\ rules \ R \subseteq Withdraw(R)
        BY <4>2, WithdrawFacts DEF Given
      <4>4. /\ \A q \in M : q.of = t /\ q.net \in A \ old /\ q.st = "pending"
            /\ \A e \in A \ old : (\A r \in rules : r.name = N => r.net # e) =>
                  \E q \in M : q.net = e
        <5>1. N \in Names /\ A \ old \in SUBSET Nets /\ tunnel[t].opt \in Nat
          BY <1>4, LiveFields
        <5> QED
          BY <5>1, MissingFacts
      <4> HIDE DEF R, M, old
      <4>5. ASSUME d \in A PROVE Reaches(t, d)'
        <5>1. CASE d \in old
          <6>1. PICK r \in rules : r.of = t /\ r.net = d /\ r.st # "pending_delete"
            BY <4>1, <5>1 DEF Reaches, Given
          <6>2. r \in rules'
            BY <4>1, <4>2, <4>3, <4>5, <6>1
          <6> QED
            BY <6>1, <6>2 DEF Reaches, Given
        <5>2. CASE d \notin old
          <6>1. PICK q \in M : q.net = d
            BY <4>1, <4>4, <4>5, <5>2
          <6> QED
            BY <4>1, <4>4, <6>1 DEF Reaches, Given
        <5> QED
          BY <5>1, <5>2
      <4>6. ASSUME Reaches(t, d)' PROVE d \in A
        <5>1. PICK q \in rules' : q.of = t /\ q.net = d /\ q.st # "pending_delete"
          BY <4>6 DEF Reaches, Given
        <5>2. CASE q \in M
          BY <4>4, <5>1, <5>2
        <5>3. CASE q \in Withdraw(R)
          <6>1. q \in rules /\ q \notin R
            BY <4>3, <5>1, <5>3
          <6>2. d \in old
            BY <4>1, <5>1, <6>1 DEF Reaches, Given
          <6> QED
            BY <2>1, <4>2, <5>1, <6>1, <6>2
        <5> QED
          BY <4>1, <5>2, <5>3
      <4> QED
        BY <4>1, <4>5, <4>6
    <3>2. ASSUME SetupRules(t) PROVE d \in tunnel'[t].allow <=> Reaches(t, d)'
      <4> DEFINE M == Missing(t, N, Effective(t), setup[t].opt)
      <4>1. /\ setup[t].pc = "opted" /\ rules' = rules \cup M /\ tunnel' = tunnel
        BY <3>2 DEF SetupRules
      <4>2. /\ Effective(t) = tunnel[t].allow
            /\ \A r \in rules : r.of # t /\ r.name # N
        BY <2>1, <4>1 DEF Effective
      <4>3. /\ \A q \in M : q.of = t /\ q.net \in Effective(t) /\ q.st = "pending"
            /\ \A e \in Effective(t) : (\A r \in rules : r.name = N => r.net # e) =>
                  \E q \in M : q.net = e
        <5>1. N \in Names /\ Effective(t) \in SUBSET Nets /\ setup[t].opt \in Nat
          BY <1>4, <4>2, LiveFields DEF TypeOK, Setup
        <5> QED
          BY <5>1, MissingFacts
      <4> HIDE DEF M
      <4>4. ASSUME d \in tunnel[t].allow PROVE Reaches(t, d)'
        <5>1. PICK q \in M : q.net = d
          BY <4>2, <4>3, <4>4
        <5> QED
          BY <4>1, <4>3, <5>1 DEF Reaches, Given
      <4>5. ASSUME Reaches(t, d)' PROVE d \in tunnel[t].allow
        <5>1. PICK q \in rules' : q.of = t /\ q.net = d
          BY <4>5 DEF Reaches
        <5> QED
          BY <4>1, <4>2, <4>3, <5>1
      <4> QED
        BY <4>1, <4>4, <4>5
    <3>3. ASSUME ~SetupRules(t), \A n \in Names, A \in SUBSET Nets : ~UpdateTunnel(t, n, A)
          PROVE  d \in tunnel'[t].allow <=> Reaches(t, d)'
      <4>1. setup[t].pc \in {"ruled", "done"}
        BY <1>4, <2>4, <2>10, <3>3, SetupSteps
      <4>2. Reaches(t, d)' <=> Reaches(t, d)
        BY <1>4, <2>1, <3>3, OthersLeave
      <4> QED
        BY <1>4, <2>1, <3>3, <4>1, <4>2
    <3> QED
      BY <3>1, <3>2, <3>3
  <2> QED
    BY <1>4, <2>5, <2>6, <2>7, <2>8, <2>9, <2>10 DEF Listed
<1> QED
  BY <1>2, <1>3, <1>4, RowSteps

LEMMA ListNext == ListInv /\ [Next]_vars => ListInv'
<1>1. ASSUME ListInv, Next PROVE ListInv'
  <2>1. /\ TypeOK /\ IInv /\ LeftInv' /\ NumberInv
    BY <1>1, LeftNext DEF ListInv, LeftInv, IInv
  <2>2. LifeInv' /\ UsedInv' /\ AloneInv'
    BY <1>1, <2>1, LifeNext, UsedNext, AloneNext DEF ListInv
  <2>3. ASSUME NEW t \in Tunnels PROVE Listed(t)'
    BY <1>1, <2>2, ListedNext
  <2> QED
    BY <2>1, <2>2, <2>3 DEF ListInv
<1>2. ASSUME ListInv, UNCHANGED vars PROVE ListInv'
  <2>1. LeftInv'
    BY <1>2, LeftNext DEF ListInv
  <2> QED
    BY <1>2, <2>1 DEF ListInv, vars, LifeInv, UsedInv, AloneInv, Listed, Reaches, Given, Live
<1> QED
  BY <1>1, <1>2

LEMMA ListInit == Init => ListInv
<1> SUFFICES ASSUME Init PROVE ListInv
  OBVIOUS
<1> USE DEF Init, Absent, NoSetup
<1>1. LifeInv /\ AloneInv /\ \A t \in Tunnels : Listed(t)
  BY DEF LifeInv, AloneInv, Listed, Live, Status
<1>2. UsedInv
  BY DEF UsedInv
<1> QED
  BY <1>1, <1>2, LeftInit DEF ListInv

\* What an undisturbed tunnel reaches, by the rules on its interface, is its
\* list: through creation, the insertion of its rules by its task, every later
\* change of the list, the deletions of rules and every apply task
\* (api/wireguard.py:417-501, tasks/wireguard.py:326-332).
THEOREM AccessAsListedCorrect == Spec => []AccessAsListed
<1>1. ListInv => AccessAsListed
  <2> SUFFICES ASSUME ListInv, NEW t \in Tunnels, tunnel[t].st = "active", marks[t] = {}
               PROVE  {r.net : r \in RulesOn(tunnel[t].opt)} = tunnel[t].allow
    BY DEF AccessAsListed
  <2>1. /\ TypeOK /\ Live(t) /\ setup[t].pc = "done" /\ tunnel[t].opt # 0
    BY DEF ListInv, LeftInv, IInv, OptInv, LifeInv, Live, Status
  <2>2. /\ \A r \in rules : r.of = t <=> r.on = tunnel[t].opt
        /\ \A d \in Nets : d \in tunnel[t].allow <=> Reaches(t, d)
    BY <2>1 DEF ListInv, Listed, AloneInv
  <2>3. tunnel[t].allow \subseteq Nets /\ \A r \in rules : r.net \in Nets
    BY <2>1, LiveFields DEF TypeOK, Rule
  <2>4. \A d : d \in {r.net : r \in RulesOn(tunnel[t].opt)} <=> d \in Nets /\ Reaches(t, d)
    BY <2>2, <2>3 DEF RulesOn, Reaches, Given
  <2> QED
    BY <2>2, <2>3, <2>4
<1> QED
  BY <1>1, ListInit, ListNext, PTL DEF Spec
=============================================================================
