--------------------------- MODULE WireGuardProofs ---------------------------
(***************************************************************************)
(* Proofs about WireGuard, for every value of its constants: the types,    *)
(* the /24 pool as a pool of leases, and that OPNsense holds the servers   *)
(* and clients which rows and tasks name.                                  *)
(*                                                                         *)
(* The inductive invariant is IInv.  A tunnel or peer that nothing has     *)
(* disturbed (Clean) is in one of a few states, given by how far its       *)
(* message is (ServerOf, ClientOf): what OPNsense holds for it is then     *)
(* known exactly.  ClientsAgree is part of it, since a client outlives its *)
(* peer when the tunnel's server goes.                                     *)
(*                                                                         *)
(* The lemmas named Steps and Moves say once what a step can do to one     *)
(* tunnel, peer, deletion, server or client; each part of the invariant is *)
(* then shown from them, without the actions' definitions.                 *)
(***************************************************************************)
EXTENDS WireGuard, FiniteSetTheorems, TLAPS

Disturbed == {"raced", "repeated", "call"}
Clean(x) == marks[x] \cap Disturbed = {}
ServersOf(t) == {id \in servers : id[1] = t}
ClientsOf(p) == {c \in clients : c.id[1] = p}
Returning(j, t) == Deletes(j, t) /\ job[j].pc # "queued"

-----------------------------------------------------------------------------
(* Who has which id, and how far each task is.                             *)

\* An id that a row or a message has is the row's own.
OwnIds ==
    /\ \A t \in Tunnels : /\ tunnel[t].uuid # None => tunnel[t].uuid[1] = t
                          /\ IF setup[t].pc \in ServerMade THEN setup[t].uuid[1] = t
                                                           ELSE setup[t].uuid = None
    /\ \A p \in Peers : /\ peer[p].uuid # None => peer[p].uuid[1] = p
                        /\ IF join[p].pc \in ClientMade THEN join[p].uuid[1] = p
                                                        ELSE join[p].uuid = None
    /\ \A j \in Jobs : job[j] # NoJob /\ job[j].uuid # None => job[j].uuid[1] = job[j].of

\* A row is created together with its message, and the peers of a tunnel and
\* their clients after its message was done with.
Begun ==
    /\ \A t \in Tunnels : /\ tunnel[t].st = "unused" <=> setup[t].pc = "none"
                          /\ tunnel[t].st = "active" => setup[t].pc = "done"
    /\ \A p \in Peers : /\ peer[p].st = "unused" <=> join[p].pc = "none"
                        /\ PeerLive(p) => setup[peer[p].of].pc = "done"
    /\ \A c \in clients : setup[c.on[1]].pc = "done"
    /\ \A j \in Jobs : job[j] # NoJob =>
          IF job[j].of \in Tunnels THEN tunnel[job[j].of].st # "unused"
                                   ELSE peer[job[j].of].st # "unused"

-----------------------------------------------------------------------------
(* Servers.                                                                *)

\* The server of a tunnel that nothing has disturbed, by how far its task is.
ServerOf(t) ==
    LET pc == setup[t].pc IN
    /\ SetupDue(t) => /\ tunnel[t].st \in {"pending", "provisioning", "error"}
                      /\ \A j \in Jobs : ~Deletes(j, t)
    /\ pc \in {"none", "lost", "queued", "add"} => ServersOf(t) = {} /\ tunnel[t].uuid = None
    /\ pc = "added" => ServersOf(t) = {setup[t].uuid} /\ tunnel[t].uuid = None
    /\ pc = "saved" => ServersOf(t) = {setup[t].uuid} /\ tunnel[t].uuid = setup[t].uuid
    /\ pc = "done" => ServersOf(t) \subseteq {tunnel[t].uuid}
    /\ tunnel[t].st = "active" => tunnel[t].uuid \in servers
    /\ \A j \in Jobs : Deletes(j, t) =>
          /\ tunnel[t].st \in {"destroying", "gone"}
          /\ job[j].pc = "call" => tunnel[t].st = "gone" \/ job[j].uuid = tunnel[t].uuid
          /\ job[j].pc = "commit" => ServersOf(t) = {}

ServerInv == \A t \in Tunnels : Clean(t) => ServerOf(t)

-----------------------------------------------------------------------------
(* Clients.                                                                *)

\* The client of a peer that nothing has disturbed.
ClientOf(p) ==
    LET pc == join[p].pc IN
    /\ JoinDue(p) => \A j \in Jobs : ~Deletes(j, p)
    /\ pc \in {"none", "lost", "queued", "keys"} => ClientsOf(p) = {} /\ peer[p].uuid = None
    /\ pc = "added" => peer[p].uuid = None
    /\ pc = "saved" => ~PeerLive(p) \/ peer[p].uuid = join[p].uuid
    /\ pc \in ClientMade => \A c \in ClientsOf(p) : c.id = join[p].uuid
    /\ pc = "done" /\ PeerLive(p) => \A c \in ClientsOf(p) : c.id = peer[p].uuid
    /\ PeerLive(p) => \A c \in ClientsOf(p) : c.on[1] = peer[p].of
    /\ \A j \in Jobs : Deletes(j, p) /\ PeerLive(p) =>
          /\ job[j].pc = "call" => job[j].uuid = peer[p].uuid
          /\ job[j].pc = "commit" => ClientsOf(p) = {}
ClientInv == \A p \in Peers : Clean(p) => ClientOf(p)

-----------------------------------------------------------------------------
(* The /24s.                                                               *)

Spoilt(s) == "again" \in marks[s]
Holders(s) == {t \in Tunnels : Live(t) /\ tunnel[t].net = s}
PoolInv ==
    /\ \A s \in Subnets :
          /\ pool[s] = "allocated" => Holders(s) # {}
          /\ ~Spoilt(s) => /\ pool[s] = "free" => Holders(s) = {}
                           /\ \A t, u \in Holders(s) : t = u
    /\ \A j \in Jobs, t \in Tunnels : Returning(j, t) =>
          /\ job[j].net \in Subnets
          /\ Live(t) => tunnel[t].net = job[j].net
          /\ ~Spoilt(job[j].net) =>
                Live(t) /\ \A k \in Jobs : Returning(k, t) => k = j

IInv == TypeOK /\ OwnIds /\ Begun /\ ServerInv /\ ClientInv /\ ClientsAgree /\ PoolInv

-----------------------------------------------------------------------------
(* Type correctness.                                                       *)

\* A set of numbers that is not empty has a least one (Lowest).
LEMMA LeastNumber ==
    ASSUME NEW D, D \subseteq Nat, D # {}
    PROVE  \E d \in D : \A e \in D : d <= e
<1> DEFINE T == {0..d : d \in D}
<1>1. \A d \in D : 0..d \in FiniteSubsetsOf(Nat)
    <2> TAKE d \in D
    <2>1. IsFiniteSet(0..d)
        BY FS_Interval
    <2> QED
        BY <2>1 DEF FiniteSubsetsOf
<1>2. T \subseteq FiniteSubsetsOf(Nat) /\ T # {}
    BY <1>1
<1>3. PICK x \in T : \A y \in T : ~(<<y, x>> \in StrictSubsetOrdering(Nat))
  <2> HIDE DEF T
  <2> QED
    BY <1>2, FS_StrictSubsetOrderingWellFounded, WFMin
<1>4. PICK d \in D : x = 0..d
    BY <1>3
<1>5. ASSUME NEW e \in D PROVE d <= e
    <2> SUFFICES ASSUME e < d PROVE FALSE
        BY <1>4
    <2>1. 0..e \in T
        OBVIOUS
    <2>2. 0..e \subseteq 0..d /\ 0..e # 0..d
        BY <1>4
    <2>3. <<0..e, 0..d>> \in StrictSubsetOrdering(Nat)
        BY <2>2, 0..e \in SUBSET Nat, 0..d \in SUBSET Nat DEF StrictSubsetOrdering
    <2> QED
        BY <1>3, <1>4, <2>1, <2>3
<1> QED
    BY <1>5

\* A row is a record with its columns while it is there, and an empty one otherwise.
LEMMA RowShapes ==
  ASSUME TypeOK
  PROVE  /\ \A t \in Tunnels : Live(t) =>
               tunnel[t] \in [st : Status, net : Subnets, uuid : ServerIds \cup {None}]
         /\ \A t \in Tunnels : ~Live(t) => tunnel[t] \in {Absent("unused"), Absent("gone")}
         /\ \A p \in Peers : PeerLive(p) =>
               peer[p] \in [st : Status, of : Tunnels, ip : Address \cup {None},
                            uuid : ClientIds \cup {None}]
         /\ \A p \in Peers : ~PeerLive(p) => peer[p] \in {NoPeer("unused"), NoPeer("gone")}
         /\ \A j \in Jobs : job[j] # NoJob =>
               job[j] \in [pc : {"queued", "call", "commit"}, of : Tunnels \cup Peers,
                           uuid : ServerIds \cup ClientIds \cup {None}, net : Subnets \cup {None}]
<1>1. ASSUME NEW t \in Tunnels
      PROVE  /\ Live(t) => tunnel[t] \in [st : Status, net : Subnets, uuid : ServerIds \cup {None}]
             /\ ~Live(t) => tunnel[t] \in {Absent("unused"), Absent("gone")}
  BY DEF TypeOK, Tunnel, Live, Absent, Status
<1>2. ASSUME NEW p \in Peers
      PROVE  /\ PeerLive(p) => peer[p] \in [st : Status, of : Tunnels, ip : Address \cup {None},
                                            uuid : ClientIds \cup {None}]
             /\ ~PeerLive(p) => peer[p] \in {NoPeer("unused"), NoPeer("gone")}
  BY DEF TypeOK, Peer, PeerLive, NoPeer, Status
<1> QED
  BY <1>1, <1>2 DEF TypeOK, Job, NoJob

LEMMA MarkTyped ==
  ASSUME TypeOK, NEW S, NEW m \in Marks, Mark(S, m)
  PROVE  marks' \in [Tunnels \cup Peers \cup Subnets -> SUBSET Marks]
BY DEF Mark, Marked, TypeOK

LEMMA MishapTyped == ASSUME TypeOK, Mishap PROVE mishaps' \in 0..MaxMishaps
BY WireGuardAssumption DEF Mishap, TypeOK

LEMMA LostTyped ==
  ASSUME TypeOK, NEW pc \in Sent, CountLost(pc)
  PROVE  mishaps' \in 0..MaxMishaps /\ pc \in {"queued", "lost"}
BY WireGuardAssumption DEF Sent, CountLost, TypeOK

LEMMA MessagesTyped ==
  ASSUME TypeOK
  PROVE  /\ \A t \in Tunnels : SetupDone \in Setup /\ Reset(setup[t]) \in Setup
                               /\ (setup[t].left > 0 => Retried(setup[t]) \in Setup)
                               /\ (~(setup[t].left > 0) => Retried(setup[t]) \in Setup)
         /\ \A p \in Peers : JoinDone \in Join /\ JoinReset(join[p]) \in Join
                             /\ (join[p].left > 0 => JoinRetried(join[p]) \in Join)
<1>1. ASSUME NEW t \in Tunnels PROVE setup[t] \in Setup
  BY DEF TypeOK
<1>2. ASSUME NEW p \in Peers PROVE join[p] \in Join
  BY DEF TypeOK
<1>3. \A k \in 0..Retries : k > 0 => k - 1 \in 0..Retries
  BY WireGuardAssumption
<1>4. SetupDone \in Setup /\ JoinDone \in Join
  BY WireGuardAssumption DEF SetupDone, JoinDone, Setup, Join, SetupPc, JoinPc
<1>5. ASSUME NEW t \in Tunnels
      PROVE  Reset(setup[t]) \in Setup /\ (setup[t].left > 0 => Retried(setup[t]) \in Setup)
             /\ (~(setup[t].left > 0) => Retried(setup[t]) \in Setup)
  BY <1>1, <1>3, <1>4 DEF Reset, Retried, Setup, SetupPc
<1>6. ASSUME NEW p \in Peers
      PROVE  /\ JoinReset(join[p]) \in Join
             /\ join[p].left > 0 => JoinRetried(join[p]) \in Join
  BY <1>2, <1>3 DEF JoinReset, JoinRetried, Join, JoinPc
<1> QED
  BY <1>4, <1>5, <1>6

LEMMA InitTyped == Init => TypeOK
<1> SUFFICES ASSUME Init PROVE TypeOK
  OBVIOUS
<1> USE DEF Init
<1>1. /\ tunnel \in [Tunnels -> Tunnel] /\ pool \in [Subnets -> {"free", "allocated"}]
      /\ peer \in [Peers -> Peer]
  BY DEF Tunnel, Peer
<1>2. setup \in [Tunnels -> Setup] /\ join \in [Peers -> Join]
  BY WireGuardAssumption DEF Setup, Join, SetupPc, JoinPc
<1>3. /\ job \in [Jobs -> Job] /\ servers \subseteq ServerIds
      /\ clients \subseteq [id : ClientIds, on : ServerIds]
  BY DEF Job
<1>4. mishaps \in 0..MaxMishaps /\ marks \in [Tunnels \cup Peers \cup Subnets -> SUBSET Marks]
  BY WireGuardAssumption
<1> QED
  BY <1>1, <1>2, <1>3, <1>4 DEF TypeOK

LEMMA StatusTyped ==
  ASSUME TypeOK
  PROVE  /\ \A t \in Tunnels, s \in Status : Live(t) =>
               [tunnel EXCEPT ![t].st = s] \in [Tunnels -> Tunnel]
         /\ \A p \in Peers, s \in Status : PeerLive(p) =>
               [peer EXCEPT ![p].st = s] \in [Peers -> Peer]
<1>1. ASSUME NEW t \in Tunnels, NEW s \in Status, Live(t)
      PROVE  [tunnel EXCEPT ![t].st = s] \in [Tunnels -> Tunnel]
  <2>1. [tunnel[t] EXCEPT !.st = s] \in Tunnel
    BY <1>1, RowShapes DEF Tunnel
  <2> QED
    BY <2>1 DEF TypeOK
<1>2. ASSUME NEW p \in Peers, NEW s \in Status, PeerLive(p)
      PROVE  [peer EXCEPT ![p].st = s] \in [Peers -> Peer]
  <2>1. [peer[p] EXCEPT !.st = s] \in Peer
    BY <1>2, RowShapes DEF Peer
  <2> QED
    BY <2>1 DEF TypeOK
<1> QED
  BY <1>1, <1>2

LEMMA ToTyped ==
  ASSUME TypeOK
  PROVE  /\ \A t \in Tunnels, pc \in SetupPc : SetupTo(t, pc) => setup' \in [Tunnels -> Setup]
         /\ \A p \in Peers, pc \in JoinPc : JoinTo(p, pc) => join' \in [Peers -> Join]
<1>1. ASSUME NEW t \in Tunnels, NEW pc \in SetupPc PROVE [setup[t] EXCEPT !.pc = pc] \in Setup
  <2>1. setup[t] \in Setup
    BY DEF TypeOK
  <2> QED
    BY <2>1 DEF Setup
<1>2. ASSUME NEW p \in Peers, NEW pc \in JoinPc PROVE [join[p] EXCEPT !.pc = pc] \in Join
  <2>1. join[p] \in Join
    BY DEF TypeOK
  <2> QED
    BY <2>1 DEF Join
<1> QED
  BY <1>1, <1>2 DEF SetupTo, JoinTo, TypeOK

LEMMA SetupTyped ==
  ASSUME TypeOK, NEW t \in Tunnels, SetupStep(t) \/ SetupCrash(t)
  PROVE  TypeOK'
<1>0. setup[t] \in Setup /\ setup \in [Tunnels -> Setup] /\ setup[t].tries \in Nat
  BY DEF TypeOK, Setup
<1>1. CASE SetupStart(t)
  <2>1. tunnel' \in [Tunnels -> Tunnel]
    BY <1>1, StatusTyped DEF SetupStart, Status, TypeOK
  <2>2. setup' \in [Tunnels -> Setup]
    BY <1>0, <1>1, ToTyped, MessagesTyped DEF SetupStart, SetupPc
  <2> QED
    BY <1>1, <2>1, <2>2 DEF SetupStart, TypeOK, peerVars
<1>2. CASE SetupAddServer(t)
  <2>1. NewServer(t) \in ServerIds
    BY <1>0 DEF NewServer, ServerIds
  <2>2. setup' \in [Tunnels -> Setup]
    <3>1. [pc |-> "added", left |-> setup[t].left, tries |-> setup[t].tries + 1,
           uuid |-> NewServer(t)] \in Setup
      BY <1>0, <2>1 DEF Setup, SetupPc
    <3>2. setup' = [setup EXCEPT ![t] = [pc |-> "added", left |-> setup[t].left,
                                         tries |-> setup[t].tries + 1, uuid |-> NewServer(t)]]
      BY <1>0, <1>2 DEF SetupAddServer, Setup
    <3> QED
      BY <1>0, <3>1, <3>2
  <2> QED
    BY <1>2, <2>1, <2>2 DEF SetupAddServer, AddServer, TypeOK, peerVars
<1>3. CASE SetupSave(t)
  <2>1. tunnel' \in [Tunnels -> Tunnel]
    <3>1. [tunnel[t] EXCEPT !.uuid = setup[t].uuid] \in Tunnel
      BY <1>0, <1>3, RowShapes DEF SetupSave, Tunnel, Setup
    <3> QED
      BY <1>3, <3>1 DEF SetupSave, TypeOK
  <2>2. setup' \in [Tunnels -> Setup]
    BY <1>3, ToTyped DEF SetupSave, SetupPc
  <2> QED
    BY <1>3, <2>1, <2>2 DEF SetupSave, TypeOK, peerVars
<1>4. CASE SetupActivate(t)
  <2>1. tunnel' \in [Tunnels -> Tunnel]
    BY <1>4, StatusTyped DEF SetupActivate, Status
  <2>2. setup' \in [Tunnels -> Setup]
    BY <1>0, <1>4, MessagesTyped DEF SetupActivate
  <2> QED
    BY <1>4, <2>1, <2>2 DEF SetupActivate, TypeOK, peerVars
<1>5. CASE SetupFail(t)
  <2>1. tunnel' \in [Tunnels -> Tunnel]
    BY <1>5, StatusTyped DEF SetupFail, Status, TypeOK
  <2>2. setup' \in [Tunnels -> Setup]
    BY <1>0, <1>5, MessagesTyped DEF SetupFail
  <2>3. mishaps' \in 0..MaxMishaps
    BY <1>5, MishapTyped DEF SetupFail, TypeOK
  <2>4. marks' \in [Tunnels \cup Peers \cup Subnets -> SUBSET Marks]
    BY <1>5, MarkTyped DEF SetupFail, Marks, TypeOK
  <2> QED
    BY <1>5, <2>1, <2>2, <2>3, <2>4 DEF SetupFail, TypeOK, peerVars
<1>6. CASE SetupCrash(t)
  <2>1. setup' \in [Tunnels -> Setup]
    BY <1>0, <1>6, MessagesTyped DEF SetupCrash
  <2>2. mishaps' \in 0..MaxMishaps
    BY <1>6, MishapTyped DEF SetupCrash, TypeOK
  <2>3. marks' \in [Tunnels \cup Peers \cup Subnets -> SUBSET Marks]
    BY <1>6, MarkTyped DEF SetupCrash, Marks, TypeOK
  <2> QED
    BY <1>6, <2>1, <2>2, <2>3 DEF SetupCrash, TypeOK, peerVars
<1> QED
  BY <1>1, <1>2, <1>3, <1>4, <1>5, <1>6 DEF SetupStep

\* The address a peer gets is one of the host numbers.
LEMMA AddressTyped ==
  ASSUME TypeOK, NEW p \in Peers, PeerLive(p), peer[p].ip # None \/ FreeHosts(peer[p].of) # {}
  PROVE  AddressFor(p) \in Address
<1>1. CASE peer[p].ip # None
  BY <1>1, RowShapes DEF AddressFor
<1>2. CASE peer[p].ip = None
  <2>1. FreeHosts(peer[p].of) # {} /\ FreeHosts(peer[p].of) \subseteq Hosts /\ Hosts \subseteq Nat
    BY <1>2, WireGuardAssumption DEF FreeHosts
  <2>2. \E h \in FreeHosts(peer[p].of) : \A g \in FreeHosts(peer[p].of) : h <= g
    BY <2>1, LeastNumber
  <2>3. Lowest(FreeHosts(peer[p].of)) \in Hosts
    BY <2>1, <2>2 DEF Lowest
  <2> QED
    BY <1>2, <2>3 DEF AddressFor, Address
<1> QED
  BY <1>1, <1>2

LEMMA JoinTyped ==
  ASSUME TypeOK, NEW p \in Peers, JoinStep(p) \/ JoinCrash(p)
  PROVE  TypeOK'
<1>0. join[p] \in Join /\ join \in [Peers -> Join] /\ join[p].tries \in Nat
  BY DEF TypeOK, Join
<1>1. CASE JoinStart(p)
  <2>1. peer' \in [Peers -> Peer]
    BY <1>1, StatusTyped DEF JoinStart, Status, TypeOK
  <2>2. join' \in [Peers -> Join]
    BY <1>0, <1>1, ToTyped, MessagesTyped DEF JoinStart, JoinPc
  <2> QED
    BY <1>1, <2>1, <2>2 DEF JoinStart, TypeOK, tunnelVars
<1>2. CASE JoinAddClient(p)
  <2>1. NewClient(p) \in ClientIds
    BY <1>0 DEF NewClient, ClientIds
  <2>2. join' \in [Peers -> Join]
    <3>1. AddressFor(p) \in Address
      BY <1>2, AddressTyped DEF JoinAddClient
    <3>2. [pc |-> "added", left |-> join[p].left, tries |-> join[p].tries + 1,
           uuid |-> NewClient(p), ip |-> AddressFor(p)] \in Join
      BY <1>0, <2>1, <3>1 DEF Join, JoinPc
    <3>3. join' = [join EXCEPT ![p] = [pc |-> "added", left |-> join[p].left,
                                       tries |-> join[p].tries + 1, uuid |-> NewClient(p),
                                       ip |-> AddressFor(p)]]
      BY <1>0, <1>2 DEF JoinAddClient, Join
    <3> QED
      BY <1>0, <3>2, <3>3
  <2>3. clients' \subseteq [id : ClientIds, on : ServerIds]
    BY <1>2, <2>1 DEF JoinAddClient, AddClient, TypeOK
  <2> QED
    BY <1>2, <2>2, <2>3 DEF JoinAddClient, TypeOK, tunnelVars
<1>3. CASE JoinSave(p)
  <2>1. peer' \in [Peers -> Peer]
    <3>1. [peer[p] EXCEPT !.uuid = join[p].uuid, !.ip = join[p].ip] \in Peer
      <4>1. /\ PeerLive(p) /\ join[p].uuid \in ClientIds \cup {None}
            /\ join[p].ip \in Address \cup {None}
        BY <1>0, <1>3 DEF JoinSave, Join
      <4>2. peer[p] \in [st : Status, of : Tunnels, ip : Address \cup {None},
                         uuid : ClientIds \cup {None}]
        BY <4>1, RowShapes
      <4> QED
        BY <4>1, <4>2 DEF Peer
    <3>2. peer' = [peer EXCEPT ![p] = [peer[p] EXCEPT !.uuid = join[p].uuid, !.ip = join[p].ip]]
      BY <1>3 DEF JoinSave, TypeOK
    <3> QED
      BY <3>1, <3>2 DEF TypeOK
  <2>2. join' \in [Peers -> Join]
    BY <1>3, ToTyped DEF JoinSave, JoinPc
  <2> QED
    BY <1>3, <2>1, <2>2 DEF JoinSave, TypeOK, tunnelVars
<1>4. CASE JoinFinish(p)
  <2>1. peer' \in [Peers -> Peer]
    BY <1>4, StatusTyped DEF JoinFinish, Status
  <2>2. join' \in [Peers -> Join]
    BY <1>0, <1>4, MessagesTyped DEF JoinFinish
  <2> QED
    BY <1>4, <2>1, <2>2 DEF JoinFinish, TypeOK, tunnelVars
<1>5. CASE JoinFail(p)
  <2>1. peer' \in [Peers -> Peer]
    BY <1>5 DEF JoinFail, TypeOK, Peer
  <2>2. join' \in [Peers -> Join]
    BY <1>0, <1>5, MessagesTyped DEF JoinFail
  <2>3. mishaps' \in 0..MaxMishaps
    BY <1>5, MishapTyped DEF JoinFail, TypeOK
  <2>4. marks' \in [Tunnels \cup Peers \cup Subnets -> SUBSET Marks]
    BY <1>5, MarkTyped DEF JoinFail, Marks, TypeOK
  <2> QED
    BY <1>5, <2>1, <2>2, <2>3, <2>4 DEF JoinFail, TypeOK, tunnelVars
<1>6. CASE JoinCrash(p)
  <2>1. join' \in [Peers -> Join]
    BY <1>0, <1>6, MessagesTyped DEF JoinCrash
  <2>2. mishaps' \in 0..MaxMishaps
    BY <1>6, MishapTyped DEF JoinCrash, TypeOK
  <2>3. marks' \in [Tunnels \cup Peers \cup Subnets -> SUBSET Marks]
    BY <1>6, MarkTyped DEF JoinCrash, Marks, TypeOK
  <2> QED
    BY <1>6, <2>1, <2>2, <2>3 DEF JoinCrash, TypeOK, tunnelVars
<1> QED
  BY <1>1, <1>2, <1>3, <1>4, <1>5, <1>6 DEF JoinStep

LEMMA NoJobTyped == NoJob \in Job
BY DEF Job

LEMMA JobNext ==
  ASSUME TypeOK, NEW j \in Jobs, job[j] # NoJob, NEW pc \in {"queued", "call", "commit"}
  PROVE  [job EXCEPT ![j].pc = pc] \in [Jobs -> Job]
<1>1. [job[j] EXCEPT !.pc = pc] \in Job
  BY RowShapes DEF Job
<1> QED
  BY <1>1 DEF TypeOK

Raced(t) == IF SetupDue(t) THEN {"raced"} ELSE {}
Twice(j, t) == IF \E k \in Jobs \ {j} : Returning(k, t) THEN {"again"} ELSE {}

\* What a deletion of a tunnel that is there begins with.
LEMMA DestroyStarts ==
  ASSUME TypeOK, NEW j \in Jobs, NEW t \in Tunnels, Live(t), DestroyStart(j, t)
  PROVE  /\ tunnel' = [tunnel EXCEPT ![t].st = "destroying"]
         /\ job' = [job EXCEPT ![j] =
                       [pc |-> IF tunnel[t].uuid # None THEN "call" ELSE "commit", of |-> t,
                        uuid |-> tunnel[t].uuid, net |-> tunnel[t].net]]
         /\ marks' \in [Tunnels \cup Peers \cup Subnets -> SUBSET Marks]
         /\ \A x \in Tunnels \cup Peers \cup Subnets :
               marks'[x] = marks[x] \cup (IF x = t THEN Raced(t) ELSE {})
                                    \cup (IF x = tunnel[t].net THEN Twice(j, t) ELSE {})
<1>1. tunnel[t] \in [st : Status, net : Subnets, uuid : ServerIds \cup {None}]
  BY RowShapes
<1>2. PICK row : row = [tunnel[t] EXCEPT !.st = "destroying"]
  OBVIOUS
<1>3. row.uuid = tunnel[t].uuid /\ row.net = tunnel[t].net
  BY <1>1, <1>2
<1>4. /\ tunnel' = [tunnel EXCEPT ![t] = row]
      /\ job' = [job EXCEPT ![j] = [pc |-> IF row.uuid # None THEN "call" ELSE "commit",
                                    of |-> t, uuid |-> row.uuid, net |-> row.net]]
      /\ marks' = [x \in DOMAIN marks |->
             marks[x] \cup (IF x = t /\ SetupDue(t) THEN {"raced"} ELSE {})
                      \cup (IF x = row.net /\ (\E k \in Jobs \ {j} : Deletes(k, t) /\ job[k].pc # "queued")
                            THEN {"again"} ELSE {})]
  BY <1>2, Zenon DEF DestroyStart
<1>5. tunnel' = [tunnel EXCEPT ![t].st = "destroying"]
  BY <1>2, <1>4 DEF TypeOK
<1>6. DOMAIN marks = Tunnels \cup Peers \cup Subnets
  BY DEF TypeOK
<1>7. ASSUME NEW x \in Tunnels \cup Peers \cup Subnets
      PROVE  marks'[x] = marks[x] \cup (IF x = t THEN Raced(t) ELSE {})
                                  \cup (IF x = tunnel[t].net THEN Twice(j, t) ELSE {})
  BY <1>3, <1>4, <1>6 DEF Raced, Twice, Returning
<1>8. marks' \in [Tunnels \cup Peers \cup Subnets -> SUBSET Marks]
  <2>1. Raced(t) \subseteq Marks /\ Twice(j, t) \subseteq Marks
    BY DEF Raced, Twice, Marks
  <2>2. \A x \in Tunnels \cup Peers \cup Subnets : marks'[x] \subseteq Marks
    BY <1>7, <2>1 DEF TypeOK
  <2>3. \E B : marks' = [x \in Tunnels \cup Peers \cup Subnets |-> B[x]]
    <3> DEFINE B == marks'
    <3>1. marks' = [x \in Tunnels \cup Peers \cup Subnets |-> B[x]]
      BY <1>4, <1>6
    <3> QED
      BY <3>1
  <2> QED
    BY <2>2, <2>3
<1> QED
  BY <1>3, <1>4, <1>5, <1>7, <1>8

LEMMA DestroyTyped ==
  ASSUME TypeOK, NEW j \in Jobs, NEW t \in Tunnels, DeleteTunnel(j, t) \/ DestroyStep(j, t)
  PROVE  TypeOK'
<1>1. CASE DeleteTunnel(j, t) \/ DestroyAgain(j, t)
  <2>0. DestroyStart(j, t) /\ UNCHANGED <<pool, setup, servers, peerVars, mishaps>>
    BY <1>1 DEF DeleteTunnel, DestroyAgain
  <2>1. CASE Live(t)
    <3>1. tunnel[t] \in [st : Status, net : Subnets, uuid : ServerIds \cup {None}]
      BY <2>1, RowShapes
    <3>2. tunnel' \in [Tunnels -> Tunnel]
      <4>1. tunnel' = [tunnel EXCEPT ![t].st = "destroying"]
        BY <2>0, <2>1, DestroyStarts
      <4> QED
        BY <2>1, <4>1, StatusTyped DEF Status
    <3>3. job' \in [Jobs -> Job]
      <4>1. \E pc \in {"call", "commit"} :
               job' = [job EXCEPT ![j] = [pc |-> pc, of |-> t, uuid |-> tunnel[t].uuid,
                                          net |-> tunnel[t].net]]
        BY <2>0, <2>1, DestroyStarts
      <4>2. \A pc \in {"call", "commit"} :
               [pc |-> pc, of |-> t, uuid |-> tunnel[t].uuid, net |-> tunnel[t].net] \in Job
        BY <3>1 DEF Job
      <4> QED
        BY <4>1, <4>2 DEF TypeOK
    <3>4. marks' \in [Tunnels \cup Peers \cup Subnets -> SUBSET Marks]
      BY <2>0, <2>1, DestroyStarts
    <3> QED
      BY <2>0, <3>2, <3>3, <3>4 DEF TypeOK, peerVars
  <2>2. CASE ~Live(t)
    BY <2>0, <2>2, NoJobTyped DEF DestroyStart, TypeOK, peerVars
  <2> QED
    BY <2>1, <2>2
<1>2. CASE DestroyServer(j, t)
  <2>1. job' \in [Jobs -> Job]
    BY <1>2, JobNext DEF DestroyServer, Deletes
  <2>2. mishaps' \in 0..MaxMishaps
    BY <1>2, MishapTyped DEF DestroyServer, TypeOK
  <2>3. marks' \in [Tunnels \cup Peers \cup Subnets -> SUBSET Marks]
    BY <1>2, MarkTyped DEF DestroyServer, Marks, TypeOK
  <2>4. servers' \subseteq ServerIds
    BY <1>2 DEF DestroyServer, DelServer, TypeOK
  <2> QED
    BY <1>2, <2>1, <2>2, <2>3, <2>4 DEF DestroyServer, TypeOK, peerVars
<1>3. CASE DestroyCommit(j, t)
  <2>1. job' \in [Jobs -> Job] /\ pool' \in [Subnets -> {"free", "allocated"}]
    BY <1>3, NoJobTyped DEF DestroyCommit, TypeOK
  <2>2. tunnel' \in [Tunnels -> Tunnel] /\ peer' \in [Peers -> Peer]
    BY <1>3 DEF DestroyCommit, TypeOK, Tunnel, Peer
  <2> QED
    BY <1>3, <2>1, <2>2 DEF DestroyCommit, TypeOK
<1> QED
  BY <1>1, <1>2, <1>3 DEF DestroyStep

LEMMA LeaveTyped ==
  ASSUME TypeOK, NEW j \in Jobs, NEW p \in Peers, DeletePeer(j, p) \/ LeaveStep(j, p)
  PROVE  TypeOK'
<1>1. CASE DeletePeer(j, p) \/ LeaveAgain(j, p)
  <2>0. LeaveStart(j, p) /\ UNCHANGED <<tunnelVars, peerVars, mishaps>>
    BY <1>1 DEF DeletePeer, LeaveAgain
  <2>1. job' \in [Jobs -> Job]
    <3>1. CASE PeerLive(p)
      <4>1. \E pc \in {"call", "commit"} :
               job' = [job EXCEPT ![j] = [pc |-> pc, of |-> p, uuid |-> peer[p].uuid, net |-> None]]
        BY <2>0, <3>1 DEF LeaveStart
      <4>2. \A pc \in {"call", "commit"} :
               [pc |-> pc, of |-> p, uuid |-> peer[p].uuid, net |-> None] \in Job
        BY <3>1, RowShapes DEF Job
      <4> QED
        BY <4>1, <4>2 DEF TypeOK
    <3>2. CASE ~PeerLive(p)
      BY <2>0, <3>2, NoJobTyped DEF LeaveStart, TypeOK
    <3> QED
      BY <3>1, <3>2
  <2>2. marks' \in [Tunnels \cup Peers \cup Subnets -> SUBSET Marks]
    BY <2>0, MarkTyped DEF LeaveStart, Marks, TypeOK
  <2> QED
    BY <2>0, <2>1, <2>2 DEF TypeOK, tunnelVars, peerVars
<1>2. CASE LeaveClient(j, p)
  <2>1. job' \in [Jobs -> Job]
    BY <1>2, JobNext DEF LeaveClient, Deletes
  <2>2. mishaps' \in 0..MaxMishaps
    BY <1>2, MishapTyped DEF LeaveClient, TypeOK
  <2>3. marks' \in [Tunnels \cup Peers \cup Subnets -> SUBSET Marks]
    BY <1>2, MarkTyped DEF LeaveClient, Marks, TypeOK
  <2>4. clients' \subseteq [id : ClientIds, on : ServerIds]
    BY <1>2 DEF LeaveClient, DelClient, TypeOK
  <2> QED
    BY <1>2, <2>1, <2>2, <2>3, <2>4 DEF LeaveClient, TypeOK, tunnelVars
<1>3. CASE LeaveCommit(j, p)
  BY <1>3, NoJobTyped DEF LeaveCommit, TypeOK, Peer, tunnelVars
<1> QED
  BY <1>1, <1>2, <1>3 DEF LeaveStep

LEMMA TypeStep == TypeOK /\ [Next]_vars => TypeOK'
<1> SUFFICES ASSUME TypeOK, [Next]_vars PROVE TypeOK'
  OBVIOUS
<1>1. ASSUME NEW t \in Tunnels, NEW s \in Subnets, CreateTunnel(t, s)
      PROVE  TypeOK'
  <2>1. tunnel' \in [Tunnels -> Tunnel] /\ pool' \in [Subnets -> {"free", "allocated"}]
    BY <1>1 DEF CreateTunnel, TypeOK, Tunnel, Status
  <2>2. PICK pc \in Sent : SetupTo(t, pc) /\ CountLost(pc)
    BY <1>1 DEF CreateTunnel, SetupTo
  <2>3. pc \in SetupPc /\ mishaps' \in 0..MaxMishaps
    BY <2>2, LostTyped DEF SetupPc
  <2>4. setup' \in [Tunnels -> Setup]
    BY <2>2, <2>3, ToTyped
  <2> QED
    BY <1>1, <2>1, <2>3, <2>4 DEF CreateTunnel, TypeOK, peerVars
<1>2. ASSUME NEW p \in Peers, NEW t \in Tunnels, CreatePeer(p, t)
      PROVE  TypeOK'
  <2>1. peer' \in [Peers -> Peer]
    BY <1>2 DEF CreatePeer, TypeOK, Peer, Status
  <2>2. PICK pc \in Sent : JoinTo(p, pc) /\ CountLost(pc)
    BY <1>2 DEF CreatePeer, JoinTo
  <2>3. pc \in JoinPc /\ mishaps' \in 0..MaxMishaps
    BY <2>2, LostTyped DEF JoinPc
  <2>4. join' \in [Peers -> Join]
    BY <2>2, <2>3, ToTyped
  <2> QED
    BY <1>2, <2>1, <2>3, <2>4 DEF CreatePeer, TypeOK, tunnelVars
<1>3. ASSUME NEW j \in Jobs, JobCrash(j)
      PROVE  TypeOK'
  <2>1. job[j] \in [pc : {"queued", "call", "commit"}, of : Tunnels \cup Peers,
                    uuid : ServerIds \cup ClientIds \cup {None}, net : Subnets \cup {None}]
    BY <1>3, RowShapes DEF JobCrash
  <2>2. [job[j] EXCEPT !.pc = "queued", !.uuid = None, !.net = None] \in Job
    BY <2>1 DEF Job
  <2>3. job' = [job EXCEPT ![j] = [job[j] EXCEPT !.pc = "queued", !.uuid = None, !.net = None]]
    BY <1>3 DEF JobCrash, TypeOK
  <2>4. mishaps' \in 0..MaxMishaps /\ UNCHANGED <<tunnelVars, peerVars, marks>>
    BY <1>3, MishapTyped DEF JobCrash
  <2> QED
    BY <2>2, <2>3, <2>4 DEF TypeOK, tunnelVars, peerVars
<1>4. CASE UNCHANGED vars
  BY <1>4 DEF vars, tunnelVars, peerVars, TypeOK
<1> QED
  BY <1>1, <1>2, <1>3, <1>4, SetupTyped, JoinTyped, DestroyTyped, LeaveTyped
  DEF Next, TunnelNext, PeerNext

\* Every reachable state is well typed: rows, messages, deletions under way
\* and what OPNsense holds.
THEOREM TypeCorrect == Spec => []TypeOK
<1> QED
  BY InitTyped, TypeStep, PTL DEF Spec

-----------------------------------------------------------------------------
(* What the steps do to one tunnel, peer, deletion.                        *)

TunnelKept(t) == tunnel'[t] = tunnel[t] /\ setup'[t] = setup[t]
PeerKept(p) == peer'[p] = peer[p] /\ join'[p] = join[p]
Due == {"queued", "add"} \cup ServerMade
JoinDues == {"queued", "keys"} \cup ClientMade

\* The columns a task's step leaves alone.
SameRow(t) == tunnel'[t].net = tunnel[t].net /\ tunnel'[t].uuid = tunnel[t].uuid

\* How a message and its row change by a step of the task.
LEMMA SetupMoves ==
  ASSUME TypeOK, NEW t \in Tunnels, SetupStep(t) \/ SetupCrash(t)
  PROVE  \/ /\ setup[t].pc = "queued" /\ setup'[t] = SetupDone
            /\ ~Live(t) \/ tunnel[t].st = "active"
            /\ tunnel' = tunnel /\ servers' = servers
         \/ /\ setup[t].pc = "queued" /\ setup'[t].pc = "add" /\ setup'[t].uuid = setup[t].uuid
            /\ Live(t) /\ tunnel'[t].st = "provisioning" /\ SameRow(t)
            /\ servers' = servers
         \/ /\ setup[t].pc = "add" /\ setup'[t].pc = "added" /\ setup'[t].uuid = NewServer(t)
            /\ Live(t) /\ tunnel' = tunnel
            /\ servers' = servers \cup {NewServer(t)}
         \/ /\ setup[t].pc = "added" /\ setup'[t].pc = "saved" /\ setup'[t].uuid = setup[t].uuid
            /\ Live(t) /\ tunnel'[t].st = tunnel[t].st /\ tunnel'[t].net = tunnel[t].net
            /\ tunnel'[t].uuid = setup[t].uuid
            /\ servers' = servers
         \/ /\ setup[t].pc = "saved" /\ setup'[t] = SetupDone /\ setup[t].uuid \in servers
            /\ Live(t) /\ tunnel'[t].st = "active" /\ SameRow(t)
            /\ servers' = servers
         \/ /\ setup[t].pc \in {"add"} \cup ServerMade /\ setup'[t].pc \in {"queued", "done"}
            /\ setup'[t].uuid = None
            /\ SameRow(t) /\ tunnel'[t].st \in {tunnel[t].st, "error"}
            /\ ~Live(t) => tunnel'[t] = tunnel[t]
            /\ setup'[t].pc = "done" /\ Live(t) => tunnel'[t].st = "error"
            /\ servers' = servers
            /\ setup[t].pc \in ServerMade => "repeated" \in marks'[t]
<1>0. setup[t] \in Setup /\ setup \in [Tunnels -> Setup]
  BY DEF TypeOK
<1>1. CASE SetupStart(t)
  <2>1. servers' = servers /\ setup[t].pc = "queued"
    BY <1>1 DEF SetupStart
  <2>2. CASE ~Live(t) \/ tunnel[t].st = "active"
    BY <1>0, <1>1, <2>1, <2>2 DEF SetupStart
  <2>3. CASE ~(~Live(t) \/ tunnel[t].st = "active")
    <3>1. SetupTo(t, "add") /\ tunnel' = [tunnel EXCEPT ![t].st = "provisioning"]
      BY <1>1, <2>3 DEF SetupStart
    <3>2. tunnel[t] \in [st : Status, net : Subnets, uuid : ServerIds \cup {None}]
      BY <2>3, RowShapes
    <3>3. tunnel'[t] = [tunnel[t] EXCEPT !.st = "provisioning"]
      BY <3>1 DEF TypeOK
    <3>4. setup'[t].pc = "add" /\ setup'[t].uuid = setup[t].uuid
      BY <1>0, <3>1 DEF SetupTo, Setup
    <3> QED
      BY <2>1, <2>3, <3>2, <3>3, <3>4 DEF SameRow
  <2> QED
    BY <2>2, <2>3
<1>2. CASE SetupAddServer(t)
  BY <1>0, <1>2 DEF SetupAddServer, AddServer, Setup
<1>3. CASE SetupSave(t)
  <2>1. tunnel[t] \in [st : Status, net : Subnets, uuid : ServerIds \cup {None}]
    BY <1>3, RowShapes DEF SetupSave
  <2>2. tunnel'[t] = [tunnel[t] EXCEPT !.uuid = setup[t].uuid]
    BY <1>3 DEF SetupSave, TypeOK
  <2>3. setup'[t].pc = "saved" /\ setup'[t].uuid = setup[t].uuid
    BY <1>0, <1>3 DEF SetupSave, SetupTo, Setup
  <2> QED
    BY <1>3, <2>1, <2>2, <2>3 DEF SetupSave
<1>4. CASE SetupActivate(t)
  <2>1. tunnel[t] \in [st : Status, net : Subnets, uuid : ServerIds \cup {None}]
    BY <1>4, RowShapes DEF SetupActivate
  <2>2. tunnel'[t] = [tunnel[t] EXCEPT !.st = "active"]
    BY <1>4 DEF SetupActivate, TypeOK
  <2> QED
    BY <1>0, <1>4, <2>1, <2>2 DEF SetupActivate, SameRow
<1>5. CASE SetupFail(t)
  <2>0. setup[t].pc \in ServerMade => "repeated" \in marks'[t]
    BY <1>5 DEF SetupFail, Mark, Marked, TypeOK
  <2>1. /\ setup[t].pc \in {"add"} \cup ServerMade /\ servers' = servers
        /\ setup'[t] = Retried(setup[t])
        /\ setup[t].pc \in ServerMade => Mark({t}, "repeated")
    BY <1>0, <1>5 DEF SetupFail, SetupStuck, ServerMade
  <2>2. setup'[t].pc \in {"queued", "done"} /\ setup'[t].uuid = None
    BY <1>0, <2>1 DEF Retried, Reset, SetupDone, Setup
  <2>3. CASE Live(t)
    <3>1. tunnel[t] \in [st : Status, net : Subnets, uuid : ServerIds \cup {None}]
      BY <2>3, RowShapes
    <3>2. tunnel'[t] = [tunnel[t] EXCEPT !.st = "error"]
      BY <1>5, <2>3 DEF SetupFail, TypeOK
    <3> QED
      BY <2>0, <2>1, <2>2, <2>3, <3>1, <3>2 DEF SameRow
  <2>4. CASE ~Live(t)
    BY <1>5, <2>0, <2>1, <2>2, <2>4 DEF SetupFail, SameRow
  <2> QED
    BY <2>3, <2>4
<1>6. CASE SetupCrash(t)
  <2>1. setup'[t] = Reset(setup[t])
    BY <1>0, <1>6 DEF SetupCrash
  <2>2. setup'[t].pc = "queued" /\ setup'[t].uuid = None
    BY <1>0, <2>1 DEF Reset, Setup
  <2>3. setup[t].pc \in ServerMade => "repeated" \in marks'[t]
    BY <1>6 DEF SetupCrash, Mark, Marked, TypeOK
  <2> QED
    BY <1>6, <2>2, <2>3 DEF SetupCrash, SameRow
<1> QED
  BY <1>1, <1>2, <1>3, <1>4, <1>5, <1>6 DEF SetupStep

LEMMA JoinMoves ==
  ASSUME TypeOK, NEW p \in Peers, JoinStep(p) \/ JoinCrash(p)
  PROVE  \/ /\ join[p].pc = "queued" /\ join'[p] = JoinDone /\ ~PeerLive(p)
            /\ peer' = peer /\ clients' = clients
         \/ /\ join[p].pc = "queued" /\ join'[p].pc = "keys" /\ join'[p].uuid = join[p].uuid
            /\ PeerLive(p) /\ peer'[p].st = "provisioning"
            /\ peer'[p].of = peer[p].of /\ peer'[p].uuid = peer[p].uuid
            /\ clients' = clients
         \/ /\ join[p].pc = "keys" /\ join'[p].pc = "added" /\ join'[p].uuid = NewClient(p)
            /\ PeerLive(p) /\ peer' = peer /\ AddClient(p)
         \/ /\ join[p].pc = "added" /\ join'[p].pc = "saved" /\ join'[p].uuid = join[p].uuid
            /\ PeerLive(p) /\ peer'[p].st = peer[p].st
            /\ peer'[p].of = peer[p].of /\ peer'[p].uuid = join[p].uuid
            /\ clients' = clients
         \/ /\ join[p].pc = "saved" /\ join'[p] = JoinDone
            /\ PeerLive(p) /\ peer'[p].st = "active"
            /\ peer'[p].of = peer[p].of /\ peer'[p].uuid = peer[p].uuid
            /\ clients' = clients
         \/ /\ join[p].pc \in JoinDues /\ join'[p].uuid = None
            /\ \/ join'[p].pc = "done" /\ peer'[p] = NoPeer("gone")
               \/ join'[p].pc = "queued" /\ peer'[p] = peer[p]
            /\ clients' = clients
            /\ join[p].pc \in ClientMade => "repeated" \in marks'[p]
<1>0. join[p] \in Join /\ join \in [Peers -> Join]
  BY DEF TypeOK
<1>1. CASE JoinStart(p)
  <2>1. clients' = clients /\ join[p].pc = "queued"
    BY <1>1 DEF JoinStart
  <2>2. CASE ~PeerLive(p)
    BY <1>0, <1>1, <2>1, <2>2 DEF JoinStart
  <2>3. CASE PeerLive(p)
    <3>1. JoinTo(p, "keys") /\ peer' = [peer EXCEPT ![p].st = "provisioning"]
      BY <1>1, <2>3 DEF JoinStart
    <3>2. peer[p] \in [st : Status, of : Tunnels, ip : Address \cup {None},
                       uuid : ClientIds \cup {None}]
      BY <2>3, RowShapes
    <3>3. peer'[p] = [peer[p] EXCEPT !.st = "provisioning"]
      BY <3>1 DEF TypeOK
    <3>4. join'[p].pc = "keys" /\ join'[p].uuid = join[p].uuid
      BY <1>0, <3>1 DEF JoinTo, Join
    <3> QED
      BY <2>1, <2>3, <3>2, <3>3, <3>4
  <2> QED
    BY <2>2, <2>3
<1>2. CASE JoinAddClient(p)
  BY <1>0, <1>2 DEF JoinAddClient, Join
<1>3. CASE JoinSave(p)
  <2>1. peer[p] \in [st : Status, of : Tunnels, ip : Address \cup {None},
                     uuid : ClientIds \cup {None}]
    BY <1>3, RowShapes DEF JoinSave
  <2>2. peer'[p] = [peer[p] EXCEPT !.uuid = join[p].uuid, !.ip = join[p].ip]
    BY <1>3 DEF JoinSave, TypeOK
  <2>3. join'[p].pc = "saved" /\ join'[p].uuid = join[p].uuid
    BY <1>0, <1>3 DEF JoinSave, JoinTo, Join
  <2>4. /\ peer'[p].st = peer[p].st /\ peer'[p].of = peer[p].of
        /\ peer'[p].uuid = join[p].uuid
    BY <2>1, <2>2
  <2>5. join[p].pc = "added" /\ PeerLive(p) /\ clients' = clients
    BY <1>3 DEF JoinSave
  <2> QED
    BY <2>3, <2>4, <2>5
<1>4. CASE JoinFinish(p)
  <2>1. peer[p] \in [st : Status, of : Tunnels, ip : Address \cup {None},
                     uuid : ClientIds \cup {None}]
    BY <1>4, RowShapes DEF JoinFinish
  <2>2. peer'[p] = [peer[p] EXCEPT !.st = "active"]
    BY <1>4 DEF JoinFinish, TypeOK
  <2> QED
    BY <1>0, <1>4, <2>1, <2>2 DEF JoinFinish
<1>5. CASE JoinFail(p)
  <2>1. /\ join[p].pc \in JoinDues /\ clients' = clients
        /\ join[p].pc \in ClientMade => "repeated" \in marks'[p]
    <3>1. join[p].pc \in ClientMade => "repeated" \in marks'[p]
      BY <1>5 DEF JoinFail, Mark, Marked, TypeOK
    <3> QED
      BY <1>0, <1>5, <3>1 DEF JoinFail, JoinStuck, JoinDues, ClientMade
  <2>2. CASE PeerLive(p) /\ join[p].left > 0
    <3>1. join'[p] = JoinRetried(join[p]) /\ peer' = peer
      BY <1>0, <1>5, <2>2 DEF JoinFail
    <3>2. join'[p].pc = "queued" /\ join'[p].uuid = None
      BY <1>0, <3>1 DEF JoinRetried, JoinReset, Join
    <3> QED
      BY <2>1, <3>1, <3>2
  <2>3. CASE ~(PeerLive(p) /\ join[p].left > 0)
    <3>1. join'[p] = JoinDone /\ peer'[p] = NoPeer("gone")
      BY <1>0, <1>5, <2>3 DEF JoinFail, TypeOK
    <3>2. join'[p].pc = "done" /\ join'[p].uuid = None
      BY <3>1 DEF JoinDone
    <3> QED
      BY <2>1, <3>1, <3>2
  <2> QED
    BY <2>2, <2>3
<1>6. CASE JoinCrash(p)
  <2>1. join'[p] = JoinReset(join[p])
    BY <1>0, <1>6 DEF JoinCrash
  <2>2. join'[p].pc = "queued" /\ join'[p].uuid = None
    BY <1>0, <2>1 DEF JoinReset, Join
  <2>3. join[p].pc \in ClientMade => "repeated" \in marks'[p]
    BY <1>6 DEF JoinCrash, Mark, Marked, TypeOK
  <2> QED
    BY <1>6, <2>2, <2>3 DEF JoinCrash, JoinDues, ClientMade
<1> QED
  BY <1>1, <1>2, <1>3, <1>4, <1>5, <1>6 DEF JoinStep

Starts(j, t) == (DeleteTunnel(j, t) \/ DestroyAgain(j, t)) /\ Live(t)
PeerStarts(j, p) == (DeletePeer(j, p) \/ LeaveAgain(j, p)) /\ PeerLive(p)

\* What may happen to a tunnel.
LEMMA TunnelSteps ==
  ASSUME TypeOK, [Next]_vars, NEW t \in Tunnels
  PROVE  \/ TunnelKept(t)
         \/ \E s \in Subnets : CreateTunnel(t, s)
         \/ SetupStep(t) \/ SetupCrash(t)
         \/ \E j \in Jobs : Starts(j, t) /\ tunnel' = [tunnel EXCEPT ![t].st = "destroying"]
                            /\ setup' = setup
         \/ \E j \in Jobs : DestroyCommit(j, t) /\ tunnel'[t] = Absent("gone") /\ setup' = setup
<1>1. ASSUME NEW u \in Tunnels, u # t
      PROVE  /\ \A s \in Subnets : CreateTunnel(u, s) => TunnelKept(t)
             /\ SetupStep(u) \/ SetupCrash(u) => TunnelKept(t)
             /\ \A j \in Jobs : DestroyCommit(j, u) => TunnelKept(t)
  <2>1. \A s \in Subnets : CreateTunnel(u, s) => TunnelKept(t)
    BY <1>1 DEF CreateTunnel, TunnelKept, TypeOK
  <2>2. SetupStart(u) \/ SetupAddServer(u) \/ SetupSave(u) => TunnelKept(t)
    BY <1>1 DEF SetupStart, SetupAddServer, SetupSave, SetupTo, TunnelKept, TypeOK
  <2>3. SetupActivate(u) \/ SetupFail(u) \/ SetupCrash(u) => TunnelKept(t)
    BY <1>1 DEF SetupActivate, SetupFail, SetupCrash, TunnelKept, TypeOK
  <2>4. \A j \in Jobs : DestroyCommit(j, u) => TunnelKept(t)
    BY <1>1 DEF DestroyCommit, TunnelKept, TypeOK
  <2> QED
    BY <2>1, <2>2, <2>3, <2>4 DEF SetupStep
<1>2. ASSUME NEW u \in Tunnels, NEW j \in Jobs, DeleteTunnel(j, u) \/ DestroyAgain(j, u)
      PROVE  \/ TunnelKept(t)
             \/ u = t /\ Starts(j, t) /\ tunnel' = [tunnel EXCEPT ![t].st = "destroying"]
                /\ setup' = setup
  <2>1. DestroyStart(j, u) /\ setup' = setup
    BY <1>2 DEF DeleteTunnel, DestroyAgain
  <2>2. CASE ~Live(u)
    BY <2>1, <2>2 DEF DestroyStart, TunnelKept
  <2>3. CASE Live(u)
    <3>1. tunnel' = [tunnel EXCEPT ![u].st = "destroying"]
      BY <2>1, <2>3, DestroyStarts
    <3>2. u # t => TunnelKept(t)
      BY <2>1, <3>1 DEF TunnelKept, TypeOK
    <3> QED
      BY <1>2, <2>1, <2>3, <3>1, <3>2 DEF Starts
  <2> QED
    BY <2>2, <2>3
<1>3. ASSUME NEW u \in Tunnels, NEW j \in Jobs
      PROVE  /\ DestroyServer(j, u) => TunnelKept(t)
             /\ DestroyCommit(j, t) => tunnel'[t] = Absent("gone") /\ setup' = setup
  BY DEF DestroyServer, DestroyCommit, TunnelKept, TypeOK
<1>4. TunnelNext => \/ TunnelKept(t)
                    \/ \E s \in Subnets : CreateTunnel(t, s)
                    \/ SetupStep(t) \/ SetupCrash(t)
                    \/ \E j \in Jobs : Starts(j, t) /\ tunnel' = [tunnel EXCEPT ![t].st = "destroying"]
                                       /\ setup' = setup
                    \/ \E j \in Jobs : DestroyCommit(j, t) /\ tunnel'[t] = Absent("gone") /\ setup' = setup
  BY <1>1, <1>2, <1>3 DEF TunnelNext, DestroyStep
<1>5. PeerNext => TunnelKept(t)
  <2>1. ASSUME NEW p \in Peers, JoinStep(p) \/ JoinCrash(p) PROVE TunnelKept(t)
    BY <2>1 DEF JoinStep, JoinCrash, JoinStart, JoinAddClient, JoinSave, JoinFinish, JoinFail,
       tunnelVars, TunnelKept
  <2>2. ASSUME NEW p \in Peers
        PROVE  /\ \A u \in Tunnels : CreatePeer(p, u) => TunnelKept(t)
               /\ \A j \in Jobs : DeletePeer(j, p) \/ LeaveStep(j, p) => TunnelKept(t)
    BY DEF CreatePeer, DeletePeer, LeaveStep, LeaveAgain, LeaveClient, LeaveCommit,
       tunnelVars, TunnelKept
  <2> QED
    BY <2>1, <2>2 DEF PeerNext
<1>6. (\E j \in Jobs : JobCrash(j)) \/ UNCHANGED vars => TunnelKept(t)
  BY DEF JobCrash, vars, tunnelVars, TunnelKept
<1> QED
  BY <1>4, <1>5, <1>6 DEF Next

\* How a deletion changes.
LEMMA JobSteps ==
  ASSUME TypeOK, [Next]_vars, NEW j \in Jobs
  PROVE  \/ job'[j] = job[j]
         \/ job'[j] = NoJob
         \/ /\ JobCrash(j) /\ job[j] # NoJob /\ job'[j] # NoJob
            /\ job'[j].pc = "queued" /\ job'[j].of = job[j].of /\ job'[j].uuid = None
         \/ \E t \in Tunnels :
               /\ Starts(j, t)
               /\ job'[j] = [pc |-> IF tunnel[t].uuid # None THEN "call" ELSE "commit",
                             of |-> t, uuid |-> tunnel[t].uuid, net |-> tunnel[t].net]
         \/ \E p \in Peers :
               /\ PeerStarts(j, p)
               /\ job'[j] = [pc |-> IF peer[p].uuid # None THEN "call" ELSE "commit",
                             of |-> p, uuid |-> peer[p].uuid, net |-> None]
         \/ \E t \in Tunnels : DestroyServer(j, t) /\ job'[j] = [job[j] EXCEPT !.pc = "commit"]
         \/ \E p \in Peers : LeaveClient(j, p) /\ job'[j] = [job[j] EXCEPT !.pc = "commit"]
<1> DEFINE Goal == \/ job'[j] = job[j]
                   \/ job'[j] = NoJob
                   \/ /\ JobCrash(j) /\ job[j] # NoJob /\ job'[j] # NoJob
                      /\ job'[j].pc = "queued" /\ job'[j].of = job[j].of /\ job'[j].uuid = None
                   \/ \E t \in Tunnels :
                         /\ Starts(j, t)
                         /\ job'[j] = [pc |-> IF tunnel[t].uuid # None THEN "call" ELSE "commit",
                                       of |-> t, uuid |-> tunnel[t].uuid, net |-> tunnel[t].net]
                   \/ \E p \in Peers :
                         /\ PeerStarts(j, p)
                         /\ job'[j] = [pc |-> IF peer[p].uuid # None THEN "call" ELSE "commit",
                                       of |-> p, uuid |-> peer[p].uuid, net |-> None]
                   \/ \E t \in Tunnels : DestroyServer(j, t) /\ job'[j] = [job[j] EXCEPT !.pc = "commit"]
                   \/ \E p \in Peers : LeaveClient(j, p) /\ job'[j] = [job[j] EXCEPT !.pc = "commit"]
<1>1. ASSUME NEW t \in Tunnels, NEW k \in Jobs, DeleteTunnel(k, t) \/ DestroyAgain(k, t)
      PROVE  Goal
  <2>1. DestroyStart(k, t)
    BY <1>1 DEF DeleteTunnel, DestroyAgain
  <2>2. CASE ~Live(t)
    <3>1. job' = [job EXCEPT ![k] = NoJob]
      BY <2>1, <2>2 DEF DestroyStart
    <3>2. job'[j] = job[j] \/ job'[j] = NoJob
      BY <3>1 DEF TypeOK
    <3> QED
      BY <3>2
  <2>3. CASE Live(t)
    <3>1. job' = [job EXCEPT ![k] =
                     [pc |-> IF tunnel[t].uuid # None THEN "call" ELSE "commit", of |-> t,
                      uuid |-> tunnel[t].uuid, net |-> tunnel[t].net]]
      BY <2>1, <2>3, DestroyStarts
    <3>2. k = j => job'[j] = [pc |-> IF tunnel[t].uuid # None THEN "call" ELSE "commit", of |-> t,
                              uuid |-> tunnel[t].uuid, net |-> tunnel[t].net]
      BY <3>1 DEF TypeOK
    <3>3. k # j => job'[j] = job[j]
      BY <3>1 DEF TypeOK
    <3>4. Starts(k, t)
      BY <1>1, <2>3 DEF Starts
    <3> QED
      BY <3>2, <3>3, <3>4
  <2> QED
    BY <2>2, <2>3
<1>2. ASSUME NEW p \in Peers, NEW k \in Jobs, DeletePeer(k, p) \/ LeaveAgain(k, p)
      PROVE  Goal
  <2>1. LeaveStart(k, p)
    BY <1>2 DEF DeletePeer, LeaveAgain
  <2>2. CASE ~PeerLive(p)
    <3>1. job' = [job EXCEPT ![k] = NoJob]
      BY <2>1, <2>2 DEF LeaveStart
    <3>2. job'[j] = job[j] \/ job'[j] = NoJob
      BY <3>1 DEF TypeOK
    <3> QED
      BY <3>2
  <2>3. CASE PeerLive(p)
    <3>1. job' = [job EXCEPT ![k] = [pc |-> IF peer[p].uuid # None THEN "call" ELSE "commit",
                                     of |-> p, uuid |-> peer[p].uuid, net |-> None]]
      BY <2>1, <2>3 DEF LeaveStart
    <3>2. k = j => job'[j] = [pc |-> IF peer[p].uuid # None THEN "call" ELSE "commit",
                              of |-> p, uuid |-> peer[p].uuid, net |-> None]
      BY <3>1 DEF TypeOK
    <3>3. k # j => job'[j] = job[j]
      BY <3>1 DEF TypeOK
    <3>4. PeerStarts(k, p)
      BY <1>2, <2>3 DEF PeerStarts
    <3> QED
      BY <3>2, <3>3, <3>4
  <2> QED
    BY <2>2, <2>3
<1>3. ASSUME NEW k \in Jobs, NEW t \in Tunnels, DestroyServer(k, t) PROVE Goal
  <2>1. job' = [job EXCEPT ![k].pc = "commit"]
    BY <1>3 DEF DestroyServer
  <2>2. (k = j /\ job'[j] = [job[j] EXCEPT !.pc = "commit"]) \/ job'[j] = job[j]
    BY <2>1 DEF TypeOK
  <2> QED
    BY <1>3, <2>2
<1>4. ASSUME NEW k \in Jobs, NEW p \in Peers, LeaveClient(k, p) PROVE Goal
  <2>1. job' = [job EXCEPT ![k].pc = "commit"]
    BY <1>4 DEF LeaveClient
  <2>2. (k = j /\ job'[j] = [job[j] EXCEPT !.pc = "commit"]) \/ job'[j] = job[j]
    BY <2>1 DEF TypeOK
  <2> QED
    BY <1>4, <2>2
<1>5. ASSUME NEW k \in Jobs,
             (\E t \in Tunnels : DestroyCommit(k, t)) \/ (\E p \in Peers : LeaveCommit(k, p))
      PROVE  job'[j] = job[j] \/ job'[j] = NoJob
  BY <1>5 DEF DestroyCommit, LeaveCommit, TypeOK
<1>6. ASSUME NEW k \in Jobs, JobCrash(k) PROVE Goal
  <2>1. job[k] \in [pc : {"queued", "call", "commit"}, of : Tunnels \cup Peers,
                    uuid : ServerIds \cup ClientIds \cup {None}, net : Subnets \cup {None}]
    BY <1>6, RowShapes DEF JobCrash
  <2>2. job' = [job EXCEPT ![k] = [job[k] EXCEPT !.pc = "queued", !.uuid = None, !.net = None]]
    BY <1>6 DEF JobCrash, TypeOK
  <2>3. CASE k # j
    <3>1. job'[j] = job[j]
      BY <2>2, <2>3 DEF TypeOK
    <3> QED
      BY <3>1
  <2>4. CASE k = j
    <3>1. job'[j] = [job[j] EXCEPT !.pc = "queued", !.uuid = None, !.net = None]
      BY <2>2, <2>4 DEF TypeOK
    <3>2. job'[j].pc = "queued" /\ job'[j].of = job[j].of /\ job'[j].uuid = None
      BY <2>1, <2>4, <3>1
    <3>3. job[j] # NoJob
      BY <1>6, <2>4 DEF JobCrash
    <3>4. job'[j] # NoJob
      BY <3>2 DEF NoJob
    <3> QED
      BY <1>6, <2>4, <3>2, <3>3, <3>4
  <2> QED
    BY <2>3, <2>4
<1>7. ASSUME NEW t \in Tunnels,
             (\E s \in Subnets : CreateTunnel(t, s)) \/ SetupStep(t) \/ SetupCrash(t)
      PROVE  job' = job
  BY <1>7 DEF CreateTunnel, SetupStep, SetupStart, SetupAddServer, SetupSave, SetupActivate,
     SetupFail, SetupCrash
<1>8. ASSUME NEW p \in Peers,
             (\E t \in Tunnels : CreatePeer(p, t)) \/ JoinStep(p) \/ JoinCrash(p)
      PROVE  job' = job
  BY <1>8 DEF CreatePeer, JoinStep, JoinStart, JoinAddClient, JoinSave, JoinFinish,
     JoinFail, JoinCrash
<1>9. UNCHANGED vars => job' = job
  BY DEF vars
<1>10. TunnelNext => Goal
  <2> HIDE DEF Goal
  <2>1. job' = job => Goal
    BY DEF Goal
  <2>2. job'[j] = job[j] \/ job'[j] = NoJob => Goal
    BY DEF Goal
  <2> QED
    BY <1>1, <1>3, <1>5, <1>7, <2>1, <2>2 DEF TunnelNext, DestroyStep
<1>11. PeerNext => Goal
  <2> HIDE DEF Goal
  <2>1. job' = job => Goal
    BY DEF Goal
  <2>2. job'[j] = job[j] \/ job'[j] = NoJob => Goal
    BY DEF Goal
  <2> QED
    BY <1>2, <1>4, <1>5, <1>8, <2>1, <2>2 DEF PeerNext, LeaveStep
<1>12. Goal
  <2> HIDE DEF Goal
  <2>1. job' = job => Goal
    BY DEF Goal
  <2> QED
    BY <1>6, <1>9, <1>10, <1>11, <2>1 DEF Next
<1> QED
  BY <1>12

-----------------------------------------------------------------------------
(* The pool of /24s.                                                       *)

NetsKept == \A t \in Tunnels : (Live(t)' <=> Live(t)) /\ (Live(t) => tunnel'[t].net = tunnel[t].net)
FewerReturning ==
    \A j \in Jobs, t \in Tunnels :
        Returning(j, t)' => Returning(j, t) /\ job'[j].net = job[j].net

\* Marks are never taken away.
LEMMA MarksStay ==
  ASSUME TypeOK, [Next]_vars, NEW x \in Tunnels \cup Peers \cup Subnets
  PROVE  marks[x] \subseteq marks'[x]
<1>1. \A S, m : Mark(S, m) => marks[x] \subseteq marks'[x]
  BY DEF Mark, Marked, TypeOK
<1>2. ASSUME NEW t \in Tunnels, NEW j \in Jobs, DeleteTunnel(j, t) \/ DestroyAgain(j, t)
      PROVE  marks[x] \subseteq marks'[x]
  <2>1. DestroyStart(j, t)
    BY <1>2 DEF DeleteTunnel, DestroyAgain
  <2>2. CASE Live(t)
    BY <2>1, <2>2, DestroyStarts
  <2>3. CASE ~Live(t)
    BY <2>1, <2>3 DEF DestroyStart
  <2> QED
    BY <2>2, <2>3
<1>3. ASSUME NEW t \in Tunnels, NEW j \in Jobs, DestroyServer(j, t) \/ DestroyCommit(j, t)
      PROVE  marks[x] \subseteq marks'[x]
  BY <1>1, <1>3 DEF DestroyServer, DestroyCommit
<1>4. ASSUME NEW t \in Tunnels,
             (\E s \in Subnets : CreateTunnel(t, s)) \/ SetupStep(t) \/ SetupCrash(t)
      PROVE  marks[x] \subseteq marks'[x]
  BY <1>1, <1>4 DEF CreateTunnel, SetupStep, SetupStart, SetupAddServer, SetupSave, SetupActivate,
     SetupFail, SetupCrash
<1>5. ASSUME NEW p \in Peers,
             (\E t \in Tunnels : CreatePeer(p, t)) \/ JoinStep(p) \/ JoinCrash(p)
      PROVE  marks[x] \subseteq marks'[x]
  BY <1>1, <1>5 DEF CreatePeer, JoinStep, JoinStart, JoinAddClient, JoinSave, JoinFinish,
     JoinFail, JoinCrash
<1>6. ASSUME NEW p \in Peers, NEW j \in Jobs, DeletePeer(j, p) \/ LeaveStep(j, p)
      PROVE  marks[x] \subseteq marks'[x]
  BY <1>1, <1>6 DEF DeletePeer, LeaveStep, LeaveAgain, LeaveStart, LeaveClient, LeaveCommit
<1>7. (\E j \in Jobs : JobCrash(j)) \/ UNCHANGED vars => marks' = marks
  BY DEF JobCrash, vars
<1> QED
  BY <1>2, <1>3, <1>4, <1>5, <1>6, <1>7 DEF Next, TunnelNext, PeerNext, DestroyStep

\* A deletion of a tunnel, once begun, goes on with what it has read.
LEMMA ReturningMoves ==
  ASSUME TypeOK, [Next]_vars, NEW j \in Jobs, NEW t \in Tunnels, Returning(j, t)'
  PROVE  \/ Starts(j, t) /\ job'[j].net = tunnel[t].net
         \/ Returning(j, t) /\ job'[j].net = job[j].net
<1>1. job'[j] # NoJob /\ job'[j].of = t /\ job'[j].pc # "queued"
  BY DEF Returning, Deletes
<1>2. CASE job'[j] = job[j]
  BY <1>1, <1>2 DEF Returning, Deletes
<1>3. CASE \E u \in Tunnels :
              /\ Starts(j, u)
              /\ job'[j] = [pc |-> IF tunnel[u].uuid # None THEN "call" ELSE "commit",
                            of |-> u, uuid |-> tunnel[u].uuid, net |-> tunnel[u].net]
  BY <1>1, <1>3
<1>4. ~(\E p \in Peers :
           /\ PeerStarts(j, p)
           /\ job'[j] = [pc |-> IF peer[p].uuid # None THEN "call" ELSE "commit",
                         of |-> p, uuid |-> peer[p].uuid, net |-> None])
  <2>1. \A p \in Peers : p # t
    BY WireGuardAssumption
  <2>2. ASSUME NEW p \in Peers, NEW pc,
               job'[j] = [pc |-> pc, of |-> p, uuid |-> peer[p].uuid, net |-> None]
        PROVE  job'[j].of = p
    BY <2>2
  <2> QED
    BY <1>1, <2>1, <2>2
<1>5. ASSUME NEW x \in Tunnels \cup Peers, Deletes(j, x), job[j].pc = "call",
             job'[j] = [job[j] EXCEPT !.pc = "commit"]
      PROVE  Returning(j, t) /\ job'[j].net = job[j].net
  <2>1. job[j] \in [pc : {"queued", "call", "commit"}, of : Tunnels \cup Peers,
                    uuid : ServerIds \cup ClientIds \cup {None}, net : Subnets \cup {None}]
    BY <1>5, RowShapes DEF Deletes
  <2>2. job'[j].of = job[j].of /\ job'[j].net = job[j].net
    BY <1>5, <2>1
  <2> QED
    BY <1>1, <1>5, <2>2 DEF Returning, Deletes
<1>6. /\ \A u \in Tunnels : DestroyServer(j, u) => Deletes(j, u) /\ job[j].pc = "call"
      /\ \A p \in Peers : LeaveClient(j, p) => Deletes(j, p) /\ job[j].pc = "call"
  BY DEF DestroyServer, LeaveClient
<1>7. CASE \E u \in Tunnels : DestroyServer(j, u) /\ job'[j] = [job[j] EXCEPT !.pc = "commit"]
  BY <1>5, <1>6, <1>7
<1>8. CASE \E p \in Peers : LeaveClient(j, p) /\ job'[j] = [job[j] EXCEPT !.pc = "commit"]
  BY <1>5, <1>6, <1>8
<1> QED
  BY <1>1, <1>2, <1>3, <1>4, <1>7, <1>8, JobSteps

\* Only three steps change who has or returns a /24.
LEMMA PoolSteps ==
  ASSUME TypeOK, [Next]_vars
  PROVE  \/ \E t \in Tunnels, s \in Subnets : CreateTunnel(t, s)
         \/ \E j \in Jobs, t \in Tunnels : Starts(j, t)
         \/ \E j \in Jobs, t \in Tunnels : DestroyCommit(j, t)
         \/ pool' = pool /\ NetsKept /\ FewerReturning
<1> SUFFICES ASSUME ~(\E t \in Tunnels, s \in Subnets : CreateTunnel(t, s)),
                    ~(\E j \in Jobs, t \in Tunnels : Starts(j, t)),
                    ~(\E j \in Jobs, t \in Tunnels : DestroyCommit(j, t))
             PROVE  pool' = pool /\ NetsKept /\ FewerReturning
  OBVIOUS
<1>1. pool' = pool
  <2>1. TunnelNext => pool' = pool
    BY DEF TunnelNext, SetupStep, SetupStart, SetupAddServer, SetupSave, SetupActivate,
       SetupFail, SetupCrash, DeleteTunnel, DestroyStep, DestroyAgain, DestroyServer
  <2>2. \A p \in Peers : JoinStep(p) \/ JoinCrash(p) => pool' = pool
    BY DEF JoinStep, JoinStart, JoinAddClient, JoinSave, JoinFinish, JoinFail, JoinCrash, tunnelVars
  <2>3. PeerNext => pool' = pool
    BY <2>2 DEF PeerNext, CreatePeer, DeletePeer, LeaveStep, LeaveAgain, LeaveClient, LeaveCommit,
       tunnelVars
  <2>4. (\E j \in Jobs : JobCrash(j)) \/ UNCHANGED vars => pool' = pool
    BY DEF JobCrash, vars, tunnelVars
  <2> QED
    BY <2>1, <2>3, <2>4 DEF Next
<1>2. NetsKept
  <2> SUFFICES ASSUME NEW t \in Tunnels
               PROVE  (Live(t)' <=> Live(t)) /\ (Live(t) => tunnel'[t].net = tunnel[t].net)
    BY DEF NetsKept
  <2>1. CASE TunnelKept(t)
    BY <2>1 DEF TunnelKept, Live
  <2>2. CASE SetupStep(t) \/ SetupCrash(t)
    BY <2>2, SetupMoves DEF Live, SameRow, Status
  <2> QED
    BY <2>1, <2>2, TunnelSteps
<1>3. FewerReturning
  BY ReturningMoves DEF FewerReturning
<1> QED
  BY <1>1, <1>2, <1>3

-----------------------------------------------------------------------------
(* Peers, servers and clients.                                             *)

\* What may happen to a peer.
LEMMA PeerSteps ==
  ASSUME TypeOK, [Next]_vars, NEW p \in Peers
  PROVE  \/ PeerKept(p)
         \/ \E t \in Tunnels : CreatePeer(p, t)
         \/ JoinStep(p) \/ JoinCrash(p)
         \/ /\ peer'[p] = NoPeer("gone") /\ join' = join /\ clients' = clients /\ marks' = marks
            /\ PeerLive(p) \/ \E j \in Jobs : Deletes(j, p)
            /\ \E j \in Jobs : LeaveCommit(j, p) \/ (PeerLive(p) /\ DestroyCommit(j, peer[p].of))
<1> DEFINE Gone == /\ peer'[p] = NoPeer("gone") /\ join' = join
                   /\ clients' = clients /\ marks' = marks
<1>1. ASSUME NEW q \in Peers, q # p
      PROVE  /\ \A t \in Tunnels : CreatePeer(q, t) => PeerKept(p)
             /\ JoinStep(q) \/ JoinCrash(q) => PeerKept(p)
             /\ \A j \in Jobs : LeaveCommit(j, q) => PeerKept(p)
  <2>1. \A t \in Tunnels : CreatePeer(q, t) => PeerKept(p)
    BY <1>1 DEF CreatePeer, PeerKept, TypeOK
  <2>2. JoinStart(q) \/ JoinAddClient(q) => PeerKept(p)
    BY <1>1 DEF JoinStart, JoinAddClient, JoinTo, PeerKept, TypeOK
  <2>3. JoinSave(q) => PeerKept(p)
    <3>1. JoinSave(q) => \E r : peer' = [peer EXCEPT ![q] = r] /\ JoinTo(q, "saved")
      <4> DEFINE r == [peer[q] EXCEPT !.uuid = join[q].uuid, !.ip = join[q].ip]
      <4>1. JoinSave(q) => peer' = [peer EXCEPT ![q] = r] /\ JoinTo(q, "saved")
        BY DEF JoinSave, TypeOK
      <4> QED
        BY <4>1
    <3> QED
      BY <1>1, <3>1 DEF JoinTo, PeerKept, TypeOK
  <2>4. JoinFinish(q) \/ JoinCrash(q) => PeerKept(p)
    BY <1>1 DEF JoinFinish, JoinCrash, PeerKept, TypeOK
  <2>5. JoinFail(q) => PeerKept(p)
    <3>1. JoinFail(q) => \E m : join' = [join EXCEPT ![q] = m]
                                /\ (peer' = peer \/ peer' = [peer EXCEPT ![q] = NoPeer("gone")])
      BY DEF JoinFail
    <3> QED
      BY <1>1, <3>1 DEF PeerKept, TypeOK
  <2>6. \A j \in Jobs : LeaveCommit(j, q) => PeerKept(p)
    BY <1>1 DEF LeaveCommit, PeerKept, TypeOK
  <2> QED
    BY <2>1, <2>2, <2>3, <2>4, <2>5, <2>6 DEF JoinStep
<1>2. ASSUME NEW j \in Jobs, NEW t \in Tunnels, DestroyCommit(j, t)
      PROVE  PeerKept(p) \/ (Gone /\ PeerLive(p) /\ peer[p].of = t)
  BY <1>2 DEF DestroyCommit, PeersOf, PeerKept, TypeOK
<1>3. ASSUME NEW j \in Jobs, LeaveCommit(j, p)
      PROVE  Gone /\ Deletes(j, p)
  BY <1>3 DEF LeaveCommit, TypeOK
<1>4. ASSUME NEW j \in Jobs, NEW q \in Peers, DeletePeer(j, q) \/ LeaveAgain(j, q) \/ LeaveClient(j, q)
      PROVE  PeerKept(p)
  BY <1>4 DEF DeletePeer, LeaveAgain, LeaveClient, PeerKept, peerVars
<1>5. ASSUME NEW t \in Tunnels,
             \/ \E s \in Subnets : CreateTunnel(t, s)
             \/ SetupStep(t) \/ SetupCrash(t)
             \/ \E j \in Jobs : DeleteTunnel(j, t) \/ DestroyAgain(j, t) \/ DestroyServer(j, t)
      PROVE  PeerKept(p)
  BY <1>5 DEF CreateTunnel, SetupStep, SetupStart, SetupAddServer, SetupSave, SetupActivate,
     SetupFail, SetupCrash, DeleteTunnel, DestroyAgain, DestroyServer, peerVars, PeerKept
<1>6. (\E j \in Jobs : JobCrash(j)) \/ UNCHANGED vars => PeerKept(p)
  BY DEF JobCrash, vars, peerVars, PeerKept
<1>7. TunnelNext => PeerKept(p) \/ (Gone /\ PeerLive(p) /\ \E j \in Jobs : DestroyCommit(j, peer[p].of))
  <2> HIDE DEF Gone
  <2> QED
    BY <1>2, <1>5 DEF TunnelNext, DestroyStep
<1>8. PeerNext => \/ PeerKept(p)
                  \/ \E t \in Tunnels : CreatePeer(p, t)
                  \/ JoinStep(p) \/ JoinCrash(p)
                  \/ Gone /\ \E j \in Jobs : Deletes(j, p) /\ LeaveCommit(j, p)
  <2> HIDE DEF Gone
  <2> QED
    BY <1>1, <1>3, <1>4 DEF PeerNext, LeaveStep
<1> QED
  BY <1>6, <1>7, <1>8 DEF Next

\* What may happen to the servers.
LEMMA ServerSteps ==
  ASSUME TypeOK, [Next]_vars
  PROVE  \/ servers' = servers
         \/ \E t \in Tunnels : SetupAddServer(t)
         \/ \E j \in Jobs, t \in Tunnels : DestroyServer(j, t) /\ servers' = servers \ {job[j].uuid}
<1>1. ASSUME NEW t \in Tunnels
      PROVE  /\ \A s \in Subnets : CreateTunnel(t, s) => servers' = servers
             /\ SetupStep(t) \/ SetupCrash(t) => servers' = servers \/ SetupAddServer(t)
  BY DEF CreateTunnel, SetupStep, SetupStart, SetupSave, SetupActivate, SetupFail, SetupCrash
<1>2. ASSUME NEW t \in Tunnels, NEW j \in Jobs
      PROVE  /\ DeleteTunnel(j, t) \/ DestroyAgain(j, t) \/ DestroyCommit(j, t) => servers' = servers
             /\ DestroyServer(j, t) => servers' = servers \/ servers' = servers \ {job[j].uuid}
  BY DEF DeleteTunnel, DestroyAgain, DestroyServer, DestroyCommit, DelServer
<1>3. \A p \in Peers : JoinStep(p) \/ JoinCrash(p) => servers' = servers
  BY DEF JoinStep, JoinStart, JoinAddClient, JoinSave, JoinFinish, JoinFail, JoinCrash, tunnelVars
<1>4. PeerNext => servers' = servers
  BY <1>3 DEF PeerNext, CreatePeer, DeletePeer, LeaveStep, LeaveAgain, LeaveClient, LeaveCommit,
     tunnelVars
<1>5. (\E j \in Jobs : JobCrash(j)) \/ UNCHANGED vars => servers' = servers
  BY DEF JobCrash, vars, tunnelVars
<1>6. TunnelNext => \/ servers' = servers
                    \/ \E t \in Tunnels : SetupAddServer(t)
                    \/ \E j \in Jobs, t \in Tunnels :
                          DestroyServer(j, t) /\ servers' = servers \ {job[j].uuid}
  BY <1>1, <1>2 DEF TunnelNext, DestroyStep
<1> QED
  BY <1>4, <1>5, <1>6 DEF Next

\* What may happen to the clients.
LEMMA ClientSteps ==
  ASSUME TypeOK, [Next]_vars
  PROVE  \/ clients' = clients
         \/ \E p \in Peers : JoinAddClient(p)
         \/ \E j \in Jobs, p \in Peers :
               LeaveClient(j, p) /\ clients' = {c \in clients : c.id # job[j].uuid}
<1>1. ASSUME NEW p \in Peers
      PROVE  /\ \A t \in Tunnels : CreatePeer(p, t) => clients' = clients
             /\ JoinStep(p) \/ JoinCrash(p) => clients' = clients \/ JoinAddClient(p)
  BY DEF CreatePeer, JoinStep, JoinStart, JoinSave, JoinFinish, JoinFail, JoinCrash
<1>2. ASSUME NEW p \in Peers, NEW j \in Jobs
      PROVE  /\ DeletePeer(j, p) \/ LeaveAgain(j, p) \/ LeaveCommit(j, p) => clients' = clients
             /\ LeaveClient(j, p) => \/ clients' = clients
                                     \/ clients' = {c \in clients : c.id # job[j].uuid}
  BY DEF DeletePeer, LeaveAgain, LeaveClient, LeaveCommit, DelClient, peerVars
<1>3. TunnelNext => clients' = clients
  <2>1. ASSUME NEW t \in Tunnels
        PROVE  (\E s \in Subnets : CreateTunnel(t, s)) \/ SetupStep(t) \/ SetupCrash(t) =>
                  clients' = clients
    BY DEF CreateTunnel, SetupStep, SetupStart, SetupAddServer, SetupSave, SetupActivate,
       SetupFail, SetupCrash, peerVars
  <2>2. ASSUME NEW t \in Tunnels, NEW j \in Jobs
        PROVE  DeleteTunnel(j, t) \/ DestroyStep(j, t) => clients' = clients
    BY DEF DeleteTunnel, DestroyStep, DestroyAgain, DestroyServer, DestroyCommit, peerVars
  <2> QED
    BY <2>1, <2>2 DEF TunnelNext
<1>4. (\E j \in Jobs : JobCrash(j)) \/ UNCHANGED vars => clients' = clients
  BY DEF JobCrash, vars, peerVars
<1>5. PeerNext => \/ clients' = clients
                  \/ \E p \in Peers : JoinAddClient(p)
                  \/ \E j \in Jobs, p \in Peers :
                        LeaveClient(j, p) /\ clients' = {c \in clients : c.id # job[j].uuid}
  BY <1>1, <1>2 DEF PeerNext, LeaveStep
<1> QED
  BY <1>3, <1>4, <1>5 DEF Next

-----------------------------------------------------------------------------
(* Ids.                                                                    *)

LEMMA NoneApart ==
  /\ None \notin Tunnels /\ None \notin Peers /\ None \notin Subnets
  /\ None \notin ServerIds /\ None \notin ClientIds
<1>1. ServerIds \subseteq (Tunnels \cup Peers) \X Nat /\ ClientIds \subseteq (Tunnels \cup Peers) \X Nat
  BY DEF ServerIds, ClientIds
<1> QED
  BY <1>1, WireGuardAssumption

LEMMA NewIds ==
  /\ \A t \in Tunnels : NewServer(t)[1] = t
  /\ \A p \in Peers : NewClient(p)[1] = p
BY DEF NewServer, NewClient

\* What creating a tunnel, and a peer, does to it.
LEMMA Creates ==
  ASSUME TypeOK
  PROVE  /\ \A t \in Tunnels, s \in Subnets : CreateTunnel(t, s) =>
               /\ tunnel[t].st = "unused"
               /\ tunnel'[t] = [st |-> "pending", net |-> s, uuid |-> None]
               /\ setup'[t].pc \in {"queued", "lost"} /\ setup'[t].uuid = setup[t].uuid
         /\ \A p \in Peers, t \in Tunnels : CreatePeer(p, t) =>
               /\ peer[p].st = "unused" /\ tunnel[t].st = "active"
               /\ peer'[p] = [st |-> "pending", of |-> t, ip |-> None, uuid |-> None]
               /\ join'[p].pc \in {"queued", "lost"} /\ join'[p].uuid = join[p].uuid
<1>1. ASSUME NEW t \in Tunnels, NEW s \in Subnets, CreateTunnel(t, s)
      PROVE  setup'[t].pc \in {"queued", "lost"} /\ setup'[t].uuid = setup[t].uuid
  <2>1. PICK pc \in Sent : setup' = [setup EXCEPT ![t].pc = pc] /\ CountLost(pc)
    BY <1>1 DEF CreateTunnel
  <2>2. pc \in {"queued", "lost"}
    BY <2>1, LostTyped
  <2>3. setup[t] \in Setup /\ setup'[t] = [setup[t] EXCEPT !.pc = pc]
    BY <2>1 DEF TypeOK
  <2> QED
    BY <2>2, <2>3 DEF Setup
<1>2. ASSUME NEW p \in Peers, NEW t \in Tunnels, CreatePeer(p, t)
      PROVE  join'[p].pc \in {"queued", "lost"} /\ join'[p].uuid = join[p].uuid
  <2>1. PICK pc \in Sent : join' = [join EXCEPT ![p].pc = pc] /\ CountLost(pc)
    BY <1>2 DEF CreatePeer
  <2>2. pc \in {"queued", "lost"}
    BY <2>1, LostTyped
  <2>3. join[p] \in Join /\ join'[p] = [join[p] EXCEPT !.pc = pc]
    BY <2>1 DEF TypeOK
  <2> QED
    BY <2>2, <2>3 DEF Join
<1>3. ASSUME NEW t \in Tunnels, NEW s \in Subnets, CreateTunnel(t, s)
      PROVE  /\ tunnel[t].st = "unused"
             /\ tunnel'[t] = [st |-> "pending", net |-> s, uuid |-> None]
  BY <1>3 DEF CreateTunnel, TypeOK
<1>4. ASSUME NEW p \in Peers, NEW t \in Tunnels, CreatePeer(p, t)
      PROVE  /\ peer[p].st = "unused" /\ tunnel[t].st = "active"
             /\ peer'[p] = [st |-> "pending", of |-> t, ip |-> None, uuid |-> None]
  BY <1>4 DEF CreatePeer, TypeOK
<1> QED
  BY <1>1, <1>2, <1>3, <1>4

LEMMA OwnIdsInit == Init => OwnIds
BY DEF Init, OwnIds, Absent, NoPeer, ServerMade, ClientMade

LEMMA OwnIdsStep ==
  ASSUME TypeOK, OwnIds, Begun, [Next]_vars
  PROVE  OwnIds'
<1>1. ASSUME NEW t \in Tunnels
      PROVE  /\ tunnel'[t].uuid # None => tunnel'[t].uuid[1] = t
             /\ IF setup'[t].pc \in ServerMade THEN setup'[t].uuid[1] = t ELSE setup'[t].uuid = None
  <2>0. /\ tunnel[t].uuid # None => tunnel[t].uuid[1] = t
        /\ IF setup[t].pc \in ServerMade THEN setup[t].uuid[1] = t ELSE setup[t].uuid = None
    BY DEF OwnIds
  <2>1. CASE TunnelKept(t)
    BY <2>0, <2>1 DEF TunnelKept
  <2>2. ASSUME NEW s \in Subnets, CreateTunnel(t, s)
        PROVE  /\ tunnel'[t].uuid = None /\ setup'[t].uuid = None
               /\ setup'[t].pc \notin ServerMade
    <3>1. tunnel[t].st = "unused" => setup[t].pc = "none"
      BY DEF Begun
    <3>2. /\ tunnel[t].st = "unused"
          /\ tunnel'[t] = [st |-> "pending", net |-> s, uuid |-> None]
          /\ setup'[t].pc \in {"queued", "lost"} /\ setup'[t].uuid = setup[t].uuid
      BY <2>2, Creates
    <3>3. setup[t].uuid = None
      BY <2>0, <3>1, <3>2 DEF ServerMade
    <3> QED
      BY <3>2, <3>3 DEF ServerMade
  <2>3. CASE SetupStep(t) \/ SetupCrash(t)
    <3>1. /\ \/ tunnel'[t].uuid = tunnel[t].uuid
             \/ setup[t].pc = "added" /\ tunnel'[t].uuid = setup[t].uuid
          /\ \/ setup'[t].pc \in {"queued", "done"} /\ setup'[t].uuid = None
             \/ setup'[t].pc = "add" /\ setup[t].pc = "queued" /\ setup'[t].uuid = setup[t].uuid
             \/ setup'[t].pc = "added" /\ setup'[t].uuid = NewServer(t)
             \/ setup'[t].pc = "saved" /\ setup[t].pc = "added" /\ setup'[t].uuid = setup[t].uuid
      BY <2>3, SetupMoves DEF SameRow, SetupDone
    <3> QED
      BY <2>0, <3>1, NewIds DEF ServerMade
  <2>4. ASSUME NEW j \in Jobs, Starts(j, t),
               tunnel' = [tunnel EXCEPT ![t].st = "destroying"], setup' = setup
        PROVE  tunnel'[t].uuid = tunnel[t].uuid
    <3>1. tunnel[t] \in [st : Status, net : Subnets, uuid : ServerIds \cup {None}]
      BY <2>4, RowShapes DEF Starts
    <3> QED
      BY <2>4, <3>1 DEF TypeOK
  <2>5. CASE tunnel'[t] = Absent("gone") /\ setup' = setup
    BY <2>0, <2>5 DEF Absent
  <2> QED
    BY <2>0, <2>1, <2>2, <2>3, <2>4, <2>5, TunnelSteps
<1>2. ASSUME NEW p \in Peers
      PROVE  /\ peer'[p].uuid # None => peer'[p].uuid[1] = p
             /\ IF join'[p].pc \in ClientMade THEN join'[p].uuid[1] = p ELSE join'[p].uuid = None
  <2>0. /\ peer[p].uuid # None => peer[p].uuid[1] = p
        /\ IF join[p].pc \in ClientMade THEN join[p].uuid[1] = p ELSE join[p].uuid = None
    BY DEF OwnIds
  <2>1. CASE PeerKept(p)
    BY <2>0, <2>1 DEF PeerKept
  <2>2. ASSUME NEW t \in Tunnels, CreatePeer(p, t)
        PROVE  /\ peer'[p].uuid = None /\ join'[p].uuid = None
               /\ join'[p].pc \notin ClientMade
    <3>1. peer[p].st = "unused" => join[p].pc = "none"
      BY DEF Begun
    <3>2. /\ peer[p].st = "unused"
          /\ peer'[p] = [st |-> "pending", of |-> t, ip |-> None, uuid |-> None]
          /\ join'[p].pc \in {"queued", "lost"} /\ join'[p].uuid = join[p].uuid
      BY <2>2, Creates
    <3>3. join[p].uuid = None
      BY <2>0, <3>1, <3>2 DEF ClientMade
    <3> QED
      BY <3>2, <3>3 DEF ClientMade
  <2>3. CASE JoinStep(p) \/ JoinCrash(p)
    <3>1. /\ \/ peer'[p].uuid \in {None, peer[p].uuid}
             \/ join[p].pc = "added" /\ peer'[p].uuid = join[p].uuid
          /\ \/ join'[p].pc \in {"queued", "done"} /\ join'[p].uuid = None
             \/ join'[p].pc = "keys" /\ join[p].pc = "queued" /\ join'[p].uuid = join[p].uuid
             \/ join'[p].pc = "added" /\ join'[p].uuid = NewClient(p)
             \/ join'[p].pc = "saved" /\ join[p].pc = "added" /\ join'[p].uuid = join[p].uuid
      BY <2>3, JoinMoves DEF NoPeer, JoinDone
    <3> QED
      BY <2>0, <3>1, NewIds DEF ClientMade
  <2>5. CASE peer'[p] = NoPeer("gone") /\ join' = join
    BY <2>0, <2>5 DEF NoPeer
  <2> QED
    BY <2>0, <2>1, <2>2, <2>3, <2>5, PeerSteps
<1>3. ASSUME NEW j \in Jobs, job'[j] # NoJob, job'[j].uuid # None
      PROVE  job'[j].uuid[1] = job'[j].of
  <2>0. job[j] # NoJob /\ job[j].uuid # None => job[j].uuid[1] = job[j].of
    BY DEF OwnIds
  <2>1. ASSUME NEW t \in Tunnels, NEW pc,
               job'[j] = [pc |-> pc, of |-> t, uuid |-> tunnel[t].uuid, net |-> tunnel[t].net]
        PROVE  job'[j].uuid[1] = job'[j].of
    BY <1>3, <2>1 DEF OwnIds
  <2>2. ASSUME NEW p \in Peers, NEW pc,
               job'[j] = [pc |-> pc, of |-> p, uuid |-> peer[p].uuid, net |-> None]
        PROVE  job'[j].uuid[1] = job'[j].of
    BY <1>3, <2>2 DEF OwnIds
  <2>3. ASSUME NEW x \in Tunnels \cup Peers, Deletes(j, x), job'[j] = [job[j] EXCEPT !.pc = "commit"]
        PROVE  job'[j].uuid[1] = job'[j].of
    <3>1. job[j] \in [pc : {"queued", "call", "commit"}, of : Tunnels \cup Peers,
                      uuid : ServerIds \cup ClientIds \cup {None}, net : Subnets \cup {None}]
      BY <2>3, RowShapes DEF Deletes
    <3>2. job'[j].uuid = job[j].uuid /\ job'[j].of = job[j].of
      BY <2>3, <3>1
    <3> QED
      BY <1>3, <2>0, <2>3, <3>2 DEF Deletes
  <2>4. /\ \A t \in Tunnels : DestroyServer(j, t) => Deletes(j, t)
        /\ \A p \in Peers : LeaveClient(j, p) => Deletes(j, p)
    BY DEF DestroyServer, LeaveClient
  <2>5. CASE \E t \in Tunnels : DestroyServer(j, t) /\ job'[j] = [job[j] EXCEPT !.pc = "commit"]
    BY <2>3, <2>4, <2>5
  <2>6. CASE \E p \in Peers : LeaveClient(j, p) /\ job'[j] = [job[j] EXCEPT !.pc = "commit"]
    BY <2>3, <2>4, <2>6
  <2>7. CASE job'[j] = job[j]
    BY <1>3, <2>0, <2>7
  <2> QED
    BY <1>3, <2>1, <2>2, <2>5, <2>6, <2>7, JobSteps
<1> QED
  BY <1>1, <1>2, <1>3 DEF OwnIds

LEMMA BegunInit == Init => Begun
BY DEF Init, Begun, Absent, NoPeer, PeerLive, Status

\* A row once used is never unused, and a message that was done with stays so.
LEMMA BegunStays ==
  ASSUME TypeOK, Begun, [Next]_vars
  PROVE  /\ \A t \in Tunnels : /\ tunnel[t].st # "unused" => tunnel'[t].st # "unused"
                               /\ setup[t].pc = "done" => setup'[t].pc = "done"
         /\ \A p \in Peers : peer[p].st # "unused" => peer'[p].st # "unused"
<1>1. ASSUME NEW t \in Tunnels
      PROVE  /\ tunnel[t].st # "unused" => tunnel'[t].st # "unused"
             /\ setup[t].pc = "done" => setup'[t].pc = "done"
  <2>1. CASE TunnelKept(t)
    BY <2>1 DEF TunnelKept
  <2>2. ASSUME NEW s \in Subnets, CreateTunnel(t, s)
        PROVE  tunnel[t].st = "unused" /\ setup[t].pc = "none"
    <3>1. tunnel[t].st = "unused" => setup[t].pc = "none"
      BY DEF Begun
    <3> QED
      BY <2>2, <3>1, Creates
  <2>3. CASE SetupStep(t) \/ SetupCrash(t)
    <3>1. tunnel'[t].st \in {tunnel[t].st, "provisioning", "active", "error"} /\ setup[t].pc # "done"
      BY <2>3, SetupMoves DEF ServerMade
    <3> QED
      BY <3>1
  <2>4. CASE tunnel' = [tunnel EXCEPT ![t].st = "destroying"] /\ setup' = setup
    <3>1. tunnel'[t] = [tunnel[t] EXCEPT !.st = "destroying"]
      BY <2>4 DEF TypeOK
    <3>2. tunnel[t] \in [st : {tunnel[t].st}, net : {tunnel[t].net}, uuid : {tunnel[t].uuid}]
      BY RowShapes DEF Absent
    <3>3. tunnel'[t].st = "destroying"
      BY <3>1, <3>2
    <3> QED
      BY <2>4, <3>3
  <2>5. CASE tunnel'[t] = Absent("gone") /\ setup' = setup
    BY <2>5 DEF Absent
  <2> QED
    BY <2>1, <2>2, <2>3, <2>4, <2>5, TunnelSteps
<1>2. ASSUME NEW p \in Peers, peer[p].st # "unused"
      PROVE  peer'[p].st # "unused"
  <2>1. CASE PeerKept(p)
    BY <1>2, <2>1 DEF PeerKept
  <2>2. ~(\E t \in Tunnels : CreatePeer(p, t))
    BY <1>2, Creates
  <2>3. CASE JoinStep(p) \/ JoinCrash(p)
    <3>1. peer'[p].st \in {peer[p].st, "provisioning", "active", "gone"}
      BY <2>3, JoinMoves DEF NoPeer
    <3> QED
      BY <1>2, <3>1
  <2>4. CASE peer'[p] = NoPeer("gone")
    BY <2>4 DEF NoPeer
  <2> QED
    BY <2>1, <2>2, <2>3, <2>4, PeerSteps
<1> QED
  BY <1>1, <1>2

LEMMA BegunStep ==
  ASSUME TypeOK, OwnIds, Begun, [Next]_vars
  PROVE  Begun'
<1>1. ASSUME NEW t \in Tunnels
      PROVE  /\ tunnel'[t].st = "unused" <=> setup'[t].pc = "none"
             /\ tunnel'[t].st = "active" => setup'[t].pc = "done"
  <2>0. /\ tunnel[t].st = "unused" <=> setup[t].pc = "none"
        /\ tunnel[t].st = "active" => setup[t].pc = "done"
    BY DEF Begun
  <2>1. CASE TunnelKept(t)
    BY <2>0, <2>1 DEF TunnelKept
  <2>2. CASE \E s \in Subnets : CreateTunnel(t, s)
    <3>1. PICK s \in Subnets : CreateTunnel(t, s)
      BY <2>2
    <3>2. /\ tunnel'[t] = [st |-> "pending", net |-> s, uuid |-> None]
          /\ setup'[t].pc \in {"queued", "lost"}
      BY <3>1, Creates
    <3> QED
      BY <3>2
  <2>3. CASE SetupStep(t) \/ SetupCrash(t)
    <3>1. /\ \/ tunnel'[t].st = "active" /\ setup'[t].pc = "done"
             \/ tunnel'[t].st \in {"provisioning", "error"} /\ setup'[t].pc # "none"
             \/ tunnel'[t].st = tunnel[t].st /\ setup'[t].pc \in {"added", "saved", "done", "queued"}
          /\ setup[t].pc \notin {"none", "done"}
          /\ setup'[t].pc # "none"
          /\ setup'[t].pc # "done" => tunnel'[t].st # "active" \/ setup[t].pc # "queued"
      BY <2>3, SetupMoves DEF SetupDone, ServerMade
    <3>2. setup'[t].pc # "done" /\ tunnel[t].st = "active" => tunnel'[t].st # "active"
      BY <2>0, <3>1
    <3> QED
      BY <2>0, <3>1, <3>2
  <2>4. CASE /\ \E j \in Jobs : Starts(j, t)
             /\ tunnel' = [tunnel EXCEPT ![t].st = "destroying"] /\ setup' = setup
    <3>1. tunnel[t] \in [st : Status, net : Subnets, uuid : ServerIds \cup {None}]
      BY <2>4, RowShapes DEF Starts
    <3>2. tunnel'[t].st = "destroying" /\ tunnel[t].st # "unused"
      BY <2>4, <3>1 DEF TypeOK, Status
    <3> QED
      BY <2>0, <2>4, <3>2
  <2>5. CASE /\ \E j \in Jobs : DestroyCommit(j, t)
             /\ tunnel'[t] = Absent("gone") /\ setup' = setup
    <3>1. tunnel[t].st # "unused"
      BY <2>5 DEF DestroyCommit, Deletes, Begun
    <3> QED
      BY <2>0, <2>5, <3>1 DEF Absent
  <2> QED
    BY <2>1, <2>2, <2>3, <2>4, <2>5, TunnelSteps
<1>2. ASSUME NEW p \in Peers
      PROVE  /\ peer'[p].st = "unused" <=> join'[p].pc = "none"
             /\ PeerLive(p)' => setup'[peer'[p].of].pc = "done"
  <2>0. /\ peer[p].st = "unused" <=> join[p].pc = "none"
        /\ PeerLive(p) => setup[peer[p].of].pc = "done"
    BY DEF Begun
  <2>a. PeerLive(p) => peer[p].of \in Tunnels
    BY RowShapes
  <2>b. \A t \in Tunnels : setup[t].pc = "done" => setup'[t].pc = "done"
    BY BegunStays
  <2>1. CASE PeerKept(p)
    BY <2>0, <2>1, <2>a, <2>b DEF PeerKept, PeerLive
  <2>2. ASSUME NEW t \in Tunnels, CreatePeer(p, t)
        PROVE  /\ peer'[p].st = "pending" /\ join'[p].pc # "none"
               /\ setup'[peer'[p].of].pc = "done"
    <3>1. setup[t].pc = "done"
      BY <2>2, Creates DEF Begun
    <3>2. /\ peer'[p] = [st |-> "pending", of |-> t, ip |-> None, uuid |-> None]
          /\ join'[p].pc \in {"queued", "lost"}
      BY <2>2, Creates
    <3> QED
      BY <2>b, <3>1, <3>2
  <2>3. CASE JoinStep(p) \/ JoinCrash(p)
    <3>1. /\ \/ PeerLive(p) /\ peer'[p].of = peer[p].of /\ peer'[p].st # "unused"
             \/ peer'[p] = peer[p]
             \/ peer'[p] = NoPeer("gone")
          /\ join'[p].pc # "none" /\ join[p].pc # "none"
      BY <2>3, JoinMoves DEF JoinDone, JoinDues, ClientMade, PeerLive, Status
    <3>2. CASE peer'[p] = NoPeer("gone")
      BY <3>1, <3>2 DEF NoPeer, PeerLive, Status
    <3>3. CASE peer'[p] # NoPeer("gone")
      BY <2>0, <2>a, <2>b, <3>1, <3>3 DEF PeerLive
    <3> QED
      BY <3>2, <3>3
  <2>4. CASE /\ peer'[p] = NoPeer("gone") /\ join' = join
             /\ PeerLive(p) \/ \E j \in Jobs : Deletes(j, p)
    <3>1. peer[p].st # "unused"
      <4>1. p \notin Tunnels
        BY WireGuardAssumption
      <4>2. \A j \in Jobs : Deletes(j, p) => peer[p].st # "unused"
        BY <4>1 DEF Begun, Deletes
      <4> QED
        BY <2>4, <4>2 DEF PeerLive, Status
    <3> QED
      BY <2>0, <2>4, <3>1 DEF NoPeer, PeerLive, Status
  <2> QED
    BY <2>1, <2>2, <2>3, <2>4, PeerSteps DEF PeerLive
<1>3. ASSUME NEW c \in clients'
      PROVE  setup'[c.on[1]].pc = "done"
  <2>0. c \in [id : ClientIds, on : ServerIds] /\ c.on[1] \in Tunnels
    BY <1>3, TypeStep DEF TypeOK, ServerIds
  <2>1. CASE c \in clients
    BY <2>0, <2>1, BegunStays DEF Begun
  <2>2. CASE c \notin clients
    <3>1. PICK p \in Peers : JoinAddClient(p)
      BY <1>3, <2>2, ClientSteps
    <3>2. PeerLive(p) /\ c.on = tunnel[peer[p].of].uuid /\ tunnel[peer[p].of].uuid \in servers
      BY <1>3, <2>2, <3>1 DEF JoinAddClient, AddClient
    <3>3. peer[p].of \in Tunnels /\ setup[peer[p].of].pc = "done"
      BY <3>2, RowShapes DEF Begun
    <3>4. c.on[1] = peer[p].of
      <4>1. tunnel[peer[p].of].uuid # None
        BY <3>2, NoneApart DEF TypeOK
      <4> QED
        BY <3>2, <3>3, <4>1 DEF OwnIds
    <3> QED
      BY <3>3, <3>4, BegunStays
  <2> QED
    BY <2>1, <2>2
<1>4. ASSUME NEW j \in Jobs, job'[j] # NoJob
      PROVE  IF job'[j].of \in Tunnels THEN tunnel'[job'[j].of].st # "unused"
                                       ELSE peer'[job'[j].of].st # "unused"
  <2>0. /\ \A t \in Tunnels : tunnel[t].st # "unused" => tunnel'[t].st # "unused"
        /\ \A p \in Peers : peer[p].st # "unused" => peer'[p].st # "unused"
    BY BegunStays
  <2>1. ASSUME job[j] # NoJob, job'[j].of = job[j].of
        PROVE  IF job'[j].of \in Tunnels THEN tunnel'[job'[j].of].st # "unused"
                                         ELSE peer'[job'[j].of].st # "unused"
    <3>1. job[j].of \in Tunnels \cup Peers
      BY <2>1, RowShapes
    <3> QED
      BY <2>0, <2>1, <3>1 DEF Begun
  <2>2. ASSUME NEW t \in Tunnels, Starts(j, t), job'[j].of = t
        PROVE  tunnel'[t].st # "unused"
    BY <2>0, <2>2 DEF Starts, Live, Status
  <2>3. ASSUME NEW p \in Peers, PeerStarts(j, p), job'[j].of = p
        PROVE  peer'[p].st # "unused" /\ p \notin Tunnels
    BY <2>0, <2>3, WireGuardAssumption DEF PeerStarts, PeerLive, Status
  <2>4. \/ job[j] # NoJob /\ job'[j].of = job[j].of
        \/ \E t \in Tunnels : Starts(j, t) /\ job'[j].of = t
        \/ \E p \in Peers : PeerStarts(j, p) /\ job'[j].of = p
    <3>1. ASSUME NEW x \in Tunnels \cup Peers, Deletes(j, x), job'[j] = [job[j] EXCEPT !.pc = "commit"]
          PROVE  job[j] # NoJob /\ job'[j].of = job[j].of
      BY <3>1, RowShapes DEF Deletes
    <3>2. /\ \A t \in Tunnels : DestroyServer(j, t) => Deletes(j, t)
          /\ \A p \in Peers : LeaveClient(j, p) => Deletes(j, p)
      BY DEF DestroyServer, LeaveClient
    <3>3. CASE \E t \in Tunnels : DestroyServer(j, t) /\ job'[j] = [job[j] EXCEPT !.pc = "commit"]
      BY <3>1, <3>2, <3>3
    <3>4. CASE \E p \in Peers : LeaveClient(j, p) /\ job'[j] = [job[j] EXCEPT !.pc = "commit"]
      BY <3>1, <3>2, <3>4
    <3>5. CASE job'[j] = job[j]
      BY <1>4, <3>5
    <3>6. ASSUME NEW x, NEW pc, NEW uuid, NEW net,
                 job'[j] = [pc |-> pc, of |-> x, uuid |-> uuid, net |-> net]
          PROVE  job'[j].of = x
      BY <3>6
    <3>7. ASSUME NEW t \in Tunnels, Starts(j, t),
                 job'[j] = [pc |-> IF tunnel[t].uuid # None THEN "call" ELSE "commit",
                            of |-> t, uuid |-> tunnel[t].uuid, net |-> tunnel[t].net]
          PROVE  Starts(j, t) /\ job'[j].of = t
      BY <3>6, <3>7
    <3>8. ASSUME NEW p \in Peers, PeerStarts(j, p),
                 job'[j] = [pc |-> IF peer[p].uuid # None THEN "call" ELSE "commit",
                            of |-> p, uuid |-> peer[p].uuid, net |-> None]
          PROVE  PeerStarts(j, p) /\ job'[j].of = p
      BY <3>6, <3>8
    <3> QED
      BY <1>4, <3>3, <3>4, <3>5, <3>7, <3>8, JobSteps
  <2> QED
    BY <2>1, <2>2, <2>3, <2>4
<1> QED
  BY <1>1, <1>2, <1>3, <1>4 DEF Begun

-----------------------------------------------------------------------------
(* The pool, step by step.                                                 *)

LEMMA PoolInit == Init => PoolInv
<1> SUFFICES ASSUME Init PROVE PoolInv
  OBVIOUS
<1>1. \A t \in Tunnels : ~Live(t)
  BY DEF Init, Live, Absent, Status
<1>2. \A j \in Jobs, t \in Tunnels : ~Returning(j, t)
  BY DEF Init, Returning, Deletes
<1>3. \A s \in Subnets : pool[s] = "free" /\ Holders(s) = {}
  BY <1>1 DEF Init, Holders
<1> QED
  BY <1>2, <1>3 DEF PoolInv

LEMMA HoldersKept ==
  ASSUME NetsKept, NEW s \in Subnets
  PROVE  Holders(s)' = Holders(s)
<1>1. Holders(s)' = {t \in Tunnels : Live(t)' /\ tunnel'[t].net = s}
  BY DEF Holders
<1> QED
  BY <1>1 DEF NetsKept, Holders

\* Deleting or crashing elsewhere leaves the pool as it is.
LEMMA PoolQuiet ==
  ASSUME TypeOK, PoolInv, [Next]_vars, pool' = pool, NetsKept, FewerReturning
  PROVE  PoolInv'
<1>1. \A s \in Subnets : Holders(s)' = Holders(s)
  BY HoldersKept
<1>2. \A s \in Subnets : Spoilt(s) => Spoilt(s)'
  BY MarksStay DEF Spoilt
<1>3. ASSUME NEW s \in Subnets
      PROVE  /\ pool'[s] = "allocated" => Holders(s)' # {}
             /\ ~Spoilt(s)' => /\ pool'[s] = "free" => Holders(s)' = {}
                               /\ \A t, u \in Holders(s)' : t = u
  BY <1>1, <1>2 DEF PoolInv
<1>4. ASSUME NEW j \in Jobs, NEW t \in Tunnels, Returning(j, t)'
      PROVE  /\ job'[j].net \in Subnets
             /\ Live(t)' => tunnel'[t].net = job'[j].net
             /\ "again" \notin marks'[job'[j].net] => Live(t)' /\ \A k \in Jobs : Returning(k, t)' => k = j
  <2>1. Returning(j, t) /\ job'[j].net = job[j].net
    BY <1>4 DEF FewerReturning
  <2>2. /\ job[j].net \in Subnets
        /\ Live(t) => tunnel[t].net = job[j].net
        /\ ~Spoilt(job[j].net) => Live(t) /\ \A k \in Jobs : Returning(k, t) => k = j
    BY <2>1 DEF PoolInv
  <2>3. (Live(t)' <=> Live(t)) /\ (Live(t) => tunnel'[t].net = tunnel[t].net)
    BY DEF NetsKept
  <2>4. \A k \in Jobs : Returning(k, t)' => Returning(k, t)
    BY DEF FewerReturning
  <2>5. PICK n \in Subnets : n = job[j].net
    BY <2>2
  <2>6. Spoilt(n) => Spoilt(n)'
    BY <1>2
  <2>7. Spoilt(n)' <=> "again" \in marks'[job'[j].net]
    BY <2>1, <2>5 DEF Spoilt
  <2> QED
    BY <2>1, <2>2, <2>3, <2>4, <2>5, <2>6, <2>7
<1> QED
  BY <1>3, <1>4 DEF PoolInv, Spoilt

LEMMA CreateFacts ==
  ASSUME TypeOK, NEW t \in Tunnels, NEW s \in Subnets, CreateTunnel(t, s)
  PROVE  /\ pool[s] = "free" /\ pool' = [pool EXCEPT ![s] = "allocated"]
         /\ Live(t)' /\ tunnel'[t].net = s /\ tunnel[t].st = "unused"
         /\ \A u \in Tunnels : u # t => tunnel'[u] = tunnel[u]
         /\ job' = job /\ marks' = marks
<1>1. pool[s] = "free" /\ pool' = [pool EXCEPT ![s] = "allocated"] /\ job' = job /\ marks' = marks
  BY DEF CreateTunnel, FreeSubnets
<1>2. tunnel' = [tunnel EXCEPT ![t] = [st |-> "pending", net |-> s, uuid |-> None]]
  BY DEF CreateTunnel
<1> QED
  BY <1>1, <1>2 DEF CreateTunnel, Live, Status, TypeOK

LEMMA PoolCreate ==
  ASSUME TypeOK, Begun, PoolInv, NEW t \in Tunnels, NEW s \in Subnets, CreateTunnel(t, s)
  PROVE  PoolInv' /\ Holders(s)' = Holders(s) \cup {t}
         /\ \A x \in Subnets : x # s => Holders(x)' = Holders(x)
<1>0. /\ pool[s] = "free" /\ pool' = [pool EXCEPT ![s] = "allocated"]
      /\ Live(t)' /\ tunnel'[t].net = s /\ tunnel[t].st = "unused"
      /\ \A u \in Tunnels : u # t => tunnel'[u] = tunnel[u]
      /\ job' = job /\ marks' = marks
  BY CreateFacts
<1>1. ~Live(t) /\ \A j \in Jobs : ~Deletes(j, t)
  BY <1>0 DEF Live, Status, Begun, Deletes
<1>2. \A u \in Tunnels : u # t => (Live(u)' <=> Live(u))
  BY <1>0 DEF Live
<1>3. ASSUME NEW x \in Subnets
      PROVE  Holders(x)' = IF x = s THEN Holders(x) \cup {t} ELSE Holders(x)
  <2>1. Holders(x)' = {u \in Tunnels : Live(u)' /\ tunnel'[u].net = x}
    BY DEF Holders
  <2> QED
    BY <1>0, <1>1, <1>2, <2>1 DEF Holders
<1>4. \A x \in Subnets : Spoilt(x)' <=> Spoilt(x)
  BY <1>0 DEF Spoilt
<1>5. ASSUME NEW x \in Subnets
      PROVE  /\ pool'[x] = "allocated" => Holders(x)' # {}
             /\ ~Spoilt(x)' => /\ pool'[x] = "free" => Holders(x)' = {}
                               /\ \A a, b \in Holders(x)' : a = b
  <2>1. pool'[x] = IF x = s THEN "allocated" ELSE pool[x]
    BY <1>0 DEF TypeOK
  <2>2. /\ pool[x] = "allocated" => Holders(x) # {}
        /\ ~Spoilt(x) => /\ pool[x] = "free" => Holders(x) = {}
                         /\ \A a, b \in Holders(x) : a = b
    BY DEF PoolInv
  <2> QED
    BY <1>0, <1>3, <1>4, <2>1, <2>2
<1>6. ASSUME NEW j \in Jobs, NEW u \in Tunnels, Returning(j, u)'
      PROVE  /\ job'[j].net \in Subnets
             /\ Live(u)' => tunnel'[u].net = job'[j].net
             /\ "again" \notin marks'[job'[j].net] => Live(u)' /\ \A k \in Jobs : Returning(k, u)' => k = j
  <2>1. Returning(j, u) /\ u # t
    BY <1>0, <1>1, <1>6 DEF Returning, Deletes
  <2>2. /\ job[j].net \in Subnets
        /\ Live(u) => tunnel[u].net = job[j].net
        /\ ~Spoilt(job[j].net) => Live(u) /\ \A k \in Jobs : Returning(k, u) => k = j
    BY <2>1 DEF PoolInv
  <2>3. \A k \in Jobs : Returning(k, u)' => Returning(k, u)
    BY <1>0 DEF Returning, Deletes
  <2>4. Spoilt(job[j].net) <=> "again" \in marks'[job'[j].net]
    BY <1>0 DEF Spoilt
  <2> QED
    BY <1>0, <1>2, <2>1, <2>2, <2>3, <2>4
<1>7. PoolInv'
  BY <1>5, <1>6 DEF PoolInv, Spoilt
<1> QED
  BY <1>3, <1>7

LEMMA StartFacts ==
  ASSUME TypeOK, NEW j \in Jobs, NEW t \in Tunnels, Starts(j, t)
  PROVE  /\ pool' = pool /\ servers' = servers /\ setup' = setup /\ UNCHANGED peerVars
         /\ Live(t) /\ Live(t)' /\ tunnel'[t].st = "destroying"
         /\ tunnel'[t].net = tunnel[t].net /\ tunnel'[t].uuid = tunnel[t].uuid
         /\ tunnel[t].net \in Subnets /\ tunnel[t].uuid \in ServerIds \cup {None}
         /\ \A u \in Tunnels : u # t => tunnel'[u] = tunnel[u]
         /\ job'[j] # NoJob /\ job'[j].of = t
         /\ job'[j].pc = (IF tunnel[t].uuid # None THEN "call" ELSE "commit")
         /\ job'[j].uuid = tunnel[t].uuid /\ job'[j].net = tunnel[t].net
         /\ \A k \in Jobs : k # j => job'[k] = job[k]
         /\ Raced(t) \subseteq marks'[t] /\ Twice(j, t) \subseteq marks'[tunnel[t].net]
<1>1. /\ DestroyStart(j, t) /\ Live(t)
      /\ pool' = pool /\ servers' = servers /\ setup' = setup /\ UNCHANGED peerVars
  BY DEF Starts, DeleteTunnel, DestroyAgain
<1>2. tunnel[t] \in [st : Status, net : Subnets, uuid : ServerIds \cup {None}]
  BY <1>1, RowShapes
<1>3. tunnel' = [tunnel EXCEPT ![t].st = "destroying"]
  BY <1>1, DestroyStarts
<1>4. /\ tunnel'[t].st = "destroying" /\ tunnel'[t].net = tunnel[t].net
      /\ tunnel'[t].uuid = tunnel[t].uuid
      /\ \A u \in Tunnels : u # t => tunnel'[u] = tunnel[u]
  BY <1>2, <1>3 DEF TypeOK
<1>5. tunnel[t].net \in Subnets /\ tunnel[t].uuid \in ServerIds \cup {None}
  BY <1>2
<1>6. Live(t)'
  BY <1>4 DEF Live, Status
<1>7. job' = [job EXCEPT ![j] =
                 [pc |-> IF tunnel[t].uuid # None THEN "call" ELSE "commit", of |-> t,
                  uuid |-> tunnel[t].uuid, net |-> tunnel[t].net]]
  BY <1>1, DestroyStarts
<1>8. /\ job'[j] # NoJob /\ job'[j].of = t
      /\ job'[j].pc = (IF tunnel[t].uuid # None THEN "call" ELSE "commit")
      /\ job'[j].uuid = tunnel[t].uuid /\ job'[j].net = tunnel[t].net
      /\ \A k \in Jobs : k # j => job'[k] = job[k]
  <2>1. PICK pc \in {"call", "commit"} : pc = IF tunnel[t].uuid # None THEN "call" ELSE "commit"
    OBVIOUS
  <2>2. job' = [job EXCEPT ![j] = [pc |-> pc, of |-> t, uuid |-> tunnel[t].uuid,
                                   net |-> tunnel[t].net]]
    BY <1>7, <2>1
  <2>3. /\ job'[j] = [pc |-> pc, of |-> t, uuid |-> tunnel[t].uuid, net |-> tunnel[t].net]
        /\ \A k \in Jobs : k # j => job'[k] = job[k]
    BY <2>2 DEF TypeOK
  <2> QED
    BY <2>1, <2>3 DEF NoJob
<1>9. \A x \in Tunnels \cup Peers \cup Subnets :
         marks'[x] = marks[x] \cup (IF x = t THEN Raced(t) ELSE {})
                              \cup (IF x = tunnel[t].net THEN Twice(j, t) ELSE {})
  BY <1>1, DestroyStarts
<1>10. Raced(t) \subseteq marks'[t] /\ Twice(j, t) \subseteq marks'[tunnel[t].net]
  BY <1>5, <1>9
<1> QED
  BY <1>1, <1>4, <1>5, <1>6, <1>8, <1>10

\* A deletion begins: if another one of the tunnel is under way, the /24 is
\* spoilt.
LEMMA PoolStart ==
  ASSUME TypeOK, PoolInv, [Next]_vars, NEW j \in Jobs, NEW t \in Tunnels, Starts(j, t)
  PROVE  PoolInv' /\ pool' = pool /\ NetsKept
<1>0. /\ pool' = pool /\ Live(t) /\ Live(t)'
      /\ tunnel'[t].net = tunnel[t].net /\ tunnel[t].net \in Subnets
      /\ \A u \in Tunnels : u # t => tunnel'[u] = tunnel[u]
      /\ \A k \in Jobs : k # j => job'[k] = job[k]
  BY StartFacts
<1>1. job'[j].of = t /\ job'[j].net = tunnel[t].net
  BY StartFacts
<1>2. NetsKept
  <2>1. \A u \in Tunnels : u # t => (Live(u)' <=> Live(u))
    BY <1>0 DEF Live
  <2> QED
    BY <1>0, <2>1 DEF NetsKept
<1>3. \A s \in Subnets : Spoilt(s) => Spoilt(s)'
  BY MarksStay DEF Spoilt
<1>4. ASSUME NEW s \in Subnets
      PROVE  /\ pool'[s] = "allocated" => Holders(s)' # {}
             /\ ~Spoilt(s)' => /\ pool'[s] = "free" => Holders(s)' = {}
                               /\ \A a, b \in Holders(s)' : a = b
  BY <1>0, <1>2, <1>3, HoldersKept DEF PoolInv
<1>5. \A k \in Jobs, u \in Tunnels : k # j => (Returning(k, u)' <=> Returning(k, u))
  BY <1>0 DEF Returning, Deletes
<1>6. \A u \in Tunnels : Returning(j, u)' => u = t
  BY <1>1 DEF Returning, Deletes
<1>7. ASSUME "again" \notin marks'[tunnel[t].net]
      PROVE  \A k \in Jobs : k # j => ~Returning(k, t)
  <2>1. Twice(j, t) \subseteq marks'[tunnel[t].net]
    BY <1>0, StartFacts
  <2> QED
    BY <1>7, <2>1 DEF Twice
<1>8. ASSUME NEW k \in Jobs, NEW u \in Tunnels, Returning(k, u)'
      PROVE  /\ job'[k].net \in Subnets
             /\ Live(u)' => tunnel'[u].net = job'[k].net
             /\ "again" \notin marks'[job'[k].net] =>
                   Live(u)' /\ \A i \in Jobs : Returning(i, u)' => i = k
  <2>1. CASE k = j
    BY <1>0, <1>1, <1>5, <1>6, <1>7, <1>8, <2>1
  <2>2. CASE k # j
    <3>1. /\ Returning(k, u) /\ job'[k] = job[k]
          /\ job[k].net \in Subnets
          /\ Live(u) => tunnel[u].net = job[k].net
          /\ ~Spoilt(job[k].net) => Live(u) /\ \A i \in Jobs : Returning(i, u) => i = k
      BY <1>0, <1>5, <1>8, <2>2 DEF PoolInv
    <3>2. (Live(u)' <=> Live(u)) /\ (Live(u) => tunnel'[u].net = tunnel[u].net)
      BY <1>2 DEF NetsKept
    <3>3. PICK n \in Subnets : n = job[k].net
      BY <3>1
    <3>4. Spoilt(n) => "again" \in marks'[n]
      BY <1>3 DEF Spoilt
    <3>5. ASSUME "again" \notin marks'[job'[k].net]
          PROVE  Live(u)' /\ \A i \in Jobs : Returning(i, u)' => i = k
      <4>1. Live(u) /\ \A i \in Jobs : Returning(i, u) => i = k
        BY <3>1, <3>3, <3>4, <3>5
      <4>2. u # t
        BY <1>7, <2>2, <3>1, <3>5, <4>1
      <4> QED
        BY <1>5, <1>6, <3>2, <4>1, <4>2
    <3> QED
      BY <3>1, <3>2, <3>5
  <2> QED
    BY <2>1, <2>2
<1>9. PoolInv'
  BY <1>4, <1>8 DEF PoolInv, Spoilt
<1> QED
  BY <1>0, <1>2, <1>9

\* A deletion returns the /24.
LEMMA PoolReturn ==
  ASSUME TypeOK, PoolInv, NEW j \in Jobs, NEW t \in Tunnels, DestroyCommit(j, t)
  PROVE  PoolInv' /\ Returning(j, t) /\ job[j].net \in Subnets
         /\ pool' = [pool EXCEPT ![job[j].net] = "free"] /\ marks' = marks
         /\ \A s \in Subnets : Holders(s)' = Holders(s) \ {t}
<1>1. /\ Returning(j, t) /\ job' = [job EXCEPT ![j] = NoJob]
      /\ pool' = [pool EXCEPT ![job[j].net] = "free"]
      /\ tunnel' = [tunnel EXCEPT ![t] = Absent("gone")] /\ marks' = marks
  BY DEF DestroyCommit, Returning
<1>2. PICK n \in Subnets : n = job[j].net
  BY <1>1 DEF PoolInv
<1>3. /\ Live(t) => tunnel[t].net = n
      /\ ~Spoilt(n) => Live(t) /\ \A k \in Jobs : Returning(k, t) => k = j
  BY <1>1, <1>2 DEF PoolInv
<1>4. ~Live(t)' /\ \A u \in Tunnels : u # t => tunnel'[u] = tunnel[u] /\ (Live(u)' <=> Live(u))
  <2>1. tunnel'[t] = Absent("gone") /\ \A u \in Tunnels : u # t => tunnel'[u] = tunnel[u]
    BY <1>1 DEF TypeOK
  <2> QED
    BY <2>1 DEF Live, Absent, Status
<1>5. ASSUME NEW s \in Subnets
      PROVE  Holders(s)' = Holders(s) \ {t}
  <2>1. Holders(s)' = {u \in Tunnels : Live(u)' /\ tunnel'[u].net = s}
    BY DEF Holders
  <2> QED
    BY <1>4, <2>1 DEF Holders
<1>6. \A s \in Subnets : Spoilt(s)' <=> Spoilt(s)
  BY <1>1 DEF Spoilt
<1>7. ASSUME NEW s \in Subnets
      PROVE  /\ pool'[s] = "allocated" => Holders(s)' # {}
             /\ ~Spoilt(s)' => /\ pool'[s] = "free" => Holders(s)' = {}
                               /\ \A a, b \in Holders(s)' : a = b
  <2>1. pool'[s] = IF s = n THEN "free" ELSE pool[s]
    BY <1>1, <1>2 DEF TypeOK
  <2>2. /\ pool[s] = "allocated" => Holders(s) # {}
        /\ ~Spoilt(s) => /\ pool[s] = "free" => Holders(s) = {}
                         /\ \A a, b \in Holders(s) : a = b
    BY DEF PoolInv
  <2>3. t \in Holders(s) <=> Live(t) /\ tunnel[t].net = s
    BY DEF Holders
  <2> QED
    BY <1>3, <1>5, <1>6, <2>1, <2>2, <2>3
<1>8. /\ \A k \in Jobs, u \in Tunnels : k # j => (Returning(k, u)' <=> Returning(k, u))
      /\ \A u \in Tunnels : ~Returning(j, u)'
      /\ \A k \in Jobs : k # j => job'[k] = job[k]
  <2>1. job'[j] = NoJob /\ \A k \in Jobs : k # j => job'[k] = job[k]
    BY <1>1 DEF TypeOK
  <2> QED
    BY <2>1 DEF Returning, Deletes
<1>9. ASSUME NEW k \in Jobs, NEW u \in Tunnels, Returning(k, u)'
      PROVE  /\ job'[k].net \in Subnets
             /\ Live(u)' => tunnel'[u].net = job'[k].net
             /\ "again" \notin marks'[job'[k].net] =>
                   Live(u)' /\ \A i \in Jobs : Returning(i, u)' => i = k
  <2>1. k # j /\ Returning(k, u) /\ job'[k] = job[k]
    BY <1>8, <1>9
  <2>2. /\ job[k].net \in Subnets
        /\ Live(u) => tunnel[u].net = job[k].net
        /\ ~Spoilt(job[k].net) => Live(u) /\ \A i \in Jobs : Returning(i, u) => i = k
    BY <2>1 DEF PoolInv
  <2>3. Spoilt(job[k].net) <=> "again" \in marks'[job'[k].net]
    BY <1>1, <2>1 DEF Spoilt
  <2>4. ~Spoilt(job[k].net) => u # t
    BY <1>1, <2>1, <2>2
  <2> QED
    BY <1>4, <1>8, <2>1, <2>2, <2>3, <2>4
<1>10. PoolInv'
  BY <1>7, <1>9 DEF PoolInv, Spoilt
<1> QED
  BY <1>1, <1>2, <1>5, <1>10

LEMMA PoolStep ==
  ASSUME TypeOK, Begun, PoolInv, [Next]_vars
  PROVE  PoolInv'
BY PoolSteps, PoolCreate, PoolStart, PoolReturn, PoolQuiet

-----------------------------------------------------------------------------
(* The pool implements Leases.                                             *)

FreeOnes == {s \in Subnets : pool[s] = "free"}
HoldersOf == [s \in Subnets |-> {t \in Tunnels : Live(t) /\ tunnel[t].net = s}]
SpoiltOnes == {s \in Subnets : "again" \in marks[s]}

\* The next-state relation of Leases, as a relation between values: F, H and S
\* are what the step makes of f, h and s.
LeaseStep(f, F, h, H, s, S) ==
    \/ \E x \in Subnets \ s :
          \/ x \notin f /\ F = f \cup {x} /\ H = [h EXCEPT ![x] = {}] /\ S = s
          \/ \E u \in Tunnels : x \in f /\ F = f \ {x} /\ H = [h EXCEPT ![x] = {u}] /\ S = s
    \/ /\ s \subseteq S /\ S \subseteq Subnets
       /\ F \subseteq Subnets /\ H \in [Subnets -> SUBSET Tunnels]
       /\ \A x \in Subnets \ S : (x \in F <=> x \in f) /\ H[x] = h[x]
       /\ \A x \in Subnets \ F : H[x] # {}

PoolMoves == LeaseStep(FreeOnes, FreeOnes', HoldersOf, HoldersOf', SpoiltOnes, SpoiltOnes')

LEMMA PoolValues ==
  /\ FreeOnes' = {s \in Subnets : pool'[s] = "free"}
  /\ HoldersOf' = [s \in Subnets |-> Holders(s)'] /\ HoldersOf = [s \in Subnets |-> Holders(s)]
  /\ SpoiltOnes' = {s \in Subnets : Spoilt(s)'}
BY DEF FreeOnes, HoldersOf, SpoiltOnes, Holders, Spoilt

\* A step that changes nothing about the /24s that are not spoilt after it: the
\* others are not lost, by PoolInv after the step.
LEMMA SpoilMoves ==
  ASSUME TypeOK, TypeOK', PoolInv', [Next]_vars,
         \A s \in Subnets : ~Spoilt(s)' => pool'[s] = pool[s] /\ Holders(s)' = Holders(s)
  PROVE  PoolMoves
<1>1. SpoiltOnes \subseteq SpoiltOnes' /\ SpoiltOnes' \subseteq Subnets
  BY PoolValues, MarksStay DEF SpoiltOnes, Spoilt
<1>2. \A s \in Subnets : Holders(s)' \subseteq Tunnels
  BY DEF Holders
<1>3. FreeOnes' \subseteq Subnets /\ HoldersOf' \in [Subnets -> SUBSET Tunnels]
  BY <1>2, PoolValues
<1>4. \A x \in Subnets \ SpoiltOnes' : (x \in FreeOnes' <=> x \in FreeOnes) /\ HoldersOf'[x] = HoldersOf[x]
  BY PoolValues DEF FreeOnes
<1>5. \A x \in Subnets \ FreeOnes' : HoldersOf'[x] # {}
  <2>1. \A x \in Subnets : pool'[x] # "free" => pool'[x] = "allocated"
    BY DEF TypeOK
  <2>2. \A x \in Subnets : pool'[x] = "allocated" => Holders(x)' # {}
    BY DEF PoolInv
  <2> QED
    BY <2>1, <2>2, PoolValues
<1> QED
  BY <1>1, <1>3, <1>4, <1>5 DEF PoolMoves, LeaseStep

LEMMA LeaseMoves ==
  ASSUME TypeOK, TypeOK', Begun, PoolInv, [Next]_vars
  PROVE  PoolMoves
<1>0. PoolInv'
  BY PoolStep
<1>1. ASSUME NEW t \in Tunnels, NEW s \in Subnets, CreateTunnel(t, s)
      PROVE  PoolMoves
  <2>1. /\ pool[s] = "free" /\ pool' = [pool EXCEPT ![s] = "allocated"]
        /\ marks' = marks
    BY <1>1, CreateFacts
  <2>2. /\ Holders(s)' = Holders(s) \cup {t}
        /\ \A x \in Subnets : x # s => Holders(x)' = Holders(x)
    BY <1>1, PoolCreate
  <2>3. \A x \in Subnets : pool'[x] = IF x = s THEN "allocated" ELSE pool[x]
    BY <2>1 DEF TypeOK
  <2>4. CASE Spoilt(s)
    <3>1. Spoilt(s)'
      BY <2>1, <2>4 DEF Spoilt
    <3> QED
      BY <1>0, <2>2, <2>3, <3>1, SpoilMoves
  <2>5. CASE ~Spoilt(s)
    <3>1. Holders(s) = {}
      BY <2>1, <2>5 DEF PoolInv
    <3>2. FreeOnes' = FreeOnes \ {s}
      BY <2>3, PoolValues DEF FreeOnes
    <3>3. HoldersOf' = [HoldersOf EXCEPT ![s] = {t}]
      BY <2>2, <3>1, PoolValues
    <3>4. SpoiltOnes' = SpoiltOnes /\ s \in FreeOnes /\ s \in Subnets \ SpoiltOnes
      BY <2>1, <2>5 DEF SpoiltOnes, FreeOnes, Spoilt
    <3> QED
      BY <3>2, <3>3, <3>4 DEF PoolMoves, LeaseStep
  <2> QED
    BY <2>4, <2>5
<1>2. ASSUME NEW j \in Jobs, NEW t \in Tunnels, DestroyCommit(j, t)
      PROVE  PoolMoves
  <2>1. /\ Returning(j, t) /\ pool' = [pool EXCEPT ![job[j].net] = "free"] /\ marks' = marks
        /\ \A s \in Subnets : Holders(s)' = Holders(s) \ {t}
    BY <1>2, PoolReturn
  <2>2. PICK n \in Subnets : n = job[j].net
    BY <1>2, PoolReturn
  <2>3. \A x \in Subnets : pool'[x] = IF x = n THEN "free" ELSE pool[x]
    BY <2>1, <2>2 DEF TypeOK
  <2>4. Live(t) => tunnel[t].net = n
    BY <2>1, <2>2 DEF PoolInv
  <2>5. \A x \in Subnets : x # n => Holders(x)' = Holders(x)
    <3>1. \A x \in Subnets : x # n => t \notin Holders(x)
      BY <2>4 DEF Holders
    <3> QED
      BY <2>1, <3>1
  <2>6. CASE Spoilt(n)
    <3>1. Spoilt(n)'
      BY <2>1, <2>6 DEF Spoilt
    <3> QED
      BY <1>0, <2>3, <2>5, <3>1, SpoilMoves
  <2>7. CASE ~Spoilt(n)
    <3>1. Live(t)
      BY <2>1, <2>2, <2>7 DEF PoolInv
    <3>2. t \in Holders(n)
      BY <2>4, <3>1 DEF Holders
    <3>3. \A u \in Holders(n) : u = t
      BY <2>7, <3>2 DEF PoolInv
    <3>4. pool[n] # "free" /\ Holders(n)' = {}
      BY <2>1, <2>7, <3>2, <3>3 DEF PoolInv
    <3>5. FreeOnes' = FreeOnes \cup {n}
      BY <2>3, PoolValues DEF FreeOnes
    <3>6. HoldersOf' = [HoldersOf EXCEPT ![n] = {}]
      BY <2>5, <3>4, PoolValues
    <3>7. SpoiltOnes' = SpoiltOnes /\ n \notin FreeOnes /\ n \in Subnets \ SpoiltOnes
      BY <2>1, <2>7, <3>4 DEF SpoiltOnes, FreeOnes, Spoilt
    <3> QED
      BY <3>5, <3>6, <3>7 DEF PoolMoves, LeaseStep
  <2> QED
    BY <2>6, <2>7
<1>3. ASSUME pool' = pool, NetsKept
      PROVE  PoolMoves
  BY <1>0, <1>3, HoldersKept, SpoilMoves
<1>4. ASSUME NEW j \in Jobs, NEW t \in Tunnels, Starts(j, t)
      PROVE  PoolMoves
  BY <1>3, <1>4, PoolStart
<1> QED
  BY <1>1, <1>2, <1>3, <1>4, PoolSteps

-----------------------------------------------------------------------------
(* The servers inside OPNsense.                                            *)

\* A deletion under way is new, goes on, or waits to be delivered again.
LEMMA DeletesMoves ==
  ASSUME TypeOK, [Next]_vars, NEW j \in Jobs, NEW x \in Tunnels \cup Peers, Deletes(j, x)'
  PROVE  \/ job'[j] = job[j] /\ Deletes(j, x)
         \/ job'[j].pc = "queued" /\ Deletes(j, x)
         \/ x \in Tunnels /\ Starts(j, x)
         \/ x \in Peers /\ PeerStarts(j, x)
         \/ x \in Tunnels /\ DestroyServer(j, x)
         \/ x \in Peers /\ LeaveClient(j, x)
<1>1. job'[j] # NoJob /\ job'[j].of = x
  BY DEF Deletes
<1>2. CASE job'[j] = job[j]
  BY <1>1, <1>2 DEF Deletes
<1>3. CASE JobCrash(j) /\ job[j] # NoJob /\ job'[j].pc = "queued" /\ job'[j].of = job[j].of
  BY <1>1, <1>3 DEF Deletes
<1>4. ASSUME NEW y, NEW pc, NEW uuid, NEW net,
             job'[j] = [pc |-> pc, of |-> y, uuid |-> uuid, net |-> net]
      PROVE  y = x
  BY <1>1, <1>4
<1>5. ASSUME NEW t \in Tunnels, Starts(j, t),
             job'[j] = [pc |-> IF tunnel[t].uuid # None THEN "call" ELSE "commit",
                        of |-> t, uuid |-> tunnel[t].uuid, net |-> tunnel[t].net]
      PROVE  x \in Tunnels /\ Starts(j, x)
  BY <1>4, <1>5
<1>6. ASSUME NEW p \in Peers, PeerStarts(j, p),
             job'[j] = [pc |-> IF peer[p].uuid # None THEN "call" ELSE "commit",
                        of |-> p, uuid |-> peer[p].uuid, net |-> None]
      PROVE  x \in Peers /\ PeerStarts(j, x)
  BY <1>4, <1>6
<1>7. ASSUME NEW y \in Tunnels \cup Peers, Deletes(j, y), job'[j] = [job[j] EXCEPT !.pc = "commit"]
      PROVE  y = x
  <2>1. job[j] \in [pc : {"queued", "call", "commit"}, of : Tunnels \cup Peers,
                    uuid : ServerIds \cup ClientIds \cup {None}, net : Subnets \cup {None}]
    BY <1>7, RowShapes DEF Deletes
  <2>2. job'[j].of = job[j].of
    BY <1>7, <2>1
  <2> QED
    BY <1>1, <1>7, <2>2 DEF Deletes
<1>8. ASSUME NEW t \in Tunnels, DestroyServer(j, t), job'[j] = [job[j] EXCEPT !.pc = "commit"]
      PROVE  x \in Tunnels /\ DestroyServer(j, x)
  <2>1. Deletes(j, t)
    BY <1>8 DEF DestroyServer
  <2> QED
    BY <1>7, <1>8, <2>1
<1>9. ASSUME NEW p \in Peers, LeaveClient(j, p), job'[j] = [job[j] EXCEPT !.pc = "commit"]
      PROVE  x \in Peers /\ LeaveClient(j, x)
  <2>1. Deletes(j, p)
    BY <1>9 DEF LeaveClient
  <2> QED
    BY <1>7, <1>9, <2>1
<1> QED
  BY <1>1, <1>2, <1>3, <1>5, <1>6, <1>8, <1>9, JobSteps

\* The servers of one tunnel.
LEMMA ServersMove ==
  ASSUME TypeOK, OwnIds, [Next]_vars, NEW t \in Tunnels
  PROVE  \/ ServersOf(t)' = ServersOf(t)
         \/ SetupAddServer(t)
         \/ \E j \in Jobs : DestroyServer(j, t) /\ ServersOf(t)' = ServersOf(t) \ {job[j].uuid}
<1>0. ServersOf(t)' = {id \in servers' : id[1] = t}
  BY DEF ServersOf
<1>1. CASE servers' = servers
  BY <1>0, <1>1 DEF ServersOf
<1>2. ASSUME NEW u \in Tunnels, SetupAddServer(u), u # t
      PROVE  ServersOf(t)' = ServersOf(t)
  <2>1. servers' = servers \cup {NewServer(u)} /\ NewServer(u)[1] # t
    BY <1>2, NewIds DEF SetupAddServer, AddServer
  <2> QED
    BY <1>0, <2>1 DEF ServersOf
<1>3. ASSUME NEW j \in Jobs, NEW u \in Tunnels, DestroyServer(j, u), servers' = servers \ {job[j].uuid}
      PROVE  ServersOf(t)' = IF u = t THEN ServersOf(t) \ {job[j].uuid} ELSE ServersOf(t)
  <2>1. CASE u = t
    BY <1>0, <1>3, <2>1 DEF ServersOf
  <2>2. CASE u # t
    <3>1. job[j] # NoJob /\ job[j].of = u
      BY <1>3 DEF DestroyServer, Deletes
    <3>2. job[j].uuid # None => job[j].uuid[1] # t
      BY <2>2, <3>1 DEF OwnIds
    <3>3. None \notin servers
      BY NoneApart DEF TypeOK
    <3> QED
      BY <1>0, <1>3, <2>2, <3>2, <3>3 DEF ServersOf
  <2> QED
    BY <2>1, <2>2
<1> QED
  BY <1>1, <1>2, <1>3, ServerSteps

\* What a tunnel's own steps leave alone.
LEMMA SetupKeeps ==
  ASSUME NEW t \in Tunnels
  PROVE  /\ SetupStep(t) \/ SetupCrash(t) => job' = job
         /\ \A s \in Subnets : CreateTunnel(t, s) => job' = job /\ servers' = servers
         /\ \A j \in Jobs : DestroyCommit(j, t) => servers' = servers
<1>1. SetupStep(t) \/ SetupCrash(t) => job' = job
  BY DEF SetupStep, SetupStart, SetupAddServer, SetupSave, SetupActivate, SetupFail, SetupCrash
<1>2. \A s \in Subnets : CreateTunnel(t, s) => job' = job /\ servers' = servers
  BY DEF CreateTunnel
<1>3. \A j \in Jobs : DestroyCommit(j, t) => servers' = servers
  BY DEF DestroyCommit
<1> QED
  BY <1>1, <1>2, <1>3

LEMMA CleanWas ==
  ASSUME TypeOK, [Next]_vars, NEW x \in Tunnels \cup Peers, Clean(x)'
  PROVE  Clean(x)
BY MarksStay DEF Clean

LEMMA ServerInit == Init => ServerInv
<1> SUFFICES ASSUME Init, NEW t \in Tunnels PROVE ServerOf(t)
  BY DEF ServerInv
<1>1. /\ tunnel[t].st = "unused" /\ tunnel[t].uuid = None
      /\ setup[t].pc = "none" /\ servers = {}
      /\ \A j \in Jobs : ~Deletes(j, t)
  BY DEF Init, Absent, Deletes
<1>2. ServersOf(t) = {}
  BY <1>1 DEF ServersOf
<1> QED
  BY <1>1, <1>2 DEF ServerOf, SetupDue

LEMMA ServerCreate ==
  ASSUME TypeOK, Begun, NEW t \in Tunnels, ServerOf(t),
         NEW s \in Subnets, CreateTunnel(t, s)
  PROVE  ServerOf(t)'
<1>1. /\ tunnel[t].st = "unused" /\ tunnel'[t] = [st |-> "pending", net |-> s, uuid |-> None]
      /\ setup'[t].pc \in {"queued", "lost"}
  BY Creates
<1>2. setup[t].pc = "none" /\ \A j \in Jobs : ~Deletes(j, t)
  BY <1>1 DEF Begun, Deletes
<1>3. ServersOf(t) = {}
  BY <1>2 DEF ServerOf
<1>4. ServersOf(t)' = {} /\ \A j \in Jobs : ~Deletes(j, t)'
  <2>1. job' = job /\ servers' = servers
    BY SetupKeeps
  <2> QED
    BY <1>2, <1>3, <2>1 DEF ServersOf, Deletes
<1> QED
  BY <1>1, <1>4 DEF ServerOf, SetupDue

LEMMA ServerSetup ==
  ASSUME TypeOK, OwnIds, NEW t \in Tunnels, ServerOf(t), Clean(t)',
         SetupStep(t) \/ SetupCrash(t)
  PROVE  ServerOf(t)'
<1> DEFINE pc == setup[t].pc
           st == tunnel[t].st
<1>1. ASSUME setup[t].pc \in Due
      PROVE  /\ st \in {"pending", "provisioning", "error"} /\ Live(t)
             /\ \A j \in Jobs : ~Deletes(j, t)'
  <2>1. SetupDue(t)
    BY <1>1 DEF SetupDue, Due, ServerMade
  <2>2. st \in {"pending", "provisioning", "error"} /\ \A j \in Jobs : ~Deletes(j, t)
    BY <2>1 DEF ServerOf
  <2>3. job' = job
    BY SetupKeeps
  <2> QED
    BY <2>2, <2>3 DEF Live, Status, Deletes
<1>2. ServersOf(t)' = {id \in servers' : id[1] = t}
  BY DEF ServersOf
<1>3. ASSUME setup[t].pc = "queued", setup'[t].pc = "add", tunnel'[t].st = "provisioning",
             SameRow(t), servers' = servers
      PROVE  ServerOf(t)'
  <2>1. ServersOf(t) = {} /\ tunnel[t].uuid = None
    BY <1>3 DEF ServerOf
  <2>2. ServersOf(t)' = {} /\ tunnel'[t].uuid = None
    BY <1>2, <1>3, <2>1 DEF ServersOf, SameRow
  <2> QED
    BY <1>1, <1>3, <2>2 DEF ServerOf, SetupDue, Due
<1>4. ASSUME setup[t].pc = "add", setup'[t].pc = "added", setup'[t].uuid = NewServer(t),
             tunnel' = tunnel, servers' = servers \cup {NewServer(t)}
      PROVE  ServerOf(t)'
  <2>1. ServersOf(t) = {} /\ tunnel[t].uuid = None
    BY <1>4 DEF ServerOf
  <2>2. ServersOf(t)' = {NewServer(t)}
    BY <1>2, <1>4, <2>1, NewIds DEF ServersOf
  <2> QED
    BY <1>1, <1>4, <2>1, <2>2 DEF ServerOf, SetupDue, Due
<1>5. ASSUME setup[t].pc = "added", setup'[t].pc = "saved", setup'[t].uuid = setup[t].uuid,
             tunnel'[t].st = tunnel[t].st, tunnel'[t].uuid = setup[t].uuid, servers' = servers
      PROVE  ServerOf(t)'
  <2>1. ServersOf(t) = {setup[t].uuid}
    BY <1>5 DEF ServerOf
  <2>2. ServersOf(t)' = {setup[t].uuid}
    BY <1>2, <1>5, <2>1 DEF ServersOf
  <2> QED
    BY <1>1, <1>5, <2>2 DEF ServerOf, SetupDue, Due, ServerMade
<1>6. ASSUME setup[t].pc = "saved", setup'[t].pc = "done", setup[t].uuid \in servers,
             tunnel'[t].st = "active", SameRow(t), servers' = servers
      PROVE  ServerOf(t)'
  <2>1. ServersOf(t) = {setup[t].uuid} /\ tunnel[t].uuid = setup[t].uuid
    BY <1>6 DEF ServerOf
  <2>2. ServersOf(t)' = {tunnel'[t].uuid} /\ tunnel'[t].uuid \in servers'
    BY <1>2, <1>6, <2>1 DEF ServersOf, SameRow
  <2> QED
    BY <1>1, <1>6, <2>2 DEF ServerOf, SetupDue, Due, ServerMade
<1>7. ASSUME setup[t].pc = "add", setup'[t].pc \in {"queued", "done"}, SameRow(t),
             tunnel'[t].st \in {tunnel[t].st, "error"}, servers' = servers,
             setup'[t].pc = "done" /\ Live(t) => tunnel'[t].st = "error"
      PROVE  ServerOf(t)'
  <2>1. ServersOf(t) = {} /\ tunnel[t].uuid = None
    BY <1>7 DEF ServerOf
  <2>2. ServersOf(t)' = {} /\ tunnel'[t].uuid = None
    BY <1>2, <1>7, <2>1 DEF ServersOf, SameRow
  <2> QED
    BY <1>1, <1>7, <2>2 DEF ServerOf, SetupDue, Due
<1>8. "repeated" \notin marks'[t]
  BY DEF Clean, Disturbed
<1>9. setup[t].pc = "queued" => Live(t) /\ tunnel[t].st # "active"
  BY <1>1 DEF Due
<1> QED
  BY <1>3, <1>4, <1>5, <1>6, <1>7, <1>8, <1>9, SetupMoves DEF SetupDone

LEMMA ServerStart ==
  ASSUME TypeOK, Begun, NEW t \in Tunnels, ServerOf(t), Clean(t)',
         NEW j \in Jobs, Starts(j, t)
  PROVE  ServerOf(t)'
<1>1. /\ servers' = servers /\ setup' = setup /\ Live(t)
      /\ tunnel'[t].st = "destroying" /\ tunnel'[t].uuid = tunnel[t].uuid
      /\ Raced(t) \subseteq marks'[t]
  BY StartFacts
<1>2. /\ job'[j].pc = (IF tunnel[t].uuid # None THEN "call" ELSE "commit")
      /\ job'[j].uuid = tunnel[t].uuid
      /\ \A k \in Jobs : k # j => job'[k] = job[k]
  BY StartFacts
<1>3. ~SetupDue(t)
  BY <1>1 DEF Raced, Clean, Disturbed
<1>4. setup[t].pc \in {"lost", "done"}
  <2>1. tunnel[t].st # "unused"
    BY <1>1 DEF Live, Status
  <2>2. tunnel[t].st = "unused" <=> setup[t].pc = "none"
    BY DEF Begun
  <2> QED
    BY <1>3, <2>1, <2>2 DEF SetupDue
<1>5. ServersOf(t)' = ServersOf(t) /\ ServersOf(t) \subseteq servers
  BY <1>1 DEF ServersOf
<1>6. ServersOf(t) \subseteq {tunnel[t].uuid} /\ (setup[t].pc = "lost" => ServersOf(t) = {} /\ tunnel[t].uuid = None)
  BY <1>4 DEF ServerOf
<1>7. None \notin servers
  BY NoneApart DEF TypeOK
<1>8. ASSUME NEW k \in Jobs, Deletes(k, t)'
      PROVE  /\ job'[k].pc = "call" => job'[k].uuid = tunnel[t].uuid
             /\ job'[k].pc = "commit" => ServersOf(t) = {}
  <2>1. CASE k = j
    BY <1>2, <1>5, <1>6, <1>7, <2>1
  <2>2. CASE k # j
    <3>1. job'[k] = job[k] /\ Deletes(k, t)
      BY <1>2, <1>8, <2>2 DEF Deletes
    <3>2. tunnel[t].st # "gone"
      BY <1>1 DEF Live, Status
    <3> QED
      BY <3>1, <3>2 DEF ServerOf
  <2> QED
    BY <2>1, <2>2
<1>9. ~SetupDue(t)'
  BY <1>1, <1>3 DEF SetupDue
<1> QED
  BY <1>1, <1>4, <1>5, <1>6, <1>8, <1>9 DEF ServerOf

LEMMA ServerCommit ==
  ASSUME TypeOK, Begun, NEW t \in Tunnels, ServerOf(t),
         NEW j \in Jobs, DestroyCommit(j, t)
  PROVE  ServerOf(t)'
<1>1. /\ Deletes(j, t) /\ job[j].pc = "commit" /\ job' = [job EXCEPT ![j] = NoJob]
      /\ tunnel' = [tunnel EXCEPT ![t] = Absent("gone")] /\ setup' = setup /\ servers' = servers
  BY DEF DestroyCommit
<1>2. tunnel'[t].st = "gone" /\ tunnel'[t].uuid = None
  BY <1>1 DEF Absent, TypeOK
<1>3. ServersOf(t)' = {}
  <2>1. ServersOf(t) = {}
    BY <1>1 DEF ServerOf
  <2> QED
    BY <1>1, <2>1 DEF ServersOf
<1>4. ~SetupDue(t)'
  <2>1. ~SetupDue(t)
    BY <1>1 DEF ServerOf
  <2> QED
    BY <1>1, <2>1 DEF SetupDue
<1> QED
  BY <1>1, <1>2, <1>3, <1>4 DEF ServerOf, SetupDue

LEMMA ServerKept ==
  ASSUME TypeOK, OwnIds, Begun, [Next]_vars, NEW t \in Tunnels, ServerOf(t), Clean(t)',
         TunnelKept(t), ~(\E j \in Jobs : Starts(j, t))
  PROVE  ServerOf(t)'
<1>1. tunnel'[t] = tunnel[t] /\ setup'[t] = setup[t] /\ (SetupDue(t)' <=> SetupDue(t))
  BY DEF TunnelKept, SetupDue
<1>2. ~SetupAddServer(t)
  <2>1. SetupAddServer(t) => SetupStep(t) /\ setup[t].pc = "add"
    BY DEF SetupAddServer, SetupStep
  <2>2. SetupAddServer(t) => setup'[t].pc = "added"
    <3>1. setup[t] \in Setup
      BY DEF TypeOK
    <3>2. SetupAddServer(t) => setup' = [setup EXCEPT ![t].pc = "added", ![t].tries = @ + 1, ![t].uuid = NewServer(t)]
      BY DEF SetupAddServer
    <3> QED
      BY <3>1, <3>2 DEF Setup, TypeOK
  <2> QED
    BY <1>1, <2>1, <2>2
<1>3. \/ ServersOf(t)' = ServersOf(t)
      \/ \E j \in Jobs : DestroyServer(j, t) /\ ServersOf(t)' = ServersOf(t) \ {job[j].uuid}
  BY <1>2, ServersMove
<1>4. ASSUME NEW j \in Jobs, DestroyServer(j, t)
      PROVE  /\ Deletes(j, t) /\ job[j].pc = "call" /\ ~SetupDue(t)
             /\ tunnel[t].st \in {"destroying", "gone"}
             /\ ServersOf(t)' = {}
  <2>1. Deletes(j, t) /\ job[j].pc = "call"
    BY <1>4 DEF DestroyServer
  <2>2. /\ ~SetupDue(t) /\ tunnel[t].st \in {"destroying", "gone"}
        /\ tunnel[t].st = "gone" \/ job[j].uuid = tunnel[t].uuid
    BY <2>1 DEF ServerOf
  <2>3. ServersOf(t) \subseteq {tunnel[t].uuid}
    BY <2>2 DEF ServerOf, SetupDue
  <2>4. servers' = servers \ {job[j].uuid}
    <3>1. ~Mark({t}, "call")
      BY DEF Mark, Marked, Clean, Disturbed, TypeOK
    <3> QED
      BY <1>4, <3>1 DEF DestroyServer, DelServer
  <2>5. ServersOf(t)' = ServersOf(t) \ {job[j].uuid}
    BY <2>4 DEF ServersOf
  <2>6. tunnel[t].st = "gone" => tunnel[t].uuid = None
    BY RowShapes DEF Absent, Live, Status
  <2>7. None \notin ServersOf(t)
    BY NoneApart DEF ServersOf, TypeOK
  <2> QED
    BY <2>1, <2>2, <2>3, <2>5, <2>6, <2>7
<1>5. ASSUME SetupDue(t)
      PROVE  ServersOf(t)' = ServersOf(t)
  BY <1>3, <1>4, <1>5
<1>6. ServersOf(t)' \subseteq ServersOf(t)
  BY <1>3
<1>7. ASSUME tunnel[t].st = "active"
      PROVE  tunnel[t].uuid \in servers'
  <2>1. tunnel[t].uuid \in servers
    BY <1>7 DEF ServerOf
  <2>2. tunnel[t].uuid \in ServersOf(t)
    BY <2>1, NoneApart DEF ServersOf, OwnIds, TypeOK
  <2>3. ServersOf(t)' = ServersOf(t)
    BY <1>3, <1>4, <1>7
  <2> QED
    BY <2>2, <2>3 DEF ServersOf
<1>8. ASSUME NEW j \in Jobs, Deletes(j, t)'
      PROVE  /\ ~SetupDue(t)
             /\ tunnel[t].st \in {"destroying", "gone"}
             /\ job'[j].pc = "call" => tunnel[t].st = "gone" \/ job'[j].uuid = tunnel[t].uuid
             /\ job'[j].pc = "commit" => ServersOf(t)' = {}
  <2>1. CASE job'[j] = job[j] /\ Deletes(j, t)
    BY <1>6, <2>1 DEF ServerOf
  <2>2. CASE job'[j].pc = "queued" /\ Deletes(j, t)
    BY <2>2 DEF ServerOf
  <2>3. CASE DestroyServer(j, t)
    <3>1. job'[j].pc = "commit"
      <4>1. job[j] \in [pc : {"queued", "call", "commit"}, of : Tunnels \cup Peers,
                        uuid : ServerIds \cup ClientIds \cup {None}, net : Subnets \cup {None}]
        BY <1>4, <2>3, RowShapes DEF Deletes
      <4>2. job'[j] = [job[j] EXCEPT !.pc = "commit"]
        BY <2>3 DEF DestroyServer, TypeOK
      <4> QED
        BY <4>1, <4>2
    <3> QED
      BY <1>4, <2>3, <3>1
  <2>4. t \notin Peers
    BY WireGuardAssumption
  <2> QED
    BY <1>8, <2>1, <2>2, <2>3, <2>4, DeletesMoves
<1> QED
  BY <1>1, <1>5, <1>6, <1>7, <1>8 DEF ServerOf, SetupDue

LEMMA ServerStep ==
  ASSUME TypeOK, OwnIds, Begun, ServerInv, [Next]_vars
  PROVE  ServerInv'
<1> SUFFICES ASSUME NEW t \in Tunnels, Clean(t)' PROVE ServerOf(t)'
  BY DEF ServerInv
<1>1. ServerOf(t)
  BY CleanWas DEF ServerInv
<1> QED
  BY <1>1, TunnelSteps, ServerCreate, ServerSetup, ServerStart, ServerCommit, ServerKept

\* What the invariant says of a clean tunnel is ServersAgree.
LEMMA ServersFound ==
  ASSUME TypeOK, ServerInv
  PROVE  ServersAgree
<1> SUFFICES ASSUME NEW t \in Tunnels, marks[t] \cap {"raced", "repeated", "call"} = {}
             PROVE  /\ tunnel[t].st = "active" => tunnel[t].uuid \in servers
                    /\ \A id \in servers : id[1] = t => id \in {tunnel[t].uuid, setup[t].uuid}
  BY DEF ServersAgree
<1>1. ServerOf(t)
  BY DEF ServerInv, Clean, Disturbed
<1>2. setup[t].pc \in SetupPc
  BY DEF TypeOK, Setup
<1>3. ServersOf(t) \subseteq {tunnel[t].uuid, setup[t].uuid}
  BY <1>1, <1>2 DEF ServerOf, SetupPc
<1>4. \A id \in servers : id[1] = t => id \in ServersOf(t)
  BY DEF ServersOf
<1>5. tunnel[t].st = "active" => tunnel[t].uuid \in servers
  BY <1>1 DEF ServerOf
<1> QED
  BY <1>3, <1>4, <1>5

-----------------------------------------------------------------------------
(* The clients inside OPNsense.                                            *)

\* The clients of one peer.
LEMMA ClientsMove ==
  ASSUME TypeOK, OwnIds, [Next]_vars, NEW p \in Peers
  PROVE  \/ ClientsOf(p)' = ClientsOf(p)
         \/ JoinAddClient(p)
         \/ \E j \in Jobs : /\ LeaveClient(j, p)
                            /\ ClientsOf(p)' = {c \in ClientsOf(p) : c.id # job[j].uuid}
<1>0. ClientsOf(p)' = {c \in clients' : c.id[1] = p}
  BY DEF ClientsOf
<1>1. CASE clients' = clients
  BY <1>0, <1>1 DEF ClientsOf
<1>2. ASSUME NEW q \in Peers, JoinAddClient(q), q # p
      PROVE  ClientsOf(p)' = ClientsOf(p)
  <2>1. PICK c : clients' = clients \cup {c} /\ c.id = NewClient(q)
    <3> DEFINE c == [id |-> NewClient(q), on |-> tunnel[peer[q].of].uuid]
    <3>1. clients' = clients \cup {c} /\ c.id = NewClient(q)
      BY <1>2 DEF JoinAddClient, AddClient
    <3> QED
      BY <3>1
  <2>2. c.id[1] # p
    BY <1>2, <2>1, NewIds
  <2> QED
    BY <1>0, <2>1, <2>2 DEF ClientsOf
<1>3. ASSUME NEW j \in Jobs, NEW q \in Peers, LeaveClient(j, q),
             clients' = {c \in clients : c.id # job[j].uuid}
      PROVE  ClientsOf(p)' = IF q = p THEN {c \in ClientsOf(p) : c.id # job[j].uuid}
                                      ELSE ClientsOf(p)
  <2>1. CASE q = p
    BY <1>0, <1>3, <2>1 DEF ClientsOf
  <2>2. CASE q # p
    <3>1. job[j] # NoJob /\ job[j].of = q
      BY <1>3 DEF LeaveClient, Deletes
    <3>2. job[j].uuid # None => job[j].uuid[1] # p
      BY <2>2, <3>1 DEF OwnIds
    <3>3. \A c \in clients : c.id # None
      BY NoneApart DEF TypeOK
    <3> QED
      BY <1>0, <1>3, <2>2, <3>2, <3>3 DEF ClientsOf
  <2> QED
    BY <2>1, <2>2
<1> QED
  BY <1>1, <1>2, <1>3, ClientSteps

LEMMA JoinKeeps ==
  ASSUME NEW p \in Peers
  PROVE  /\ JoinStep(p) \/ JoinCrash(p) => job' = job
         /\ \A t \in Tunnels : CreatePeer(p, t) => job' = job /\ clients' = clients
<1>1. JoinStep(p) \/ JoinCrash(p) => job' = job
  BY DEF JoinStep, JoinStart, JoinAddClient, JoinSave, JoinFinish, JoinFail, JoinCrash
<1>2. \A t \in Tunnels : CreatePeer(p, t) => job' = job /\ clients' = clients
  BY DEF CreatePeer
<1> QED
  BY <1>1, <1>2

LEMMA PeerStartFacts ==
  ASSUME TypeOK, NEW j \in Jobs, NEW p \in Peers, PeerStarts(j, p)
  PROVE  /\ peer' = peer /\ join' = join /\ clients' = clients /\ PeerLive(p)
         /\ job'[j].pc = (IF peer[p].uuid # None THEN "call" ELSE "commit")
         /\ job'[j].uuid = peer[p].uuid
         /\ \A k \in Jobs : k # j => job'[k] = job[k]
         /\ JoinDue(p) => "raced" \in marks'[p]
<1>1. LeaveStart(j, p) /\ peer' = peer /\ join' = join /\ clients' = clients /\ PeerLive(p)
  BY DEF PeerStarts, DeletePeer, LeaveAgain, peerVars
<1>2. job' = [job EXCEPT ![j] = [pc |-> IF peer[p].uuid # None THEN "call" ELSE "commit",
                                 of |-> p, uuid |-> peer[p].uuid, net |-> None]]
  BY <1>1 DEF LeaveStart
<1>3. PICK pc \in {"call", "commit"} : pc = IF peer[p].uuid # None THEN "call" ELSE "commit"
  OBVIOUS
<1>4. /\ job'[j] = [pc |-> pc, of |-> p, uuid |-> peer[p].uuid, net |-> None]
      /\ \A k \in Jobs : k # j => job'[k] = job[k]
  BY <1>2, <1>3 DEF TypeOK
<1>5. JoinDue(p) => Mark({p}, "raced")
  BY <1>1 DEF LeaveStart
<1>6. JoinDue(p) => "raced" \in marks'[p]
  BY <1>5 DEF Mark, Marked, TypeOK
<1> QED
  BY <1>1, <1>3, <1>4, <1>6

LEMMA ClientInit == Init => ClientInv
<1> SUFFICES ASSUME Init, NEW p \in Peers PROVE ClientOf(p)
  BY DEF ClientInv
<1>1. /\ peer[p].st = "unused" /\ peer[p].uuid = None
      /\ join[p].pc = "none" /\ clients = {}
      /\ \A j \in Jobs : ~Deletes(j, p)
  BY DEF Init, NoPeer, Deletes
<1>2. ClientsOf(p) = {}
  BY <1>1 DEF ClientsOf
<1> QED
  BY <1>1, <1>2 DEF ClientOf, JoinDue, PeerLive, Status, ClientMade

LEMMA ClientCreate ==
  ASSUME TypeOK, Begun, NEW p \in Peers, ClientOf(p), NEW t \in Tunnels, CreatePeer(p, t)
  PROVE  ClientOf(p)'
<1>1. /\ peer[p].st = "unused"
      /\ peer'[p] = [st |-> "pending", of |-> t, ip |-> None, uuid |-> None]
      /\ join'[p].pc \in {"queued", "lost"}
  BY Creates
<1>2. join[p].pc = "none" /\ \A j \in Jobs : ~Deletes(j, p)
  BY <1>1, WireGuardAssumption DEF Begun, Deletes
<1>3. ClientsOf(p) = {}
  BY <1>2 DEF ClientOf
<1>4. ClientsOf(p)' = {} /\ \A j \in Jobs : ~Deletes(j, p)'
  <2>1. job' = job /\ clients' = clients
    BY JoinKeeps
  <2> QED
    BY <1>2, <1>3, <2>1 DEF ClientsOf, Deletes
<1> QED
  BY <1>1, <1>4 DEF ClientOf, JoinDue, ClientMade

LEMMA ClientJoin ==
  ASSUME TypeOK, OwnIds, NEW p \in Peers, ClientOf(p), Clean(p)',
         JoinStep(p) \/ JoinCrash(p)
  PROVE  ClientOf(p)'
<1>0. ClientsOf(p)' = {c \in clients' : c.id[1] = p}
  BY DEF ClientsOf
<1>1. ASSUME join[p].pc \in JoinDues
      PROVE  \A j \in Jobs : ~Deletes(j, p)'
  <2>1. \A j \in Jobs : ~Deletes(j, p)
    BY <1>1 DEF ClientOf, JoinDue, JoinDues, ClientMade
  <2>2. job' = job
    BY JoinKeeps
  <2> QED
    BY <2>1, <2>2 DEF Deletes
<1>2. ASSUME clients' = clients
      PROVE  ClientsOf(p)' = ClientsOf(p)
  BY <1>0, <1>2 DEF ClientsOf
<1>3. ASSUME join[p].pc = "queued", join'[p].pc = "done", ~PeerLive(p), peer' = peer, clients' = clients
      PROVE  ClientOf(p)'
  <2>1. ~PeerLive(p)' /\ \A j \in Jobs : ~Deletes(j, p)'
    BY <1>1, <1>3 DEF PeerLive, JoinDues
  <2> QED
    BY <1>3, <2>1 DEF ClientOf, JoinDue, ClientMade
<1>4. ASSUME join[p].pc = "queued", join'[p].pc = "keys", peer'[p].uuid = peer[p].uuid,
             clients' = clients
      PROVE  ClientOf(p)'
  <2>1. ClientsOf(p)' = {} /\ peer'[p].uuid = None
    BY <1>2, <1>4 DEF ClientOf
  <2> QED
    BY <1>1, <1>4, <2>1 DEF ClientOf, JoinDue, JoinDues, ClientMade
<1>5. ASSUME join[p].pc = "keys", join'[p].pc = "added", join'[p].uuid = NewClient(p), PeerLive(p),
             peer' = peer, AddClient(p)
      PROVE  ClientOf(p)'
  <2>1. ClientsOf(p) = {} /\ peer[p].uuid = None
    BY <1>5 DEF ClientOf
  <2>2. /\ tunnel[peer[p].of].uuid \in servers
        /\ clients' = clients \cup {[id |-> NewClient(p), on |-> tunnel[peer[p].of].uuid]}
    BY <1>5 DEF AddClient
  <2>3. tunnel[peer[p].of].uuid[1] = peer[p].of
    <3>1. peer[p].of \in Tunnels
      BY <1>5, RowShapes
    <3>2. tunnel[peer[p].of].uuid # None
      BY <2>2, NoneApart DEF TypeOK
    <3> QED
      BY <3>1, <3>2 DEF OwnIds
  <2>4. \A c \in ClientsOf(p)' : c.id = NewClient(p) /\ c.on[1] = peer[p].of
    BY <1>0, <2>1, <2>2, <2>3 DEF ClientsOf
  <2> QED
    BY <1>1, <1>5, <2>1, <2>4 DEF ClientOf, JoinDue, JoinDues, ClientMade
<1>6. ASSUME join[p].pc = "added", join'[p].pc = "saved", join'[p].uuid = join[p].uuid, PeerLive(p),
             peer'[p].of = peer[p].of, peer'[p].uuid = join[p].uuid, clients' = clients
      PROVE  ClientOf(p)'
  <2>1. \A c \in ClientsOf(p)' : c.id = join[p].uuid /\ c.on[1] = peer[p].of
    BY <1>2, <1>6 DEF ClientOf, ClientMade
  <2> QED
    BY <1>1, <1>6, <2>1 DEF ClientOf, JoinDue, JoinDues, ClientMade
<1>7. ASSUME join[p].pc = "saved", join'[p].pc = "done", PeerLive(p),
             peer'[p].of = peer[p].of, peer'[p].uuid = peer[p].uuid, clients' = clients
      PROVE  ClientOf(p)'
  <2>1. \A c \in ClientsOf(p)' : c.id = peer[p].uuid /\ c.on[1] = peer[p].of
    BY <1>2, <1>7 DEF ClientOf, ClientMade
  <2> QED
    BY <1>1, <1>7, <2>1 DEF ClientOf, JoinDue, JoinDues, ClientMade
<1>8. ASSUME join[p].pc \in {"queued", "keys"}, clients' = clients,
             \/ join'[p].pc = "done" /\ peer'[p] = NoPeer("gone")
             \/ join'[p].pc = "queued" /\ peer'[p] = peer[p]
      PROVE  ClientOf(p)'
  <2>1. ClientsOf(p)' = {} /\ peer[p].uuid = None
    BY <1>2, <1>8 DEF ClientOf
  <2>2. peer'[p].uuid = None
    BY <1>8, <2>1 DEF NoPeer
  <2> QED
    BY <1>1, <1>8, <2>1, <2>2 DEF ClientOf, JoinDue, JoinDues, ClientMade
<1>9. "repeated" \notin marks'[p]
  BY DEF Clean, Disturbed
<1> QED
  BY <1>3, <1>4, <1>5, <1>6, <1>7, <1>8, <1>9, JoinMoves DEF JoinDone, JoinDues

LEMMA ClientGone ==
  ASSUME TypeOK, NEW p \in Peers, ClientOf(p), peer'[p] = NoPeer("gone"), join' = join,
         clients' = clients, \E j \in Jobs, x \in Tunnels \cup Peers :
                                Deletes(j, x) /\ job' = [job EXCEPT ![j] = NoJob]
  PROVE  ClientOf(p)'
<1>1. \A k \in Jobs : Deletes(k, p)' => Deletes(k, p)
  BY DEF Deletes, TypeOK
<1>2. ClientsOf(p)' = ClientsOf(p)
  BY DEF ClientsOf
<1>3. peer'[p].uuid = None /\ ~PeerLive(p)'
  BY DEF NoPeer, PeerLive, Status
<1>4. JoinDue(p)' <=> JoinDue(p)
  BY DEF JoinDue
<1> QED
  BY <1>1, <1>2, <1>3, <1>4 DEF ClientOf

LEMMA ClientStart ==
  ASSUME TypeOK, Begun, NEW p \in Peers, ClientOf(p), Clean(p)',
         NEW j \in Jobs, PeerStarts(j, p)
  PROVE  ClientOf(p)'
<1>1. /\ peer' = peer /\ join' = join /\ clients' = clients /\ PeerLive(p)
      /\ job'[j].pc = (IF peer[p].uuid # None THEN "call" ELSE "commit")
      /\ job'[j].uuid = peer[p].uuid
      /\ \A k \in Jobs : k # j => job'[k] = job[k]
      /\ JoinDue(p) => "raced" \in marks'[p]
  BY PeerStartFacts
<1>2. ~JoinDue(p)
  BY <1>1 DEF Clean, Disturbed
<1>3. ClientsOf(p)' = ClientsOf(p) /\ (PeerLive(p)' <=> PeerLive(p)) /\ (JoinDue(p)' <=> JoinDue(p))
  BY <1>1 DEF ClientsOf, PeerLive, JoinDue
<1>4. peer[p].uuid = None => ClientsOf(p) = {}
  <2>1. \A c \in ClientsOf(p) : c.id # None
    BY NoneApart DEF ClientsOf, TypeOK
  <2> QED
    BY <1>1, <1>2, <2>1 DEF ClientOf, JoinDue
<1>5. ASSUME NEW k \in Jobs, Deletes(k, p)'
      PROVE  /\ job'[k].pc = "call" => job'[k].uuid = peer[p].uuid
             /\ job'[k].pc = "commit" => ClientsOf(p) = {}
  <2>1. CASE k = j
    BY <1>1, <1>4, <2>1
  <2>2. CASE k # j
    <3>1. job'[k] = job[k] /\ Deletes(k, p)
      BY <1>1, <1>5, <2>2 DEF Deletes
    <3> QED
      BY <1>1, <3>1 DEF ClientOf
  <2> QED
    BY <2>1, <2>2
<1> QED
  BY <1>1, <1>2, <1>3, <1>5 DEF ClientOf

LEMMA ClientKept ==
  ASSUME TypeOK, OwnIds, Begun, [Next]_vars, NEW p \in Peers, ClientOf(p), Clean(p)',
         PeerKept(p), ~(\E j \in Jobs : PeerStarts(j, p))
  PROVE  ClientOf(p)'
<1>1. /\ peer'[p] = peer[p] /\ join'[p] = join[p]
      /\ JoinDue(p)' <=> JoinDue(p)
      /\ PeerLive(p)' <=> PeerLive(p)
  BY DEF PeerKept, JoinDue, PeerLive
<1>2. ~JoinAddClient(p)
  <2>1. JoinAddClient(p) => join[p].pc = "keys"
    BY DEF JoinAddClient
  <2>2. JoinAddClient(p) => join'[p].pc = "added"
    <3>1. join[p] \in Join
      BY DEF TypeOK
    <3>2. JoinAddClient(p) => join' = [join EXCEPT ![p].pc = "added", ![p].tries = @ + 1,
                                                   ![p].uuid = NewClient(p), ![p].ip = AddressFor(p)]
      BY DEF JoinAddClient
    <3> QED
      BY <3>1, <3>2 DEF Join, TypeOK
  <2> QED
    BY <1>1, <2>1, <2>2
<1>3. ClientsOf(p)' \subseteq ClientsOf(p)
  BY <1>2, ClientsMove
<1>4. ASSUME NEW j \in Jobs, LeaveClient(j, p)
      PROVE  ~JoinDue(p) /\ job'[j].pc = "commit" /\ (PeerLive(p) => ClientsOf(p)' = {})
  <2>1. Deletes(j, p) /\ job[j].pc = "call"
    BY <1>4 DEF LeaveClient
  <2>2. ~JoinDue(p) /\ (PeerLive(p) => job[j].uuid = peer[p].uuid)
    BY <2>1 DEF ClientOf
  <2>3. clients' = {c \in clients : c.id # job[j].uuid}
    <3>1. ~Mark({p}, "call")
      BY DEF Mark, Marked, Clean, Disturbed, TypeOK
    <3> QED
      BY <1>4, <3>1 DEF LeaveClient, DelClient
  <2>4. PeerLive(p) => \A c \in ClientsOf(p) : c.id = peer[p].uuid
    BY <2>2 DEF ClientOf, JoinDue
  <2>5. PeerLive(p) => ClientsOf(p)' = {}
    BY <2>2, <2>3, <2>4 DEF ClientsOf
  <2>6. job'[j].pc = "commit"
    <3>1. job[j] \in [pc : {"queued", "call", "commit"}, of : Tunnels \cup Peers,
                      uuid : ServerIds \cup ClientIds \cup {None}, net : Subnets \cup {None}]
      BY <2>1, RowShapes DEF Deletes
    <3>2. job'[j] = [job[j] EXCEPT !.pc = "commit"]
      BY <1>4 DEF LeaveClient, TypeOK
    <3> QED
      BY <3>1, <3>2
  <2> QED
    BY <2>2, <2>5, <2>6
<1>5. ASSUME NEW j \in Jobs, Deletes(j, p)'
      PROVE  /\ ~JoinDue(p)
             /\ PeerLive(p) => /\ job'[j].pc = "call" => job'[j].uuid = peer[p].uuid
                               /\ job'[j].pc = "commit" => ClientsOf(p)' = {}
  <2>1. CASE job'[j] = job[j] /\ Deletes(j, p)
    BY <1>3, <2>1 DEF ClientOf
  <2>2. CASE job'[j].pc = "queued" /\ Deletes(j, p)
    BY <2>2 DEF ClientOf
  <2>3. CASE LeaveClient(j, p)
    BY <1>4, <2>3
  <2>4. p \notin Tunnels
    BY WireGuardAssumption
  <2> QED
    BY <1>5, <2>1, <2>2, <2>3, <2>4, DeletesMoves
<1> QED
  BY <1>1, <1>3, <1>5 DEF ClientOf

LEMMA ClientStep ==
  ASSUME TypeOK, OwnIds, Begun, ClientInv, [Next]_vars
  PROVE  ClientInv'
<1> SUFFICES ASSUME NEW p \in Peers, Clean(p)' PROVE ClientOf(p)'
  BY DEF ClientInv
<1>1. ClientOf(p)
  BY CleanWas DEF ClientInv
<1>2. ASSUME peer'[p] = NoPeer("gone"), join' = join, clients' = clients,
             \E j \in Jobs : LeaveCommit(j, p) \/ (PeerLive(p) /\ DestroyCommit(j, peer[p].of))
      PROVE  ClientOf(p)'
  <2>1. PeerLive(p) => peer[p].of \in Tunnels
    BY RowShapes
  <2>2. \E j \in Jobs, x \in Tunnels \cup Peers : Deletes(j, x) /\ job' = [job EXCEPT ![j] = NoJob]
    BY <1>2, <2>1 DEF LeaveCommit, DestroyCommit
  <2> QED
    BY <1>1, <1>2, <2>2, ClientGone
<1> QED
  BY <1>1, <1>2, PeerSteps, ClientCreate, ClientJoin, ClientStart, ClientKept

\* A client whose server is there, and whose peer and tunnel nothing has
\* disturbed, is named by its peer's row or message.
LEMMA ClientNamed ==
  ASSUME TypeOK, OwnIds, Begun, ServerInv, ClientInv, ClientInv', [Next]_vars,
         NEW c \in clients, NEW p \in Peers, p = c.id[1],
         c.id \in {peer[p].uuid, join[p].uuid},
         Clean(p)', NEW t \in Tunnels, t = c.on[1], Clean(t)',
         c \in clients', c.on \in servers'
  PROVE  c.id \in {peer'[p].uuid, join'[p].uuid}
<1>1. ClientOf(p) /\ ClientOf(p)' /\ ServerOf(t)
  BY CleanWas DEF ClientInv, ServerInv
<1>2. c.id \in ClientIds /\ c \in ClientsOf(p) /\ c \in ClientsOf(p)' /\ c.id # None
  BY NoneApart DEF ClientsOf, TypeOK
<1>3. CASE PeerLive(p)'
  <2>1. join'[p].pc \in JoinPc
    BY TypeStep DEF TypeOK, Join
  <2> QED
    BY <1>1, <1>2, <1>3, <2>1 DEF ClientOf, JoinPc, ClientMade
<1>4. CASE ~PeerLive(p)'
  <2>1. CASE PeerKept(p)
    BY <2>1 DEF PeerKept
  <2>2. ~(\E u \in Tunnels : CreatePeer(p, u))
    <3>1. ASSUME NEW u \in Tunnels, CreatePeer(p, u)
          PROVE  FALSE
      <4>1. peer[p].st = "unused"
        BY <3>1, Creates
      <4>2. join[p].pc = "none"
        BY <4>1 DEF Begun
      <4> QED
        BY <1>1, <1>2, <4>2 DEF ClientOf
    <3> QED
      BY <3>1
  <2>3. CASE JoinStep(p) \/ JoinCrash(p)
    <3>1. join[p].pc \notin {"queued", "keys"}
      BY <1>1, <1>2 DEF ClientOf
    <3>2. "repeated" \notin marks'[p]
      BY DEF Clean, Disturbed
    <3>3. PeerLive(p) /\ (peer'[p].st = peer[p].st \/ peer'[p].st = "active")
      BY <2>3, <3>1, <3>2, JoinMoves DEF JoinDues
    <3> QED
      BY <1>4, <3>3 DEF PeerLive, Status
  <2>4. CASE peer'[p] = NoPeer("gone") /\ join' = join /\ clients' = clients
    <3>1. CASE ~PeerLive(p)
      <4>1. peer[p].uuid = None
        BY <3>1, RowShapes DEF NoPeer
      <4> QED
        BY <1>2, <2>4, <4>1
    <3>2. ASSUME PeerLive(p), NEW j \in Jobs, LeaveCommit(j, p)
          PROVE  FALSE
      <4>1. Deletes(j, p) /\ job[j].pc = "commit"
        BY <3>2 DEF LeaveCommit
      <4> QED
        BY <1>1, <1>2, <3>2, <4>1 DEF ClientOf
    <3>3. ASSUME PeerLive(p), NEW j \in Jobs, DestroyCommit(j, peer[p].of)
          PROVE  FALSE
      <4>1. peer[p].of = t
        BY <1>1, <1>2, <3>3 DEF ClientOf
      <4>2. Deletes(j, t) /\ job[j].pc = "commit" /\ servers' = servers
        BY <3>3, <4>1 DEF DestroyCommit
      <4>3. ServersOf(t) = {}
        BY <1>1, <4>2 DEF ServerOf
      <4> QED
        BY <4>2, <4>3 DEF ServersOf
    <3>4. PeerLive(p) => \E j \in Jobs : LeaveCommit(j, p) \/ DestroyCommit(j, peer[p].of)
      <4>1. CASE PeerKept(p)
        BY <1>4, <4>1 DEF PeerKept, PeerLive
      <4>2. CASE JoinStep(p) \/ JoinCrash(p)
        <5>1. join[p].pc \notin {"queued", "keys"} /\ "repeated" \notin marks'[p]
          BY <1>1, <1>2 DEF ClientOf, Clean, Disturbed
        <5>2. PeerLive(p) /\ (peer'[p].st = peer[p].st \/ peer'[p].st = "active")
          BY <4>2, <5>1, JoinMoves DEF JoinDues
        <5> QED
          BY <1>4, <5>2 DEF PeerLive, Status
      <4> QED
        BY <2>2, <4>1, <4>2, PeerSteps
    <3> QED
      BY <3>1, <3>2, <3>3, <3>4
  <2> QED
    BY <2>1, <2>2, <2>3, <2>4, PeerSteps
<1> QED
  BY <1>3, <1>4

LEMMA ClientsInit == Init => ClientsAgree
BY DEF Init, ClientsAgree

LEMMA ClientsStep ==
  ASSUME TypeOK, OwnIds, Begun, ServerInv, ClientInv, ClientInv', ClientsAgree, [Next]_vars
  PROVE  ClientsAgree'
<1> SUFFICES ASSUME NEW c \in clients', NEW p, p = c.id[1],
                    c.on \in servers', marks'[p] \cap Disturbed = {},
                    marks'[c.on[1]] \cap Disturbed = {}
             PROVE  c.id \in {peer'[p].uuid, join'[p].uuid}
  BY DEF ClientsAgree, Disturbed
<1>1. /\ c \in [id : ClientIds, on : ServerIds] /\ c.id # None
      /\ p \in Peers /\ c.on[1] \in Tunnels
  BY TypeStep, NoneApart DEF TypeOK, ClientIds, ServerIds
<1> PICK t \in Tunnels : t = c.on[1]
  BY <1>1
<1>2. Clean(p)' /\ Clean(t)'
  BY DEF Clean
<1>3. CASE c \in clients
  <2>1. Clean(p) /\ Clean(t)
    BY <1>1, <1>2, CleanWas
  <2>2. c.on \in servers
    <3>1. setup[t].pc = "done"
      BY <1>3 DEF Begun
    <3>2. ASSUME NEW u \in Tunnels, SetupAddServer(u), c.on \notin servers
          PROVE  FALSE
      <4>1. c.on = NewServer(u) /\ setup[u].pc = "add"
        BY <3>2 DEF SetupAddServer, AddServer
      <4> QED
        BY <3>1, <4>1, NewIds
    <3> QED
      BY <3>2, ServerSteps
  <2>3. c.id \in {peer[p].uuid, join[p].uuid}
    BY <1>3, <2>1, <2>2 DEF ClientsAgree, Clean, Disturbed
  <2> QED
    BY <1>1, <1>2, <1>3, <2>3, ClientNamed
<1>4. CASE c \notin clients
  <2>1. PICK q \in Peers : JoinAddClient(q)
    BY <1>4, ClientSteps
  <2>2. c.id = NewClient(q) /\ q = p
    <3>1. c.id = NewClient(q)
      BY <1>4, <2>1 DEF JoinAddClient, AddClient
    <3> QED
      BY <3>1, NewIds
  <2>3. join'[p].uuid = NewClient(q)
    <3>1. join[p] \in Join
      BY <1>1 DEF TypeOK
    <3>2. join' = [join EXCEPT ![q].pc = "added", ![q].tries = @ + 1,
                               ![q].uuid = NewClient(q), ![q].ip = AddressFor(q)]
      BY <2>1 DEF JoinAddClient
    <3> QED
      BY <1>1, <2>2, <3>1, <3>2 DEF Join, TypeOK
  <2> QED
    BY <2>2, <2>3
<1> QED
  BY <1>3, <1>4

-----------------------------------------------------------------------------
(* Invariance.                                                             *)

LEMMA Invariance == Spec => []IInv
<1>1. Init => IInv
  BY InitTyped, OwnIdsInit, BegunInit, PoolInit, ServerInit, ClientInit, ClientsInit DEF IInv
<1>2. IInv /\ [Next]_vars => IInv'
  <2> SUFFICES ASSUME IInv, [Next]_vars PROVE IInv'
    OBVIOUS
  <2>1. TypeOK' /\ OwnIds' /\ Begun' /\ PoolInv'
    BY TypeStep, OwnIdsStep, BegunStep, PoolStep DEF IInv
  <2>2. ServerInv' /\ ClientInv'
    BY ServerStep, ClientStep DEF IInv
  <2>3. ClientsAgree'
    BY <2>2, ClientsStep DEF IInv
  <2> QED
    BY <2>1, <2>2, <2>3 DEF IInv
<1> QED
  BY <1>1, <1>2, PTL DEF Spec

\* The /24s of wireguard_ip_pool are a pool of leases: what
\* POST /wireguard/tunnels and destroy_wireguard_tunnel_task do to a /24 is
\* what module Leases allows, whatever mishaps and other deletions come
\* between.
THEOREM SubnetsLeasedCorrect == Spec => SubnetsLeased
<1>1. Init => SubnetPool!Init
  <2> SUFFICES ASSUME Init PROVE SubnetPool!Init
    OBVIOUS
  <2>1. \A t \in Tunnels : ~Live(t)
    BY DEF Init, Live, Absent, Status
  <2>2. /\ \A s \in Subnets : pool[s] = "free" /\ "again" \notin marks[s]
        /\ \A s \in Subnets : {t \in Tunnels : Live(t) /\ tunnel[t].net = s} = {}
    BY <2>1 DEF Init
  <2> QED
    BY <2>2 DEF SubnetPool!Init
<1>2. ASSUME IInv, IInv', [Next]_vars
      PROVE  SubnetPool!Next
  <2>1. PoolMoves
    BY <1>2, LeaseMoves DEF IInv
  <2>2. LeaseStep({s \in Subnets : pool[s] = "free"}, {s \in Subnets : pool[s] = "free"}',
                  [s \in Subnets |-> {t \in Tunnels : Live(t) /\ tunnel[t].net = s}],
                  [s \in Subnets |-> {t \in Tunnels : Live(t) /\ tunnel[t].net = s}]',
                  {s \in Subnets : "again" \in marks[s]}, {s \in Subnets : "again" \in marks[s]}')
    BY <2>1 DEF PoolMoves, FreeOnes, HoldersOf, SpoiltOnes
  <2> QED
    BY <2>2 DEF LeaseStep, SubnetPool!Next, SubnetPool!Return, SubnetPool!Lease, SubnetPool!Spoil
<1> QED
  BY <1>1, <1>2, Invariance, PTL DEF Spec, SubnetsLeased, SubnetPool!Spec

\* A server inside OPNsense belongs to the tunnel that names it, or to a task
\* about to save its id, and an active tunnel has its server, unless one of
\* the named mishaps came between: no order of creations, retries and
\* deletions leaves a server that destroy_wireguard_tunnel_task will not find.
THEOREM ServersAgreeCorrect == Spec => []ServersAgree
<1>1. IInv => ServersAgree
  BY ServersFound DEF IInv
<1> QED
  BY <1>1, Invariance, PTL

\* A client inside OPNsense belongs to the peer that names it, or to a task
\* about to save its id, or its server is gone, unless one of the named mishaps
\* came between: nobody keeps access to a tunnel by a client that
\* destroy_wireguard_peer_task and destroy_wireguard_tunnel_task will not find.
THEOREM ClientsAgreeCorrect == Spec => []ClientsAgree
<1>1. IInv => ClientsAgree
  BY DEF IInv
<1> QED
  BY <1>1, Invariance, PTL
=============================================================================
