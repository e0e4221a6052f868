------------------------------ MODULE WireGuard ------------------------------
(***************************************************************************)
(* A tenant's WireGuard tunnels and peers: the requests of                 *)
(* api/wireguard.py, the four tasks of workers/tasks/wireguard.py and the  *)
(* addresses of services/wireguard_ipam.py, with what they leave inside    *)
(* the tenant's OPNsense VM.                                               *)
(*                                                                         *)
(* A task is a sequence of steps, one for each commit and each call of     *)
(* OPNsense.  A task works on the row it loaded after its last commit; a   *)
(* commit expires the row, so that the next use of it reads it again and   *)
(* fails if it is gone, and an update of a row that is gone fails too.  A  *)
(* DELETE of a row that is gone does not (SQLAlchemy only warns).          *)
(*                                                                         *)
(* The networks a tunnel may reach and their firewall rules are in module  *)
(* WireGuardAccess.  Left out: what no property tells apart (names, MTU,   *)
(* DNS, keys, keepalive, endpoints) and listen ports.                      *)
(***************************************************************************)
EXTENDS Naturals, Sequences, FiniteSets

CONSTANTS
    Tunnels,        \* ids of tunnel rows, in order: bounds the tunnels ever created
    Peers,          \* ids of peer rows, in order
    Subnets,        \* the /24 rows of wireguard_ip_pool
    Jobs,           \* deletions under way at most, in order
    Hosts,          \* host numbers a peer may get, the gateway's left out
    Retries,        \* max_retries of the tasks
    MaxMishaps,     \* bound on failing calls and crashes
    None            \* the SQL NULL

ASSUME WireGuardAssumption ==
    /\ Tunnels \subseteq Nat /\ Jobs \subseteq Nat /\ Hosts \subseteq Nat
    /\ Retries \in Nat /\ MaxMishaps \in Nat
    /\ Tunnels \cap Peers = {}
    /\ None \notin Tunnels \cup Peers \cup Subnets \cup ((Tunnels \cup Peers) \X Nat)

VARIABLES
    tunnel,     \* table wireguard_tunnels
    pool,       \* status of each row of wireguard_ip_pool
    peer,       \* table wireguard_peers
    setup,      \* the provision_wireguard_tunnel message of each tunnel
    join,       \* the provision_wireguard_peer message of each peer
    job,        \* destroy_wireguard_tunnel and destroy_wireguard_peer messages
    servers,    \* OPNsense: WireGuard servers, each <<tunnel, attempt>>
    clients,    \* OPNsense: WireGuard clients [id |-> <<peer, attempt>>, on |-> server]
    mishaps,    \* mishaps so far
    marks       \* history: what has disturbed each tunnel, peer and /24

tunnelVars == <<tunnel, pool, setup, servers>>
peerVars == <<peer, join, clients>>
vars == <<tunnelVars, peerVars, job, mishaps, marks>>

-----------------------------------------------------------------------------
Status == {"pending", "provisioning", "active", "error", "destroying"}
ServerIds == Tunnels \X Nat
ClientIds == Peers \X Nat

Absent(st) == [st |-> st, net |-> None, uuid |-> None]
Tunnel == {Absent("unused"), Absent("gone")}
          \cup [st : Status, net : Subnets, uuid : ServerIds \cup {None}]

\* A stored address: the host number, and whether it was stored with a "/32".
Address == [host : Hosts, slash : BOOLEAN]
NoPeer(st) == [st |-> st, of |-> None, ip |-> None, uuid |-> None]
Peer == {NoPeer("unused"), NoPeer("gone")}
        \cup [st : Status, of : Tunnels, ip : Address \cup {None},
              uuid : ClientIds \cup {None}]

\* left: retries left; tries: calls that create a server or client so far;
\* uuid: the one created last, until it is saved.
SetupPc == {"none", "lost", "queued", "add", "added", "saved", "done"}
Setup == [pc : SetupPc, left : 0..Retries, tries : Nat, uuid : ServerIds \cup {None}]

JoinPc == {"none", "lost", "queued", "keys", "added", "saved", "done"}
Join == [pc : JoinPc, left : 0..Retries, tries : Nat, uuid : ClientIds \cup {None},
         ip : Address \cup {None}]

\* A deletion holds what its task has read of the row.
NoJob == [pc |-> "idle"]
Job == {NoJob}
       \cup [pc : {"queued", "call", "commit"}, of : Tunnels \cup Peers,
             uuid : ServerIds \cup ClientIds \cup {None}, net : Subnets \cup {None}]

Marks == {"raced",      \* deleted while its provisioning task was due
          "repeated",   \* its task failed or died after creating a server or client
          "call",       \* OPNsense did not delete its server or client
          "again"}      \* two deletions of the tunnel that has the /24 were under way

TypeOK ==
    /\ tunnel \in [Tunnels -> Tunnel]
    /\ pool \in [Subnets -> {"free", "allocated"}]
    /\ peer \in [Peers -> Peer]
    /\ setup \in [Tunnels -> Setup]
    /\ join \in [Peers -> Join]
    /\ job \in [Jobs -> Job]
    /\ servers \subseteq ServerIds
    /\ clients \subseteq [id : ClientIds, on : ServerIds]
    /\ mishaps \in 0..MaxMishaps
    /\ marks \in [Tunnels \cup Peers \cup Subnets -> SUBSET Marks]

-----------------------------------------------------------------------------
Live(t) == tunnel[t].st \in Status
PeerLive(p) == peer[p].st \in Status
FreeSubnets == {s \in Subnets : pool[s] = "free"}
SetupDue(t) == setup[t].pc \notin {"none", "lost", "done"}
JoinDue(p) == join[p].pc \notin {"none", "lost", "done"}
Deletes(j, x) == job[j] # NoJob /\ job[j].of = x
NextJob(j) == job[j] = NoJob /\ \A k \in Jobs : k < j => job[k] # NoJob

Mishap == mishaps < MaxMishaps /\ mishaps' = mishaps + 1
Marked(S, m) == [x \in DOMAIN marks |-> IF x \in S THEN marks[x] \cup {m} ELSE marks[x]]
Mark(S, m) == marks' = Marked(S, m)

Init ==
    /\ tunnel = [t \in Tunnels |-> Absent("unused")]
    /\ pool = [s \in Subnets |-> "free"]
    /\ peer = [p \in Peers |-> NoPeer("unused")]
    /\ setup = [t \in Tunnels |-> [pc |-> "none", left |-> Retries, tries |-> 0,
                                   uuid |-> None]]
    /\ join = [p \in Peers |-> [pc |-> "none", left |-> Retries, tries |-> 0,
                                uuid |-> None, ip |-> None]]
    /\ job = [j \in Jobs |-> NoJob]
    /\ servers = {} /\ clients = {}
    /\ mishaps = 0
    /\ marks = [x \in Tunnels \cup Peers \cup Subnets |-> {}]

-----------------------------------------------------------------------------
(* POST /wireguard/tunnels.                                                *)

\* A message follows the commit, unless the thread dies.
Sent == {"queued"} \cup (IF mishaps < MaxMishaps THEN {"lost"} ELSE {})
CountLost(pc) == mishaps' = IF pc = "lost" THEN mishaps + 1 ELSE mishaps

\* The pool row stays locked until the commit.
CreateTunnel(t, s) ==
    /\ tunnel[t].st = "unused" /\ \A u \in Tunnels : u < t => tunnel[u].st # "unused"
    /\ s \in FreeSubnets
    /\ tunnel' = [tunnel EXCEPT ![t] = [st |-> "pending", net |-> s, uuid |-> None]]
    /\ pool' = [pool EXCEPT ![s] = "allocated"]
    /\ \E pc \in Sent : /\ setup' = [setup EXCEPT ![t].pc = pc] /\ CountLost(pc)
    /\ UNCHANGED <<servers, peerVars, job, marks>>

-----------------------------------------------------------------------------
(* provision_wireguard_tunnel_task.                                        *)

Reset(m) == [m EXCEPT !.pc = "queued", !.uuid = None]
SetupDone == [pc |-> "done", left |-> 0, tries |-> 0, uuid |-> None]
\* Mutant: retries are never exhausted.
RetriedAlways(m) == [Reset(m) EXCEPT !.left = @ - 1]
Retried(m) == IF m.left > 0 THEN [Reset(m) EXCEPT !.left = @ - 1] ELSE SetupDone
SetupTo(t, pc) == setup' = [setup EXCEPT ![t].pc = pc]

\* Mutant: only a pending tunnel is provisioned.
SetupStartOnce(t) ==
    /\ setup[t].pc = "queued"
    /\ IF tunnel[t].st # "pending"
       THEN setup' = [setup EXCEPT ![t] = SetupDone] /\ UNCHANGED tunnel
       ELSE SetupTo(t, "add") /\ tunnel' = [tunnel EXCEPT ![t].st = "provisioning"]
    /\ UNCHANGED <<pool, servers, peerVars, job, mishaps, marks>>

SetupStart(t) ==
    /\ setup[t].pc = "queued"
    /\ IF ~Live(t) \/ tunnel[t].st = "active"
       THEN setup' = [setup EXCEPT ![t] = SetupDone] /\ UNCHANGED tunnel
       ELSE SetupTo(t, "add") /\ tunnel' = [tunnel EXCEPT ![t].st = "provisioning"]
    /\ UNCHANGED <<pool, servers, peerVars, job, mishaps, marks>>

\* OPNsense gives each server an id of its own.
NewServer(t) == <<t, setup[t].tries + 1>>
AddServer(t) == servers' = servers \cup {NewServer(t)}

\* Makes the keys, reads the row again and creates the server.
SetupAddServer(t) ==
    /\ setup[t].pc = "add" /\ Live(t)
    /\ AddServer(t)
    /\ setup' = [setup EXCEPT ![t].pc = "added", ![t].tries = @ + 1, ![t].uuid = NewServer(t)]
    /\ UNCHANGED <<tunnel, pool, peerVars, job, mishaps, marks>>

\* Sets the server's endpoint; only then the server's id is committed.
\* Mutant: the id of the server is not written to the row.
SetupSaveNothing(t) ==
    /\ setup[t].pc = "added" /\ Live(t)
    /\ SetupTo(t, "saved")
    /\ UNCHANGED <<tunnel, pool, servers, peerVars, job, mishaps, marks>>

SetupSave(t) ==
    /\ setup[t].pc = "added" /\ Live(t)
    /\ tunnel' = [tunnel EXCEPT ![t].uuid = setup[t].uuid]
    /\ SetupTo(t, "saved")
    /\ UNCHANGED <<pool, servers, peerVars, job, mishaps, marks>>

\* Enables the service, asks for the server's device, adds the interface and
\* the rules (see module WireGuardAccess), and writes the status.
SetupActivate(t) ==
    /\ setup[t].pc = "saved" /\ Live(t) /\ setup[t].uuid \in servers
    /\ tunnel' = [tunnel EXCEPT ![t].st = "active"]
    /\ setup' = [setup EXCEPT ![t] = SetupDone]
    /\ UNCHANGED <<pool, servers, peerVars, job, mishaps, marks>>

ServerMade == {"added", "saved"}

\* The row is gone, or the server is when its device is asked for.
SetupStuck(t) ==
    \/ ~Live(t) /\ setup[t].pc \in {"add"} \cup ServerMade
    \/ setup[t].pc = "saved" /\ setup[t].uuid \notin servers

SetupFail(t) ==
    /\ \/ SetupStuck(t) /\ UNCHANGED mishaps
       \/ setup[t].pc \in {"add"} \cup ServerMade /\ Mishap
    /\ IF Live(t) THEN tunnel' = [tunnel EXCEPT ![t].st = "error"] ELSE UNCHANGED tunnel
    /\ setup' = [setup EXCEPT ![t] = Retried(@)]
    /\ IF setup[t].pc \in ServerMade THEN Mark({t}, "repeated") ELSE UNCHANGED marks
    /\ UNCHANGED <<pool, servers, peerVars, job>>

\* The worker dies and the message is delivered again.
SetupCrash(t) ==
    /\ setup[t].pc \in {"add"} \cup ServerMade
    /\ Mishap
    /\ setup' = [setup EXCEPT ![t] = Reset(@)]
    /\ IF setup[t].pc \in ServerMade THEN Mark({t}, "repeated") ELSE UNCHANGED marks
    /\ UNCHANGED <<tunnel, pool, servers, peerVars, job>>

-----------------------------------------------------------------------------
(* The requests and the task of a peer.                                    *)

CreatePeer(p, t) ==
    /\ peer[p].st = "unused" /\ tunnel[t].st = "active"
    /\ peer' = [peer EXCEPT ![p] = [st |-> "pending", of |-> t, ip |-> None, uuid |-> None]]
    /\ \E pc \in Sent : join' = [join EXCEPT ![p].pc = pc] /\ CountLost(pc)
    /\ UNCHANGED <<tunnelVars, clients, job, marks>>

JoinTo(p, pc) == join' = [join EXCEPT ![p].pc = pc]
JoinReset(m) == [m EXCEPT !.pc = "queued", !.uuid = None, !.ip = None]
JoinRetried(m) == [JoinReset(m) EXCEPT !.left = @ - 1]
JoinDone == [pc |-> "done", left |-> 0, tries |-> 0, uuid |-> None, ip |-> None]
Joinable(p) == tunnel[peer[p].of].st = "active" /\ tunnel[peer[p].of].uuid # None

JoinStart(p) ==
    /\ join[p].pc = "queued"
    /\ \/ /\ ~PeerLive(p)
          /\ join' = [join EXCEPT ![p] = JoinDone]
          /\ UNCHANGED peer
       \/ /\ PeerLive(p) /\ Joinable(p)
          /\ JoinTo(p, "keys")
          /\ peer' = [peer EXCEPT ![p].st = "provisioning"]
    /\ UNCHANGED <<tunnelVars, clients, job, mishaps, marks>>

\* Only addresses that carry a "/" count as taken.
Taken(t) == {peer[q].ip.host : q \in {r \in Peers : PeerLive(r) /\ peer[r].of = t
                                                    /\ peer[r].ip # None /\ peer[r].ip.slash}}
FreeHosts(t) == Hosts \ Taken(t)
Lowest(S) == CHOOSE h \in S : \A g \in S : h <= g

\* The address is returned, and later stored, without its "/32".
AddressFor(p) == IF peer[p].ip # None THEN peer[p].ip
                 ELSE [host |-> Lowest(FreeHosts(peer[p].of)), slash |-> FALSE]

\* OPNsense does not tell the id of a new client: it is looked for by its key,
\* among the first 100.  If it is not found, the client is there and the call
\* fails: JoinFail right after this step.
NewClient(p) == <<p, join[p].tries + 1>>
AddClient(p) ==
    LET on == tunnel[peer[p].of].uuid
    IN  /\ on \in servers
        /\ clients' = clients \cup {[id |-> NewClient(p), on |-> on]}

\* Makes the keys, reads peer and tunnel again, chooses the address and creates
\* the client.
JoinAddClient(p) ==
    /\ join[p].pc = "keys" /\ PeerLive(p)
    /\ peer[p].ip # None \/ FreeHosts(peer[p].of) # {}
    /\ AddClient(p)
    /\ join' = [join EXCEPT ![p].pc = "added", ![p].tries = @ + 1, ![p].uuid = NewClient(p),
                            ![p].ip = AddressFor(p)]
    /\ UNCHANGED <<tunnelVars, peer, job, mishaps, marks>>

\* Mutant: the id of the client is not written to the row.
JoinSaveAddress(p) ==
    /\ join[p].pc = "added" /\ PeerLive(p)
    /\ peer' = [peer EXCEPT ![p].ip = join[p].ip]
    /\ JoinTo(p, "saved")
    /\ UNCHANGED <<tunnelVars, clients, job, mishaps, marks>>

JoinSave(p) ==
    /\ join[p].pc = "added" /\ PeerLive(p)
    /\ peer' = [peer EXCEPT ![p].uuid = join[p].uuid, ![p].ip = join[p].ip]
    /\ JoinTo(p, "saved")
    /\ UNCHANGED <<tunnelVars, clients, job, mishaps, marks>>

\* Reconfigures the service.
JoinFinish(p) ==
    /\ join[p].pc = "saved" /\ PeerLive(p)
    /\ peer' = [peer EXCEPT ![p].st = "active"]
    /\ join' = [join EXCEPT ![p] = JoinDone]
    /\ UNCHANGED <<tunnelVars, clients, job, mishaps, marks>>

ClientMade == {"added", "saved"}

JoinStuck(p) ==
    \/ ~PeerLive(p) /\ join[p].pc \in {"keys"} \cup ClientMade
    \/ PeerLive(p) /\ join[p].pc = "queued" /\ ~Joinable(p)
    \/ /\ PeerLive(p) /\ join[p].pc = "keys"
       /\ \/ peer[p].ip = None /\ FreeHosts(peer[p].of) = {}
          \/ tunnel[peer[p].of].uuid \notin servers

\* The handler sends the message again before the exception that says so is
\* swallowed; after the last retry the peer is set to error, then deleted.
JoinFail(p) ==
    /\ \/ JoinStuck(p) /\ UNCHANGED mishaps
       \/ join[p].pc \in {"keys"} \cup ClientMade /\ Mishap
    /\ IF PeerLive(p) /\ join[p].left > 0
       THEN /\ join' = [join EXCEPT ![p] = JoinRetried(@)]
            /\ UNCHANGED peer
       ELSE /\ join' = [join EXCEPT ![p] = JoinDone]
            /\ peer' = [peer EXCEPT ![p] = NoPeer("gone")]
    /\ IF join[p].pc \in ClientMade THEN Mark({p}, "repeated") ELSE UNCHANGED marks
    /\ UNCHANGED <<tunnelVars, clients, job>>

JoinCrash(p) ==
    /\ join[p].pc \in {"keys"} \cup ClientMade
    /\ Mishap
    /\ join' = [join EXCEPT ![p] = JoinReset(@)]
    /\ IF join[p].pc \in ClientMade THEN Mark({p}, "repeated") ELSE UNCHANGED marks
    /\ UNCHANGED <<tunnelVars, peer, clients, job>>

-----------------------------------------------------------------------------
(* DELETE /wireguard/tunnels/{id}, which looks at no status and only sends *)
(* a message, and destroy_wireguard_tunnel_task: one step starts both.     *)

\* What the task reads of the row stays in the job.  One that was delivered
\* again ends if the row is gone.
DestroyStart(j, t) ==
    LET row == [tunnel[t] EXCEPT !.st = "destroying"]
        twice == \E k \in Jobs \ {j} : Deletes(k, t) /\ job[k].pc # "queued"
    IN  IF Live(t)
        THEN /\ tunnel' = [tunnel EXCEPT ![t] = row]
             /\ job' = [job EXCEPT ![j] = [pc |-> IF row.uuid # None THEN "call" ELSE "commit",
                                           of |-> t, uuid |-> row.uuid, net |-> row.net]]
             /\ marks' = [x \in DOMAIN marks |->
                             marks[x] \cup (IF x = t /\ SetupDue(t) THEN {"raced"} ELSE {})
                                      \cup (IF x = row.net /\ twice THEN {"again"} ELSE {})]
        ELSE job' = [job EXCEPT ![j] = NoJob] /\ UNCHANGED <<tunnel, marks>>

DeleteTunnel(j, t) ==
    /\ NextJob(j) /\ Live(t)
    /\ DestroyStart(j, t)
    /\ UNCHANGED <<pool, setup, servers, peerVars, mishaps>>

DestroyAgain(j, t) ==
    /\ Deletes(j, t) /\ job[j].pc = "queued"
    /\ DestroyStart(j, t)
    /\ UNCHANGED <<pool, setup, servers, peerVars, mishaps>>

DelServer(uuid) == servers' = servers \ {uuid}

\* A failure is logged, and the task goes on.
DestroyServer(j, t) ==
    /\ Deletes(j, t) /\ job[j].pc = "call"
    /\ job' = [job EXCEPT ![j].pc = "commit"]
    /\ \/ /\ DelServer(job[j].uuid)
          /\ UNCHANGED <<mishaps, marks>>
       \/ Mishap /\ Mark({t}, "call") /\ UNCHANGED servers
    /\ UNCHANGED <<tunnel, pool, setup, peerVars>>

PeersOf(t) == {p \in Peers : PeerLive(p) /\ peer[p].of = t}

\* Mutant: the /24 is not returned.
DestroyCommitKeeping(j, t) ==
    /\ Deletes(j, t) /\ job[j].pc = "commit"
    /\ job' = [job EXCEPT ![j] = NoJob]
    /\ tunnel' = [tunnel EXCEPT ![t] = Absent("gone")]
    /\ peer' = [p \in Peers |-> IF p \in PeersOf(t) THEN NoPeer("gone") ELSE peer[p]]
    /\ UNCHANGED <<pool, setup, servers, join, clients, mishaps, marks>>

DestroyCommit(j, t) ==
    /\ Deletes(j, t) /\ job[j].pc = "commit"
    /\ job' = [job EXCEPT ![j] = NoJob]
    /\ pool' = [pool EXCEPT ![job[j].net] = "free"]
    /\ tunnel' = [tunnel EXCEPT ![t] = Absent("gone")]
    /\ peer' = [p \in Peers |-> IF p \in PeersOf(t) THEN NoPeer("gone") ELSE peer[p]]
    /\ UNCHANGED <<setup, servers, join, clients, mishaps, marks>>

-----------------------------------------------------------------------------
(* DELETE /wireguard/tunnels/{id}/peers/{id}, in the same way, and         *)
(* destroy_wireguard_peer_task.                                            *)

LeaveStart(j, p) ==
    IF PeerLive(p)
    THEN /\ job' = [job EXCEPT ![j] = [pc |-> IF peer[p].uuid # None THEN "call" ELSE "commit",
                                       of |-> p, uuid |-> peer[p].uuid, net |-> None]]
         /\ IF JoinDue(p) THEN Mark({p}, "raced") ELSE UNCHANGED marks
    ELSE job' = [job EXCEPT ![j] = NoJob] /\ UNCHANGED marks

DeletePeer(j, p) ==
    /\ NextJob(j) /\ PeerLive(p)
    /\ LeaveStart(j, p)
    /\ UNCHANGED <<tunnelVars, peerVars, mishaps>>

LeaveAgain(j, p) ==
    /\ Deletes(j, p) /\ job[j].pc = "queued"
    /\ LeaveStart(j, p)
    /\ UNCHANGED <<tunnelVars, peerVars, mishaps>>

DelClient(uuid) == clients' = {c \in clients : c.id # uuid}

LeaveClient(j, p) ==
    /\ Deletes(j, p) /\ job[j].pc = "call"
    /\ job' = [job EXCEPT ![j].pc = "commit"]
    /\ \/ /\ DelClient(job[j].uuid)
          /\ UNCHANGED <<mishaps, marks>>
       \/ Mishap /\ Mark({p}, "call") /\ UNCHANGED clients
    /\ UNCHANGED <<tunnelVars, peer, join>>

LeaveCommit(j, p) ==
    /\ Deletes(j, p) /\ job[j].pc = "commit"
    /\ job' = [job EXCEPT ![j] = NoJob]
    /\ peer' = [peer EXCEPT ![p] = NoPeer("gone")]
    /\ UNCHANGED <<tunnelVars, join, clients, mishaps, marks>>

\* The worker of a deletion dies and the message is delivered again.
JobCrash(j) ==
    /\ job[j] # NoJob /\ job[j].pc # "queued"
    /\ Mishap
    /\ job' = [job EXCEPT ![j].pc = "queued", ![j].uuid = None, ![j].net = None]
    /\ UNCHANGED <<tunnelVars, peerVars, marks>>

-----------------------------------------------------------------------------
SetupStep(t) ==
    \/ SetupStart(t) \/ SetupAddServer(t) \/ SetupSave(t)
    \/ SetupActivate(t) \/ SetupFail(t)
JoinStep(p) ==
    \/ JoinStart(p) \/ JoinAddClient(p) \/ JoinSave(p) \/ JoinFinish(p)
    \/ JoinFail(p)
DestroyStep(j, t) == DestroyAgain(j, t) \/ DestroyServer(j, t) \/ DestroyCommit(j, t)
LeaveStep(j, p) == LeaveAgain(j, p) \/ LeaveClient(j, p) \/ LeaveCommit(j, p)

TunnelNext ==
    \E t \in Tunnels :
        \/ \E s \in Subnets : CreateTunnel(t, s)
        \/ SetupStep(t) \/ SetupCrash(t)
        \/ \E j \in Jobs : DeleteTunnel(j, t) \/ DestroyStep(j, t)

PeerNext ==
    \E p \in Peers :
        \/ \E t \in Tunnels : CreatePeer(p, t)
        \/ JoinStep(p) \/ JoinCrash(p)
        \/ \E j \in Jobs : DeletePeer(j, p) \/ LeaveStep(j, p)

Next ==
    \/ TunnelNext
    \/ PeerNext
    \/ \E j \in Jobs : JobCrash(j)

\* The broker delivers, and workers finish what they hold.
Fairness ==
    /\ \A t \in Tunnels : WF_vars(SetupStep(t))
    /\ \A p \in Peers : WF_vars(JoinStep(p))
    /\ \A j \in Jobs : /\ \A t \in Tunnels : WF_vars(DestroyStep(j, t))
                       /\ \A p \in Peers : WF_vars(LeaveStep(j, p))

Spec == Init /\ [][Next]_vars /\ Fairness

-----------------------------------------------------------------------------
\* The /24 pool is a pool of leases (module Leases): a /24 belongs to the one
\* tunnel that has it until it is returned, and an allocated one has a tunnel
\* that will return it.  It is spoilt when two deletions of its tunnel are
\* under way at once: the second returns a /24 that another tunnel may have
\* received by then (tasks/wireguard.py:439-440, which looks at the id only).
SubnetPool == INSTANCE Leases WITH
    Rows <- Subnets, Users <- Tunnels,
    free <- {s \in Subnets : pool[s] = "free"},
    holders <- [s \in Subnets |-> {t \in Tunnels : Live(t) /\ tunnel[t].net = s}],
    spoilt <- {s \in Subnets : "again" \in marks[s]}

SubnetsLeased == SubnetPool!Spec

\* A server inside OPNsense belongs to the tunnel that names it, or to a task
\* about to save its id, and an active tunnel has its server; unless the
\* tunnel was deleted while its task was due, the task failed or died after
\* the call, or OPNsense refused the deletion.
ServersAgree ==
    \A t \in Tunnels : marks[t] \cap {"raced", "repeated", "call"} = {} =>
        /\ tunnel[t].st = "active" => tunnel[t].uuid \in servers
        /\ \A id \in servers : id[1] = t => id \in {tunnel[t].uuid, setup[t].uuid}

\* A client inside OPNsense gives access to the tunnel; so a peer that was
\* deleted has none left on a server that still exists, under the same
\* provisos for the peer and its tunnel.
ClientsAgree ==
    \A c \in clients :
        LET p == c.id[1] IN
        \/ c.on \notin servers
        \/ c.id \in {peer[p].uuid, join[p].uuid}
        \/ marks[p] \cap {"raced", "repeated", "call"} # {}
        \/ marks[c.on[1]] \cap {"raced", "repeated", "call"} # {}

\* Every tunnel and peer leaves the states that only a task can end, unless
\* its message was never sent; a deleted one goes.
Settles ==
    <>[](/\ \A t \in Tunnels : tunnel[t].st \in {"pending", "provisioning", "destroying"} =>
                                   setup[t].pc = "lost"
         /\ \A p \in Peers : peer[p].st \in {"pending", "provisioning"} => join[p].pc = "lost")
=============================================================================
