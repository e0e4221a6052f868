------------------------------ MODULE Networks ------------------------------
(***************************************************************************)
(* Additional tenant networks: the IPAM tables (global_ip_pool and         *)
(* vlan_allocations), the create and delete handlers of api/networks.py    *)
(* and the create_opnsense_vlan task of workers/tasks/vlan.py.             *)
(*                                                                         *)
(* Every handler runs in a database transaction of its own.  A row chosen  *)
(* by SELECT ... FOR UPDATE SKIP LOCKED stays locked until the transaction *)
(* ends and other transactions pass over it; plain reads take no lock and  *)
(* see the last committed value.  The session factory has autoflush off,   *)
(* so a handler's writes reach the database in one piece, at its commit,   *)
(* and an attribute assigned the value it was loaded with is not written.  *)
(*                                                                         *)
(* Tenants start approved: each has a pod and a default network row, the   *)
(* state approve_tenant leaves behind.                                     *)
(***************************************************************************)
EXTENDS Naturals, FiniteSets

CONSTANTS
    Tenants,        \* approved tenants
    Pods,           \* placement pods; VLAN tags are allocated per pod
    PodOf,          \* [Tenants -> Pods], tenant.pod_id
    Safe,           \* /24 rows of the 172.16.0.0/12 pool
    Overflow,       \* /24 rows of the 10.0.0.0/8 pool
    VlanTags,       \* tags seeded in every pod (10..4094 in production)
    NetIds,         \* primary keys of tenant_networks: bounds the creations
    DefaultNet,     \* [Tenants -> NetIds], the default network's row
    DefaultSubnet,  \* [Tenants -> Safe], the default network's /24
    OpnVms,         \* OPNsense virtual machines
    OpnVmOf,        \* [Tenants -> OpnVms], tenant.opnsense_vm_id
    DefaultOpnVm,   \* settings.DEFAULT_OPNSENSE_VM_ID
    Workers,        \* API threads
    MaxRetries,     \* max_retries of create_opnsense_vlan
    MaxCrashes,     \* bound on crashes of API threads and Celery workers
    None            \* the SQL NULL

Subnets == Safe \cup Overflow
Tags == Pods \X VlanTags

ASSUME NetworksAssumption ==
    /\ PodOf \in [Tenants -> Pods]
    /\ VlanTags \subseteq Nat \ {0}
    /\ NetIds \subseteq Nat \ {0}
    /\ DefaultNet \in [Tenants -> NetIds]
    /\ DefaultSubnet \in [Tenants -> Safe]
    /\ \A t, u \in Tenants :
          t # u => DefaultNet[t] # DefaultNet[u] /\ DefaultSubnet[t] # DefaultSubnet[u]
    /\ OpnVmOf \in [Tenants -> OpnVms]
    /\ DefaultOpnVm \in OpnVms
    /\ MaxRetries \in Nat
    /\ MaxCrashes \in Nat
    /\ None \notin Tenants \cup Pods \cup Subnets \cup VlanTags \cup NetIds

VARIABLES
    subnet,     \* global_ip_pool.status
    vlan,       \* vlan_allocations.status
    status,     \* tenant_networks.status, "none" before the row is inserted
    nets,       \* the columns of tenant_networks that never change
    req,        \* the request each API thread is serving
    task,       \* where the create_opnsense_vlan task of a network is
    retries,    \* how often that task was retried
    found,      \* whether its lookup found a network (network_exists)
    target,     \* the id it writes to (network_id)
    iface,      \* VLAN interfaces configured inside the OPNsense VMs
    crashes,    \* crashes so far
    reopened    \* history: rows whose deletion did not stay final

netVars == <<status, nets>>
taskVars == <<task, retries, found, target>>
vars == <<subnet, vlan, status, nets, req, task, retries, found, target,
          iface, crashes, reopened>>

-----------------------------------------------------------------------------
(* Rows and their types.                                                   *)

LiveStatus == {"pending", "provisioning", "active", "error"}
NoRow == [tenant |-> None, pod |-> None, subnet |-> None, vlan |-> None,
          default |-> FALSE]
Row == [tenant : Tenants, pod : Pods, subnet : Subnets,
        vlan : VlanTags \cup {None}, default : BOOLEAN]

Idle == [pc |-> "idle"]
CreateReq == [pc : {"subnet"}, tenant : Tenants, subnet : Subnets]
CreateFullReq == [pc : {"vlan"}, tenant : Tenants, subnet : Subnets, vlan : VlanTags]
DispatchReq == [pc : {"dispatch"}, net : NetIds]
DeleteReq == [pc : {"delete"}, net : NetIds, sawDeleted : BOOLEAN,
              sawSubnet : BOOLEAN, sawVlan : BOOLEAN]
Request == {Idle} \cup CreateReq \cup CreateFullReq \cup DispatchReq \cup DeleteReq

TaskPc == {"none", "queued", "looked", "marked", "configured", "done", "failed"}

TypeOK ==
    /\ subnet \in [Subnets -> {"free", "allocated"}]
    /\ vlan \in [Tags -> {"free", "allocated"}]
    /\ status \in [NetIds -> LiveStatus \cup {"none", "deleted"}]
    /\ nets \in [NetIds -> Row \cup {NoRow}]
    /\ req \in [Workers -> Request]
    /\ task \in [NetIds -> TaskPc]
    /\ retries \in [NetIds -> 0..MaxRetries]
    /\ found \in [NetIds -> BOOLEAN]
    /\ target \in [NetIds -> Nat]
    /\ iface \in [OpnVms \X VlanTags -> Subnets \cup {None}]
    /\ crashes \in 0..MaxCrashes
    /\ reopened \subseteq NetIds

-----------------------------------------------------------------------------
(* State predicates.                                                       *)

Live(n) == status[n] \in LiveStatus
Exists(n) == status[n] # "none"
TagOf(n) == <<nets[n].pod, nets[n].vlan>>
Unused == {n \in NetIds : ~Exists(n)}

Creating == {p \in Workers : req[p].pc \in {"subnet", "vlan"}}
LockedSubnets == {req[p].subnet : p \in Creating}
LockedTags == {<<PodOf[req[p].tenant], req[p].vlan>> :
                  p \in {q \in Workers : req[q].pc = "vlan"}}

\* Mutant: SKIP LOCKED left out, so two transactions may take one row.
FreeSubnetsUnlocked ==
    LET Available(pool) == {s \in pool : subnet[s] = "free"}
    IN  IF Available(Safe) # {} THEN Available(Safe) ELSE Available(Overflow)

\* The rows allocate_subnet may be given: the safe pool, and the overflow
\* pool only when the safe pool has no free unlocked row.
FreeSubnets ==
    LET Available(pool) == {s \in pool : subnet[s] = "free" /\ s \notin LockedSubnets}
    IN  IF Available(Safe) # {} THEN Available(Safe) ELSE Available(Overflow)

\* The rows allocate_vlan may be given for a pod.
FreeTags(pod) ==
    {v \in VlanTags : vlan[<<pod, v>>] = "free" /\ <<pod, v>> \notin LockedTags}

-----------------------------------------------------------------------------
Init ==
    /\ subnet = [s \in Subnets |->
                    IF \E t \in Tenants : DefaultSubnet[t] = s THEN "allocated" ELSE "free"]
    /\ vlan = [x \in Tags |-> "free"]
    /\ status = [n \in NetIds |->
                    IF \E t \in Tenants : DefaultNet[t] = n THEN "active" ELSE "none"]
    /\ nets = [n \in NetIds |->
                  IF \E t \in Tenants : DefaultNet[t] = n
                  THEN LET t == CHOOSE u \in Tenants : DefaultNet[u] = n
                       IN  [tenant |-> t, pod |-> PodOf[t], subnet |-> DefaultSubnet[t],
                            vlan |-> None, default |-> TRUE]
                  ELSE NoRow]
    /\ req = [p \in Workers |-> Idle]
    /\ task = [n \in NetIds |-> "none"]
    /\ retries = [n \in NetIds |-> 0]
    /\ found = [n \in NetIds |-> FALSE]
    /\ target = [n \in NetIds |-> 0]
    /\ iface = [x \in OpnVms \X VlanTags |-> None]
    /\ crashes = 0
    /\ reopened = {}

-----------------------------------------------------------------------------
(* POST /networks: one transaction that locks a subnet row, then a VLAN    *)
(* row, and inserts the network.                                           *)

CreateTakeSubnet(p, t) ==
    /\ req[p].pc = "idle"
    /\ \/ Cardinality(Creating) < Cardinality(Unused)   \* bound: NetIds
       \/ FreeTags(PodOf[t]) = {}
    /\ \E s \in FreeSubnets :
          req' = [req EXCEPT ![p] = [pc |-> "subnet", tenant |-> t, subnet |-> s]]
    /\ UNCHANGED <<subnet, vlan, netVars, taskVars, iface, crashes, reopened>>

CreateTakeVlan(p) ==
    /\ req[p].pc = "subnet"
    /\ \E v \in FreeTags(PodOf[req[p].tenant]) :
          req' = [req EXCEPT ![p] = [pc |-> "vlan", tenant |-> req[p].tenant,
                                     subnet |-> req[p].subnet, vlan |-> v]]
    /\ UNCHANGED <<subnet, vlan, netVars, taskVars, iface, crashes, reopened>>

\* allocate_vlan raises; closing the session rolls the transaction back.
CreateOutOfVlans(p) ==
    /\ req[p].pc = "subnet"
    /\ FreeTags(PodOf[req[p].tenant]) = {}
    /\ req' = [req EXCEPT ![p] = Idle]
    /\ UNCHANGED <<subnet, vlan, netVars, taskVars, iface, crashes, reopened>>

\* Mutant: the VLAN row is not marked.
CreateCommitUnmarked(p) ==
    /\ req[p].pc = "vlan"
    /\ \E n \in Unused :
          LET r == req[p] IN
          /\ \A m \in Unused : n <= m
          /\ subnet' = [subnet EXCEPT ![r.subnet] = "allocated"]
          /\ UNCHANGED vlan
          /\ status' = [status EXCEPT ![n] = "pending"]
          /\ nets' = [nets EXCEPT ![n] =
                         [tenant |-> r.tenant, pod |-> PodOf[r.tenant], subnet |-> r.subnet,
                          vlan |-> r.vlan, default |-> FALSE]]
          /\ req' = [req EXCEPT ![p] = [pc |-> "dispatch", net |-> n]]
    /\ UNCHANGED <<taskVars, iface, crashes, reopened>>

CreateCommit(p) ==
    /\ req[p].pc = "vlan"
    /\ \E n \in Unused :
          LET r == req[p] IN
          /\ \A m \in Unused : n <= m
          /\ subnet' = [subnet EXCEPT ![r.subnet] = "allocated"]
          /\ vlan' = [vlan EXCEPT ![<<PodOf[r.tenant], r.vlan>>] = "allocated"]
          /\ status' = [status EXCEPT ![n] = "pending"]
          /\ nets' = [nets EXCEPT ![n] =
                         [tenant |-> r.tenant, pod |-> PodOf[r.tenant], subnet |-> r.subnet,
                          vlan |-> r.vlan, default |-> FALSE]]
          /\ req' = [req EXCEPT ![p] = [pc |-> "dispatch", net |-> n]]
    /\ UNCHANGED <<taskVars, iface, crashes, reopened>>

\* create_opnsense_vlan.delay, after the commit.
CreateDispatch(p) ==
    /\ req[p].pc = "dispatch"
    /\ task' = [task EXCEPT ![req[p].net] = "queued"]
    /\ req' = [req EXCEPT ![p] = Idle]
    /\ UNCHANGED <<subnet, vlan, netVars, retries, found, target, iface, crashes, reopened>>

-----------------------------------------------------------------------------
(* DELETE /networks/{id}: reads the network and its two pool rows, then    *)
(* frees both rows and marks the network deleted in one commit.  No        *)
(* status of the network is refused, "deleted" included.                   *)

\* Mutant: the CIDR is looked up in another notation and never found.
DeleteReadNoSubnet(p, n) ==
    /\ req[p].pc = "idle"
    /\ Exists(n)
    /\ ~nets[n].default
    /\ req' = [req EXCEPT ![p] =
                  [pc |-> "delete", net |-> n,
                   sawDeleted |-> status[n] = "deleted",
                   sawSubnet |-> FALSE,
                   sawVlan |-> vlan[TagOf(n)] = "allocated"]]
    /\ UNCHANGED <<subnet, vlan, netVars, taskVars, iface, crashes, reopened>>

DeleteRead(p, n) ==
    /\ req[p].pc = "idle"
    /\ Exists(n)
    /\ ~nets[n].default
    /\ req' = [req EXCEPT ![p] =
                  [pc |-> "delete", net |-> n,
                   sawDeleted |-> status[n] = "deleted",
                   sawSubnet |-> subnet[nets[n].subnet] = "allocated",
                   sawVlan |-> vlan[TagOf(n)] = "allocated"]]
    /\ UNCHANGED <<subnet, vlan, netVars, taskVars, iface, crashes, reopened>>

DeleteCommit(p) ==
    /\ req[p].pc = "delete"
    /\ LET r == req[p]
           n == r.net
           s == nets[n].subnet
       IN  /\ r.sawSubnet => s \notin LockedSubnets
           /\ r.sawVlan => TagOf(n) \notin LockedTags
           /\ subnet' = IF r.sawSubnet THEN [subnet EXCEPT ![s] = "free"] ELSE subnet
           /\ vlan' = IF r.sawVlan THEN [vlan EXCEPT ![TagOf(n)] = "free"] ELSE vlan
           /\ status' = IF r.sawDeleted THEN status ELSE [status EXCEPT ![n] = "deleted"]
           /\ reopened' = IF ~Live(n) /\ (r.sawSubnet \/ r.sawVlan)
                          THEN reopened \cup {n} ELSE reopened
    /\ req' = [req EXCEPT ![p] = Idle]
    /\ UNCHANGED <<nets, taskVars, iface, crashes>>

\* The API process dies: an open transaction rolls back, a dispatch is lost.
ApiCrash(p) ==
    /\ req[p].pc # "idle"
    /\ crashes < MaxCrashes
    /\ crashes' = crashes + 1
    /\ req' = [req EXCEPT ![p] = Idle]
    /\ UNCHANGED <<subnet, vlan, netVars, taskVars, iface, reopened>>

-----------------------------------------------------------------------------
(* The create_opnsense_vlan task of network n.  Its message carries the    *)
(* tenant, the tag and the gateway, not the network's id.                  *)

\* The worker writes a status over whatever the row holds by then.
WriteStatus(m, new) ==
    /\ status' = IF m \in NetIds /\ Exists(m) THEN [status EXCEPT ![m] = new] ELSE status
    /\ reopened' = IF m \in NetIds /\ status[m] = "deleted"
                   THEN reopened \cup {m} ELSE reopened

\* The task of network n leaves its worker: what its lookup found is gone,
\* and the message that stays, if any, has been retried r times.
Leave(n, pc, r) ==
    /\ task' = [task EXCEPT ![n] = pc]
    /\ retries' = [retries EXCEPT ![n] = r]
    /\ found' = [found EXCEPT ![n] = FALSE]
    /\ target' = [target EXCEPT ![n] = 0]

\* Looks for a network of this tenant and tag; without one the task goes on
\* and uses the VLAN tag as the network's id.
TaskLookup(n) ==
    /\ task[n] = "queued"
    /\ LET Matches == {m \in NetIds : /\ status[m] \in {"active", "pending"}
                                      /\ nets[m].tenant = nets[n].tenant
                                      /\ nets[m].vlan = nets[n].vlan}
       IN  /\ found' = [found EXCEPT ![n] = Matches # {}]
           /\ \E m \in IF Matches = {} THEN {nets[n].vlan} ELSE Matches :
                 target' = [target EXCEPT ![n] = m]
    /\ task' = [task EXCEPT ![n] = "looked"]
    /\ UNCHANGED <<subnet, vlan, netVars, req, retries, iface, crashes, reopened>>

TaskMark(n) ==
    /\ task[n] = "looked"
    /\ IF found[n] THEN WriteStatus(target[n], "provisioning")
                   ELSE UNCHANGED <<status, reopened>>
    /\ task' = [task EXCEPT ![n] = "marked"]
    /\ UNCHANGED <<subnet, vlan, nets, req, retries, found, target, iface, crashes>>

\* Adds the VLAN interface, or gives the interface this tag already has the
\* address of this message; then adds the DHCP subnet.  The API passes no
\* vm_id, so the work is done on the default OPNsense VM.
TaskConfigure(n) ==
    /\ task[n] = "marked"
    /\ iface' = [iface EXCEPT ![<<DefaultOpnVm, nets[n].vlan>>] = nets[n].subnet]
    /\ task' = [task EXCEPT ![n] = "configured"]
    /\ UNCHANGED <<subnet, vlan, netVars, req, retries, found, target, crashes, reopened>>

TaskFinish(n) ==
    /\ task[n] = "configured"
    /\ WriteStatus(target[n], "active")
    /\ Leave(n, "done", 0)
    /\ UNCHANGED <<subnet, vlan, nets, req, iface, crashes>>

\* Any exception: the network found by the lookup, if any, is marked, and
\* the message is published again until its retries are used up.
TaskFail(n) ==
    /\ task[n] \in {"queued", "looked", "marked", "configured"}
    /\ IF found[n] THEN WriteStatus(target[n], "error")
                   ELSE UNCHANGED <<status, reopened>>
    /\ IF retries[n] < MaxRetries
       THEN Leave(n, "queued", retries[n] + 1) ELSE Leave(n, "failed", 0)
    /\ UNCHANGED <<subnet, vlan, nets, req, iface, crashes>>

\* task_acks_late and task_reject_on_worker_lost: the message of a worker
\* that dies is delivered again, with the retries it had.
WorkerCrash(n) ==
    /\ task[n] \in {"looked", "marked", "configured"}
    /\ crashes < MaxCrashes
    /\ crashes' = crashes + 1
    /\ Leave(n, "queued", retries[n])
    /\ UNCHANGED <<subnet, vlan, netVars, req, iface, reopened>>

-----------------------------------------------------------------------------
TaskStep(n) ==
    TaskLookup(n) \/ TaskMark(n) \/ TaskConfigure(n) \/ TaskFinish(n) \/ TaskFail(n)

ApiStep(p) ==
    \/ \E t \in Tenants : CreateTakeSubnet(p, t)
    \/ CreateTakeVlan(p) \/ CreateOutOfVlans(p) \/ CreateCommit(p) \/ CreateDispatch(p)
    \/ \E n \in NetIds : DeleteRead(p, n)
    \/ DeleteCommit(p)
    \/ ApiCrash(p)

Next ==
    \/ \E p \in Workers : ApiStep(p)
    \/ \E n \in NetIds : TaskStep(n) \/ WorkerCrash(n)

Spec == Init /\ [][Next]_vars

-----------------------------------------------------------------------------
(* Properties.                                                             *)

\* No /24 and no VLAN tag is lost: a pool row marked allocated is held by a
\* network that is not deleted, whatever create, delete, delete-again and
\* late worker writes interleave (api/networks.py create_network and
\* delete_network, services/ipam.py).
NoLeak ==
    /\ \A s \in Subnets : subnet[s] = "allocated" =>
          \E n \in NetIds : Live(n) /\ nets[n].subnet = s
    /\ \A x \in Tags : vlan[x] = "allocated" =>
          \E n \in NetIds : Live(n) /\ TagOf(n) = x

\* Two live networks hold the same /24, or the same tag of a pod, only after
\* a deletion that did not stay final: a network deleted a second time, or
\* given a live status by a worker after its deletion.  FOR UPDATE SKIP
\* LOCKED itself never hands a row to two networks.
ExclusiveUnlessReopened ==
    \A m, n \in NetIds :
        m # n /\ Live(m) /\ Live(n) =>
            /\ nets[m].subnet = nets[n].subnet =>
                  \E k \in reopened : nets[k].subnet = nets[m].subnet
            /\ ~nets[m].default /\ TagOf(m) = TagOf(n) =>
                  \E k \in reopened : TagOf(k) = TagOf(m)

\* A tenant's default network stays active, although a retried
\* create_opnsense_vlan takes the VLAN tag for a network id and that id can
\* be the default network's (workers/tasks/vlan.py:247, 417).
DefaultStaysActive ==
    \A t \in Tenants : status[DefaultNet[t]] = "active"

\* Both tables are pools of leases (module Leases): a /24, or a tag of a pod,
\* belongs to the one live network that has it from the commit that allocates
\* it to the commit that frees it, and is spoilt by a network whose deletion
\* did not stay final.
SubnetPool == INSTANCE Leases WITH
    Rows <- Subnets, Users <- NetIds,
    free <- {s \in Subnets : subnet[s] = "free"},
    holders <- [s \in Subnets |-> {n \in NetIds : Live(n) /\ nets[n].subnet = s}],
    spoilt <- {s \in Subnets : \E k \in reopened : nets[k].subnet = s}

TagPool == INSTANCE Leases WITH
    Rows <- Tags, Users <- NetIds,
    free <- {x \in Tags : vlan[x] = "free"},
    holders <- [x \in Tags |-> {n \in NetIds : Live(n) /\ TagOf(n) = x}],
    spoilt <- {x \in Tags : \E k \in reopened : TagOf(k) = x}

Leased == SubnetPool!Spec /\ TagPool!Spec
=============================================================================
