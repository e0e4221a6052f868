----------------------------- MODULE Onboarding -----------------------------
(***************************************************************************)
(* From an unapproved tenant to one with a running firewall VM: verify and *)
(* approve in the API (api/tenant.py, api/admin.py), approve_tenant with   *)
(* its pod and bridge allocation (services/provisioning.py), the manual    *)
(* release of a bridge (api/bridge_pool.py) and the Celery task that       *)
(* clones and configures the VM (workers/tasks/tenant.py).                 *)
(*                                                                         *)
(* approve_tenant is one transaction that stays open, with a pod row and a *)
(* bridge row locked, while the hypervisor creates the bridge.  The tenant *)
(* row itself is never locked.  A VM's id is computed from its bridge, so  *)
(* tenant.opnsense_vm_id is not a variable: it and tenant.bridge_id are    *)
(* set and cleared together, and a bridge stands for both.                 *)
(*                                                                         *)
(* The /24 of the default network comes from the pool of module Networks   *)
(* and never runs out here.                                                *)
(***************************************************************************)
EXTENDS Naturals, FiniteSets

CONSTANTS
    Tenants,        \* registered tenants
    Pods,
    MaxTenants,     \* [Pods -> Nat], pod.max_tenants
    Bridges,        \* rows of bridge_pool, and the ids of firewall VMs
    Threads,        \* API threads
    Messages,       \* provision_tenant messages, numbered: bounds the approvals
    MaxMishaps,     \* bound on crashes, timeouts and failing calls
    None            \* the SQL NULL

ASSUME OnboardingAssumption ==
    /\ MaxTenants \in [Pods -> Nat]
    /\ Messages \subseteq Nat
    /\ MaxMishaps \in Nat
    /\ None \notin Tenants \cup Pods \cup Bridges

VARIABLES
    status,     \* tenant.status
    verified,   \* tenant.is_verified
    bridge,     \* tenant.bridge_id, and with it tenant.opnsense_vm_id
    pod,        \* tenant.pod_id
    owner,      \* bridge_pool.tenant_id of a bridge in use, None of an available one
    count,      \* pod.tenant_count
    key,        \* tenant.opnsense_api_key: the VM it was made in
    vms,        \* the tenant a VM was cloned for, None where there is no VM
    made,       \* the bridges there are on the node
    req,        \* the request each API thread is serving
    task,       \* the provision_tenant messages
    mishaps,    \* mishaps so far
    disturbed,  \* history: tenants reset for a retry, approved again or made to
                \* give up a bridge
    overlap,    \* history: those for which something else was under way then
    cut,        \* history: tenants whose worker died between the two steps of a
                \* rollback
    released    \* history: bridges released by an administrator

tenantVars == <<status, verified, bridge, pod>>
node == <<key, vms, made>>
history == <<disturbed, overlap, cut, released>>
vars == <<status, verified, bridge, pod, owner, count, key, vms, made, req, task, mishaps,
          disturbed, overlap, cut, released>>

-----------------------------------------------------------------------------
Idle == [pc |-> "idle"]
ReadReq == [pc : {"approve"}, tenant : Tenants, verify : BOOLEAN, sawPod : Pods \cup {None}]
PlacedReq == [pc : {"placed"}, tenant : Tenants, verify : BOOLEAN,
              sawPod : Pods \cup {None}, pod : Pods]
BridgedReq == [pc : {"bridged"}, tenant : Tenants, verify : BOOLEAN,
               sawPod : Pods \cup {None}, pod : Pods, bridge : Bridges]
DispatchReq == [pc : {"dispatch"}, tenant : Tenants, verify : BOOLEAN]
MarkReq == [pc : {"mark"}, tenant : Tenants]
ReleaseReq == [pc : {"release"}, bridge : Bridges, tenant : Tenants,
               sawBridge : Bridges \cup {None}, sawError : BOOLEAN]
Request == {Idle} \cup ReadReq \cup PlacedReq \cup BridgedReq \cup DispatchReq
           \cup MarkReq \cup ReleaseReq

\* A task's copy of its tenant: the VM id and the status.  A commit expires
\* it, and it is read anew when it is used next.
Expired == [vm |-> None, st |-> None]
Status == {"pending_approval", "provisioning", "active", "error"}
Copy == {Expired} \cup [vm : Bridges \cup {None}, st : Status]

\* vm: the VM the task has cloned; again: whether a soft time limit makes it
\* roll back a second time.
NoTask == [pc |-> "none"]
TaskPc == {"queued", "started", "cloned", "up", "keyed", "failing",
           "deleted", "again", "ending", "done", "lost"}
Task == {NoTask} \cup
        [pc : TaskPc, tenant : Tenants, vm : Bridges \cup {None}, copy : Copy,
         again : BOOLEAN]
Message(t, pc) == [pc |-> pc, tenant |-> t, vm |-> None, copy |-> Expired, again |-> FALSE]

TypeOK ==
    /\ status \in [Tenants -> Status]
    /\ verified \in [Tenants -> BOOLEAN]
    /\ bridge \in [Tenants -> Bridges \cup {None}]
    /\ pod \in [Tenants -> Pods \cup {None}]
    /\ owner \in [Bridges -> Tenants \cup {None}]
    /\ count \in [Pods -> Nat]
    /\ key \in [Tenants -> Bridges \cup {None, "stale"}]
    /\ vms \in [Bridges -> Tenants \cup {None}]
    /\ made \subseteq Bridges
    /\ req \in [Threads -> Request]
    /\ task \in [Messages -> Task]
    /\ mishaps \in 0..MaxMishaps
    /\ overlap \subseteq disturbed /\ disturbed \subseteq Tenants
    /\ cut \subseteq Tenants
    /\ released \subseteq Bridges

-----------------------------------------------------------------------------
LockedPods == {req[p].pod : p \in {q \in Threads : req[q].pc \in {"placed", "bridged"}}}
LockedBridges == {req[p].bridge : p \in {q \in Threads : req[q].pc = "bridged"}}
FreeBridges == {b \in Bridges : owner[b] = None}
Unsent == {m \in Messages : task[m].pc = "none"}
Mishap == mishaps < MaxMishaps /\ mishaps' = mishaps + 1
TenantOf(m) == task[m].tenant

\* A request or a message of the tenant, other than request p, is under way.
UnderWay(p, t) ==
    \/ \E q \in Threads \ {p} : req[q] # Idle /\ req[q].tenant = t
    \/ \E m \in Messages : task[m].pc \notin {"none", "done", "lost"} /\ TenantOf(m) = t
ApprovedBefore(t) ==
    \/ \E m \in Messages : task[m].pc # "none" /\ TenantOf(m) = t
    \/ \E q \in Threads : req[q].pc = "dispatch" /\ req[q].tenant = t

Disturb(t, overlapping) ==
    /\ disturbed' = disturbed \cup {t}
    /\ overlap' = IF overlapping THEN overlap \cup {t} ELSE overlap

Init ==
    /\ status = [t \in Tenants |-> "pending_approval"]
    /\ verified = [t \in Tenants |-> FALSE]
    /\ bridge = [t \in Tenants |-> None]
    /\ pod = [t \in Tenants |-> None]
    /\ owner = [b \in Bridges |-> None]
    /\ count = [d \in Pods |-> 0]
    /\ key = [t \in Tenants |-> None]
    /\ vms = [b \in Bridges |-> None]
    /\ made = {}
    /\ req = [p \in Threads |-> Idle]
    /\ task = [m \in Messages |-> NoTask]
    /\ mishaps = 0
    /\ disturbed = {} /\ overlap = {} /\ cut = {}
    /\ released = {}

-----------------------------------------------------------------------------
(* POST /tenants/{id}/verify and POST /admin/tenant/{id}/approve.          *)

Approving == {p \in Threads : req[p].pc \in {"approve", "placed", "bridged", "dispatch"}}

StartApproval(p, t, verify) ==
    /\ req[p].pc = "idle"
    /\ Cardinality(Approving) < Cardinality(Unsent)   \* bound: Messages
    /\ req' = [req EXCEPT ![p] = [pc |-> "approve", tenant |-> t, verify |-> verify,
                                  sawPod |-> pod[t]]]
    /\ UNCHANGED <<verified, pod, owner, count, vms, made, task, mishaps, cut, released>>

\* approve_tenant refuses a tenant that has a bridge, or a status that is
\* none of its three.
Approvable(t) == status[t] \in {"pending_approval", "error"} /\ bridge[t] = None

Verify(p, t) ==
    /\ ~verified[t]
    /\ status[t] # "error"
    /\ Approvable(t)
    /\ StartApproval(p, t, TRUE)
    /\ UNCHANGED <<status, bridge, key, disturbed, overlap>>

\* A tenant in error is first reset, in a commit of its own: its bridge, VM
\* and key are forgotten, not released.
VerifyRetry(p, t) ==
    /\ ~verified[t]
    /\ status[t] = "error"
    /\ StartApproval(p, t, TRUE)
    /\ status' = [status EXCEPT ![t] = "pending_approval"]
    /\ bridge' = [bridge EXCEPT ![t] = None]
    /\ key' = [key EXCEPT ![t] = None]
    /\ Disturb(t, UnderWay(p, t))

AdminApprove(p, t) ==
    /\ status[t] = "pending_approval"
    /\ Approvable(t)
    /\ StartApproval(p, t, FALSE)
    /\ UNCHANGED <<status, bridge, key, disturbed, overlap>>

-----------------------------------------------------------------------------
(* approve_tenant.                                                         *)

\* Mutant: pods are read without FOR UPDATE.
RoomyPodsUnlocked == {d \in Pods : count[d] < MaxTenants[d]}

RoomyPods == {d \in Pods : count[d] < MaxTenants[d] /\ d \notin LockedPods}

\* The fullest pod with room that nobody has locked.
AssignPod(p) ==
    /\ req[p].pc = "approve"
    /\ \E d \in RoomyPods :
          /\ \A e \in RoomyPods : count[e] <= count[d]
          /\ req' = [req EXCEPT ![p] = [pc |-> "placed", tenant |-> req[p].tenant,
                                        verify |-> req[p].verify, sawPod |-> req[p].sawPod,
                                        pod |-> d]]
    /\ UNCHANGED <<tenantVars, owner, count, node, task, mishaps, history>>

\* FOR UPDATE waits for a locked bridge and looks at it again.
Allocatable == FreeBridges \ LockedBridges

AllocateBridge(p) ==
    /\ req[p].pc = "placed"
    /\ \E b \in Allocatable :
          req' = [req EXCEPT ![p] = [pc |-> "bridged", tenant |-> req[p].tenant,
                                     verify |-> req[p].verify, sawPod |-> req[p].sawPod,
                                     pod |-> req[p].pod, bridge |-> b]]
    /\ UNCHANGED <<tenantVars, owner, count, node, task, mishaps, history>>

\* No pod or no bridge left: the transaction is rolled back, and with it the
\* "error" verify_tenant had just given the tenant.
NoCapacity(p) ==
    /\ \/ req[p].pc = "approve" /\ RoomyPods = {}
       \/ req[p].pc = "placed" /\ FreeBridges = {}
    /\ req' = [req EXCEPT ![p] = Idle]
    /\ UNCHANGED <<tenantVars, owner, count, node, task, mishaps, history>>

\* The node refuses a bridge that is there: _bridge_exists, which asks first,
\* looks for "data" in an answer _api has taken it from, and never finds any.
CreateBridge(b) == b \notin made /\ made' = made \cup {b}

\* Mutant: allocate_bridge commits the bridge it takes.
BridgeCallFailsTaken(p) ==
    /\ req[p].pc = "bridged"
    /\ Mishap
    /\ owner' = [owner EXCEPT ![req[p].bridge] = req[p].tenant]
    /\ req' = [req EXCEPT ![p] = Idle]
    /\ UNCHANGED <<tenantVars, count, node, task, history>>

\* create_proxmox_bridge fails: rolled back as well.  A bridge whose creation
\* was not answered may be there.
BridgeCallFails(p) ==
    /\ req[p].pc = "bridged"
    /\ \/ req[p].bridge \in made /\ UNCHANGED <<made, mishaps>>
       \/ Mishap /\ (UNCHANGED made \/ CreateBridge(req[p].bridge))
    /\ req' = [req EXCEPT ![p] = Idle]
    /\ UNCHANGED <<tenantVars, owner, count, key, vms, task, history>>

\* An administrator removes a bridge from the node by hand.
BridgeRemoved(b) ==
    /\ b \in made /\ owner[b] = None /\ b \notin LockedBridges
    /\ made' = made \ {b}
    /\ UNCHANGED <<tenantVars, owner, count, key, vms, req, task, mishaps, history>>

ApproveCommit(p) ==
    /\ req[p].pc = "bridged"
    /\ CreateBridge(req[p].bridge)
    /\ LET t == req[p].tenant
           b == req[p].bridge
           d == req[p].pod
       IN  /\ count' = [count EXCEPT ![d] = count[d] + 1]
           /\ owner' = [owner EXCEPT ![b] = t]
           /\ bridge' = [bridge EXCEPT ![t] = b]
           /\ status' = [status EXCEPT ![t] = "provisioning"]
           /\ pod' = IF req[p].sawPod = d THEN pod ELSE [pod EXCEPT ![t] = d]
           /\ IF ApprovedBefore(t) THEN Disturb(t, UnderWay(p, t) \/ bridge[t] # None)
              ELSE UNCHANGED <<disturbed, overlap>>
           /\ req' = [req EXCEPT ![p] = [pc |-> "dispatch", tenant |-> t,
                                         verify |-> req[p].verify]]
    /\ UNCHANGED <<verified, key, vms, task, mishaps, cut, released>>

\* The next message, with what becomes of it.
Send(p, pc) ==
    \E m \in Unsent :
        /\ \A n \in Unsent : m <= n
        /\ task' = [task EXCEPT ![m] = Message(req[p].tenant, pc)]

\* provision_tenant_task.delay; verify_tenant then marks the tenant.
Dispatch(p) ==
    /\ req[p].pc = "dispatch"
    /\ Send(p, "queued")
    /\ req' = [req EXCEPT ![p] = IF req[p].verify THEN [pc |-> "mark", tenant |-> req[p].tenant]
                                 ELSE Idle]
    /\ UNCHANGED <<tenantVars, owner, count, node, mishaps, history>>

\* The broker cannot be reached: what was committed stays.
DispatchFails(p) ==
    /\ req[p].pc = "dispatch"
    /\ Mishap
    /\ Send(p, "lost")
    /\ req' = [req EXCEPT ![p] = Idle]
    /\ UNCHANGED <<tenantVars, owner, count, node, history>>

MarkVerified(p) ==
    /\ req[p].pc = "mark"
    /\ verified' = [verified EXCEPT ![req[p].tenant] = TRUE]
    /\ req' = [req EXCEPT ![p] = Idle]
    /\ UNCHANGED <<status, bridge, pod, owner, count, node, task, mishaps, history>>

\* The API process dies.
ApiCrash(p) ==
    /\ req[p].pc # "idle"
    /\ Mishap
    /\ req' = [req EXCEPT ![p] = Idle]
    /\ IF req[p].pc = "dispatch" THEN Send(p, "lost") ELSE UNCHANGED task
    /\ UNCHANGED made \/ (req[p].pc = "bridged" /\ CreateBridge(req[p].bridge))
    /\ UNCHANGED <<tenantVars, owner, count, key, vms, history>>

-----------------------------------------------------------------------------
(* POST /bridges/{id}/release: the bridge goes back to the pool, and the   *)
(* tenant it is registered for loses its bridge, whichever that is.        *)

ReleaseRead(p, b) ==
    /\ req[p].pc = "idle"
    /\ owner[b] # None
    /\ LET t == owner[b] IN
       req' = [req EXCEPT ![p] = [pc |-> "release", bridge |-> b, tenant |-> t,
                                  sawBridge |-> bridge[t], sawError |-> status[t] = "error"]]
    /\ UNCHANGED <<tenantVars, owner, count, node, task, mishaps, history>>

ReleaseCommit(p) ==
    /\ req[p].pc = "release"
    /\ req[p].bridge \notin LockedBridges
    /\ owner' = [owner EXCEPT ![req[p].bridge] = None]
    /\ bridge' = IF req[p].sawBridge = None THEN bridge
                 ELSE [bridge EXCEPT ![req[p].tenant] = None]
    /\ status' = IF req[p].sawError THEN status ELSE [status EXCEPT ![req[p].tenant] = "error"]
    /\ released' = released \cup {req[p].bridge}
    /\ Disturb(req[p].tenant, \/ UnderWay(p, req[p].tenant)
                               \/ bridge[req[p].tenant] # req[p].sawBridge)
    /\ req' = [req EXCEPT ![p] = Idle]
    /\ UNCHANGED <<verified, pod, count, node, task, mishaps, cut>>

-----------------------------------------------------------------------------
(* provision_tenant_task, acknowledged when it ends and never retried.     *)

Read(t) == [vm |-> bridge[t], st |-> status[t]]

\* Mutant: a message delivered again is not recognised.
StartableAlways(t) == TRUE

Startable(t) == status[t] = "provisioning"

TaskStart(m) ==
    LET t == TenantOf(m) IN
    /\ task[m].pc = "queued"
    /\ task' = [task EXCEPT ![m] = IF Startable(t)
                                   THEN [@ EXCEPT !.pc = "started", !.copy = Read(t)]
                                   ELSE [@ EXCEPT !.pc = "ending"]]
    /\ UNCHANGED <<tenantVars, owner, count, node, req, mishaps, history>>

\* The id of the copy is taken by a VM, or there is none.
CloneRefused(m) == task[m].copy.vm \notin {b \in Bridges : vms[b] = None}

CloneOpnsense(m) == /\ ~CloneRefused(m)
                    /\ vms' = [vms EXCEPT ![task[m].copy.vm] = TenantOf(m)]

\* The clone is complete when its network cards are set and it is started.
TaskClone(m) ==
    /\ task[m].pc = "started"
    /\ CloneOpnsense(m)
    /\ task' = [task EXCEPT ![m].pc = "cloned", ![m].vm = task[m].copy.vm]
    /\ UNCHANGED <<tenantVars, owner, count, key, made, req, mishaps, history>>

\* The guest agent runs commands as long as there is a VM, whoever's it is.
Executes(b) == vms[b] # None

\* curl inside the VM reaches OPNsense; its refusal of a key is an answer, and
\* no error.
Answers(m) == Executes(task[m].vm)

\* The VM reports a WAN address, which is committed.
TaskWan(m) ==
    /\ task[m].pc = "cloned" /\ Executes(task[m].vm)
    /\ task' = [task EXCEPT ![m].pc = "up", ![m].copy = Expired]
    /\ UNCHANGED <<tenantVars, owner, count, node, req, mishaps, history>>

RotateKey(m) == key' = [key EXCEPT ![TenantOf(m)] = task[m].vm]

\* Sets the LAN address and waits for OPNsense.  A tenant with a key keeps it.
\* Commits after each of them, and after the pool of addresses.
TaskKey(m) ==
    LET t == TenantOf(m) IN
    /\ task[m].pc = "up" /\ Answers(m)
    /\ \/ key[t] = None /\ RotateKey(m)
       \/ key[t] # None /\ UNCHANGED key
    /\ task' = [task EXCEPT ![m].pc = "keyed", ![m].copy = Read(t)]
    /\ UNCHANGED <<tenantVars, owner, count, vms, made, req, mishaps, history>>

\* configure_kea_dhcp succeeds: every address it reads and writes is OPNsense's.
ConfigureKea(m) == task[m].pc = "keyed" /\ Answers(m)

TaskFinish(m) ==
    /\ ConfigureKea(m)
    /\ status' = IF task[m].copy.st = "active" THEN status
                 ELSE [status EXCEPT ![TenantOf(m)] = "active"]
    /\ task' = [task EXCEPT ![m] = Message(TenantOf(m), "ending")]
    /\ UNCHANGED <<verified, bridge, pod, owner, count, node, req, mishaps, history>>

\* What the task rolls back is the VM of its copy, read anew if it has expired.
Failing(m, again) ==
    LET old == task[m] IN
    task' = [task EXCEPT ![m] =
                [pc |-> "failing", tenant |-> old.tenant, vm |-> None, again |-> again,
                 copy |-> IF old.copy = Expired THEN Read(old.tenant) ELSE old.copy]]

TaskStuck(m) ==
    /\ \/ task[m].pc = "started" /\ CloneRefused(m)
       \/ task[m].pc \in {"cloned", "up", "keyed"} /\ ~Answers(m)
    /\ Failing(m, FALSE)
    /\ UNCHANGED <<tenantVars, owner, count, node, req, mishaps, history>>

\* A call fails, or the soft time limit strikes; a clone may exist or not.
TaskFail(m, timeout) ==
    /\ task[m].pc \in {"started", "cloned", "up", "keyed"}
    /\ Mishap
    /\ Failing(m, timeout)
    /\ UNCHANGED vms \/ (task[m].pc = "started" /\ CloneOpnsense(m))
    /\ UNCHANGED <<tenantVars, owner, count, key, made, req, history>>

\* A key made in a VM that is gone is of no use in the next one with its id.
DeleteVm(b) ==
    /\ vms' = [vms EXCEPT ![b] = None]
    /\ key' = [t \in Tenants |-> IF key[t] = b THEN "stale" ELSE key[t]]

\* _rollback_tenant_provisioning_v2: deletes the VM, whoever it belongs to by
\* now, and only logs it when that fails; then commits "error".
RollbackDelete(m) ==
    LET b == task[m].copy.vm IN
    /\ task[m].pc = "failing"
    /\ \/ b # None /\ DeleteVm(b) /\ UNCHANGED mishaps
       \/ b = None /\ UNCHANGED <<key, vms, mishaps>>
       \/ b # None /\ Mishap /\ UNCHANGED <<key, vms>>
    /\ task' = [task EXCEPT ![m].pc = "deleted"]
    /\ UNCHANGED <<tenantVars, owner, count, made, req, history>>

\* Mutant: a rollback that takes a VM away does not say so.
RolledBackSilently(m) == status

RolledBack(m) ==
    IF task[m].copy.st = "error" THEN status ELSE [status EXCEPT ![TenantOf(m)] = "error"]

RollbackCommit(m) ==
    /\ task[m].pc = "deleted"
    /\ status' = RolledBack(m)
    /\ task' = [task EXCEPT ![m] = Message(TenantOf(m), IF @.again THEN "again" ELSE "ending")]
    /\ UNCHANGED <<verified, bridge, pod, owner, count, node, req, mishaps, history>>

\* The handler of SoftTimeLimitExceeded rolls back once more.
RollbackAgain(m) ==
    /\ task[m].pc = "again"
    /\ Failing(m, FALSE)
    /\ UNCHANGED <<tenantVars, owner, count, node, req, mishaps, history>>

TaskEnd(m) ==
    /\ task[m].pc = "ending"
    /\ task' = [task EXCEPT ![m].pc = "done"]
    /\ UNCHANGED <<tenantVars, owner, count, node, req, mishaps, history>>

Running(m) == task[m].pc \notin {"none", "queued", "done", "lost"}

\* The worker dies: the message is delivered again, from the start.  A clone
\* it had asked for may still be made.
WorkerCrash(m) ==
    /\ Running(m)
    /\ Mishap
    /\ task' = [task EXCEPT ![m] = Message(TenantOf(m), "queued")]
    /\ UNCHANGED vms \/ (task[m].pc = "started" /\ CloneOpnsense(m))
    /\ cut' = IF task[m].pc = "deleted" THEN cut \cup {TenantOf(m)} ELSE cut
    /\ UNCHANGED <<tenantVars, owner, count, key, made, req, disturbed, overlap, released>>

\* The hard time limit kills the worker and acknowledges the message.
HardLimit(m) ==
    /\ Running(m)
    /\ Mishap
    /\ task' = [task EXCEPT ![m] = Message(TenantOf(m), "lost")]
    /\ UNCHANGED <<tenantVars, owner, count, node, req, history>>

-----------------------------------------------------------------------------
TaskStep(m) ==
    \/ TaskStart(m) \/ TaskClone(m) \/ TaskWan(m) \/ TaskKey(m)
    \/ TaskFinish(m) \/ TaskStuck(m)
    \/ RollbackDelete(m) \/ RollbackCommit(m) \/ RollbackAgain(m) \/ TaskEnd(m)

ApprovalStep(p) ==
    \/ AssignPod(p) \/ AllocateBridge(p) \/ NoCapacity(p)
    \/ BridgeCallFails(p) \/ ApproveCommit(p)
    \/ Dispatch(p) \/ MarkVerified(p) \/ ReleaseCommit(p)

Ask(p) ==
    \/ \E t \in Tenants : Verify(p, t) \/ VerifyRetry(p, t) \/ AdminApprove(p, t)
    \/ \E b \in Bridges : ReleaseRead(p, b)

Next ==
    \/ \E p \in Threads :
          Ask(p) \/ ApprovalStep(p) \/ DispatchFails(p) \/ ApiCrash(p)
    \/ \E b \in Bridges : BridgeRemoved(b)
    \/ \E m \in Messages :
          \/ TaskStep(m) \/ WorkerCrash(m) \/ HardLimit(m)
          \/ \E timeout \in BOOLEAN : TaskFail(m, timeout)

\* API threads finish the requests they accepted and Celery workers run the
\* messages they are given; administrators and mishaps owe nothing.
Fairness ==
    /\ \A p \in Threads : WF_vars(ApprovalStep(p))
    /\ \A m \in Messages : WF_vars(TaskStep(m))

Spec == Init /\ [][Next]_vars /\ Fairness

-----------------------------------------------------------------------------
(* Properties.                                                             *)

\* The pool and the tenants agree on every bridge no administrator has
\* released: a tenant's bridge is registered for it, and no bridge is
\* registered for a tenant without being its bridge, unless the tenant was
\* reset for a retry, approved twice or lost another bridge
\* (services/provisioning.py:80-149, api/bridge_pool.py:161-175).
BridgesAgree ==
    \A t \in Tenants : \A b \in Bridges \ released :
        /\ bridge[t] = b => owner[b] = t /\ b \in made
        /\ owner[b] = t /\ t \notin disturbed => bridge[t] = b

\* An active tenant's firewall VM exists, was cloned for it, and knows the
\* tenant's API key: redelivered messages, failing calls, double rollbacks,
\* other tenants' tasks and retries do not change that.  A reset or a second
\* approval while another task or request of the tenant is under way, or a
\* released bridge can; so can a worker that dies when its rollback has deleted
\* the VM and not yet said so, because the message then makes another VM and
\* keeps the key of the first (workers/tasks/tenant.py:295-308, 341, 437).
ActiveHasVm ==
    \A t \in Tenants :
        status[t] = "active" /\ t \notin overlap \cup cut /\ bridge[t] \notin released =>
            /\ bridge[t] # None
            /\ vms[bridge[t]] = t
            /\ key[t] = bridge[t]

\* A pod never takes more tenants than max_tenants, and never has more than
\* it counts (services/provisioning.py:62-101).
PodsWithinLimit ==
    \A d \in Pods :
        /\ count[d] <= MaxTenants[d]
        /\ Cardinality({t \in Tenants : pod[t] = d}) <= count[d]

Lost(t) == \E m \in Messages : task[m].pc = "lost" /\ TenantOf(m) = t

\* A tenant leaves "provisioning" again, as active or in error, unless its
\* message was never sent or killed by the hard time limit
\* (workers/tasks/tenant.py:503-535).
ProvisioningEnds ==
    \A t \in Tenants :
        status[t] = "provisioning" ~> status[t] # "provisioning" \/ Lost(t)
=============================================================================
