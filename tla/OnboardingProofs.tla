-------------------------- MODULE OnboardingProofs --------------------------
(***************************************************************************)
(* Proofs about Onboarding, for every value of its constants: pods keep    *)
(* their limit, the bridge pool agrees with the tenants, and an active     *)
(* tenant has the VM that was cloned for it and the key to it.             *)
(*                                                                         *)
(* The first two follow from what approve_tenant's two row locks protect.  *)
(* The last needs what no lock protects: that a tenant outside overlap has *)
(* at most one approval or message at work, and what it has done so far.   *)
(***************************************************************************)
EXTENDS Onboarding, FiniteSetTheorems, TLAPS

\* Approvals that have not committed, and those whose message is not sent yet.
Waits(p) == req[p].pc \in {"approve", "placed", "bridged"}
Sends(p, t) == req[p].pc = "dispatch" /\ req[p].tenant = t

\* Messages of a tenant that are due or at work.
Active(m) == task[m].pc \notin {"none", "done", "lost"}
Works(m, t) == Active(m) /\ TenantOf(m) = t

-----------------------------------------------------------------------------
(* The locks.                                                              *)

\* A pod that an approval has locked has room, and no other approval has it.
PodsLocked ==
    /\ \A p \in Threads :
          req[p].pc \in {"placed", "bridged"} => count[req[p].pod] < MaxTenants[req[p].pod]
    /\ \A p, q \in Threads :
          /\ req[p].pc \in {"placed", "bridged"} /\ req[q].pc \in {"placed", "bridged"}
          /\ req[p].pod = req[q].pod
          => p = q

\* A bridge that an approval has locked is free, and no other approval has it.
BridgesLocked ==
    /\ \A p \in Threads : req[p].pc = "bridged" => owner[req[p].bridge] = None
    /\ \A p, q \in Threads :
          /\ req[p].pc = "bridged" /\ req[q].pc = "bridged"
          /\ req[p].bridge = req[q].bridge
          => p = q

TenantsIn(d) == {t \in Tenants : pod[t] = d}

\* The tenants of a pod are finitely many, however many tenants there are.
PodsCounted ==
    \A d \in Pods :
        /\ count[d] <= MaxTenants[d]
        /\ IsFiniteSet(TenantsIn(d))
        /\ Cardinality(TenantsIn(d)) <= count[d]

-----------------------------------------------------------------------------
(* Tenants, bridges and VMs.                                               *)

Releasing(p, t) == req[p].pc = "release" /\ req[p].tenant = t

\* Whoever has a bridge, or is about to lose it, was approved, and an approval
\* is never forgotten.
Registered ==
    \A t \in Tenants :
        \/ bridge[t] # None
        \/ \E b \in Bridges : owner[b] = t
        \/ \E p \in Threads : Releasing(p, t)
        => ApprovedBefore(t)

\* As long as a bridge is not released, its VM and the tasks that know its id
\* are of the tenant it is registered for.
VmsOwned ==
    \A b \in Bridges \ released :
        /\ vms[b] # None => vms[b] = owner[b]
        /\ \A m \in Messages :
              /\ task[m].pc # "none"
              /\ task[m].copy.vm = b \/ task[m].vm = b
              => owner[b] = TenantOf(m)

-----------------------------------------------------------------------------
(* One approval at a time.                                                 *)

Waiting(t) == \E p \in Threads : Waits(p) /\ req[p].tenant = t

\* A tenant outside overlap has at most one message at work or unsent, none
\* without a bridge, and no key while its approval is still open.
AloneFor(t) ==
    /\ status[t] = "pending_approval" => bridge[t] = None
    /\ t \notin overlap =>
          /\ \A m, n \in Messages : Works(m, t) /\ Works(n, t) => m = n
          /\ \A p, q \in Threads : Sends(p, t) /\ Sends(q, t) => p = q
          /\ \A p \in Threads, m \in Messages : ~(Sends(p, t) /\ Works(m, t))
          /\ bridge[t] = None => /\ \A m \in Messages : ~Works(m, t)
                                 /\ \A p \in Threads : ~Sends(p, t)
          /\ status[t] = "pending_approval" \/ (bridge[t] = None /\ Waiting(t)) => key[t] = None
Alone == \A t \in Tenants : AloneFor(t)

\* What the one message of such a tenant knows is still so.
Knows(m) ==
    LET t == TenantOf(m)
        pc == task[m].pc
    IN  /\ pc \in {"started", "cloned", "keyed", "failing", "deleted"} => task[m].copy = Read(t)
        /\ pc \in {"up", "again"} => task[m].copy = Expired
        /\ pc \in {"started", "cloned", "up", "keyed"} => status[t] = "provisioning"
        /\ pc \in {"cloned", "up", "keyed"} => task[m].vm = bridge[t]
        /\ pc \in {"failing", "deleted"} => status[t] \in {"provisioning", "error"}
        /\ pc = "again" => status[t] = "error"
        /\ pc = "ending" => status[t] # "provisioning"
AtWork == \A m \in Messages : Active(m) /\ TenantOf(m) \notin overlap => Knows(m)

\* The tenant has no key yet, or the key to a VM of its own.
KeyFits(t) == key[t] = None \/ (key[t] = bridge[t] /\ vms[bridge[t]] = t)

\* How far the VM and the key of such a tenant are, as long as its bridge is
\* not released and none of its rollbacks was cut.
HasVm(t) == vms[bridge[t]] = t /\ key[t] = bridge[t]
FarAs(m, t) ==
    /\ task[m].pc \in {"cloned", "up"} => vms[bridge[t]] = t /\ key[t] = None
    /\ task[m].pc = "keyed" => HasVm(t)
    /\ task[m].pc \in {"queued", "started", "failing"} /\ status[t] = "provisioning" => KeyFits(t)
KeysFit ==
    \A t \in Tenants \ (overlap \cup cut) :
        bridge[t] # None /\ bridge[t] \notin released =>
            /\ status[t] = "active" => HasVm(t)
            /\ \A p \in Threads : Sends(p, t) => KeyFits(t)
            /\ \A m \in Messages : Works(m, t) => FarAs(m, t)

\* Such a tenant has a bridge while it is served, and is not served when an
\* administrator who found it in error takes its bridge away.
Served ==
    \A t \in Tenants \ overlap :
        /\ status[t] \in {"provisioning", "active"} => bridge[t] # None
        /\ \A p \in Threads : Releasing(p, t) /\ req[p].sawError => status[t] = "error"

IInv == /\ TypeOK
        /\ PodsLocked /\ BridgesLocked /\ PodsCounted
        /\ Registered /\ BridgesAgree /\ VmsOwned
        /\ Alone /\ AtWork /\ Served /\ KeysFit

-----------------------------------------------------------------------------
(* What a step of a task changes.                                          *)

TaskMove(m) == TaskStep(m) \/ WorkerCrash(m) \/ HardLimit(m)
               \/ \E timeout \in BOOLEAN : TaskFail(m, timeout)

TaskRecord == [pc : TaskPc, tenant : Tenants, vm : Bridges \cup {None}, copy : Copy,
               again : BOOLEAN]

\* A message that was sent, with the columns of its record.
LEMMA SentShape ==
    ASSUME TypeOK, NEW m \in Messages
    PROVE  /\ task[m].pc \in TaskPc \cup {"none"}
           /\ task[m].pc # "none" => task[m] \in TaskRecord
BY DEF TypeOK, Task, NoTask, TaskRecord, TaskPc

LEMMA ReadTyped ==
    ASSUME TypeOK, NEW t \in Tenants
    PROVE  Read(t) \in Copy
BY DEF TypeOK, Read, Copy

\* How a message changes by the steps of its task: it goes on with some of its
\* columns changed, it starts afresh, or it is about to roll back.
GoesOn(m, pc, vm, copy) ==
    task'[m] = [pc |-> pc, tenant |-> task[m].tenant, vm |-> vm, copy |-> copy,
                again |-> task[m].again]
Afresh(m, pc) == task'[m] = Message(task[m].tenant, pc)
RollsBack(m, again) ==
    task'[m] = [pc |-> "failing", tenant |-> task[m].tenant, vm |-> None,
                copy |-> IF task[m].copy = Expired THEN Read(task[m].tenant) ELSE task[m].copy,
                again |-> again]

\* The message each step leaves behind.
LEMMA GoesOnColumns ==
    ASSUME TypeOK, NEW m \in Messages, task[m] \in TaskRecord
    PROVE  /\ TaskStart(m) => IF Startable(task[m].tenant)
                                 THEN GoesOn(m, "started", task[m].vm, Read(task[m].tenant))
                                 ELSE GoesOn(m, "ending", task[m].vm, task[m].copy)
           /\ TaskClone(m) => GoesOn(m, "cloned", task[m].copy.vm, task[m].copy)
           /\ TaskWan(m) => GoesOn(m, "up", task[m].vm, Expired)
           /\ TaskKey(m) => GoesOn(m, "keyed", task[m].vm, Read(task[m].tenant))
           /\ RollbackDelete(m) => GoesOn(m, "deleted", task[m].vm, task[m].copy)
           /\ TaskEnd(m) => GoesOn(m, "done", task[m].vm, task[m].copy)
<1> USE DEF TypeOK, TaskRecord, TenantOf, GoesOn
<1>1. TaskStart(m) => IF Startable(task[m].tenant)
                         THEN GoesOn(m, "started", task[m].vm, Read(task[m].tenant))
                         ELSE GoesOn(m, "ending", task[m].vm, task[m].copy)
    BY DEF TaskStart
<1>2. TaskClone(m) => GoesOn(m, "cloned", task[m].copy.vm, task[m].copy)
    BY DEF TaskClone
<1>3. TaskWan(m) => GoesOn(m, "up", task[m].vm, Expired)
    BY DEF TaskWan
<1>4. TaskKey(m) => GoesOn(m, "keyed", task[m].vm, Read(task[m].tenant))
    BY DEF TaskKey
<1>5. RollbackDelete(m) => GoesOn(m, "deleted", task[m].vm, task[m].copy)
    BY DEF RollbackDelete
<1>6. TaskEnd(m) => GoesOn(m, "done", task[m].vm, task[m].copy)
    BY DEF TaskEnd
<1> QED
    BY <1>1, <1>2, <1>3, <1>4, <1>5, <1>6

LEMMA AfreshColumns ==
    ASSUME TypeOK, NEW m \in Messages, task[m] \in TaskRecord
    PROVE  /\ TaskFinish(m) => Afresh(m, "ending")
           /\ RollbackCommit(m) => Afresh(m, IF task[m].again THEN "again" ELSE "ending")
           /\ WorkerCrash(m) => Afresh(m, "queued")
           /\ HardLimit(m) => Afresh(m, "lost")
<1> USE DEF TypeOK, TaskRecord, TenantOf, Message, Afresh
<1>1. TaskFinish(m) => Afresh(m, "ending")
    BY DEF TaskFinish
<1>2. RollbackCommit(m) => Afresh(m, IF task[m].again THEN "again" ELSE "ending")
    BY DEF RollbackCommit
<1>3. WorkerCrash(m) => Afresh(m, "queued")
    BY DEF WorkerCrash
<1>4. HardLimit(m) => Afresh(m, "lost")
    BY DEF HardLimit
<1> QED
    BY <1>1, <1>2, <1>3, <1>4

LEMMA RollsBackColumns ==
    ASSUME TypeOK, NEW m \in Messages, task[m] \in TaskRecord
    PROVE  /\ TaskStuck(m) => RollsBack(m, FALSE)
           /\ RollbackAgain(m) => RollsBack(m, FALSE)
           /\ \A timeout \in BOOLEAN : TaskFail(m, timeout) => RollsBack(m, timeout)
<1> USE DEF TypeOK, TaskRecord, TenantOf, RollsBack, Failing
<1>1. TaskStuck(m) => RollsBack(m, FALSE)
    BY DEF TaskStuck
<1>2. RollbackAgain(m) => RollsBack(m, FALSE)
    BY DEF RollbackAgain
<1>3. \A timeout \in BOOLEAN : TaskFail(m, timeout) => RollsBack(m, timeout)
    BY DEF TaskFail
<1> QED
    BY <1>1, <1>2, <1>3

\* A step leaves a message of the same tenant.
LEMMA MoveColumns ==
    ASSUME TypeOK, NEW m \in Messages, task[m] \in TaskRecord, TaskMove(m)
    PROVE  \E pc \in TaskPc, vm \in Bridges \cup {None}, copy \in Copy, again \in BOOLEAN :
              task'[m] = [pc |-> pc, tenant |-> task[m].tenant, vm |-> vm, copy |-> copy,
                          again |-> again]
<1> DEFINE Is(pc, vm, copy, again) ==
        task'[m] = [pc |-> pc, tenant |-> task[m].tenant, vm |-> vm, copy |-> copy,
                    again |-> again]
<1>1. /\ task[m].vm \in Bridges \cup {None} /\ task[m].copy \in Copy /\ task[m].again \in BOOLEAN
      /\ Read(task[m].tenant) \in Copy /\ Expired \in Copy
    BY ReadTyped DEF TaskRecord, Copy
<1>2. task[m].copy.vm \in Bridges \cup {None}
    BY <1>1 DEF Copy, Expired
<1>3. ASSUME NEW pc \in TaskPc, NEW vm \in Bridges \cup {None}, NEW copy \in Copy,
             GoesOn(m, pc, vm, copy)
      PROVE  \E a \in BOOLEAN : Is(pc, vm, copy, a)
    BY <1>1, <1>3 DEF GoesOn
<1>4. CASE TaskStart(m) \/ TaskClone(m) \/ TaskWan(m) \/ TaskKey(m) \/ RollbackDelete(m) \/ TaskEnd(m)
    <2>1. \E pc \in TaskPc, vm \in Bridges \cup {None}, copy \in Copy : GoesOn(m, pc, vm, copy)
        BY <1>1, <1>2, <1>4, GoesOnColumns DEF TaskPc
    <2> QED
        BY <2>1, <1>3
<1>5. CASE TaskFinish(m) \/ RollbackCommit(m) \/ WorkerCrash(m) \/ HardLimit(m)
    <2>1. \E pc \in TaskPc : Afresh(m, pc)
        BY <1>5, AfreshColumns DEF TaskPc
    <2> QED
        BY <2>1, <1>1 DEF Afresh, Message
<1>6. CASE TaskStuck(m) \/ RollbackAgain(m) \/ \E timeout \in BOOLEAN : TaskFail(m, timeout)
    <2>1. PICK again \in BOOLEAN : RollsBack(m, again)
        BY <1>6, RollsBackColumns
    <2>2. (IF task[m].copy = Expired THEN Read(task[m].tenant) ELSE task[m].copy) \in Copy
        BY <1>1
    <2>3. "failing" \in TaskPc /\ None \in Bridges \cup {None}
        BY DEF TaskPc
    <2> QED
        BY <2>1, <2>2, <2>3 DEF RollsBack
<1> QED
    BY <1>4, <1>5, <1>6 DEF TaskMove, TaskStep

\* A message that moves was sent and is not done, and stays a message of its
\* tenant.
LEMMA TaskFrame ==
    ASSUME TypeOK, NEW m \in Messages, TaskMove(m)
    PROVE  /\ Active(m) /\ task[m] \in TaskRecord
           /\ task' = [task EXCEPT ![m] = task'[m]]
           /\ task'[m].tenant = task[m].tenant /\ task'[m].pc # "none"
           /\ UNCHANGED <<verified, bridge, pod, owner, count, made, req,
                          disturbed, overlap, released>>
<1>1. /\ Active(m)
      /\ UNCHANGED <<verified, bridge, pod, owner, count, made, req, disturbed, overlap, released>>
    <2> USE DEF Active, tenantVars, node, history
    <2>1. CASE TaskStep(m)
        BY <2>1 DEF TaskStep, TaskStart, TaskClone, TaskWan, TaskKey, ConfigureKea, TaskFinish,
           TaskStuck, RollbackDelete, RollbackCommit, RollbackAgain, TaskEnd
    <2>2. CASE WorkerCrash(m) \/ HardLimit(m) \/ \E timeout \in BOOLEAN : TaskFail(m, timeout)
        BY <2>2 DEF WorkerCrash, HardLimit, Running, TaskFail
    <2> QED
        BY <2>1, <2>2 DEF TaskMove
<1>2. task[m] \in TaskRecord
    BY <1>1, SentShape DEF Active
<1>3. task'[m].tenant = task[m].tenant /\ task'[m].pc # "none"
    <2>1. PICK pc \in TaskPc, vm \in Bridges \cup {None}, copy \in Copy, again \in BOOLEAN :
             task'[m] = [pc |-> pc, tenant |-> task[m].tenant, vm |-> vm, copy |-> copy,
                         again |-> again]
        BY MoveColumns, <1>2
    <2> QED
        BY <2>1 DEF TaskPc
<1>4. task' = [task EXCEPT ![m] = task'[m]]
    <2>1. task \in [Messages -> Task]
        BY DEF TypeOK
    <2>2. PICK r : task' = [task EXCEPT ![m] = r]
        <3>1. CASE TaskStep(m)
            BY <3>1 DEF TaskStep, TaskStart, TaskClone, TaskWan, TaskKey, TaskFinish, TaskStuck,
               RollbackDelete, RollbackCommit, RollbackAgain, TaskEnd, Failing
        <3>2. CASE WorkerCrash(m) \/ HardLimit(m) \/ \E timeout \in BOOLEAN : TaskFail(m, timeout)
            BY <3>2 DEF WorkerCrash, HardLimit, TaskFail, Failing
        <3> QED
            BY <3>1, <3>2 DEF TaskMove
    <2> QED
        BY <2>1, <2>2
<1> QED
    BY <1>1, <1>2, <1>3, <1>4

LEMMA TaskTyped ==
    ASSUME TypeOK, NEW m \in Messages, TaskMove(m)
    PROVE  task' \in [Messages -> Task]
<1>1. task[m] \in TaskRecord /\ task' = [task EXCEPT ![m] = task'[m]]
    BY TaskFrame
<1>2. PICK pc \in TaskPc, vm \in Bridges \cup {None}, copy \in Copy, again \in BOOLEAN :
         task'[m] = [pc |-> pc, tenant |-> task[m].tenant, vm |-> vm, copy |-> copy,
                     again |-> again]
    BY <1>1, MoveColumns
<1>3. task[m].tenant \in Tenants
    BY <1>1 DEF TaskRecord
<1>4. task'[m] \in TaskRecord
    BY <1>2, <1>3 DEF TaskRecord
<1> QED
    BY <1>1, <1>4 DEF TypeOK, Task, TaskRecord

-----------------------------------------------------------------------------
(* Type correctness.                                                       *)

\* What a request carries at each of its steps.
LEMMA RequestFields ==
    ASSUME TypeOK, NEW p \in Threads
    PROVE  /\ req[p] \in Request
           /\ req[p].pc \in {"idle", "approve", "placed", "bridged", "dispatch", "mark", "release"}
           /\ req[p].pc = "idle" <=> req[p] = Idle
           /\ req[p].pc # "idle" => req[p].tenant \in Tenants
           /\ req[p].pc \in {"approve", "placed", "bridged", "dispatch"} => req[p].verify \in BOOLEAN
           /\ Waits(p) => req[p].sawPod \in Pods \cup {None}
           /\ req[p].pc \in {"placed", "bridged"} => req[p].pod \in Pods
           /\ req[p].pc \in {"bridged", "release"} => req[p].bridge \in Bridges
BY DEF TypeOK, Request, Idle, ReadReq, PlacedReq, BridgedReq, DispatchReq, MarkReq, ReleaseReq,
   Waits

LEMMA MishapTyped == ASSUME TypeOK, Mishap PROVE mishaps' \in 0..MaxMishaps
BY OnboardingAssumption DEF Mishap, TypeOK

LEMMA DisturbTyped ==
    ASSUME TypeOK, NEW t \in Tenants, NEW o \in BOOLEAN, Disturb(t, o)
    PROVE  overlap' \subseteq disturbed' /\ disturbed' \subseteq Tenants
BY DEF Disturb, TypeOK

\* The next message is sent: it was unsent, and its tenant is the request's.
LEMMA SendTyped ==
    ASSUME TypeOK, NEW p \in Threads, req[p].pc = "dispatch", NEW pc \in TaskPc, Send(p, pc)
    PROVE  /\ \E m \in Messages : /\ task[m].pc = "none"
                                  /\ task' = [task EXCEPT ![m] = Message(req[p].tenant, pc)]
           /\ task' \in [Messages -> Task]
<1>1. PICK m \in Unsent : task' = [task EXCEPT ![m] = Message(req[p].tenant, pc)]
    BY DEF Send
<1>2. m \in Messages /\ task[m].pc = "none"
    BY DEF Unsent
<1>3. Message(req[p].tenant, pc) \in Task
    BY RequestFields DEF Message, Task, Copy
<1> QED
    BY <1>1, <1>2, <1>3 DEF TypeOK

LEMMA InitTyped == Init => TypeOK
BY OnboardingAssumption DEF Init, TypeOK, Request, Task, Status

LEMMA ApprovalTyped ==
    ASSUME TypeOK, NEW p \in Threads, ApprovalStep(p) \/ DispatchFails(p) \/ ApiCrash(p)
    PROVE  TypeOK'
<1> USE RequestFields DEF tenantVars, node, history
<1>1. CASE AssignPod(p)
    <2>1. PICK d \in RoomyPods :
             req' = [req EXCEPT ![p] = [pc |-> "placed", tenant |-> req[p].tenant,
                                        verify |-> req[p].verify, sawPod |-> req[p].sawPod,
                                        pod |-> d]]
        BY <1>1 DEF AssignPod
    <2>2. req'[p] \in PlacedReq /\ req' \in [Threads -> Request]
        BY <1>1, <2>1 DEF AssignPod, RoomyPods, Waits, TypeOK, Request, PlacedReq
    <2> QED
        BY <1>1, <2>2 DEF AssignPod, TypeOK
<1>2. CASE AllocateBridge(p)
    <2>1. PICK b \in Bridges :
             req' = [req EXCEPT ![p] = [pc |-> "bridged", tenant |-> req[p].tenant,
                                        verify |-> req[p].verify, sawPod |-> req[p].sawPod,
                                        pod |-> req[p].pod, bridge |-> b]]
        BY <1>2 DEF AllocateBridge, Allocatable, FreeBridges
    <2>2. req'[p] \in BridgedReq /\ req' \in [Threads -> Request]
        BY <1>2, <2>1 DEF AllocateBridge, Waits, TypeOK, Request, BridgedReq
    <2> QED
        BY <1>2, <2>2 DEF AllocateBridge, TypeOK
<1>3. CASE NoCapacity(p)
    BY <1>3 DEF NoCapacity, TypeOK, Request
<1>4. CASE BridgeCallFails(p)
    BY <1>4, MishapTyped DEF BridgeCallFails, CreateBridge, TypeOK, Request
<1>5. CASE ApproveCommit(p)
    <2>1. overlap' \subseteq disturbed' /\ disturbed' \subseteq Tenants
        BY <1>5, DisturbTyped DEF ApproveCommit, TypeOK
    <2>2. req' \in [Threads -> Request]
        BY <1>5 DEF ApproveCommit, TypeOK, Request, DispatchReq
    <2>3. /\ count' \in [Pods -> Nat] /\ pod' \in [Tenants -> Pods \cup {None}]
          /\ owner' \in [Bridges -> Tenants \cup {None}]
          /\ bridge' \in [Tenants -> Bridges \cup {None}]
          /\ status' \in [Tenants -> Status] /\ made' \subseteq Bridges
        BY <1>5 DEF ApproveCommit, CreateBridge, TypeOK, Status
    <2> QED
        BY <1>5, <2>1, <2>2, <2>3 DEF ApproveCommit, TypeOK
<1>6. CASE Dispatch(p)
    BY <1>6, SendTyped DEF Dispatch, TaskPc, TypeOK, Request, MarkReq
<1>7. CASE DispatchFails(p)
    BY <1>7, SendTyped, MishapTyped DEF DispatchFails, TaskPc, TypeOK, Request
<1>8. CASE MarkVerified(p)
    BY <1>8 DEF MarkVerified, TypeOK, Request
<1>9. CASE ApiCrash(p)
    <2>1. task' \in [Messages -> Task]
        BY <1>9, SendTyped DEF ApiCrash, TaskPc, TypeOK
    <2> QED
        BY <1>9, <2>1, MishapTyped DEF ApiCrash, CreateBridge, TypeOK, Request
<1>10. CASE ReleaseCommit(p)
    <2>1. overlap' \subseteq disturbed' /\ disturbed' \subseteq Tenants
        BY <1>10, DisturbTyped DEF ReleaseCommit, TypeOK
    <2> QED
        BY <1>10, <2>1 DEF ReleaseCommit, TypeOK, Request, Status
<1> QED
    BY <1>1, <1>2, <1>3, <1>4, <1>5, <1>6, <1>7, <1>8, <1>9, <1>10 DEF ApprovalStep

LEMMA AskTyped ==
    ASSUME TypeOK, NEW p \in Threads, Ask(p)
    PROVE  TypeOK'
<1> USE DEF tenantVars, node, history
<1>1. ASSUME NEW t \in Tenants, NEW v \in BOOLEAN, StartApproval(p, t, v)
      PROVE  req' \in [Threads -> Request]
    BY <1>1 DEF StartApproval, TypeOK, Request, ReadReq
<1>2. ASSUME NEW t \in Tenants, Verify(p, t) \/ AdminApprove(p, t) PROVE TypeOK'
    BY <1>1, <1>2 DEF Verify, AdminApprove, StartApproval, TypeOK
<1>3. ASSUME NEW t \in Tenants, VerifyRetry(p, t) PROVE TypeOK'
    <2>1. overlap' \subseteq disturbed' /\ disturbed' \subseteq Tenants
        BY <1>3, DisturbTyped DEF VerifyRetry, UnderWay, TypeOK
    <2> QED
        BY <1>1, <1>3, <2>1 DEF VerifyRetry, StartApproval, TypeOK, Status
<1>4. ASSUME NEW b \in Bridges, ReleaseRead(p, b) PROVE TypeOK'
    BY <1>4 DEF ReleaseRead, TypeOK, Request, ReleaseReq
<1> QED
    BY <1>2, <1>3, <1>4 DEF Ask

LEMMA MoveTyped ==
    ASSUME TypeOK, NEW m \in Messages, TaskMove(m)
    PROVE  TypeOK'
<1>1. /\ task' \in [Messages -> Task] /\ task[m] \in TaskRecord
      /\ UNCHANGED <<verified, bridge, pod, owner, count, made, req, disturbed, overlap, released>>
    BY TaskTyped, TaskFrame
<1>2. TenantOf(m) \in Tenants /\ task[m].vm \in Bridges \cup {None}
      /\ task[m].copy.vm \in Bridges \cup {None}
    BY <1>1 DEF TaskRecord, TenantOf, Copy, Expired
<1> USE <1>2 DEF tenantVars, node, history, TypeOK
<1>3. status' \in [Tenants -> Status]
    BY DEF TaskMove, TaskStep, TaskStart, TaskClone, TaskWan, TaskKey, TaskFinish, TaskStuck,
       RollbackDelete, RollbackCommit, RolledBack, RollbackAgain, TaskEnd, WorkerCrash, HardLimit,
       TaskFail, Status
<1>4. key' \in [Tenants -> Bridges \cup {None, "stale"}]
    BY DEF TaskMove, TaskStep, TaskStart, TaskClone, TaskWan, TaskKey, RotateKey, TaskFinish,
       TaskStuck, RollbackDelete, DeleteVm, RollbackCommit, RollbackAgain, TaskEnd, WorkerCrash,
       HardLimit, TaskFail
<1>5. vms' \in [Bridges -> Tenants \cup {None}]
    BY DEF TaskMove, TaskStep, TaskStart, TaskClone, CloneOpnsense, TaskWan, TaskKey, TaskFinish,
       TaskStuck, RollbackDelete, DeleteVm, RollbackCommit, RollbackAgain, TaskEnd, WorkerCrash,
       HardLimit, TaskFail
<1>6. mishaps' \in 0..MaxMishaps /\ cut' \subseteq Tenants
    BY MishapTyped DEF TaskMove, TaskStep, TaskStart, TaskClone, TaskWan, TaskKey, TaskFinish,
       TaskStuck, RollbackDelete, RollbackCommit, RollbackAgain, TaskEnd, WorkerCrash, HardLimit,
       TaskFail
<1> QED
    BY <1>1, <1>3, <1>4, <1>5, <1>6

\* A step of the system: a request, a task, or an administrator at the node.
LEMMA NextCases ==
    ASSUME Next
    PROVE  \/ \E p \in Threads : Ask(p) \/ ApprovalStep(p) \/ DispatchFails(p) \/ ApiCrash(p)
           \/ \E b \in Bridges : BridgeRemoved(b)
           \/ \E m \in Messages : TaskMove(m)
BY DEF Next, TaskMove

LEMMA TypeStep == TypeOK /\ [Next]_vars => TypeOK'
<1> SUFFICES ASSUME TypeOK, [Next]_vars PROVE TypeOK'
    OBVIOUS
<1>1. ASSUME NEW b \in Bridges, BridgeRemoved(b) PROVE TypeOK'
    BY <1>1 DEF BridgeRemoved, TypeOK, tenantVars, history
<1>2. CASE UNCHANGED vars
    BY <1>2 DEF vars, TypeOK
<1> QED
    BY <1>1, <1>2, NextCases, AskTyped, ApprovalTyped, MoveTyped

\* Every variable has its type in every reachable state: no step of a request,
\* a task or a crash leaves a record of another shape.
THEOREM TypeCorrect == Spec => []TypeOK
BY InitTyped, TypeStep, PTL DEF Spec

-----------------------------------------------------------------------------
(* The locks, and what they protect.                                       *)

\* A request that neither holds a lock nor takes one.
Unlocked(p) == req[p].pc \notin {"placed", "bridged"}

\* The steps of requests that take no lock: they change one request, which
\* holds none afterwards, and no count.
LEMMA LocklessSteps ==
    ASSUME TypeOK, NEW p \in Threads,
           \/ Ask(p) \/ NoCapacity(p) \/ BridgeCallFails(p) \/ Dispatch(p) \/ MarkVerified(p)
           \/ ReleaseCommit(p) \/ DispatchFails(p) \/ ApiCrash(p)
    PROVE  /\ \A q \in Threads \ {p} : req'[q] = req[q]
           /\ req'[p].pc \notin {"placed", "bridged"}
           /\ UNCHANGED <<pod, count>>
<1> USE DEF TypeOK, tenantVars, node, history, Idle
<1>1. CASE Ask(p)
    BY <1>1 DEF Ask, Verify, VerifyRetry, AdminApprove, StartApproval, ReleaseRead
<1>2. CASE NoCapacity(p) \/ BridgeCallFails(p) \/ Dispatch(p) \/ MarkVerified(p)
    BY <1>2 DEF NoCapacity, BridgeCallFails, Dispatch, MarkVerified
<1>3. CASE DispatchFails(p) \/ ApiCrash(p)
    BY <1>3 DEF DispatchFails, ApiCrash
<1>4. CASE ReleaseCommit(p)
    <2>1. req' = [req EXCEPT ![p] = Idle] /\ UNCHANGED <<pod, count>>
        BY <1>4 DEF ReleaseCommit
    <2> QED
        BY <2>1
<1> QED
    BY <1>1, <1>2, <1>3, <1>4

LEMMA PodsLockedStep ==
    ASSUME TypeOK, PodsLocked, [Next]_vars
    PROVE  PodsLocked'
<1> USE RequestFields DEF PodsLocked
<1>1. ASSUME NEW p \in Threads, AssignPod(p) PROVE PodsLocked'
    <2>1. PICK d \in RoomyPods :
             req' = [req EXCEPT ![p] = [pc |-> "placed", tenant |-> req[p].tenant,
                                        verify |-> req[p].verify, sawPod |-> req[p].sawPod,
                                        pod |-> d]]
        BY <1>1 DEF AssignPod
    <2>2. /\ count[d] < MaxTenants[d]
          /\ \A q \in Threads : req[q].pc \in {"placed", "bridged"} => req[q].pod # d
        BY <2>1 DEF RoomyPods, LockedPods
    <2>3. req'[p].pc = "placed" /\ req'[p].pod = d /\ \A q \in Threads \ {p} : req'[q] = req[q]
        BY <2>1 DEF TypeOK
    <2>4. UNCHANGED count
        BY <1>1 DEF AssignPod
    <2> QED
        BY <2>2, <2>3, <2>4
<1>2. ASSUME NEW p \in Threads, AllocateBridge(p) PROVE PodsLocked'
    BY <1>2 DEF AllocateBridge, TypeOK
<1>3. ASSUME NEW p \in Threads, ApproveCommit(p) PROVE PodsLocked'
    BY <1>3 DEF ApproveCommit, TypeOK
<1>4. ASSUME NEW p \in Threads,
             \/ Ask(p) \/ NoCapacity(p) \/ BridgeCallFails(p) \/ Dispatch(p) \/ MarkVerified(p)
             \/ ReleaseCommit(p) \/ DispatchFails(p) \/ ApiCrash(p)
      PROVE  PodsLocked'
    BY <1>4, LocklessSteps
<1>5. ASSUME NEW b \in Bridges, BridgeRemoved(b) PROVE PodsLocked'
    BY <1>5 DEF BridgeRemoved, tenantVars
<1>6. ASSUME NEW m \in Messages, TaskMove(m) PROVE PodsLocked'
    BY <1>6, TaskFrame
<1>7. CASE UNCHANGED vars
    BY <1>7 DEF vars
<1> QED
    BY <1>1, <1>2, <1>3, <1>4, <1>5, <1>6, <1>7, NextCases DEF ApprovalStep

LEMMA BridgesLockedStep ==
    ASSUME TypeOK, BridgesLocked, [Next]_vars
    PROVE  BridgesLocked'
<1> USE RequestFields DEF BridgesLocked
<1>1. ASSUME NEW p \in Threads, AllocateBridge(p) PROVE BridgesLocked'
    <2>1. PICK b \in Allocatable :
             req' = [req EXCEPT ![p] = [pc |-> "bridged", tenant |-> req[p].tenant,
                                        verify |-> req[p].verify, sawPod |-> req[p].sawPod,
                                        pod |-> req[p].pod, bridge |-> b]]
        BY <1>1 DEF AllocateBridge
    <2>2. owner[b] = None /\ \A q \in Threads : req[q].pc = "bridged" => req[q].bridge # b
        BY <2>1 DEF Allocatable, FreeBridges, LockedBridges
    <2>3. req'[p].pc = "bridged" /\ req'[p].bridge = b /\ \A q \in Threads \ {p} : req'[q] = req[q]
        BY <2>1 DEF TypeOK
    <2>4. UNCHANGED owner
        BY <1>1 DEF AllocateBridge
    <2> QED
        BY <2>2, <2>3, <2>4
<1>2. ASSUME NEW p \in Threads, AssignPod(p) PROVE BridgesLocked'
    BY <1>2 DEF AssignPod, TypeOK
<1>3. ASSUME NEW p \in Threads, ApproveCommit(p) PROVE BridgesLocked'
    BY <1>3 DEF ApproveCommit, TypeOK
<1>4. ASSUME NEW p \in Threads,
             \/ Ask(p) \/ NoCapacity(p) \/ BridgeCallFails(p) \/ Dispatch(p) \/ MarkVerified(p)
             \/ ReleaseCommit(p) \/ DispatchFails(p) \/ ApiCrash(p)
      PROVE  BridgesLocked'
    <2>1. \A b \in Bridges : owner[b] = None => owner'[b] = None
        BY <1>4 DEF Ask, Verify, VerifyRetry, AdminApprove, StartApproval, ReleaseRead, NoCapacity,
           BridgeCallFails, Dispatch, MarkVerified, ReleaseCommit, DispatchFails, ApiCrash, TypeOK
    <2> QED
        BY <1>4, <2>1, LocklessSteps
<1>5. ASSUME NEW b \in Bridges, BridgeRemoved(b) PROVE BridgesLocked'
    BY <1>5 DEF BridgeRemoved, tenantVars
<1>6. ASSUME NEW m \in Messages, TaskMove(m) PROVE BridgesLocked'
    BY <1>6, TaskFrame
<1>7. CASE UNCHANGED vars
    BY <1>7 DEF vars
<1> QED
    BY <1>1, <1>2, <1>3, <1>4, <1>5, <1>6, <1>7, NextCases DEF ApprovalStep

\* A commit counts its tenant in the pod that is locked for it; whoever was in
\* the pod still is, and nobody else comes.
LEMMA PodsCountedStep ==
    ASSUME TypeOK, PodsLocked, PodsCounted, [Next]_vars
    PROVE  PodsCounted'
<1>1. ASSUME NEW p \in Threads, ApproveCommit(p) PROVE PodsCounted'
    <2> DEFINE t == req[p].tenant
               d == req[p].pod
    <2>1. /\ t \in Tenants /\ d \in Pods /\ count[d] < MaxTenants[d]
          /\ count' = [count EXCEPT ![d] = count[d] + 1]
          /\ pod' = pod \/ pod' = [pod EXCEPT ![t] = d]
        BY <1>1, RequestFields DEF ApproveCommit, PodsLocked
    <2> SUFFICES ASSUME NEW e \in Pods
                 PROVE  /\ count'[e] <= MaxTenants[e]
                        /\ IsFiniteSet(TenantsIn(e)')
                        /\ Cardinality(TenantsIn(e)') <= count'[e]
        BY DEF PodsCounted
    <2>2. /\ count[e] <= MaxTenants[e] /\ IsFiniteSet(TenantsIn(e))
          /\ Cardinality(TenantsIn(e)) <= count[e]
        BY DEF PodsCounted
    <2>3. count[e] \in Nat /\ MaxTenants[e] \in Nat /\ Cardinality(TenantsIn(e)) \in Nat
        BY <2>2, OnboardingAssumption, FS_CardinalityType DEF TypeOK
    <2>4. CASE e = d
        <3>1. TenantsIn(e)' \subseteq TenantsIn(e) \cup {t}
            BY <2>1, <2>4 DEF TenantsIn, TypeOK
        <3>2. /\ IsFiniteSet(TenantsIn(e) \cup {t})
              /\ Cardinality(TenantsIn(e) \cup {t}) <= Cardinality(TenantsIn(e)) + 1
            <4>1. /\ IsFiniteSet(TenantsIn(e) \cup {t})
                  /\ \/ Cardinality(TenantsIn(e) \cup {t}) = Cardinality(TenantsIn(e))
                     \/ Cardinality(TenantsIn(e) \cup {t}) = Cardinality(TenantsIn(e)) + 1
                BY <2>2, FS_AddElement, Zenon
            <4> QED
                BY <2>3, <4>1
        <3>3. /\ IsFiniteSet(TenantsIn(e)')
              /\ Cardinality(TenantsIn(e)') <= Cardinality(TenantsIn(e) \cup {t})
            BY <3>1, <3>2, FS_Subset
        <3>4. Cardinality(TenantsIn(e)') \in Nat /\ Cardinality(TenantsIn(e) \cup {t}) \in Nat
            BY <3>2, <3>3, FS_CardinalityType
        <3>5. count'[e] = count[e] + 1 /\ count[e] < MaxTenants[e]
            BY <2>1, <2>4 DEF TypeOK
        <3> QED
            BY <2>2, <2>3, <3>2, <3>3, <3>4, <3>5
    <2>5. CASE e # d
        <3>1. TenantsIn(e)' \subseteq TenantsIn(e)
            BY <2>1, <2>5 DEF TenantsIn, TypeOK
        <3>2. IsFiniteSet(TenantsIn(e)') /\ Cardinality(TenantsIn(e)') <= Cardinality(TenantsIn(e))
            BY <3>1, <2>2, FS_Subset
        <3>3. Cardinality(TenantsIn(e)') \in Nat
            BY <3>2, FS_CardinalityType
        <3>4. count'[e] = count[e]
            BY <2>1, <2>5 DEF TypeOK
        <3> QED
            BY <2>2, <2>3, <3>2, <3>3, <3>4
    <2> QED
        BY <2>4, <2>5
<1>2. CASE UNCHANGED <<pod, count>>
    BY <1>2 DEF PodsCounted, TenantsIn
<1>3. ASSUME NEW p \in Threads, AssignPod(p) \/ AllocateBridge(p) PROVE UNCHANGED <<pod, count>>
    BY <1>3 DEF AssignPod, AllocateBridge, tenantVars
<1>4. ASSUME NEW b \in Bridges, BridgeRemoved(b) PROVE UNCHANGED <<pod, count>>
    BY <1>4 DEF BridgeRemoved, tenantVars
<1>5. CASE UNCHANGED vars
    BY <1>5 DEF vars, PodsCounted, TenantsIn
<1> QED
    BY <1>1, <1>2, <1>3, <1>4, <1>5, LocklessSteps, TaskFrame, NextCases DEF ApprovalStep

-----------------------------------------------------------------------------
(* The bridge pool.                                                        *)

RequestMove(p) == Ask(p) \/ ApprovalStep(p) \/ DispatchFails(p) \/ ApiCrash(p)

\* A request's step leaves the other requests, and every message that was sent.
\* A request that was to send a message sends it.
LEMMA RequestFrame ==
    ASSUME TypeOK, NEW p \in Threads, RequestMove(p)
    PROVE  /\ \A q \in Threads \ {p} : req'[q] = req[q]
           /\ req[p].pc # "dispatch" => task' = task
           /\ req[p].pc = "dispatch" =>
                 /\ req'[p].pc # "dispatch" /\ ~Waits(p)'
                 /\ \E m \in Messages, pc \in {"queued", "lost"} :
                       /\ task[m].pc = "none"
                       /\ task' = [task EXCEPT ![m] = Message(req[p].tenant, pc)]
<1> USE DEF tenantVars, node, history
<1>1. \A q \in Threads \ {p} : req'[q] = req[q]
    <2>1. CASE AssignPod(p) \/ AllocateBridge(p) \/ ApproveCommit(p)
        BY <2>1 DEF AssignPod, AllocateBridge, ApproveCommit, TypeOK
    <2> QED
        BY <2>1, LocklessSteps DEF RequestMove, ApprovalStep
<1>2. CASE Dispatch(p) \/ DispatchFails(p) \/ (ApiCrash(p) /\ req[p].pc = "dispatch")
    <2>1. req[p].pc = "dispatch"
        BY <1>2 DEF Dispatch, DispatchFails
    <2>2. PICK pc \in {"queued", "lost"} : Send(p, pc)
        BY <1>2 DEF Dispatch, DispatchFails, ApiCrash
    <2>3. \E m \in Messages :
             task[m].pc = "none" /\ task' = [task EXCEPT ![m] = Message(req[p].tenant, pc)]
        BY <2>1, <2>2, SendTyped DEF TaskPc
    <2>4. req'[p].pc \in {"idle", "mark"}
        BY <1>2 DEF Dispatch, DispatchFails, ApiCrash, TypeOK, Idle
    <2> QED
        BY <1>1, <2>1, <2>3, <2>4 DEF Waits
<1>3. CASE ~(Dispatch(p) \/ DispatchFails(p) \/ (ApiCrash(p) /\ req[p].pc = "dispatch"))
    <2>1. req[p].pc # "dispatch" /\ task' = task
        <3>1. CASE Ask(p)
            BY <3>1 DEF Ask, Verify, VerifyRetry, AdminApprove, StartApproval, ReleaseRead
        <3>2. CASE AssignPod(p) \/ AllocateBridge(p) \/ NoCapacity(p)
            BY <3>2 DEF AssignPod, AllocateBridge, NoCapacity
        <3>3. CASE BridgeCallFails(p) \/ ApproveCommit(p) \/ MarkVerified(p) \/ ReleaseCommit(p)
            BY <3>3 DEF BridgeCallFails, ApproveCommit, MarkVerified, ReleaseCommit
        <3>4. CASE ApiCrash(p)
            BY <1>3, <3>4 DEF ApiCrash
        <3> QED
            BY <1>3, <3>1, <3>2, <3>3, <3>4 DEF RequestMove, ApprovalStep
    <2> QED
        BY <1>1, <2>1
<1> QED
    BY <1>2, <1>3

LEMMA NextKinds ==
    ASSUME [Next]_vars
    PROVE  \/ \E p \in Threads : RequestMove(p)
           \/ \E b \in Bridges : BridgeRemoved(b)
           \/ \E m \in Messages : TaskMove(m)
           \/ UNCHANGED vars
BY NextCases DEF RequestMove

\* Once approved is approved before for ever.
LEMMA ApprovedStays ==
    ASSUME TypeOK, [Next]_vars, NEW t \in Tenants, ApprovedBefore(t)
    PROVE  ApprovedBefore(t)'
<1> USE DEF ApprovedBefore, TenantOf
<1>1. ASSUME NEW p \in Threads, RequestMove(p) PROVE ApprovedBefore(t)'
    <2>1. CASE req[p].pc = "dispatch"
        <3>1. PICK m \in Messages, pc \in {"queued", "lost"} :
                 /\ task[m].pc = "none"
                 /\ task' = [task EXCEPT ![m] = Message(req[p].tenant, pc)]
            BY <1>1, <2>1, RequestFrame
        <3>2. /\ task'[m].pc # "none" /\ task'[m].tenant = req[p].tenant
              /\ \A n \in Messages \ {m} : task'[n] = task[n]
            BY <3>1 DEF TypeOK, Message
        <3> QED
            BY <1>1, <3>1, <3>2, RequestFrame
    <2>2. CASE req[p].pc # "dispatch"
        BY <1>1, <2>2, RequestFrame
    <2> QED
        BY <2>1, <2>2
<1>2. ASSUME NEW m \in Messages, TaskMove(m) PROVE ApprovedBefore(t)'
    <2>1. /\ task'[m].pc # "none" /\ task'[m].tenant = task[m].tenant /\ req' = req
          /\ \A n \in Messages \ {m} : task'[n] = task[n]
        BY <1>2, TaskFrame DEF TypeOK
    <2> QED
        BY <2>1
<1>3. CASE (\E b \in Bridges : BridgeRemoved(b)) \/ UNCHANGED vars
    BY <1>3 DEF BridgeRemoved, vars
<1> QED
    BY <1>1, <1>2, <1>3, NextKinds

\* The tables and the hypervisor's VMs.
tables == <<status, bridge, pod, owner, key, vms, disturbed, overlap, cut, released>>

\* A step of a request that changes none of them, but for bridges that are made,
\* and begins no approval.
Quiet(p) ==
    /\ UNCHANGED tables /\ made \subseteq made'
    /\ req'[p].pc # "dispatch"
    /\ Waits(p)' => Waits(p) /\ req'[p].tenant = req[p].tenant

LEMMA RequestKinds ==
    ASSUME TypeOK, NEW p \in Threads, RequestMove(p)
    PROVE  \/ \E t \in Tenants : Verify(p, t) \/ VerifyRetry(p, t) \/ AdminApprove(p, t)
           \/ ApproveCommit(p) \/ ReleaseCommit(p) \/ Quiet(p)
<1> USE DEF tenantVars, node, history, tables, Quiet, Waits, TypeOK, Idle
<1>1. ASSUME NEW b \in Bridges, ReleaseRead(p, b) PROVE Quiet(p)
    BY <1>1 DEF ReleaseRead
<1>2. CASE AssignPod(p)
    BY <1>2 DEF AssignPod
<1>3. CASE AllocateBridge(p)
    BY <1>3 DEF AllocateBridge
<1>4. CASE NoCapacity(p) \/ Dispatch(p) \/ DispatchFails(p) \/ MarkVerified(p)
    BY <1>4 DEF NoCapacity, Dispatch, DispatchFails, MarkVerified
<1>5. CASE BridgeCallFails(p)
    BY <1>5 DEF BridgeCallFails, CreateBridge
<1>6. CASE ApiCrash(p)
    BY <1>6 DEF ApiCrash, CreateBridge
<1> QED
    BY <1>1, <1>2, <1>3, <1>4, <1>5, <1>6 DEF RequestMove, Ask, ApprovalStep

\* What a commit writes.
LEMMA CommitWrites ==
    ASSUME TypeOK, BridgesLocked, NEW p \in Threads, ApproveCommit(p)
    PROVE  LET t == req[p].tenant
               b == req[p].bridge
           IN  /\ t \in Tenants /\ b \in Bridges /\ owner[b] = None
               /\ owner' = [owner EXCEPT ![b] = t] /\ bridge' = [bridge EXCEPT ![t] = b]
               /\ status' = [status EXCEPT ![t] = "provisioning"]
               /\ b \in made' /\ made \subseteq made'
               /\ req'[p].pc = "dispatch" /\ req'[p].tenant = t
               /\ \/ ~ApprovedBefore(t) /\ UNCHANGED <<disturbed, overlap>>
                  \/ ApprovedBefore(t) /\ Disturb(t, UnderWay(p, t) \/ bridge[t] # None)
               /\ UNCHANGED <<key, vms, task, cut, released>>
BY RequestFields DEF ApproveCommit, BridgesLocked, CreateBridge, TypeOK

LEMMA ReleaseWrites ==
    ASSUME TypeOK, NEW p \in Threads, ReleaseCommit(p)
    PROVE  LET t == req[p].tenant
               b == req[p].bridge
           IN  /\ t \in Tenants /\ b \in Bridges
               /\ owner' = [owner EXCEPT ![b] = None]
               /\ bridge' = IF req[p].sawBridge = None THEN bridge ELSE [bridge EXCEPT ![t] = None]
               /\ status' = IF req[p].sawError THEN status ELSE [status EXCEPT ![t] = "error"]
               /\ released' = released \cup {b}
               /\ Disturb(t, UnderWay(p, t) \/ bridge[t] # req[p].sawBridge)
               /\ req'[p].pc = "idle"
               /\ UNCHANGED <<key, vms, made, task, cut>>
<1>1. /\ req[p].pc = "release" /\ req' = [req EXCEPT ![p] = Idle]
    BY DEF ReleaseCommit
<1>2. req[p].tenant \in Tenants /\ req[p].bridge \in Bridges
    BY <1>1, RequestFields
<1>3. req'[p].pc = "idle"
    BY <1>1 DEF TypeOK, Idle
<1>4. /\ Disturb(req[p].tenant, UnderWay(p, req[p].tenant) \/ bridge[req[p].tenant] # req[p].sawBridge)
      /\ UNCHANGED <<key, vms, made, task, cut>>
    BY DEF ReleaseCommit, node
<1> QED
    BY <1>2, <1>3, <1>4 DEF ReleaseCommit

\* Only a tenant that a bridge is registered for is about to lose one.
LEMMA ReleasingBegins ==
    ASSUME TypeOK, NEW p \in Threads, RequestMove(p), NEW q \in Threads, NEW t \in Tenants,
           Releasing(q, t)'
    PROVE  \/ Releasing(q, t) /\ req'[q] = req[q]
           \/ /\ \E b \in Bridges : ReleaseRead(p, b) /\ owner[b] = t
              /\ req'[q].sawError <=> status[t] = "error"
<1>1. CASE q # p
    BY <1>1, RequestFrame DEF Releasing
<1>2. CASE q = p
    <2> USE <1>2 DEF Releasing, TypeOK, Idle
    <2>1. CASE \E b \in Bridges : ReleaseRead(p, b)
        <3>1. PICK b \in Bridges : ReleaseRead(p, b)
            BY <2>1
        <3>2. req'[p].tenant = owner[b] /\ req'[p].sawError = (status[owner[b]] = "error")
            BY <3>1 DEF ReleaseRead
        <3> QED
            BY <3>1, <3>2
    <2>2. CASE \E u \in Tenants : Verify(p, u) \/ VerifyRetry(p, u) \/ AdminApprove(p, u)
        BY <2>2 DEF Verify, VerifyRetry, AdminApprove, StartApproval
    <2>3. CASE AssignPod(p) \/ AllocateBridge(p) \/ ApproveCommit(p)
        BY <2>3 DEF AssignPod, AllocateBridge, ApproveCommit
    <2>4. CASE NoCapacity(p) \/ BridgeCallFails(p) \/ Dispatch(p) \/ MarkVerified(p)
        BY <2>4 DEF NoCapacity, BridgeCallFails, Dispatch, MarkVerified
    <2>5. CASE DispatchFails(p) \/ ApiCrash(p)
        BY <2>5 DEF DispatchFails, ApiCrash
    <2>6. CASE ReleaseCommit(p)
        BY <2>6, ReleaseWrites
    <2> QED
        BY <2>1, <2>2, <2>3, <2>4, <2>5, <2>6 DEF RequestMove, Ask, ApprovalStep
<1> QED
    BY <1>1, <1>2

LEMMA RegisteredStep ==
    ASSUME TypeOK, BridgesLocked, Registered, [Next]_vars
    PROVE  Registered'
<1> DEFINE Has(t) == \/ bridge[t] # None
                     \/ \E b \in Bridges : owner[b] = t
                     \/ \E p \in Threads : Releasing(p, t)
<1> SUFFICES ASSUME NEW t \in Tenants, Has(t)'
             PROVE  ApprovedBefore(t)'
    BY DEF Registered
<1>1. Has(t) => ApprovedBefore(t)'
    <2>1. Has(t) => ApprovedBefore(t)
        BY DEF Registered
    <2> QED
        BY <2>1, ApprovedStays
<1> USE OnboardingAssumption DEF TypeOK
<1>2. CASE UNCHANGED <<owner, bridge, req>>
    BY <1>1, <1>2 DEF Releasing
<1>3. ASSUME NEW p \in Threads, RequestMove(p) PROVE ApprovedBefore(t)'
    <2>1. CASE \E q \in Threads : Releasing(q, t)'
        <3>1. Has(t)
            BY <1>3, <2>1, ReleasingBegins
        <3> QED
            BY <1>1, <3>1
    <2>2. CASE bridge'[t] # None \/ \E b \in Bridges : owner'[b] = t
        <3> DEFINE Held == bridge[t] # None \/ \E b \in Bridges : owner[b] = t
        <3>1. CASE Held
            BY <1>1, <3>1
        <3>2. CASE ApproveCommit(p)
            <4>1. t = req[p].tenant => ApprovedBefore(t)'
                <5>1. req'[p].pc = "dispatch" /\ req'[p].tenant = req[p].tenant
                    BY <3>2, CommitWrites
                <5> QED
                    BY <5>1 DEF ApprovedBefore
            <4>2. Held \/ t = req[p].tenant
                <5>1. /\ owner' = [owner EXCEPT ![req[p].bridge] = req[p].tenant]
                      /\ bridge' = [bridge EXCEPT ![req[p].tenant] = req[p].bridge]
                    BY <3>2, CommitWrites
                <5>2. bridge'[t] # None => bridge[t] # None \/ t = req[p].tenant
                    BY <5>1
                <5>3. \A b \in Bridges : owner'[b] = t => owner[b] = t \/ t = req[p].tenant
                    BY <5>1
                <5> QED
                    BY <2>2, <5>2, <5>3
            <4> QED
                BY <3>1, <4>1, <4>2
        <3>3. CASE ReleaseCommit(p)
            <4>1. Held
                <5>1. /\ owner' = [owner EXCEPT ![req[p].bridge] = None]
                      /\ bridge' = bridge \/ bridge' = [bridge EXCEPT ![req[p].tenant] = None]
                    BY <3>3, ReleaseWrites
                <5>2. bridge'[t] # None => bridge[t] # None
                    BY <5>1
                <5>3. \A b \in Bridges : owner'[b] = t => owner[b] = t
                    BY <5>1
                <5> QED
                    BY <2>2, <5>2, <5>3
            <4> QED
                BY <3>1, <4>1
        <3>4. ASSUME NEW u \in Tenants, Verify(p, u) \/ VerifyRetry(p, u) \/ AdminApprove(p, u)
              PROVE  Held
            <4>1. owner' = owner /\ (bridge' = bridge \/ bridge' = [bridge EXCEPT ![u] = None])
                BY <3>4 DEF Verify, VerifyRetry, AdminApprove, StartApproval
            <4> QED
                BY <2>2, <4>1
        <3>5. CASE Quiet(p)
            BY <2>2, <3>1, <3>5 DEF Quiet, tables
        <3> QED
            BY <1>3, <3>1, <3>2, <3>3, <3>4, <3>5, RequestKinds
    <2> QED
        BY <2>1, <2>2
<1>4. CASE \/ \E b \in Bridges : BridgeRemoved(b)
           \/ \E m \in Messages : TaskMove(m)
           \/ UNCHANGED vars
    BY <1>2, <1>4, TaskFrame DEF BridgeRemoved, tenantVars, vars
<1> QED
    BY <1>3, <1>4, NextKinds

LEMMA BridgesAgreeStep ==
    ASSUME TypeOK, BridgesLocked, Registered, BridgesAgree, [Next]_vars
    PROVE  BridgesAgree'
<1> SUFFICES ASSUME NEW t \in Tenants, NEW b \in Bridges, b \notin released'
             PROVE  /\ bridge'[t] = b => owner'[b] = t /\ b \in made'
                    /\ owner'[b] = t /\ t \notin disturbed' => bridge'[t] = b
    BY DEF BridgesAgree
<1> USE OnboardingAssumption DEF TypeOK
<1>1. b \notin released => /\ bridge[t] = b => owner[b] = t /\ b \in made
                           /\ owner[b] = t /\ t \notin disturbed => bridge[t] = b
    BY DEF BridgesAgree
<1>2. CASE UNCHANGED <<owner, bridge, made, disturbed, released>>
    BY <1>1, <1>2
<1>3. ASSUME NEW p \in Threads, RequestMove(p)
      PROVE  /\ bridge'[t] = b => owner'[b] = t /\ b \in made'
             /\ owner'[b] = t /\ t \notin disturbed' => bridge'[t] = b
    <2>1. CASE ApproveCommit(p)
        <3>1. owner[b] = t /\ b # req[p].bridge /\ t = req[p].tenant => t \in disturbed'
            BY <2>1, CommitWrites DEF Registered, Disturb
        <3>2. t \notin disturbed' => t \notin disturbed
            BY <2>1, CommitWrites DEF Disturb
        <3> QED
            BY <1>1, <2>1, <3>1, <3>2, CommitWrites
    <2>2. CASE ReleaseCommit(p)
        <3>1. b \notin released /\ b # req[p].bridge
            BY <2>2, ReleaseWrites
        <3>2. t \notin disturbed' => t \notin disturbed /\ t # req[p].tenant
            BY <2>2, ReleaseWrites DEF Disturb
        <3> QED
            BY <1>1, <2>2, <3>1, <3>2, ReleaseWrites
    <2>3. ASSUME NEW u \in Tenants, VerifyRetry(p, u)
          PROVE  /\ bridge' = [bridge EXCEPT ![u] = None] /\ disturbed' = disturbed \cup {u}
                 /\ UNCHANGED <<owner, made, released>>
        BY <2>3 DEF VerifyRetry, StartApproval, Disturb
    <2>4. ASSUME NEW u \in Tenants, Verify(p, u) \/ AdminApprove(p, u)
          PROVE  UNCHANGED <<owner, bridge, made, disturbed, released>>
        BY <2>4 DEF Verify, AdminApprove, StartApproval
    <2>5. CASE Quiet(p)
        BY <1>1, <2>5 DEF Quiet, tables
    <2> QED
        BY <1>1, <1>3, <2>1, <2>2, <2>3, <2>4, <2>5, RequestKinds
<1>4. ASSUME NEW c \in Bridges, BridgeRemoved(c)
      PROVE  /\ bridge'[t] = b => owner'[b] = t /\ b \in made'
             /\ owner'[b] = t /\ t \notin disturbed' => bridge'[t] = b
    BY <1>1, <1>4 DEF BridgeRemoved, tenantVars, history
<1>5. CASE (\E m \in Messages : TaskMove(m)) \/ UNCHANGED vars
    BY <1>2, <1>5, TaskFrame DEF vars
<1> QED
    BY <1>3, <1>4, <1>5, NextKinds

\* The ids a task knows come from its tenant's row, now or before.
LEMMA MoveIds ==
    ASSUME TypeOK, NEW m \in Messages, TaskMove(m)
    PROVE  /\ task'[m].vm \in {task[m].vm, task[m].copy.vm, None}
           /\ task'[m].copy \in {task[m].copy, Read(TenantOf(m)), Expired}
<1>1. task[m] \in TaskRecord
    BY TaskFrame
<1>2. CASE TaskStart(m) \/ TaskClone(m) \/ TaskWan(m) \/ TaskKey(m) \/ RollbackDelete(m) \/ TaskEnd(m)
    <2>1. \E pc \in TaskPc, vm \in {task[m].vm, task[m].copy.vm},
             copy \in {task[m].copy, Read(task[m].tenant), Expired} : GoesOn(m, pc, vm, copy)
        BY <1>1, <1>2, GoesOnColumns DEF TaskPc
    <2> QED
        BY <2>1 DEF GoesOn, TenantOf
<1>3. CASE TaskFinish(m) \/ RollbackCommit(m) \/ WorkerCrash(m) \/ HardLimit(m)
    <2>1. \E pc \in TaskPc : Afresh(m, pc)
        BY <1>1, <1>3, AfreshColumns DEF TaskPc
    <2> QED
        BY <2>1 DEF Afresh, Message
<1>4. CASE TaskStuck(m) \/ RollbackAgain(m) \/ \E timeout \in BOOLEAN : TaskFail(m, timeout)
    <2>1. PICK again \in BOOLEAN : RollsBack(m, again)
        BY <1>1, <1>4, RollsBackColumns
    <2> QED
        BY <2>1 DEF RollsBack, TenantOf
<1> QED
    BY <1>2, <1>3, <1>4 DEF TaskMove, TaskStep

\* A task clones a VM where there is none, or deletes one as it rolls back.
Clones(m) ==
    LET b == task[m].copy.vm IN
    /\ task[m].pc = "started" /\ b \in Bridges /\ vms[b] = None
    /\ vms' = [vms EXCEPT ![b] = TenantOf(m)]

Deletes(m) == LET b == task[m].copy.vm IN
              RollbackDelete(m) /\ b # None /\ DeleteVm(b)

LEMMA MoveVms ==
    ASSUME TypeOK, NEW m \in Messages, TaskMove(m)
    PROVE  vms' = vms \/ Clones(m) \/ Deletes(m)
<1> USE DEF node
<1>1. CASE TaskClone(m) \/ WorkerCrash(m) \/ \E timeout \in BOOLEAN : TaskFail(m, timeout)
    BY <1>1 DEF TaskClone, WorkerCrash, TaskFail, CloneOpnsense, CloneRefused, Clones
<1>2. CASE RollbackDelete(m)
    BY <1>2 DEF RollbackDelete, Deletes
<1>3. CASE \/ TaskStart(m) \/ TaskWan(m) \/ TaskKey(m) \/ TaskFinish(m) \/ TaskStuck(m)
           \/ RollbackCommit(m) \/ RollbackAgain(m) \/ TaskEnd(m) \/ HardLimit(m)
    BY <1>3 DEF TaskStart, TaskWan, TaskKey, TaskFinish, TaskStuck, RollbackCommit, RollbackAgain,
       TaskEnd, HardLimit
<1> QED
    BY <1>1, <1>2, <1>3 DEF TaskMove, TaskStep

LEMMA VmsOwnedStep ==
    ASSUME TypeOK, BridgesLocked, BridgesAgree, VmsOwned, [Next]_vars
    PROVE  VmsOwned'
<1> DEFINE Owned(b) ==
        /\ vms[b] # None => vms[b] = owner[b]
        /\ \A m \in Messages :
              task[m].pc # "none" /\ (task[m].copy.vm = b \/ task[m].vm = b) => owner[b] = TenantOf(m)
<1> SUFFICES ASSUME NEW b \in Bridges, b \notin released' PROVE Owned(b)'
    BY DEF VmsOwned
<1> USE OnboardingAssumption
<1>1. b \notin released => Owned(b)
    BY DEF VmsOwned
<1>2. CASE UNCHANGED <<vms, owner, task, released>>
    BY <1>1, <1>2 DEF TenantOf
<1>3. ASSUME NEW p \in Threads, RequestMove(p) PROVE Owned(b)'
    <2>1. CASE ApproveCommit(p)
        <3>1. owner[b] = None /\ Owned(b)
                => vms[b] = None /\ \A m \in Messages :
                       task[m].pc # "none" => task[m].copy.vm # b /\ task[m].vm # b
            <4>1. \A m \in Messages : task[m].pc # "none" => TenantOf(m) \in Tenants
                BY SentShape DEF TaskRecord, TenantOf
            <4> QED
                BY <4>1
        <3> QED
            BY <1>1, <2>1, <3>1, CommitWrites DEF TypeOK, TenantOf
    <2>2. CASE ReleaseCommit(p)
        <3>1. b \notin released /\ b # req[p].bridge
            BY <2>2, ReleaseWrites
        <3> QED
            BY <1>1, <2>2, <3>1, ReleaseWrites DEF TypeOK, TenantOf
    <2>3. ASSUME NEW t \in Tenants, Verify(p, t) \/ VerifyRetry(p, t) \/ AdminApprove(p, t)
          PROVE  UNCHANGED <<vms, owner, task, released>>
        BY <2>3 DEF Verify, VerifyRetry, AdminApprove, StartApproval
    <2>4. CASE Quiet(p)
        <3>1. UNCHANGED <<vms, owner, released>>
            BY <2>4 DEF Quiet, tables
        <3>2. CASE task' = task
            BY <1>2, <3>1, <3>2
        <3>3. CASE req[p].pc = "dispatch"
            <4>1. PICK m \in Messages, pc \in {"queued", "lost"} :
                     task' = [task EXCEPT ![m] = Message(req[p].tenant, pc)]
                BY <1>3, <3>3, RequestFrame
            <4>2. /\ task'[m].copy.vm = None /\ task'[m].vm = None
                  /\ \A n \in Messages \ {m} : task'[n] = task[n]
                BY <4>1 DEF TypeOK, Message, Expired
            <4> QED
                BY <1>1, <3>1, <4>2 DEF TenantOf
        <3> QED
            BY <1>3, <3>2, <3>3, RequestFrame
    <2> QED
        BY <1>2, <1>3, <2>1, <2>2, <2>3, <2>4, RequestKinds
<1>4. ASSUME NEW m \in Messages, TaskMove(m) PROVE Owned(b)'
    <2>1. /\ owner' = owner /\ released' = released /\ task[m].pc # "none"
          /\ task'[m].tenant = task[m].tenant
          /\ \A n \in Messages \ {m} : task'[n] = task[n]
        BY <1>4, TaskFrame DEF TypeOK, Active
    <2>2. Owned(b)
        BY <1>1, <2>1
    <2>3. bridge[TenantOf(m)] = b => owner[b] = TenantOf(m)
        <3>1. TenantOf(m) \in Tenants
            BY <2>1, SentShape DEF TaskRecord, TenantOf
        <3> QED
            BY <2>1, <3>1 DEF BridgesAgree
    <2>4. task'[m].copy.vm = b \/ task'[m].vm = b => owner[b] = TenantOf(m)
        BY <1>4, <2>1, <2>2, <2>3, MoveIds DEF Read, Expired
    <2>5. vms'[b] # None => vms'[b] = owner[b]
        <3>1. CASE vms' = vms
            BY <2>2, <3>1
        <3>2. CASE Clones(m)
            BY <2>1, <2>2, <3>2 DEF Clones, TypeOK
        <3>3. CASE Deletes(m)
            BY <2>2, <3>3 DEF Deletes, DeleteVm, TypeOK
        <3> QED
            BY <1>4, <3>1, <3>2, <3>3, MoveVms
    <2> QED
        BY <2>1, <2>2, <2>4, <2>5 DEF TenantOf
<1>5. CASE (\E c \in Bridges : BridgeRemoved(c)) \/ UNCHANGED vars
    BY <1>2, <1>5 DEF BridgeRemoved, history, vars
<1> QED
    BY <1>3, <1>4, <1>5, NextKinds

-----------------------------------------------------------------------------
(* One approval at a time.                                                 *)

\* A task writes the status and the key of its own tenant, and makes a key
\* useless when it deletes the VM of its copy.
LEMMA MoveRows ==
    ASSUME TypeOK, NEW m \in Messages, TaskMove(m), NEW t \in Tenants
    PROVE  /\ t # TenantOf(m) => status'[t] = status[t]
           /\ status'[t] = status[t] \/ status'[t] \in {"active", "error"}
           /\ \/ key'[t] = key[t]
              \/ t = TenantOf(m) /\ task[m].pc = "up" /\ key[t] = None /\ key'[t] = task[m].vm
              \/ Deletes(m) /\ key[t] = task[m].copy.vm
<1> USE DEF TypeOK, node, tenantVars
<1>1. CASE TaskFinish(m) \/ RollbackCommit(m)
    BY <1>1 DEF TaskFinish, RollbackCommit, RolledBack
<1>2. CASE TaskKey(m)
    BY <1>2 DEF TaskKey, RotateKey
<1>3. CASE RollbackDelete(m)
    BY <1>3 DEF RollbackDelete, Deletes, DeleteVm
<1>4. CASE \/ TaskStart(m) \/ TaskClone(m) \/ TaskWan(m) \/ TaskStuck(m) \/ RollbackAgain(m)
           \/ TaskEnd(m) \/ WorkerCrash(m) \/ HardLimit(m)
           \/ \E timeout \in BOOLEAN : TaskFail(m, timeout)
    BY <1>4 DEF TaskStart, TaskClone, TaskWan, TaskStuck, RollbackAgain, TaskEnd, WorkerCrash,
       HardLimit, TaskFail
<1> QED
    BY <1>1, <1>2, <1>3, <1>4 DEF TaskMove, TaskStep

\* A tenant whose row stays, and for whom nothing new begins, stays alone.
LEMMA AloneKept ==
    ASSUME NEW t \in Tenants, AloneFor(t),
           UNCHANGED <<status, bridge, key, overlap>>,
           \A m \in Messages : Works(m, t)' => Works(m, t),
           \A p \in Threads : Sends(p, t)' => Sends(p, t),
           Waiting(t)' => Waiting(t)
    PROVE  AloneFor(t)'
BY DEF AloneFor

LEMMA AloneMove ==
    ASSUME TypeOK, NEW t \in Tenants, AloneFor(t), NEW m \in Messages, TaskMove(m)
    PROVE  AloneFor(t)'
<1>1. /\ UNCHANGED <<bridge, req, overlap>>
      /\ Active(m) /\ task'[m].tenant = task[m].tenant
      /\ \A n \in Messages \ {m} : task'[n] = task[n]
    BY TaskFrame DEF TypeOK
<1>2. \A n \in Messages : Works(n, t)' => Works(n, t)
    BY <1>1 DEF Works, Active, TenantOf
<1>3. /\ \A p \in Threads : Sends(p, t)' <=> Sends(p, t)
      /\ Waiting(t)' <=> Waiting(t)
    BY <1>1 DEF Sends, Waiting, Waits
<1>4. status'[t] = "pending_approval" => status[t] = "pending_approval"
    BY MoveRows
<1>5. key[t] = None => key'[t] = None \/ Works(m, t)
    <2>1. Deletes(m) => task[m].copy.vm # None
        BY DEF Deletes
    <2> QED
        BY <1>1, <2>1, MoveRows DEF Works
<1> QED
    BY <1>1, <1>2, <1>3, <1>4, <1>5 DEF AloneFor

\* An approval or a release leaves tenants alone that nothing else was under
\* way for, and no others.
LEMMA DisturbedAlone ==
    ASSUME NEW p \in Threads, NEW t \in Tenants, NEW o \in BOOLEAN, UnderWay(p, t) => o,
           Disturb(t, o), t \notin overlap'
    PROVE  /\ t \notin overlap /\ ~o
           /\ \A m \in Messages : ~Works(m, t)
           /\ \A q \in Threads \ {p} : ~Sends(q, t) /\ ~(Waits(q) /\ req[q].tenant = t)
<1>1. t \notin overlap /\ ~o
    BY DEF Disturb
<1>2. ~UnderWay(p, t)
    BY <1>1
<1>3. \A q \in Threads \ {p} : req[q] # Idle => req[q].tenant # t
    BY <1>2 DEF UnderWay
<1>4. \A q \in Threads : Waits(q) \/ req[q].pc = "dispatch" => req[q] # Idle
    BY DEF Waits, Idle
<1> QED
    BY <1>1, <1>2, <1>3, <1>4 DEF UnderWay, Works, Active, Sends

LEMMA AloneRequest ==
    ASSUME TypeOK, BridgesLocked, NEW t \in Tenants, AloneFor(t), NEW p \in Threads, RequestMove(p)
    PROVE  AloneFor(t)'
<1> USE OnboardingAssumption
<1>1. \A q \in Threads \ {p} : req'[q] = req[q]
    BY RequestFrame
<1>2. ASSUME NEW u \in Tenants, Verify(p, u) \/ AdminApprove(p, u) PROVE AloneFor(t)'
    <2>1. /\ UNCHANGED <<status, bridge, key, overlap, task>>
          /\ status[u] = "pending_approval" /\ req'[p].pc = "approve" /\ req'[p].tenant = u
        BY <1>2 DEF Verify, AdminApprove, Approvable, StartApproval, TypeOK
    <2>2. \A m \in Messages : Works(m, t)' => Works(m, t)
        BY <2>1 DEF Works, Active, TenantOf
    <2>3. \A q \in Threads : Sends(q, t)' => Sends(q, t)
        BY <1>1, <2>1 DEF Sends
    <2>4. Waiting(t)' => Waiting(t) \/ status[t] = "pending_approval"
        BY <1>1, <2>1 DEF Waiting, Waits
    <2> QED
        BY <2>1, <2>2, <2>3, <2>4 DEF AloneFor
<1>3. ASSUME NEW u \in Tenants, VerifyRetry(p, u) PROVE AloneFor(t)'
    <2>1. /\ req[p].pc = "idle" /\ req'[p].pc = "approve" /\ req'[p].tenant = u /\ task' = task
          /\ status' = [status EXCEPT ![u] = "pending_approval"]
          /\ bridge' = [bridge EXCEPT ![u] = None] /\ key' = [key EXCEPT ![u] = None]
        BY <1>3 DEF VerifyRetry, StartApproval, TypeOK
    <2>2. Disturb(u, UnderWay(p, u))
        BY <1>3 DEF VerifyRetry
    <2>3. \A q \in Threads : Sends(q, t)' => Sends(q, t)
        BY <1>1, <2>1 DEF Sends
    <2>4. \A m \in Messages : Works(m, t)' => Works(m, t)
        BY <2>1 DEF Works, Active, TenantOf
    <2>5. CASE u = t
        <3>1. t \notin overlap' => /\ \A m \in Messages : ~Works(m, t)
                                   /\ \A q \in Threads : ~Sends(q, t)
            BY <2>1, <2>2, <2>5, DisturbedAlone DEF Sends, UnderWay
        <3>2. bridge'[t] = None /\ key'[t] = None
            BY <2>1, <2>5 DEF TypeOK
        <3> QED
            BY <2>3, <2>4, <3>1, <3>2 DEF AloneFor
    <2>6. CASE u # t
        <3>1. status'[t] = status[t] /\ bridge'[t] = bridge[t] /\ key'[t] = key[t]
            BY <2>1, <2>6 DEF TypeOK
        <3>2. Waiting(t)' => Waiting(t)
            BY <1>1, <2>1, <2>6 DEF Waiting, Waits
        <3>3. t \notin overlap' => t \notin overlap
            BY <2>2 DEF Disturb
        <3> QED
            BY <2>3, <2>4, <3>1, <3>2, <3>3 DEF AloneFor
    <2> QED
        BY <2>5, <2>6
<1>4. CASE ApproveCommit(p)
    <2> DEFINE u == req[p].tenant
    <2>1. /\ u \in Tenants /\ task' = task /\ key' = key /\ req[p].pc = "bridged"
          /\ bridge' = [bridge EXCEPT ![u] = req[p].bridge] /\ req[p].bridge \in Bridges
          /\ status' = [status EXCEPT ![u] = "provisioning"]
          /\ req'[p].pc = "dispatch" /\ req'[p].tenant = u
        BY <1>4, CommitWrites DEF ApproveCommit
    <2>2. \A m \in Messages : Works(m, t)' => Works(m, t)
        BY <2>1 DEF Works, Active, TenantOf
    <2>3. CASE u = t
        <3>1. t \notin overlap' => /\ t \notin overlap /\ \A m \in Messages : ~Works(m, t)
                                   /\ \A q \in Threads \ {p} : ~Sends(q, t)
            <4>1. CASE ~ApprovedBefore(t) /\ overlap' = overlap
                BY <4>1 DEF ApprovedBefore, Works, Active, Sends
            <4>2. CASE Disturb(t, UnderWay(p, t) \/ bridge[t] # None)
                BY <4>2, DisturbedAlone DEF UnderWay
            <4> QED
                BY <1>4, <2>3, <4>1, <4>2, CommitWrites
        <3>2. bridge'[t] # None /\ status'[t] = "provisioning"
            BY <2>1, <2>3 DEF TypeOK
        <3>3. t \notin overlap' => \A q \in Threads : Sends(q, t)' => q = p
            BY <1>1, <3>1 DEF Sends
        <3> QED
            BY <2>2, <3>1, <3>2, <3>3 DEF AloneFor
    <2>4. CASE u # t
        <3>1. status'[t] = status[t] /\ bridge'[t] = bridge[t] /\ key'[t] = key[t]
            BY <2>1, <2>4 DEF TypeOK
        <3>2. (Waiting(t)' => Waiting(t)) /\ \A q \in Threads : Sends(q, t)' => Sends(q, t)
            BY <1>1, <2>1, <2>4 DEF Waiting, Waits, Sends
        <3>3. t \notin overlap' => t \notin overlap
            BY <1>4, <2>4, CommitWrites DEF Disturb
        <3> QED
            BY <2>2, <3>1, <3>2, <3>3 DEF AloneFor
    <2> QED
        BY <2>3, <2>4
<1>5. CASE ReleaseCommit(p)
    <2> DEFINE u == req[p].tenant
    <2>1. /\ u \in Tenants /\ task' = task /\ key' = key /\ req[p].pc = "release"
          /\ req'[p].pc = "idle"
          /\ bridge' = bridge \/ bridge' = [bridge EXCEPT ![u] = None]
          /\ status' = status \/ status' = [status EXCEPT ![u] = "error"]
        BY <1>5, ReleaseWrites DEF ReleaseCommit
    <2>2. Disturb(u, UnderWay(p, u) \/ bridge[u] # req[p].sawBridge)
        BY <1>5, ReleaseWrites
    <2>3. \A m \in Messages : Works(m, t)' => Works(m, t)
        BY <2>1 DEF Works, Active, TenantOf
    <2>4. (Waiting(t)' => Waiting(t)) /\ \A q \in Threads : Sends(q, t)' => Sends(q, t)
        BY <1>1, <2>1 DEF Waiting, Waits, Sends
    <2>5. CASE u = t
        <3>1. t \notin overlap' => /\ t \notin overlap /\ \A m \in Messages : ~Works(m, t)
                                   /\ \A q \in Threads : ~Sends(q, t)' /\ ~(Waits(q) /\ req[q].tenant = t)'
            <4>1. t \notin overlap' =>
                     /\ t \notin overlap /\ \A m \in Messages : ~Works(m, t)
                     /\ \A q \in Threads \ {p} : ~Sends(q, t) /\ ~(Waits(q) /\ req[q].tenant = t)
                BY <2>2, <2>5, DisturbedAlone DEF UnderWay
            <4>2. ~Sends(p, t)' /\ ~Waits(p)'
                BY <2>1 DEF Sends, Waits
            <4>3. \A q \in Threads \ {p} :
                     /\ Sends(q, t)' <=> Sends(q, t)
                     /\ (Waits(q) /\ req[q].tenant = t)' <=> Waits(q) /\ req[q].tenant = t
                BY <1>1 DEF Sends, Waits
            <4> QED
                BY <4>1, <4>2, <4>3
        <3>2. status'[t] = "pending_approval" => status[t] = "pending_approval"
            BY <2>1 DEF TypeOK
        <3>3. bridge[t] = None => bridge'[t] = None
            BY <2>1 DEF TypeOK
        <3> QED
            BY <2>1, <2>3, <3>1, <3>2, <3>3 DEF AloneFor, Waiting
    <2>6. CASE u # t
        <3>1. status'[t] = status[t] /\ bridge'[t] = bridge[t] /\ key'[t] = key[t]
            BY <2>1, <2>6 DEF TypeOK
        <3>2. t \notin overlap' => t \notin overlap
            BY <2>2 DEF Disturb
        <3> QED
            BY <2>3, <2>4, <3>1, <3>2 DEF AloneFor
    <2> QED
        BY <2>5, <2>6
<1>6. CASE Quiet(p)
    <2>1. /\ UNCHANGED <<status, bridge, key, overlap>> /\ req'[p].pc # "dispatch"
          /\ Waits(p)' => Waits(p) /\ req'[p].tenant = req[p].tenant
        BY <1>6 DEF Quiet, tables
    <2>2. (Waiting(t)' => Waiting(t)) /\ \A q \in Threads : Sends(q, t)' => q # p /\ Sends(q, t)
        BY <1>1, <2>1 DEF Waiting, Waits, Sends
    <2>3. CASE req[p].pc # "dispatch"
        <3>1. task' = task
            BY <2>3, RequestFrame
        <3>2. \A m \in Messages : Works(m, t)' => Works(m, t)
            BY <3>1 DEF Works, Active, TenantOf
        <3> QED
            BY <2>1, <2>2, <3>2, AloneKept
    <2>4. CASE req[p].pc = "dispatch"
        <3>1. PICK m \in Messages, pc \in {"queued", "lost"} :
                 /\ task[m].pc = "none"
                 /\ task' = [task EXCEPT ![m] = Message(req[p].tenant, pc)]
            BY <2>4, RequestFrame
        <3>2. \A n \in Messages : Works(n, t)' => Works(n, t) \/ (n = m /\ Sends(p, t))
            BY <2>4, <3>1 DEF Works, Active, TenantOf, Sends, Message, TypeOK
        <3> QED
            BY <2>1, <2>2, <3>2 DEF AloneFor
    <2> QED
        BY <2>3, <2>4
<1> QED
    BY <1>2, <1>3, <1>4, <1>5, <1>6, RequestKinds

LEMMA AloneStep ==
    ASSUME TypeOK, BridgesLocked, Alone, [Next]_vars
    PROVE  Alone'
<1> SUFFICES ASSUME NEW t \in Tenants PROVE AloneFor(t)'
    BY DEF Alone
<1>1. AloneFor(t)
    BY DEF Alone
<1>2. CASE (\E b \in Bridges : BridgeRemoved(b)) \/ UNCHANGED vars
    <2>1. UNCHANGED <<status, bridge, key, overlap, req, task>>
        BY <1>2 DEF BridgeRemoved, tenantVars, history, vars
    <2> QED
        BY <1>1, <2>1 DEF AloneFor, Works, Active, TenantOf, Sends, Waiting, Waits
<1> QED
    BY <1>1, <1>2, AloneMove, AloneRequest, NextKinds

-----------------------------------------------------------------------------
(* What the message of such a tenant knows.                                *)

\* The messages that are at work after a request's step were at work before,
\* but for the one it sends.
LEMMA RequestTasks ==
    ASSUME TypeOK, NEW p \in Threads, RequestMove(p), NEW t \in Tenants, NEW m \in Messages,
           Works(m, t)'
    PROVE  \/ Works(m, t) /\ task'[m] = task[m]
           \/ Sends(p, t) /\ task'[m] = Message(t, "queued")
<1>1. CASE req[p].pc # "dispatch"
    <2>1. task' = task
        BY <1>1, RequestFrame
    <2> QED
        BY <2>1 DEF Works, Active, TenantOf
<1>2. CASE req[p].pc = "dispatch"
    <2>1. PICK n \in Messages, pc \in {"queued", "lost"} :
             task' = [task EXCEPT ![n] = Message(req[p].tenant, pc)]
        BY <1>2, RequestFrame
    <2>2. CASE n = m
        <3>1. task'[m] = Message(req[p].tenant, pc)
            BY <2>1, <2>2 DEF TypeOK
        <3>2. pc = "queued" /\ req[p].tenant = t
            BY <3>1 DEF Works, Active, TenantOf, Message
        <3> QED
            BY <1>2, <3>1, <3>2 DEF Sends
    <2>3. CASE n # m
        <3>1. task'[m] = task[m]
            BY <2>1, <2>3 DEF TypeOK
        <3> QED
            BY <3>1 DEF Works, Active, TenantOf
    <2> QED
        BY <2>2, <2>3
<1> QED
    BY <1>1, <1>2

\* A request leaves the row of a tenant that stays outside overlap, or opens its
\* approval, or takes its bridge away; the last two when nothing is at work.
Kept(t) == status'[t] = status[t] /\ bridge'[t] = bridge[t] /\ key'[t] = key[t]
Opened(p, t) == /\ req[p].pc = "bridged" /\ ~\E q \in Threads : Releasing(q, t)'
                /\ status'[t] = "provisioning" /\ bridge'[t] # None /\ key'[t] = None
Closed(p, t) == /\ ~Sends(p, t)
                /\ bridge'[t] = None
                /\ \/ status'[t] = "pending_approval" /\ ~\E q \in Threads : Releasing(q, t)'
                   \/ status'[t] = "error"
                   \/ Releasing(p, t) /\ req[p].sawError /\ status'[t] = status[t]

LEMMA RequestRows ==
    ASSUME TypeOK, BridgesLocked, Registered, Alone, NEW p \in Threads, RequestMove(p),
           NEW t \in Tenants, t \notin overlap'
    PROVE  /\ t \notin overlap
           /\ \/ Kept(t) /\ \A q \in Threads : Sends(q, t)' => Sends(q, t)
              \/ Opened(p, t) /\ \A m \in Messages : ~Works(m, t)
              \/ /\ Closed(p, t)
                 /\ \A m \in Messages : ~Works(m, t)
                 /\ \A q \in Threads : ~Sends(q, t)'
<1> USE OnboardingAssumption
<1>1. \A q \in Threads \ {p} : req'[q] = req[q]
    BY RequestFrame
<1>2. ASSUME NEW u \in Tenants, Verify(p, u) \/ AdminApprove(p, u)
      PROVE  /\ t \notin overlap /\ Kept(t)
             /\ \A q \in Threads : Sends(q, t)' => Sends(q, t)
    <2>1. UNCHANGED <<status, bridge, key, overlap>> /\ req'[p].pc = "approve"
        BY <1>2 DEF Verify, AdminApprove, StartApproval, TypeOK
    <2> QED
        BY <1>1, <2>1 DEF Sends, Kept
<1>3. ASSUME NEW u \in Tenants, VerifyRetry(p, u)
      PROVE  /\ t \notin overlap
             /\ \/ Kept(t) /\ \A q \in Threads : Sends(q, t)' => Sends(q, t)
                \/ /\ Closed(p, t)
                   /\ \A m \in Messages : ~Works(m, t)
                   /\ \A q \in Threads : ~Sends(q, t)'
    <2>1. /\ req[p].pc = "idle" /\ req'[p].pc = "approve"
          /\ status' = [status EXCEPT ![u] = "pending_approval"]
          /\ bridge' = [bridge EXCEPT ![u] = None] /\ key' = [key EXCEPT ![u] = None]
        BY <1>3 DEF VerifyRetry, StartApproval, TypeOK
    <2>2. Disturb(u, UnderWay(p, u))
        BY <1>3 DEF VerifyRetry
    <2>3. \A q \in Threads : Sends(q, t)' => q # p /\ Sends(q, t)
        BY <1>1, <2>1 DEF Sends
    <2>4. CASE u # t
        <3>1. t \notin overlap
            BY <2>2 DEF Disturb
        <3> QED
            BY <2>1, <2>3, <2>4, <3>1 DEF Kept, TypeOK
    <2>5. CASE u = t
        <3>1. /\ t \notin overlap /\ ~UnderWay(p, t)
              /\ \A m \in Messages : ~Works(m, t)
              /\ \A q \in Threads \ {p} : ~Sends(q, t)
            BY <2>2, <2>5, DisturbedAlone DEF UnderWay
        <3>2. ~\E q \in Threads : Releasing(q, t)'
            BY <1>1, <2>1, <3>1 DEF UnderWay, Releasing, Idle
        <3>3. bridge'[t] = None /\ status'[t] = "pending_approval" /\ ~Sends(p, t)
            BY <2>1, <2>5 DEF TypeOK, Sends
        <3>4. \A q \in Threads : ~Sends(q, t)'
            BY <2>3, <3>1
        <3>5. Closed(p, t)
            BY <3>2, <3>3 DEF Closed
        <3> QED
            BY <3>1, <3>4, <3>5
    <2> QED
        BY <2>4, <2>5
<1>4. CASE ApproveCommit(p)
    <2> DEFINE u == req[p].tenant
    <2>1. /\ u \in Tenants /\ req[p].pc = "bridged" /\ req[p].bridge \in Bridges
          /\ status' = [status EXCEPT ![u] = "provisioning"]
          /\ bridge' = [bridge EXCEPT ![u] = req[p].bridge] /\ key' = key
          /\ req'[p].pc = "dispatch"
        BY <1>4, CommitWrites DEF ApproveCommit
    <2>2. CASE u # t
        <3>1. t \notin overlap
            BY <1>4, <2>2, CommitWrites DEF Disturb
        <3>2. \A q \in Threads : Sends(q, t)' => Sends(q, t)
            <4>1. req'[p].tenant = u
                BY <1>4, CommitWrites
            <4> QED
                BY <1>1, <2>2, <4>1 DEF Sends
        <3> QED
            BY <2>1, <2>2, <3>1, <3>2 DEF Kept, TypeOK
    <2>3. CASE u = t
        <3>1. /\ t \notin overlap /\ \A m \in Messages : ~Works(m, t)
              /\ bridge[t] = None /\ ~\E q \in Threads : Releasing(q, t)
            <4>1. CASE ~ApprovedBefore(t) /\ overlap' = overlap
                BY <4>1 DEF ApprovedBefore, Works, Active, Registered
            <4>2. CASE Disturb(t, UnderWay(p, t) \/ bridge[t] # None)
                <5>1. /\ t \notin overlap /\ ~(UnderWay(p, t) \/ bridge[t] # None)
                      /\ \A m \in Messages : ~Works(m, t)
                    BY <4>2, DisturbedAlone DEF UnderWay
                <5> QED
                    BY <2>1, <5>1 DEF UnderWay, Releasing, Idle
            <4> QED
                BY <1>4, <2>3, <4>1, <4>2, CommitWrites
        <3>2. key[t] = None
            <4>1. Waiting(t)
                BY <2>1, <2>3 DEF Waiting, Waits
            <4> QED
                BY <3>1, <4>1 DEF Alone, AloneFor
        <3>3. ~\E q \in Threads : Releasing(q, t)'
            BY <1>1, <2>1, <3>1 DEF Releasing
        <3> QED
            BY <2>1, <2>3, <3>1, <3>2, <3>3 DEF Opened, TypeOK
    <2> QED
        BY <2>2, <2>3
<1>5. CASE ReleaseCommit(p)
    <2> DEFINE u == req[p].tenant
    <2>1. /\ u \in Tenants /\ req[p].pc = "release" /\ req'[p].pc = "idle" /\ key' = key
          /\ bridge' = IF req[p].sawBridge = None THEN bridge ELSE [bridge EXCEPT ![u] = None]
          /\ status' = IF req[p].sawError THEN status ELSE [status EXCEPT ![u] = "error"]
        BY <1>5, ReleaseWrites DEF ReleaseCommit
    <2>2. Disturb(u, UnderWay(p, u) \/ bridge[u] # req[p].sawBridge)
        BY <1>5, ReleaseWrites
    <2>3. \A q \in Threads : Sends(q, t)' => q # p /\ Sends(q, t)
        BY <1>1, <2>1 DEF Sends
    <2>4. CASE u # t
        <3>1. t \notin overlap
            BY <2>2 DEF Disturb
        <3> QED
            BY <2>1, <2>3, <2>4, <3>1 DEF Kept, TypeOK
    <2>5. CASE u = t
        <3>1. /\ t \notin overlap /\ ~(UnderWay(p, t) \/ bridge[t] # req[p].sawBridge)
              /\ \A m \in Messages : ~Works(m, t)
              /\ \A q \in Threads \ {p} : ~Sends(q, t)
            BY <2>2, <2>5, DisturbedAlone DEF UnderWay
        <3>2. bridge'[t] = None /\ ~Sends(p, t)
            BY <2>1, <2>5, <3>1 DEF TypeOK, Sends
        <3>3. status'[t] = "error" \/ (Releasing(p, t) /\ req[p].sawError /\ status'[t] = status[t])
            BY <2>1, <2>5 DEF TypeOK, Releasing
        <3>4. \A q \in Threads : ~Sends(q, t)'
            BY <2>3, <3>1
        <3>5. Closed(p, t)
            BY <3>2, <3>3 DEF Closed
        <3> QED
            BY <3>1, <3>4, <3>5
    <2> QED
        BY <2>4, <2>5
<1>6. CASE Quiet(p)
    BY <1>1, <1>6 DEF Quiet, tables, Kept, Sends
<1> QED
    BY <1>2, <1>3, <1>4, <1>5, <1>6, RequestKinds

\* Knows of a message, given its columns and its tenant's after a step.
LEMMA KnowsThen ==
    ASSUME NEW m \in Messages, NEW t, TenantOf(m)' = t,
           LET pc == task'[m].pc
               row == [vm |-> bridge'[t], st |-> status'[t]]
           IN  /\ pc \in {"started", "cloned", "keyed", "failing", "deleted"} => task'[m].copy = row
               /\ pc \in {"up", "again"} => task'[m].copy = Expired
               /\ pc \in {"started", "cloned", "up", "keyed"} => status'[t] = "provisioning"
               /\ pc \in {"cloned", "up", "keyed"} => task'[m].vm = bridge'[t]
               /\ pc \in {"failing", "deleted"} => status'[t] \in {"provisioning", "error"}
               /\ pc = "again" => status'[t] = "error"
               /\ pc = "ending" => status'[t] # "provisioning"
    PROVE  Knows(m)'
BY DEF Knows, Read, Expired

LEMMA KnowsMove ==
    ASSUME TypeOK, NEW m \in Messages, TaskMove(m), Knows(m), Active(m)'
    PROVE  Knows(m)'
<1> DEFINE t == task[m].tenant
           row == [vm |-> bridge[t], st |-> status[t]]
<1>1. /\ task[m] \in TaskRecord /\ t \in Tenants /\ bridge' = bridge /\ TenantOf(m)' = t
    BY TaskFrame DEF TaskRecord, TenantOf
<1>2. LET pc == task[m].pc
      IN  /\ pc \in {"started", "cloned", "keyed", "failing", "deleted"} => task[m].copy = row
          /\ pc \in {"up", "again"} => task[m].copy = Expired
          /\ pc \in {"started", "cloned", "up", "keyed"} => status[t] = "provisioning"
          /\ pc \in {"cloned", "up", "keyed"} => task[m].vm = bridge[t]
          /\ pc \in {"failing", "deleted"} => status[t] \in {"provisioning", "error"}
          /\ pc = "again" => status[t] = "error"
    BY DEF Knows, TenantOf, Read
<1>3. CASE \/ TaskStart(m) \/ TaskClone(m) \/ TaskWan(m) \/ TaskKey(m) \/ RollbackDelete(m)
           \/ TaskEnd(m)
    <2> USE DEF GoesOn, tenantVars, Read
    <2>1. CASE TaskStart(m)
        <3>1. CASE Startable(t)
            <4>1. GoesOn(m, "started", task[m].vm, Read(t)) /\ status' = status
                BY <1>1, <2>1, <3>1, GoesOnColumns DEF TaskStart
            <4> QED
                BY <1>1, <3>1, <4>1, KnowsThen DEF Startable
        <3>2. CASE ~Startable(t)
            <4>1. GoesOn(m, "ending", task[m].vm, task[m].copy) /\ status' = status
                BY <1>1, <2>1, <3>2, GoesOnColumns DEF TaskStart
            <4>2. task'[m].pc = "ending" /\ status'[t] # "provisioning"
                BY <3>2, <4>1 DEF Startable
            <4> QED
                BY <1>1, <4>2, KnowsThen
        <3> QED
            BY <3>1, <3>2
    <2>2. CASE TaskClone(m)
        <3>1. /\ GoesOn(m, "cloned", task[m].copy.vm, task[m].copy) /\ status' = status
              /\ task[m].pc = "started"
            BY <1>1, <2>2, GoesOnColumns DEF TaskClone
        <3> QED
            BY <1>1, <1>2, <3>1, KnowsThen
    <2>3. CASE TaskWan(m)
        <3>1. /\ GoesOn(m, "up", task[m].vm, Expired) /\ status' = status
              /\ task[m].pc = "cloned"
            BY <1>1, <2>3, GoesOnColumns DEF TaskWan
        <3> QED
            BY <1>1, <1>2, <3>1, KnowsThen
    <2>4. CASE TaskKey(m)
        <3>1. /\ GoesOn(m, "keyed", task[m].vm, Read(t)) /\ status' = status
              /\ task[m].pc = "up"
            BY <1>1, <2>4, GoesOnColumns DEF TaskKey
        <3> QED
            BY <1>1, <1>2, <3>1, KnowsThen
    <2>5. CASE RollbackDelete(m)
        <3>1. /\ GoesOn(m, "deleted", task[m].vm, task[m].copy) /\ status' = status
              /\ task[m].pc = "failing"
            BY <1>1, <2>5, GoesOnColumns DEF RollbackDelete
        <3> QED
            BY <1>1, <1>2, <3>1, KnowsThen
    <2>6. CASE TaskEnd(m)
        <3>1. GoesOn(m, "done", task[m].vm, task[m].copy)
            BY <1>1, <2>6, GoesOnColumns
        <3>2. task'[m].pc = "done"
            BY <3>1
        <3> QED
            BY <3>2 DEF Active
    <2> QED
        BY <1>3, <2>1, <2>2, <2>3, <2>4, <2>5, <2>6
<1>4. CASE TaskFinish(m) \/ RollbackCommit(m) \/ WorkerCrash(m) \/ HardLimit(m)
    <2> USE DEF Afresh, Message
    <2>1. CASE TaskFinish(m)
        <3>1. task'[m] = Message(t, "ending") /\ task[m].pc = "keyed"
            BY <1>1, <2>1, AfreshColumns DEF TaskFinish, ConfigureKea
        <3>2. task[m].copy.st = "provisioning"
            BY <1>2, <3>1
        <3>3. status'[t] = "active"
            BY <1>1, <2>1, <3>2 DEF TaskFinish, TenantOf, TypeOK
        <3>4. task'[m].pc = "ending"
            BY <3>1
        <3> QED
            BY <1>1, <3>3, <3>4, KnowsThen
    <2>2. CASE RollbackCommit(m)
        <3>1. /\ task'[m] = Message(t, IF task[m].again THEN "again" ELSE "ending")
              /\ task[m].pc = "deleted"
            BY <1>1, <2>2, AfreshColumns DEF RollbackCommit
        <3>2. task[m].copy.st = status[t]
            BY <1>2, <3>1
        <3>3. status'[t] = "error"
            BY <1>1, <2>2, <3>2 DEF RollbackCommit, RolledBack, TenantOf, TypeOK
        <3>4. /\ task'[m].pc \in {"again", "ending"} /\ task'[m].copy = Expired
            BY <3>1
        <3> QED
            BY <1>1, <3>3, <3>4, KnowsThen
    <2>3. CASE WorkerCrash(m)
        <3>1. Afresh(m, "queued")
            BY <1>1, <2>3, AfreshColumns
        <3>2. task'[m].pc = "queued"
            BY <3>1
        <3> QED
            BY <1>1, <3>2, KnowsThen
    <2>4. CASE HardLimit(m)
        <3>1. Afresh(m, "lost")
            BY <1>1, <2>4, AfreshColumns
        <3>2. task'[m].pc = "lost"
            BY <3>1
        <3> QED
            BY <3>2 DEF Active
    <2> QED
        BY <1>4, <2>1, <2>2, <2>3, <2>4
<1>5. CASE TaskStuck(m) \/ RollbackAgain(m) \/ \E timeout \in BOOLEAN : TaskFail(m, timeout)
    <2>1. PICK again \in BOOLEAN : RollsBack(m, again)
        BY <1>1, <1>5, RollsBackColumns
    <2>2. status' = status /\ task[m].pc \in {"started", "cloned", "up", "keyed", "again"}
        BY <1>5 DEF TaskStuck, RollbackAgain, TaskFail, tenantVars
    <2>3. task'[m].pc = "failing" /\ task'[m].copy = row
        BY <1>2, <2>1, <2>2 DEF RollsBack, Read
    <2> QED
        BY <1>1, <1>2, <2>2, <2>3, KnowsThen
<1> QED
    BY <1>3, <1>4, <1>5 DEF TaskMove, TaskStep

LEMMA AtWorkStep ==
    ASSUME TypeOK, BridgesLocked, Registered, Alone, AtWork, [Next]_vars
    PROVE  AtWork'
<1> SUFFICES ASSUME NEW n \in Messages, Active(n)', TenantOf(n)' \notin overlap'
             PROVE  Knows(n)'
    BY DEF AtWork
<1>1. CASE UNCHANGED <<status, bridge, overlap, task>>
    BY <1>1 DEF AtWork, Active, TenantOf, Knows, Read
<1>2. ASSUME NEW p \in Threads, RequestMove(p) PROVE Knows(n)'
    <2>0. task'[n].tenant \in Tenants
        <3>1. TypeOK'
            BY <1>2, AskTyped, ApprovalTyped DEF RequestMove
        <3>2. task'[n] \in Task /\ task'[n].pc # "none"
            BY <3>1 DEF TypeOK, Active
        <3> QED
            BY <3>2 DEF Task, NoTask
    <2>1. PICK t \in Tenants : task'[n].tenant = t
        BY <2>0
    <2>4. Works(n, t)'
        BY <2>1 DEF Works, TenantOf
    <2>2. CASE task'[n] = Message(t, "queued")
        BY <2>2 DEF Knows, Message
    <2>3. CASE Works(n, t) /\ task'[n] = task[n]
        <3>1. Kept(t) /\ t \notin overlap
            BY <1>2, <2>1, <2>3, RequestRows DEF TenantOf
        <3>2. Knows(n)
            BY <2>3, <3>1 DEF AtWork, Works
        <3>3. TenantOf(n) = t /\ TenantOf(n)' = t
            BY <2>1, <2>3 DEF TenantOf
        <3>4. status'[t] = status[t] /\ bridge'[t] = bridge[t]
            BY <3>1 DEF Kept
        <3> QED
            BY <2>3, <3>2, <3>3, <3>4, KnowsThen DEF Knows, Read
    <2> QED
        BY <1>2, <2>2, <2>3, <2>4, RequestTasks
<1>3. ASSUME NEW m \in Messages, TaskMove(m) PROVE Knows(n)'
    <2>1. /\ Active(m) /\ overlap' = overlap /\ bridge' = bridge
          /\ task'[m].tenant = task[m].tenant /\ \A k \in Messages \ {m} : task'[k] = task[k]
        BY <1>3, TaskFrame DEF TypeOK
    <2>2. TenantOf(n) \notin overlap /\ Active(n)
        BY <2>1 DEF TenantOf, Active
    <2>3. Knows(n)
        BY <2>2 DEF AtWork
    <2>4. TenantOf(n) \in Tenants
        BY <2>2, SentShape DEF TaskRecord, TenantOf, Active
    <2>5. CASE n = m
        BY <1>3, <2>3, <2>5, KnowsMove
    <2>6. CASE n # m
        <3>1. TenantOf(n) # TenantOf(m)
            BY <2>1, <2>2, <2>4, <2>6 DEF Alone, AloneFor, Works
        <3>2. status'[TenantOf(n)] = status[TenantOf(n)]
            BY <1>3, <2>4, <3>1, MoveRows
        <3> QED
            BY <2>1, <2>3, <2>6, <3>2 DEF Knows, TenantOf, Read
    <2> QED
        BY <2>5, <2>6
<1>4. CASE (\E b \in Bridges : BridgeRemoved(b)) \/ UNCHANGED vars
    BY <1>1, <1>4 DEF BridgeRemoved, tenantVars, history, vars
<1> QED
    BY <1>2, <1>3, <1>4, NextKinds

\* The status of a tenant outside overlap, after a step of its message.
LEMMA OwnStatus ==
    ASSUME TypeOK, NEW m \in Messages, TaskMove(m), Knows(m)
    PROVE  LET t == TenantOf(m) IN
           /\ \/ status'[t] = status[t]
              \/ status[t] = "provisioning" /\ status'[t] = "active"
              \/ status'[t] = "error"
           /\ status'[t] # status[t] => TaskFinish(m) \/ RollbackCommit(m)
<1> DEFINE t == TenantOf(m)
<1>1. t \in Tenants
    BY TaskFrame DEF TaskRecord, TenantOf
<1>2. CASE TaskFinish(m)
    <2>1. task[m].pc = "keyed" /\ (status' = status \/ status' = [status EXCEPT ![t] = "active"])
        BY <1>2 DEF TaskFinish, ConfigureKea
    <2>2. status[t] = "provisioning"
        BY <2>1 DEF Knows
    <2> QED
        BY <1>1, <1>2, <2>1, <2>2 DEF TypeOK
<1>3. CASE RollbackCommit(m)
    BY <1>1, <1>3 DEF RollbackCommit, RolledBack, TypeOK
<1>4. CASE ~TaskFinish(m) /\ ~RollbackCommit(m)
    <2>1. status' = status
        BY <1>4 DEF TaskMove, TaskStep, TaskStart, TaskClone, TaskWan, TaskKey, TaskStuck,
           RollbackDelete, RollbackAgain, TaskEnd, WorkerCrash, HardLimit, TaskFail, tenantVars
    <2> QED
        BY <2>1
<1> QED
    BY <1>2, <1>3, <1>4

LEMMA ServedStep ==
    ASSUME TypeOK, BridgesLocked, Registered, Alone, AtWork, Served, [Next]_vars
    PROVE  Served'
<1> DEFINE ServedFor(t) ==
        /\ status[t] \in {"provisioning", "active"} => bridge[t] # None
        /\ \A p \in Threads : Releasing(p, t) /\ req[p].sawError => status[t] = "error"
<1> SUFFICES ASSUME NEW t \in Tenants, t \notin overlap' PROVE ServedFor(t)'
    BY DEF Served
<1>1. t \notin overlap => ServedFor(t)
    BY DEF Served
<1>2. CASE UNCHANGED <<status, bridge, overlap, req>>
    BY <1>1, <1>2 DEF Releasing
<1>3. ASSUME NEW p \in Threads, RequestMove(p) PROVE ServedFor(t)'
    <2>1. CASE Kept(t) /\ t \notin overlap
        <3>1. status'[t] = status[t] /\ bridge'[t] = bridge[t]
            BY <2>1 DEF Kept
        <3>2. ASSUME NEW q \in Threads, Releasing(q, t)', req'[q].sawError
              PROVE  status'[t] = "error"
            <4>1. CASE Releasing(q, t) /\ req'[q] = req[q]
                BY <1>1, <2>1, <3>1, <3>2, <4>1
            <4>2. CASE req'[q].sawError <=> status[t] = "error"
                BY <3>1, <3>2, <4>2
            <4> QED
                BY <1>3, <3>2, <4>1, <4>2, ReleasingBegins
        <3> QED
            BY <1>1, <2>1, <3>1, <3>2
    <2>2. CASE Opened(p, t)
        BY <2>2 DEF Opened
    <2>3. CASE Closed(p, t) /\ t \notin overlap
        BY <1>1, <2>3 DEF Closed
    <2> QED
        BY <1>3, <2>1, <2>2, <2>3, RequestRows
<1>4. ASSUME NEW m \in Messages, TaskMove(m) PROVE ServedFor(t)'
    <2>1. UNCHANGED <<bridge, req, overlap>> /\ Active(m)
        BY <1>4, TaskFrame
    <2>2. ServedFor(t) /\ \A q \in Threads : Releasing(q, t)' <=> Releasing(q, t)
        BY <1>1, <2>1 DEF Releasing
    <2>3. CASE t # TenantOf(m)
        <3>1. status'[t] = status[t]
            BY <1>4, <2>3, MoveRows
        <3> QED
            BY <2>1, <2>2, <3>1
    <2>4. CASE t = TenantOf(m)
        <3>1. Knows(m)
            BY <2>1, <2>4 DEF AtWork
        <3>2. \/ status'[t] = status[t]
              \/ status[t] = "provisioning" /\ status'[t] = "active"
              \/ status'[t] = "error"
            BY <1>4, <2>4, <3>1, OwnStatus
        <3> QED
            BY <2>1, <2>2, <3>2
    <2> QED
        BY <2>3, <2>4
<1>5. CASE (\E b \in Bridges : BridgeRemoved(b)) \/ UNCHANGED vars
    BY <1>2, <1>5 DEF BridgeRemoved, tenantVars, history, vars
<1> QED
    BY <1>3, <1>4, <1>5, NextKinds

-----------------------------------------------------------------------------
(* How far its VM and its key are.                                         *)

\* The task of one tenant leaves another's VM and key alone.
LEMMA OthersKept ==
    ASSUME TypeOK, BridgesAgree, VmsOwned, NEW m \in Messages, TaskMove(m),
           NEW t \in Tenants, t # TenantOf(m), bridge[t] # None, bridge[t] \notin released
    PROVE  /\ vms'[bridge[t]] = vms[bridge[t]]
           /\ key'[t] = key[t] \/ key[t] \notin {None, bridge[t]}
<1> DEFINE b == bridge[t]
<1>1. b \in Bridges \ released
    BY DEF TypeOK
<1>2. owner[b] = t
    BY <1>1 DEF BridgesAgree
<1>3. task[m].pc # "none"
    BY TaskFrame DEF Active
<1>4. task[m].copy.vm # b
    BY <1>1, <1>2, <1>3 DEF VmsOwned
<1>5. vms'[b] = vms[b]
    BY <1>1, <1>4, MoveVms DEF Clones, Deletes, DeleteVm, TypeOK
<1>6. Deletes(m) => task[m].copy.vm # None
    BY DEF Deletes
<1> QED
    BY <1>4, <1>5, <1>6, MoveRows

\* Where each step leaves its message.
LEMMA MovePc ==
    ASSUME TypeOK, NEW m \in Messages, task[m] \in TaskRecord
    PROVE  /\ TaskStart(m) => task'[m].pc \in {"started", "ending"}
           /\ TaskClone(m) => task'[m].pc = "cloned"
           /\ TaskWan(m) => task'[m].pc = "up"
           /\ TaskKey(m) => task'[m].pc = "keyed"
           /\ RollbackDelete(m) => task'[m].pc = "deleted"
           /\ TaskEnd(m) => task'[m].pc = "done"
           /\ TaskFinish(m) => task'[m].pc = "ending"
           /\ RollbackCommit(m) => task'[m].pc \in {"again", "ending"}
           /\ WorkerCrash(m) => task'[m].pc = "queued"
           /\ HardLimit(m) => task'[m].pc = "lost"
           /\ TaskStuck(m) \/ RollbackAgain(m) \/ (\E timeout \in BOOLEAN : TaskFail(m, timeout))
              => task'[m].pc = "failing"
<1> USE DEF TypeOK, TaskRecord
<1>1. TaskStart(m) => task'[m].pc \in {"started", "ending"}
    BY DEF TaskStart
<1>2. TaskClone(m) => task'[m].pc = "cloned"
    BY DEF TaskClone
<1>3. TaskWan(m) => task'[m].pc = "up"
    BY DEF TaskWan
<1>4. TaskKey(m) => task'[m].pc = "keyed"
    BY DEF TaskKey
<1>5. RollbackDelete(m) => task'[m].pc = "deleted"
    BY DEF RollbackDelete
<1>6. TaskEnd(m) => task'[m].pc = "done"
    BY DEF TaskEnd
<1>7. TaskFinish(m) => task'[m].pc = "ending"
    BY DEF TaskFinish, Message
<1>8. RollbackCommit(m) => task'[m].pc \in {"again", "ending"}
    BY DEF RollbackCommit, Message
<1>9. WorkerCrash(m) => task'[m].pc = "queued"
    BY DEF WorkerCrash, Message
<1>10. HardLimit(m) => task'[m].pc = "lost"
    BY DEF HardLimit, Message
<1>11. TaskStuck(m) \/ RollbackAgain(m) \/ (\E timeout \in BOOLEAN : TaskFail(m, timeout))
       => task'[m].pc = "failing"
    BY DEF TaskStuck, RollbackAgain, TaskFail, Failing
<1> QED
    BY <1>1, <1>2, <1>3, <1>4, <1>5, <1>6, <1>7, <1>8, <1>9, <1>10, <1>11

\* FarAs of a message, given its tenant's columns after a step.
LEMMA FarThen ==
    ASSUME NEW m \in Messages, NEW t \in Tenants, NEW b, bridge'[t] = b,
           LET pc == task'[m].pc
           IN  /\ pc \in {"cloned", "up"} => vms'[b] = t /\ key'[t] = None
               /\ pc = "keyed" => vms'[b] = t /\ key'[t] = b
               /\ pc \in {"queued", "started", "failing"} /\ status'[t] = "provisioning"
                  => key'[t] = None \/ (key'[t] = b /\ vms'[b] = t)
    PROVE  FarAs(m, t)'
BY DEF FarAs, HasVm, KeyFits

LEMMA OwnFar ==
    ASSUME TypeOK, NEW m \in Messages, TaskMove(m), Knows(m), NEW t \in Tenants, t = TenantOf(m),
           NEW b \in Bridges, bridge[t] = b, t \notin cut', FarAs(m, t),
           status[t] = "active" => HasVm(t)
    PROVE  /\ FarAs(m, t)'
           /\ (status[t] = "active" => HasVm(t))'
<1> USE OnboardingAssumption
<1>1. /\ task[m] \in TaskRecord /\ bridge'[t] = b /\ t = task[m].tenant /\ t # None
      /\ \A c \in Bridges : c # None
    BY TaskFrame DEF TenantOf
<1>2. LET pc == task[m].pc
      IN  /\ status[t] = "active" => vms[b] = t /\ key[t] = b
          /\ pc \in {"cloned", "up"} => vms[b] = t /\ key[t] = None
          /\ pc = "keyed" => vms[b] = t /\ key[t] = b
          /\ pc \in {"queued", "started", "failing"} /\ status[t] = "provisioning"
             => key[t] = None \/ (key[t] = b /\ vms[b] = t)
    BY DEF FarAs, HasVm, KeyFits
<1>3. LET pc == task[m].pc
      IN  /\ pc \in {"started", "cloned", "keyed", "failing", "deleted"} =>
                task[m].copy.vm = b /\ task[m].copy.st = status[t]
          /\ pc \in {"started", "cloned", "up", "keyed"} => status[t] = "provisioning"
          /\ pc \in {"cloned", "up", "keyed"} => task[m].vm = b
          /\ pc \in {"failing", "deleted"} => status[t] \in {"provisioning", "error"}
          /\ pc = "again" => status[t] = "error"
          /\ pc = "ending" => status[t] # "provisioning"
    BY DEF Knows, Read
<1>4. ASSUME vms'[b] = t /\ key'[t] = b
      PROVE  (status[t] = "active" => HasVm(t))'
    BY <1>1, <1>4 DEF HasVm
<1>5. CASE status'[t] = status[t] /\ vms'[b] = vms[b] /\ key'[t] = key[t]
    <2>1. (status[t] = "active" => HasVm(t))'
        BY <1>2, <1>4, <1>5
    <2>2. FarAs(m, t)'
        <3>1. CASE TaskStart(m)
            <4>1. task'[m].pc = "ending" \/ (task'[m].pc = "started" /\ task[m].pc = "queued")
                BY <1>1, <3>1, MovePc DEF TaskStart
            <4> QED
                BY <1>1, <1>2, <1>5, <4>1, FarThen
        <3>2. CASE TaskWan(m)
            <4>1. task'[m].pc = "up" /\ task[m].pc = "cloned"
                BY <1>1, <3>2, MovePc DEF TaskWan
            <4> QED
                BY <1>1, <1>2, <1>5, <4>1, FarThen
        <3>3. CASE TaskEnd(m) \/ RollbackDelete(m)
            <4>1. task'[m].pc \in {"done", "deleted"}
                BY <1>1, <3>3, MovePc
            <4> QED
                BY <1>1, <4>1, FarThen
        <3>4. CASE HardLimit(m) \/ RollbackCommit(m) \/ TaskFinish(m)
            <4>1. task'[m].pc \in {"lost", "again", "ending"}
                BY <1>1, <3>4, MovePc
            <4> QED
                BY <1>1, <4>1, FarThen
        <3>5. CASE WorkerCrash(m)
            <4>1. task'[m].pc = "queued" /\ task[m].pc \notin {"none", "done", "lost", "queued"}
                BY <1>1, <3>5, MovePc DEF WorkerCrash, Running
            <4>2. task[m].pc # "deleted"
                BY <3>5 DEF WorkerCrash
            <4>3. task[m].pc \in {"started", "cloned", "up", "keyed", "failing", "again", "ending"}
                BY <1>1, <4>1, <4>2 DEF TaskRecord, TaskPc
            <4> QED
                BY <1>1, <1>2, <1>3, <1>5, <4>1, <4>3, FarThen
        <3>6. CASE TaskStuck(m) \/ RollbackAgain(m) \/ \E timeout \in BOOLEAN : TaskFail(m, timeout)
            <4>2. task'[m].pc = "failing"
                BY <1>1, <3>6, MovePc
            <4>3. task[m].pc \in {"started", "cloned", "up", "keyed", "again"}
                BY <3>6 DEF TaskStuck, RollbackAgain, TaskFail
            <4> QED
                BY <1>1, <1>2, <1>3, <1>5, <4>2, <4>3, FarThen
        <3>7. CASE TaskClone(m) \/ TaskKey(m)
            <4>1. CASE TaskClone(m)
                BY <1>1, <1>3, <1>5, <4>1 DEF TaskClone, CloneOpnsense, CloneRefused, TypeOK
            <4>2. CASE TaskKey(m)
                BY <1>1, <1>2, <1>3, <1>5, <4>2 DEF TaskKey, RotateKey, TypeOK
            <4> QED
                BY <3>7, <4>1, <4>2
        <3> QED
            BY <3>1, <3>2, <3>3, <3>4, <3>5, <3>6, <3>7 DEF TaskMove, TaskStep
    <2> QED
        BY <2>1, <2>2
<1>6. CASE ~(status'[t] = status[t] /\ vms'[b] = vms[b] /\ key'[t] = key[t])
    <2>1. CASE TaskKey(m)
        <3>1. /\ task[m].pc = "up" /\ task'[m].pc = "keyed" /\ vms' = vms
              /\ key'[t] = IF key[t] = None THEN task[m].vm ELSE key[t]
            BY <1>1, <2>1, MovePc DEF TaskKey, RotateKey, TenantOf, TypeOK
        <3>2. vms'[b] = t /\ key'[t] = b
            BY <1>2, <1>3, <3>1
        <3> QED
            BY <1>1, <1>4, <3>1, <3>2, FarThen
    <2>2. CASE TaskFinish(m)
        <3>1. task[m].pc = "keyed" /\ task'[m].pc = "ending" /\ vms' = vms /\ key' = key
            BY <1>1, <2>2, MovePc DEF TaskFinish, ConfigureKea, node
        <3>2. vms'[b] = t /\ key'[t] = b
            BY <1>2, <3>1
        <3> QED
            BY <1>1, <1>4, <3>1, <3>2, FarThen
    <2>3. CASE RollbackDelete(m)
        <3>1. task[m].pc = "failing" /\ task'[m].pc = "deleted" /\ status' = status
            BY <1>1, <2>3, MovePc DEF RollbackDelete, tenantVars
        <3>2. status'[t] # "active"
            BY <1>3, <3>1
        <3> QED
            BY <1>1, <3>1, <3>2, FarThen
    <2>4. CASE RollbackCommit(m)
        <3>1. task[m].pc = "deleted" /\ task'[m].pc \in {"again", "ending"}
            BY <1>1, <2>4, MovePc DEF RollbackCommit
        <3>2. status'[t] = "error"
            BY <1>1, <1>3, <2>4, <3>1 DEF RollbackCommit, RolledBack, TenantOf, TypeOK
        <3> QED
            BY <1>1, <3>1, <3>2, FarThen
    <2>5. CASE TaskClone(m) \/ WorkerCrash(m) \/ \E timeout \in BOOLEAN : TaskFail(m, timeout)
        <3>1. status' = status /\ key' = key
            BY <2>5 DEF TaskClone, WorkerCrash, TaskFail, tenantVars
        <3>2. Clones(m)
            <4>1. ~Deletes(m)
                BY <1>1, <2>5, MovePc DEF Deletes
            <4> QED
                BY <1>6, <3>1, <4>1, MoveVms
        <3>3. task[m].pc = "started" /\ vms[b] = None /\ vms'[b] = t
            BY <1>3, <3>2 DEF Clones, TypeOK
        <3>4. key[t] = None /\ status[t] = "provisioning"
            BY <1>1, <1>2, <1>3, <3>3
        <3>5. task'[m].pc \in {"cloned", "queued", "failing"}
            BY <1>1, <2>5, MovePc
        <3> QED
            BY <1>1, <3>1, <3>3, <3>4, <3>5, FarThen
    <2>6. CASE \/ TaskStart(m) \/ TaskWan(m) \/ TaskStuck(m) \/ RollbackAgain(m) \/ TaskEnd(m)
               \/ HardLimit(m)
        BY <1>6, <2>6 DEF TaskStart, TaskWan, TaskStuck, RollbackAgain, TaskEnd, HardLimit, node,
           tenantVars
    <2> QED
        BY <2>1, <2>2, <2>3, <2>4, <2>5, <2>6 DEF TaskMove, TaskStep
<1> QED
    BY <1>5, <1>6

LEMMA KeysFitStep ==
    ASSUME TypeOK, BridgesLocked, Registered, BridgesAgree, VmsOwned, Alone, AtWork, KeysFit,
           [Next]_vars
    PROVE  KeysFit'
<1> DEFINE Fits(t) ==
        /\ status[t] = "active" => HasVm(t)
        /\ \A p \in Threads : Sends(p, t) => KeyFits(t)
        /\ \A m \in Messages : Works(m, t) => FarAs(m, t)
<1> SUFFICES ASSUME NEW t \in Tenants, t \notin overlap', t \notin cut',
                    bridge'[t] # None, bridge'[t] \notin released'
             PROVE  Fits(t)'
    BY DEF KeysFit
<1>1. t \notin overlap /\ t \notin cut /\ bridge[t] # None /\ bridge[t] \notin released => Fits(t)
    BY DEF KeysFit
<1>2. CASE UNCHANGED <<status, bridge, key, vms, req, task, overlap, cut, released>>
    BY <1>1, <1>2 DEF HasVm, KeyFits, FarAs, Sends, Works, Active, TenantOf
<1>3. ASSUME NEW p \in Threads, RequestMove(p) PROVE Fits(t)'
    <2>1. vms' = vms /\ cut' = cut /\ released \subseteq released'
        <3>1. CASE ApproveCommit(p) \/ ReleaseCommit(p)
            BY <3>1 DEF ApproveCommit, ReleaseCommit, node
        <3>2. ASSUME NEW u \in Tenants, Verify(p, u) \/ VerifyRetry(p, u) \/ AdminApprove(p, u)
              PROVE  UNCHANGED <<vms, cut, released>>
            BY <3>2 DEF Verify, VerifyRetry, AdminApprove, StartApproval
        <3>3. CASE Quiet(p)
            BY <3>3 DEF Quiet, tables
        <3> QED
            BY <1>3, <3>1, <3>2, <3>3, RequestKinds
    <2>2. CASE /\ t \notin overlap /\ Kept(t)
               /\ \A q \in Threads : Sends(q, t)' => Sends(q, t)
        <3>1. status'[t] = status[t] /\ bridge'[t] = bridge[t] /\ key'[t] = key[t]
            BY <2>2 DEF Kept
        <3>2. Fits(t)
            BY <1>1, <2>1, <2>2, <3>1
        <3>3. (HasVm(t) => HasVm(t)') /\ (KeyFits(t) => KeyFits(t)')
            BY <2>1, <3>1 DEF HasVm, KeyFits
        <3>4. ASSUME NEW m \in Messages, Works(m, t)' PROVE FarAs(m, t)'
            <4>1. CASE Works(m, t) /\ task'[m] = task[m]
                <5>1. FarAs(m, t)
                    BY <3>2, <4>1
                <5> QED
                    BY <2>1, <3>1, <4>1, <5>1 DEF FarAs, HasVm, KeyFits
            <4>2. CASE Sends(p, t) /\ task'[m] = Message(t, "queued")
                <5>1. task'[m].pc = "queued" /\ KeyFits(t)'
                    BY <3>2, <3>3, <4>2 DEF Message
                <5> QED
                    BY <5>1 DEF FarAs
            <4> QED
                BY <1>3, <3>4, <4>1, <4>2, RequestTasks
        <3> QED
            BY <2>2, <3>1, <3>2, <3>3, <3>4
    <2>3. CASE Opened(p, t) /\ \A m \in Messages : ~Works(m, t)
        <3>1. status'[t] = "provisioning" /\ KeyFits(t)' /\ ~Sends(p, t)
            BY <2>3 DEF Opened, KeyFits, Sends
        <3>2. \A m \in Messages : ~Works(m, t)'
            BY <1>3, <2>3, <3>1, RequestTasks
        <3> QED
            BY <3>1, <3>2
    <2>4. CASE Closed(p, t)
        BY <2>4 DEF Closed
    <2> QED
        BY <1>3, <2>2, <2>3, <2>4, RequestRows
<1>4. ASSUME NEW m \in Messages, TaskMove(m) PROVE Fits(t)'
    <2>1. /\ UNCHANGED <<bridge, req, overlap, released>> /\ Active(m)
          /\ task'[m].tenant = task[m].tenant
          /\ \A n \in Messages \ {m} : task'[n] = task[n]
        BY <1>4, TaskFrame DEF TypeOK
    <2>2. Fits(t) /\ bridge[t] # None /\ bridge[t] \notin released
        <3>1. cut \subseteq cut'
            BY <1>4 DEF TaskMove, TaskStep, TaskStart, TaskClone, TaskWan, TaskKey, TaskFinish,
               TaskStuck, RollbackDelete, RollbackCommit, RollbackAgain, TaskEnd, WorkerCrash,
               HardLimit, TaskFail, history
        <3> QED
            BY <1>1, <2>1, <3>1
    <2>3. /\ \A q \in Threads : Sends(q, t)' => Sends(q, t)
          /\ \A n \in Messages : Works(n, t)' => Works(n, t)
        BY <2>1 DEF Sends, Works, Active, TenantOf
    <2>4. CASE t # TenantOf(m)
        <3>1. /\ vms'[bridge[t]] = vms[bridge[t]] /\ status'[t] = status[t]
              /\ key'[t] = key[t] \/ key[t] \notin {None, bridge[t]}
            BY <1>4, <2>2, <2>4, OthersKept, MoveRows
        <3>2. (HasVm(t) => HasVm(t)') /\ (KeyFits(t) => KeyFits(t)')
            BY <2>1, <3>1 DEF HasVm, KeyFits
        <3>3. ASSUME NEW n \in Messages, Works(n, t)' PROVE FarAs(n, t)'
            <4>1. n # m /\ FarAs(n, t)
                BY <2>2, <2>3, <2>4, <3>3 DEF Works
            <4>2. task'[n] = task[n]
                BY <2>1, <4>1
            <4>3. vms[bridge[t]] = t /\ key[t] = None => vms'[bridge[t]] = t /\ key'[t] = None
                BY <3>1
            <4> QED
                BY <2>1, <3>1, <3>2, <4>1, <4>2, <4>3 DEF FarAs
        <3> QED
            BY <2>2, <2>3, <3>1, <3>2, <3>3
    <2>5. CASE t = TenantOf(m)
        <3>1. Knows(m) /\ Works(m, t)
            BY <1>4, <2>1, <2>5 DEF AtWork, Works
        <3>2. bridge[t] \in Bridges /\ FarAs(m, t)
            BY <2>2, <3>1 DEF TypeOK
        <3>3. FarAs(m, t)' /\ (status[t] = "active" => HasVm(t))'
            BY <1>4, <2>2, <2>5, <3>1, <3>2, OwnFar
        <3>4. /\ \A n \in Messages : Works(n, t) => n = m
              /\ \A q \in Threads : ~Sends(q, t)
            <4>1. t \notin overlap
                BY <2>1
            <4> QED
                BY <3>1, <4>1 DEF Alone, AloneFor
        <3> QED
            BY <2>3, <3>3, <3>4
    <2> QED
        BY <2>4, <2>5
<1>5. CASE \E b \in Bridges : BridgeRemoved(b)
    BY <1>2, <1>5 DEF BridgeRemoved, tenantVars, history
<1>6. CASE UNCHANGED vars
    BY <1>2, <1>6 DEF vars
<1> QED
    BY <1>3, <1>4, <1>5, <1>6, NextKinds

-----------------------------------------------------------------------------
(* The theorems.                                                           *)

LEMMA InitIInv == Init => IInv
<1> SUFFICES ASSUME Init PROVE IInv
    OBVIOUS
<1> USE DEF Init
<1>1. TypeOK
    BY InitTyped
<1>2. PodsLocked /\ BridgesLocked
    BY DEF PodsLocked, BridgesLocked, Idle
<1>3. PodsCounted
    <2> SUFFICES ASSUME NEW d \in Pods
                 PROVE  /\ count[d] <= MaxTenants[d] /\ IsFiniteSet(TenantsIn(d))
                        /\ Cardinality(TenantsIn(d)) <= count[d]
        BY DEF PodsCounted
    <2>1. TenantsIn(d) = {}
        BY OnboardingAssumption DEF TenantsIn
    <2>2. IsFiniteSet({}) /\ Cardinality({}) = 0
        BY FS_EmptySet
    <2>3. count[d] = 0 /\ MaxTenants[d] \in Nat
        BY OnboardingAssumption
    <2> QED
        BY <2>1, <2>2, <2>3
<1>4. Registered /\ BridgesAgree /\ VmsOwned
    BY OnboardingAssumption DEF Registered, Releasing, Idle, BridgesAgree, VmsOwned, NoTask
<1>5. Alone
    BY DEF Alone, AloneFor, Works, Active, Sends, Idle, NoTask
<1>6. AtWork /\ Served /\ KeysFit
    BY DEF AtWork, Active, NoTask, Served, Releasing, Idle, KeysFit
<1> QED
    BY <1>1, <1>2, <1>3, <1>4, <1>5, <1>6 DEF IInv

LEMMA IInvStep == IInv /\ [Next]_vars => IInv'
<1> SUFFICES ASSUME IInv, [Next]_vars PROVE IInv'
    OBVIOUS
<1> USE DEF IInv
<1>1. TypeOK'
    BY TypeStep
<1>2. PodsLocked' /\ BridgesLocked' /\ PodsCounted'
    BY PodsLockedStep, BridgesLockedStep, PodsCountedStep
<1>3. Registered' /\ BridgesAgree' /\ VmsOwned'
    BY RegisteredStep, BridgesAgreeStep, VmsOwnedStep
<1>4. Alone' /\ AtWork' /\ Served' /\ KeysFit'
    BY AloneStep, AtWorkStep, ServedStep, KeysFitStep
<1> QED
    BY <1>1, <1>2, <1>3, <1>4

LEMMA Invariant == Spec => []IInv
BY InitIInv, IInvStep, PTL DEF Spec

\* No pod ever counts more tenants than its max_tenants, nor fewer than it has,
\* whatever approvals run at once: FOR UPDATE SKIP LOCKED keeps the row of the
\* pod that assign_pod chose until the commit that counts the tenant
\* (services/provisioning.py:62-101).
THEOREM PodsWithinLimitCorrect == Spec => []PodsWithinLimit
<1>1. IInv => PodsWithinLimit
    BY DEF IInv, PodsCounted, TenantsIn, PodsWithinLimit
<1> QED
    BY <1>1, Invariant, PTL

\* A tenant's bridge is registered for it in bridge_pool and is there on the
\* node, and a bridge in the pool is the bridge of the tenant it is registered
\* for, with the excuses BridgesAgree names: allocate_bridge keeps the row of
\* the bridge it takes locked until approve_tenant commits
\* (services/provisioning.py:80-149, api/bridge_pool.py:161-175).
THEOREM BridgesAgreeCorrect == Spec => []BridgesAgree
<1>1. IInv => BridgesAgree
    BY DEF IInv
<1> QED
    BY <1>1, Invariant, PTL

\* A tenant that provision_tenant_task has made active has a bridge, the VM that
\* was cloned for it and the key made in that VM, whatever messages are
\* redelivered, calls fail, workers die and other tenants do, outside overlap,
\* cut and released (workers/tasks/tenant.py:235-500).
THEOREM ActiveHasVmCorrect == Spec => []ActiveHasVm
<1>1. IInv => ActiveHasVm
    <2> SUFFICES ASSUME IInv, NEW t \in Tenants, status[t] = "active", t \notin overlap \cup cut,
                        bridge[t] \notin released
                 PROVE  bridge[t] # None /\ vms[bridge[t]] = t /\ key[t] = bridge[t]
        BY DEF ActiveHasVm
    <2>1. bridge[t] # None
        BY DEF IInv, Served
    <2>2. HasVm(t)
        BY <2>1 DEF IInv, KeysFit
    <2> QED
        BY <2>1, <2>2 DEF HasVm
<1> QED
    BY <1>1, Invariant, PTL

=============================================================================
