------------------------------ MODULE VmsProofs ------------------------------
(***************************************************************************)
(* Proofs about Vms, for every value of its constants: type correctness,   *)
(* the bound on what concurrent checks let a tenant have above its quota,  *)
(* that a row keeps its VM, that a deleted row leaves none, and that a     *)
(* settled status tells the power of the VM.                               *)
(*                                                                         *)
(* Each rests on the one before it but the quota: VmsInv, RowInv (one at a *)
(* time works on a row, and no other row has its id) and PowerInv (status  *)
(* and power part only between a call and the commit after it).            *)
(***************************************************************************)
EXTENDS Vms, FiniteSetTheorems, TLAPS

\* Which of the record types a request is of, by its program counter.
LEMMA RequestShape ==
    ASSUME NEW r \in Request
    PROVE  /\ r.pc = "insert" => r \in [pc : {"insert"}, tenant : Tenants]
           /\ r.pc = "send" => r \in [pc : {"send"}, id : Ids]
           /\ r.pc \in OpPc => r \in Op
           /\ r.pc \in OpPc \cup {"idle", "insert", "send"}
           /\ r.pc = "idle" => r = Idle
BY DEF Request, Idle, Op, OpPc

\* A live row has all its columns.
LEMMA LiveShape ==
    ASSUME TypeOK, NEW i \in Ids, Live(i)
    PROVE  rows[i] \in [status : Status, tenant : Tenants, pid : Pids \cup {None}]
BY DEF TypeOK, Live, Row, Unused, Gone, Status

-----------------------------------------------------------------------------
(* Type correctness.                                                       *)

LEMMA WithStatusTyped ==
    ASSUME TypeOK, NEW i, NEW s \in Status
    PROVE  WithStatus(i, s) \in [Ids -> Row]
<1>1. CASE i \in Ids /\ Live(i)
    <2>1. [rows[i] EXCEPT !.status = s] \in Row
        BY <1>1, LiveShape DEF Row
    <2> QED
        BY <1>1, <2>1 DEF WithStatus, TypeOK
<1>2. CASE i \notin Ids \/ ~Live(i)
    BY <1>2 DEF WithStatus, TypeOK
<1> QED
    BY <1>1, <1>2

LEMMA MarkTyped ==
    ASSUME TypeOK, NEW S, NEW m \in Marks, Mark(S, m)
    PROVE  marks' \in [Ids -> SUBSET Marks]
BY DEF TypeOK, Mark

LEMMA MishapTyped ==
    ASSUME TypeOK, Mishap
    PROVE  mishaps' \in 0..MaxMishaps
BY VmsAssumption DEF TypeOK, Mishap

LEMMA PowerTyped ==
    ASSUME TypeOK, NEW n, NEW on \in BOOLEAN
    PROVE  Power(n, on) \in [Pids -> Vm]
<1>1. CASE Exists(n)
    <2>1. vms[n] \in [for : Ids, on : BOOLEAN]
        BY <1>1 DEF Exists, TypeOK, Vm
    <2> QED
        BY <1>1, <2>1 DEF Power, TypeOK, Vm, Exists
<1>2. CASE ~Exists(n)
    BY <1>2 DEF Power, TypeOK
<1> QED
    BY <1>1, <1>2

LEMMA CallTyped ==
    ASSUME TypeOK, NEW p \in Threads, NEW pc \in OpPc \cup {"idle"},
           NEW after \in [Pids -> Vm], req[p].pc \in OpPc, Call(p, pc, after)
    PROVE  TypeOK'
<1>1. req[p] \in Op
    BY RequestShape DEF TypeOK
<1>2. req' \in [Threads -> Request]
    BY <1>1 DEF Call, TypeOK, Request, Op, Idle
<1>3. vms' \in [Pids -> Vm] /\ mishaps' \in 0..MaxMishaps /\ marks' \in [Ids -> SUBSET Marks]
    BY MishapTyped, MarkTyped DEF Call, TypeOK, Marks
<1> QED
    BY <1>2, <1>3 DEF Call, TypeOK

LEMMA ProvisionTyped ==
    ASSUME TypeOK, NEW p \in Threads, Provision(p)
    PROVE  TypeOK'
<1> USE RequestShape, VmsAssumption
<1>1. ASSUME NEW t \in Tenants, ProvisionCheck(p, t) PROVE TypeOK'
    BY <1>1 DEF ProvisionCheck, TypeOK, Request
<1>2. CASE ProvisionRefused(p)
    BY <1>2 DEF ProvisionRefused, TypeOK, Request
<1>3. ASSUME NEW i \in Ids, ProvisionInsert(p, i) PROVE TypeOK'
    <2>1. req[p].tenant \in Tenants
        BY <1>3 DEF ProvisionInsert, TypeOK
    <2>2. rows' \in [Ids -> Row]
        BY <1>3, <2>1 DEF ProvisionInsert, TypeOK, Row, Status
    <2>3. req' \in [Threads -> Request]
        BY <1>3 DEF ProvisionInsert, TypeOK, Request
    <2> QED
        BY <1>3, <2>2, <2>3 DEF ProvisionInsert, TypeOK
<1>4. ASSUME NEW auto \in BOOLEAN, ProvisionSend(p, auto) PROVE TypeOK'
    <2>1. task' \in [Ids -> Task]
        BY <1>4 DEF ProvisionSend, TypeOK, Task, TaskPc
    <2>2. req' \in [Threads -> Request]
        BY <1>4 DEF ProvisionSend, TypeOK, Request
    <2> QED
        BY <1>4, <2>1, <2>2 DEF ProvisionSend, TypeOK
<1>5. CASE ProvisionSendFails(p)
    <2>1. rows' \in [Ids -> Row]
        BY <1>5, WithStatusTyped DEF ProvisionSendFails, Status
    <2>2. mishaps' \in 0..MaxMishaps /\ marks' \in [Ids -> SUBSET Marks]
        BY <1>5, MishapTyped, MarkTyped DEF ProvisionSendFails, Marks
    <2>3. req' \in [Threads -> Request]
        BY <1>5 DEF ProvisionSendFails, TypeOK, Request
    <2> QED
        BY <1>5, <2>1, <2>2, <2>3 DEF ProvisionSendFails, TypeOK
<1> QED
    BY <1>1, <1>2, <1>3, <1>4, <1>5 DEF Provision

LEMMA BeginTyped ==
    ASSUME TypeOK, NEW p \in Threads, NEW i \in Ids, NEW pc \in OpPc, Begin(p, i, pc)
    PROVE  TypeOK'
<1>1. rows[i].pid \in Pids \cup {None}
    BY DEF TypeOK, Row, Unused, Gone
<1>2. req' \in [Threads -> Request]
    BY <1>1 DEF Begin, TypeOK, Request, Op
<1>3. marks' \in [Ids -> SUBSET Marks]
    BY MarkTyped DEF Begin, TypeOK, Marks
<1> QED
    BY <1>2, <1>3 DEF Begin, TypeOK

LEMMA CommitTyped ==
    ASSUME TypeOK, NEW p \in Threads, NEW after \in [Ids -> Row], Commit(p, after)
    PROVE  TypeOK'
BY DEF Commit, TypeOK, Request

LEMMA OperateTyped ==
    ASSUME TypeOK, NEW p \in Threads, Operate(p)
    PROVE  TypeOK'
<1>1. ASSUME NEW i \in Ids, BeginStart(p, i) \/ BeginStop(p, i) \/ BeginRestart(p, i)
      PROVE  TypeOK'
    BY <1>1, BeginTyped DEF BeginStart, BeginStop, BeginRestart, OpPc
<1>2. ASSUME NEW i \in Ids, NEW force \in BOOLEAN, BeginDelete(p, i, force) PROVE TypeOK'
    BY <1>2, BeginTyped DEF BeginDelete, OpPc
<1>3. CASE StartCall(p)
    BY <1>3, CallTyped, PowerTyped DEF StartCall, OpPc
<1>4. CASE StopCall(p)
    BY <1>4, CallTyped, PowerTyped DEF StopCall, OpPc
<1>5. CASE RestartStop(p)
    BY <1>5, CallTyped, PowerTyped DEF RestartStop, OpPc
<1>6. CASE RestartStart(p)
    BY <1>6, CallTyped, PowerTyped DEF RestartStart, OpPc
<1>7. CASE DeleteStop(p)
    BY <1>7, CallTyped, PowerTyped DEF DeleteStop, OpPc
<1>8. CASE DeleteDestroy(p)
    <2>1. [vms EXCEPT ![req[p].pid] = NoVm] \in [Pids -> Vm] /\ vms \in [Pids -> Vm]
        BY DEF TypeOK, Vm
    <2> QED
        BY <1>8, <2>1, CallTyped DEF DeleteDestroy, OpPc
<1>9. CASE StartCommit(p)
    BY <1>9, CommitTyped, WithStatusTyped DEF StartCommit, Status
<1>10. CASE StopCommit(p)
    BY <1>10, CommitTyped, WithStatusTyped DEF StopCommit, Status
<1>11. CASE DeleteCommit(p)
    <2>1. [rows EXCEPT ![req[p].id] = Gone] \in [Ids -> Row]
        BY DEF TypeOK, Row
    <2> QED
        BY <1>11, <2>1, CommitTyped DEF DeleteCommit
<1> QED
    BY <1>1, <1>2, <1>3, <1>4, <1>5, <1>6, <1>7, <1>8, <1>9, <1>10, <1>11 DEF Operate

LEMMA CrashTyped ==
    ASSUME TypeOK, NEW p \in Threads, ApiCrash(p)
    PROVE  TypeOK'
<1>1. marks' \in [Ids -> SUBSET Marks]
    <2>1. CASE UNCHANGED marks
        BY <2>1 DEF TypeOK
    <2>2. CASE Mark({req[p].id}, "lost") \/ Mark({req[p].id}, "call")
        BY <2>2, MarkTyped DEF Marks
    <2> QED
        BY <2>1, <2>2 DEF ApiCrash
<1> QED
    BY <1>1, MishapTyped DEF ApiCrash, TypeOK, Request

LEMMA WorkTyped ==
    ASSUME TypeOK, NEW i \in Ids, Work(i)
    PROVE  TypeOK'
<1>0. task[i] \in Task /\ Ended \in Task
    BY DEF TypeOK, Task, TaskPc, Ended
<1>p. ASSUME NEW pc \in TaskPc, Proceed(i, pc) PROVE task' \in [Ids -> Task]
    BY <1>0, <1>p DEF Proceed, TypeOK, Task
<1>1. CASE TaskStart(i)
    <2>1. ASSUME NEW n \in NextPids
          PROVE  [task EXCEPT ![i].pc = "chosen", ![i].pid = n] \in [Ids -> Task]
        <3>1. n \in Pids
            BY DEF NextPids, FreePids
        <3> QED
            BY <1>0, <3>1 DEF TypeOK, Task, TaskPc
    <2>2. task' \in [Ids -> Task]
        BY <1>0, <1>1, <2>1 DEF TaskStart, TypeOK
    <2> QED
        BY <1>1, <2>2 DEF TaskStart, TypeOK
<1>2. CASE TaskSave(i)
    <2>1. task' \in [Ids -> Task]
        BY <1>2, <1>p DEF TaskSave, TaskPc
    <2>2. rows' \in [Ids -> Row]
        <3>1. CASE Live(i)
            <4>1. [rows[i] EXCEPT !.pid = task[i].pid] \in Row
                BY <1>0, <3>1, LiveShape DEF Row, Task
            <4> QED
                BY <1>2, <3>1, <4>1 DEF TaskSave, TypeOK
        <3>2. CASE ~Live(i)
            BY <1>2, <3>2 DEF TaskSave, TypeOK
        <3> QED
            BY <3>1, <3>2
    <2>3. marks' \in [Ids -> SUBSET Marks]
        <3>1. CASE UNCHANGED marks
            BY <3>1 DEF TypeOK
        <3>2. CASE Mark(Holders(i, task[i].pid) \cup {i}, "entangled")
            BY <3>2, MarkTyped DEF Marks
        <3> QED
            BY <1>2, <3>1, <3>2 DEF TaskSave
    <2> QED
        BY <1>2, <2>1, <2>2, <2>3 DEF TaskSave, TypeOK
<1>3. CASE TaskKeys(i)
    BY <1>3, <1>p DEF TaskKeys, TaskPc, TypeOK
<1>4. CASE TaskClone(i)
    <2>1. task' \in [Ids -> Task]
        BY <1>0, <1>4 DEF TaskClone, TypeOK, Task, TaskPc
    <2>2. vms' \in [Pids -> Vm]
        <3>1. [for |-> i, on |-> FALSE] \in Vm
            BY DEF Vm
        <3>2. [vms EXCEPT ![task[i].pid] = [for |-> i, on |-> FALSE]] \in [Pids -> Vm]
            BY <3>1 DEF TypeOK
        <3> QED
            BY <1>4, <3>2 DEF TaskClone, TypeOK
    <2> QED
        BY <1>4, <2>1, <2>2 DEF TaskClone, TypeOK
<1>5. CASE TaskConfigure(i)
    <2>1. vms' \in [Pids -> Vm]
        BY <1>5, PowerTyped DEF TaskConfigure, TypeOK
    <2>2. task' \in [Ids -> Task]
        BY <1>0, <1>5 DEF TaskConfigure, TypeOK, Task, TaskPc
    <2> QED
        BY <1>5, <2>1, <2>2 DEF TaskConfigure, TypeOK
<1>6. CASE TaskFinish(i)
    <2>1. rows' \in [Ids -> Row]
        BY <1>6, WithStatusTyped DEF TaskFinish, Status
    <2> QED
        BY <1>0, <1>6, <2>1 DEF TaskFinish, TypeOK
<1>7. CASE TaskFail(i)
    <2>1. rows' \in [Ids -> Row]
        BY <1>7, WithStatusTyped DEF TaskFail, Status
    <2> QED
        BY <1>0, <1>7, <2>1 DEF TaskFail, TypeOK
<1> QED
    BY <1>1, <1>2, <1>3, <1>4, <1>5, <1>6, <1>7 DEF Work

LEMMA DisturbTyped ==
    ASSUME TypeOK, NEW i \in Ids, Disturb(i)
    PROVE  TypeOK'
<1>1. task' \in [Ids -> Task]
    <2>1. /\ [task[i] EXCEPT !.pc = "failing"] \in Task
          /\ [task[i] EXCEPT !.pc = "queued", !.pid = None] \in Task
          /\ Ended \in Task
        BY DEF TypeOK, Task, TaskPc, Ended
    <2>2. \A e \in Task : [task EXCEPT ![i] = e] \in [Ids -> Task]
        BY DEF TypeOK
    <2>3. CASE TaskRaise(i)
        BY <2>1, <2>2, <2>3 DEF TaskRaise
    <2>4. CASE TaskKilled(i)
        BY <2>1, <2>2, <2>4 DEF TaskKilled
    <2>5. CASE WorkerCrash(i)
        BY <2>1, <2>2, <2>5 DEF WorkerCrash
    <2> QED
        BY <2>3, <2>4, <2>5 DEF Disturb
<1>2. mishaps' \in 0..MaxMishaps
    BY MishapTyped DEF Disturb, TaskRaise, TaskKilled, WorkerCrash
<1>3. marks' \in [Ids -> SUBSET Marks]
    BY MarkTyped DEF Disturb, TaskRaise, TaskKilled, WorkerCrash, Marks
<1> QED
    BY <1>1, <1>2, <1>3 DEF Disturb, TaskRaise, TaskKilled, WorkerCrash, TypeOK

LEMMA AdministerTyped ==
    ASSUME TypeOK, NEW i \in Ids, Administer(i)
    PROVE  TypeOK'
<1>1. mishaps' \in 0..MaxMishaps /\ marks' \in [Ids -> SUBSET Marks]
    BY MishapTyped, MarkTyped DEF Administer, Fix, Override, Marks
<1>2. ASSUME NEW s \in Status, Live(i), rows' = [rows EXCEPT ![i].status = s]
      PROVE  rows' \in [Ids -> Row]
    BY <1>2, WithStatusTyped DEF WithStatus
<1>3. rows' \in [Ids -> Row]
    BY <1>2 DEF Administer, Fix, Override, Status
<1> QED
    BY <1>1, <1>3 DEF Administer, Fix, Override, TypeOK

LEMMA NextTyped == TypeOK /\ [Next]_vars => TypeOK'
<1> SUFFICES ASSUME TypeOK, [Next]_vars PROVE TypeOK'
    OBVIOUS
<1>1. CASE UNCHANGED vars
    BY <1>1 DEF vars, TypeOK
<1>2. ASSUME NEW p \in Threads, Provision(p) \/ Operate(p) \/ ApiCrash(p) PROVE TypeOK'
    BY <1>2, ProvisionTyped, OperateTyped, CrashTyped
<1>3. ASSUME NEW i \in Ids, Work(i) \/ Disturb(i) \/ Administer(i) PROVE TypeOK'
    BY <1>3, WorkTyped, DisturbTyped, AdministerTyped
<1> QED
    BY <1>1, <1>2, <1>3 DEF Next

\* Every reachable state is well typed: requests and tasks hold the columns
\* their steps read, and a write to a deleted row does not bring it back.
THEOREM TypeCorrect == Spec => []TypeOK
<1>1. Init => TypeOK
    BY VmsAssumption DEF Init, TypeOK, Row, Vm, Request, Task, TaskPc
<1> QED
    BY <1>1, NextTyped, PTL DEF Spec

-----------------------------------------------------------------------------
(* What a step may do to a row, a task, a VM and a request.                *)

\* A row is neither made, nor moved to another tenant or hypervisor id.
RowKept(i) ==
    /\ Live(i)' => /\ Live(i)
                   /\ rows'[i].tenant = rows[i].tenant
                   /\ rows'[i].pid = rows[i].pid
    /\ rows'[i] = Unused => rows[i] = Unused

RowStep(i) ==
    \/ RowKept(i)
    \/ \E p \in Threads : ProvisionInsert(p, i)
    \/ TaskSave(i)

\* Steps of the task before the clone, and what leaves the task beyond it.
BeforeClone == {"none", "queued", "chosen", "saved", "keyed"}

TaskStep(i) ==
    \/ task'[i] = task[i]
    \/ \E p \in Threads, auto \in BOOLEAN : ProvisionSend(p, auto) /\ req[p].id = i
    \/ TaskStart(i) \/ TaskSave(i) \/ TaskKeys(i) \/ WorkerCrash(i)
    \/ task[i].pc # "none" /\ task'[i].pc \notin BeforeClone

VmStep(n) ==
    \/ vms'[n].for \in {vms[n].for, None}
    \/ \E i \in Ids : TaskClone(i) /\ task[i].pid = n /\ vms'[n].for = i

ReqStep(p) ==
    /\ req'[p].pc = "insert" => \/ req'[p] = req[p]
                                \/ \E t \in Tenants : ProvisionCheck(p, t)
    /\ req'[p].pc = "send" => \/ req'[p] = req[p]
                              \/ \E i \in Ids : ProvisionInsert(p, i) /\ req'[p].id = i

LEMMA WithStatusKeeps ==
    ASSUME TypeOK, NEW j, NEW s \in Status, rows' = WithStatus(j, s), NEW i \in Ids
    PROVE  RowKept(i)
<1>1. CASE i = j /\ Live(i)
    <2>1. rows'[i] = [rows[i] EXCEPT !.status = s]
        BY <1>1 DEF WithStatus, TypeOK
    <2>2. /\ rows'[i].tenant = rows[i].tenant
          /\ rows'[i].pid = rows[i].pid
          /\ rows'[i].status = s
        BY <1>1, <2>1, LiveShape
    <2> QED
        BY <1>1, <2>2 DEF RowKept, Unused, Status
<1>2. CASE ~(i = j /\ Live(i))
    BY <1>2 DEF WithStatus, TypeOK, RowKept, Live
<1> QED
    BY <1>1, <1>2

LEMMA RowSteps ==
    ASSUME TypeOK, Next, NEW i \in Ids
    PROVE  RowStep(i)
<1>0. UNCHANGED rows => RowStep(i)
    BY DEF RowStep, RowKept, Live
<1>1. ASSUME NEW p \in Threads, Provision(p) PROVE RowStep(i)
    <2>1. ASSUME NEW j \in Ids, ProvisionInsert(p, j) PROVE RowStep(i)
        BY <2>1 DEF ProvisionInsert, RowStep, RowKept, Live, TypeOK
    <2>2. CASE ProvisionSendFails(p)
        BY <2>2, WithStatusKeeps DEF ProvisionSendFails, RowStep, Status
    <2>3. CASE UNCHANGED rows
        BY <1>0, <2>3
    <2> QED
        BY <1>1, <2>1, <2>2, <2>3 DEF Provision, ProvisionCheck, ProvisionRefused, ProvisionSend
<1>2. ASSUME NEW p \in Threads, Operate(p) PROVE RowStep(i)
    <2>1. CASE StartCommit(p) \/ StopCommit(p)
        BY <2>1, WithStatusKeeps DEF StartCommit, StopCommit, Commit, RowStep, Status
    <2>2. CASE DeleteCommit(p)
        BY <2>2 DEF DeleteCommit, Commit, RowStep, RowKept, Live, Gone, Unused, Status, TypeOK
    <2>3. CASE UNCHANGED rows
        BY <1>0, <2>3
    <2> QED
        BY <1>2, <2>1, <2>2, <2>3 DEF Operate, BeginStart, BeginStop, BeginRestart, BeginDelete,
           Begin, StartCall, StopCall, RestartStop, RestartStart, DeleteStop, DeleteDestroy, Call
<1>3. ASSUME NEW p \in Threads, ApiCrash(p) PROVE RowStep(i)
    BY <1>0, <1>3 DEF ApiCrash
<1>4. ASSUME NEW j \in Ids, Work(j) PROVE RowStep(i)
    <2>1. CASE TaskSave(j)
        BY <2>1 DEF TaskSave, RowStep, RowKept, Live, TypeOK
    <2>2. CASE TaskFinish(j) \/ TaskFail(j)
        BY <2>2, WithStatusKeeps DEF TaskFinish, TaskFail, RowStep, Status
    <2>3. CASE UNCHANGED rows
        BY <1>0, <2>3
    <2> QED
        BY <1>4, <2>1, <2>2, <2>3 DEF Work, TaskStart, TaskKeys, TaskClone, TaskConfigure
<1>5. ASSUME NEW j \in Ids, Disturb(j) PROVE RowStep(i)
    BY <1>0, <1>5 DEF Disturb, TaskRaise, TaskKilled, WorkerCrash
<1>6. ASSUME NEW j \in Ids, Administer(j) PROVE RowStep(i)
    <2>1. \E s \in Status : rows' = WithStatus(j, s)
        BY <1>6 DEF Administer, Fix, Override, WithStatus, Status
    <2> QED
        BY <2>1, WithStatusKeeps DEF RowStep
<1> QED
    BY <1>1, <1>2, <1>3, <1>4, <1>5, <1>6 DEF Next

LEMMA TaskSteps ==
    ASSUME TypeOK, Next, NEW i \in Ids
    PROVE  TaskStep(i)
<1>0. UNCHANGED task => TaskStep(i)
    BY DEF TaskStep
<1>1. ASSUME NEW p \in Threads, Provision(p) PROVE TaskStep(i)
    <2>1. ASSUME NEW auto \in BOOLEAN, ProvisionSend(p, auto) PROVE TaskStep(i)
        BY <2>1 DEF ProvisionSend, TaskStep, TypeOK
    <2>2. CASE UNCHANGED task
        BY <1>0, <2>2
    <2> QED
        BY <1>1, <2>1, <2>2 DEF Provision, ProvisionCheck, ProvisionRefused, ProvisionInsert,
           ProvisionSendFails
<1>2. ASSUME NEW p \in Threads, Operate(p) PROVE TaskStep(i)
    BY <1>0, <1>2 DEF Operate, BeginStart, BeginStop, BeginRestart, BeginDelete,
       Begin, StartCall, StopCall, RestartStop, RestartStart, DeleteStop, DeleteDestroy, Call,
       StartCommit, StopCommit, DeleteCommit, Commit
<1>3. ASSUME NEW p \in Threads, ApiCrash(p) PROVE TaskStep(i)
    BY <1>0, <1>3 DEF ApiCrash
<1>4. ASSUME NEW j \in Ids, j # i, Work(j) \/ Disturb(j) PROVE TaskStep(i)
    <2>1. task'[i] = task[i]
        BY <1>4 DEF Work, Disturb, TaskStart, TaskSave, TaskKeys, TaskClone, TaskConfigure,
           TaskFinish, TaskFail, TaskRaise, TaskKilled, WorkerCrash, Proceed, TypeOK
    <2> QED
        BY <2>1 DEF TaskStep
<1>5. CASE Work(i) \/ Disturb(i)
    <2>1. CASE TaskStart(i) \/ TaskSave(i) \/ TaskKeys(i) \/ WorkerCrash(i)
        BY <2>1 DEF TaskStep
    <2>2. CASE TaskClone(i)
        BY <2>2 DEF TaskClone, TaskStep, BeforeClone, TypeOK, Task
    <2>3. CASE TaskConfigure(i)
        BY <2>3 DEF TaskConfigure, TaskStep, BeforeClone, TypeOK, Task
    <2>4. CASE TaskFinish(i) \/ TaskFail(i) \/ TaskKilled(i)
        BY <2>4 DEF TaskFinish, TaskFail, TaskKilled, TaskStep, BeforeClone, TypeOK, Task, Ended,
           Started
    <2>5. CASE TaskRaise(i)
        BY <2>5 DEF TaskRaise, TaskStep, BeforeClone, TypeOK, Task, Started
    <2> QED
        BY <1>5, <2>1, <2>2, <2>3, <2>4, <2>5 DEF Work, Disturb
<1>6. ASSUME NEW j \in Ids, Administer(j) PROVE TaskStep(i)
    BY <1>0, <1>6 DEF Administer, Fix, Override
<1> QED
    BY <1>1, <1>2, <1>3, <1>4, <1>5, <1>6 DEF Next

LEMMA PowerKeeps ==
    ASSUME TypeOK, NEW m, NEW on \in BOOLEAN, NEW n \in Pids
    PROVE  Power(m, on)[n].for = vms[n].for
<1>1. CASE Exists(m)
    <2>1. vms[m] \in [for : Ids, on : BOOLEAN]
        BY <1>1 DEF Exists, TypeOK, Vm
    <2>2. [vms[m] EXCEPT !.on = on].for = vms[m].for
        BY <2>1
    <2> QED
        BY <1>1, <2>2 DEF Power, TypeOK, Exists
<1>2. CASE ~Exists(m)
    BY <1>2 DEF Power
<1> QED
    BY <1>1, <1>2

LEMMA VmSteps ==
    ASSUME TypeOK, Next, NEW n \in Pids
    PROVE  VmStep(n)
<1>0. UNCHANGED vms => VmStep(n)
    BY DEF VmStep
<1>p. ASSUME NEW m, NEW on \in BOOLEAN, UNCHANGED vms \/ vms' = Power(m, on) PROVE VmStep(n)
    BY <1>p, PowerKeeps DEF VmStep
<1>1. ASSUME NEW p \in Threads, Provision(p) PROVE VmStep(n)
    BY <1>0, <1>1 DEF Provision, ProvisionCheck, ProvisionRefused, ProvisionInsert,
       ProvisionSend, ProvisionSendFails
<1>2. ASSUME NEW p \in Threads, Operate(p) PROVE VmStep(n)
    <2>1. CASE StartCall(p) \/ StopCall(p) \/ RestartStop(p) \/ RestartStart(p) \/ DeleteStop(p)
        BY <1>p, <2>1 DEF StartCall, StopCall, RestartStop, RestartStart, DeleteStop, Call
    <2>2. CASE DeleteDestroy(p)
        BY <2>2 DEF DeleteDestroy, Call, VmStep, TypeOK, NoVm
    <2>3. CASE UNCHANGED vms
        BY <1>0, <2>3
    <2> QED
        BY <1>2, <2>1, <2>2, <2>3 DEF Operate, BeginStart, BeginStop, BeginRestart, BeginDelete,
           Begin, StartCommit, StopCommit, DeleteCommit, Commit
<1>3. ASSUME NEW p \in Threads, ApiCrash(p) PROVE VmStep(n)
    BY <1>0, <1>3 DEF ApiCrash
<1>4. ASSUME NEW i \in Ids, Work(i) PROVE VmStep(n)
    <2>1. CASE TaskClone(i)
        <3>1. CASE task[i].pid = n /\ ~Exists(n)
            <4>1. vms' = [vms EXCEPT ![n] = [for |-> i, on |-> FALSE]]
                BY <2>1, <3>1 DEF TaskClone
            <4>2. vms'[n].for = i
                BY <4>1 DEF TypeOK
            <4> QED
                BY <2>1, <3>1, <4>2 DEF VmStep
        <3>2. CASE ~(task[i].pid = n /\ ~Exists(n))
            <4>1. vms'[n] = vms[n]
                BY <2>1, <3>2 DEF TaskClone, TypeOK
            <4> QED
                BY <4>1 DEF VmStep
        <3> QED
            BY <3>1, <3>2
    <2>2. CASE TaskConfigure(i)
        BY <1>p, <2>2 DEF TaskConfigure
    <2>3. CASE UNCHANGED vms
        BY <1>0, <2>3
    <2> QED
        BY <1>4, <2>1, <2>2, <2>3 DEF Work, TaskStart, TaskSave, TaskKeys, TaskFinish, TaskFail
<1>5. ASSUME NEW i \in Ids, Disturb(i) PROVE VmStep(n)
    BY <1>0, <1>5 DEF Disturb, TaskRaise, TaskKilled, WorkerCrash
<1>6. ASSUME NEW i \in Ids, Administer(i) PROVE VmStep(n)
    BY <1>0, <1>6 DEF Administer, Fix, Override
<1> QED
    BY <1>1, <1>2, <1>3, <1>4, <1>5, <1>6 DEF Next

LEMMA ReqSteps ==
    ASSUME TypeOK, Next, NEW p \in Threads
    PROVE  ReqStep(p)
<1>0. req'[p] = req[p] \/ req'[p].pc \notin {"insert", "send"} => ReqStep(p)
    BY DEF ReqStep
<1>1. ASSUME NEW q \in Threads, Provision(q) PROVE ReqStep(p)
    <2>1. ASSUME NEW t \in Tenants, ProvisionCheck(q, t) PROVE ReqStep(p)
        BY <2>1 DEF ProvisionCheck, ReqStep, TypeOK
    <2>2. ASSUME NEW i \in Ids, ProvisionInsert(q, i) PROVE ReqStep(p)
        BY <2>2 DEF ProvisionInsert, ReqStep, TypeOK
    <2>3. CASE req' = [req EXCEPT ![q] = Idle]
        BY <1>0, <2>3 DEF TypeOK, Idle
    <2> QED
        BY <1>1, <2>1, <2>2, <2>3 DEF Provision, ProvisionRefused, ProvisionSend,
           ProvisionSendFails
<1>2. ASSUME NEW q \in Threads, Operate(q) PROVE ReqStep(p)
    <2>1. ASSUME NEW i, NEW pc \in OpPc, Begin(q, i, pc) PROVE ReqStep(p)
        BY <1>0, <2>1 DEF Begin, TypeOK, OpPc
    <2>2. ASSUME NEW pc \in OpPc \cup {"idle"}, req[q].pc \in OpPc,
                 req' = [req EXCEPT ![q] = IF pc = "idle" THEN Idle ELSE [@ EXCEPT !.pc = pc]]
          PROVE  ReqStep(p)
        <3>1. req[q] \in Op
            BY <2>2, RequestShape DEF TypeOK
        <3>2. req'[p] = req[p] \/ req'[p].pc \in OpPc \cup {"idle"}
            BY <2>2, <3>1 DEF TypeOK, Op, Idle
        <3> QED
            BY <1>0, <3>2 DEF OpPc
    <2>3. ASSUME NEW after, Commit(q, after) PROVE ReqStep(p)
        BY <1>0, <2>3 DEF Commit, TypeOK, Idle
    <2>4. ASSUME NEW i \in Ids, BeginStart(q, i) \/ BeginStop(q, i) \/ BeginRestart(q, i)
          PROVE  ReqStep(p)
        BY <2>1, <2>4 DEF BeginStart, BeginStop, BeginRestart, OpPc
    <2>5. ASSUME NEW i \in Ids, NEW force \in BOOLEAN, BeginDelete(q, i, force)
          PROVE  ReqStep(p)
        BY <2>1, <2>5 DEF BeginDelete, OpPc
    <2>6. CASE StartCall(q) \/ StopCall(q) \/ RestartStop(q) \/ RestartStart(q)
        <3>1. CASE StartCall(q)
            BY <2>2, <3>1 DEF StartCall, Call, OpPc
        <3>2. CASE StopCall(q)
            BY <2>2, <3>2 DEF StopCall, Call, OpPc
        <3>3. CASE RestartStop(q)
            BY <2>2, <3>3 DEF RestartStop, Call, OpPc
        <3>4. CASE RestartStart(q)
            BY <2>2, <3>4 DEF RestartStart, Call, OpPc
        <3> QED
            BY <2>6, <3>1, <3>2, <3>3, <3>4
    <2>7. CASE DeleteStop(q) \/ DeleteDestroy(q)
        <3>1. CASE DeleteStop(q)
            BY <2>2, <3>1 DEF DeleteStop, Call, OpPc
        <3>2. CASE DeleteDestroy(q)
            BY <2>2, <3>2 DEF DeleteDestroy, Call, OpPc
        <3> QED
            BY <2>7, <3>1, <3>2
    <2>8. CASE StartCommit(q) \/ StopCommit(q) \/ DeleteCommit(q)
        BY <2>3, <2>8 DEF StartCommit, StopCommit, DeleteCommit
    <2> QED
        BY <1>2, <2>4, <2>5, <2>6, <2>7, <2>8 DEF Operate
<1>3. ASSUME NEW q \in Threads, ApiCrash(q) PROVE ReqStep(p)
    BY <1>0, <1>3 DEF ApiCrash, TypeOK, Idle
<1>4. ASSUME NEW i \in Ids, Work(i) \/ Disturb(i) \/ Administer(i) PROVE ReqStep(p)
    <2>1. UNCHANGED req
        BY <1>4 DEF Work, Disturb, Administer, TaskStart, TaskSave, TaskKeys, TaskClone,
           TaskConfigure, TaskFinish, TaskFail, TaskRaise, TaskKilled, WorkerCrash, Override, Fix
    <2> QED
        BY <1>0, <2>1
<1> QED
    BY <1>1, <1>2, <1>3, <1>4 DEF Next

\* History is never forgotten.
LEMMA MarkGrows ==
    ASSUME TypeOK, NEW i \in Ids, UNCHANGED marks \/ \E S, m : Mark(S, m)
    PROVE  marks[i] \subseteq marks'[i]
BY DEF TypeOK, Mark

LEMMA MarksGrow ==
    ASSUME TypeOK, Next, NEW i \in Ids
    PROVE  marks[i] \subseteq marks'[i]
<1>1. ASSUME NEW p \in Threads, Provision(p) PROVE UNCHANGED marks \/ \E S, m : Mark(S, m)
    BY <1>1 DEF Provision, ProvisionCheck, ProvisionRefused, ProvisionInsert, ProvisionSend,
       ProvisionSendFails
<1>2. ASSUME NEW p \in Threads, Operate(p) PROVE UNCHANGED marks \/ \E S, m : Mark(S, m)
    BY <1>2 DEF Operate, BeginStart, BeginStop, BeginRestart, BeginDelete, Begin, StartCall,
       StopCall, RestartStop, RestartStart, DeleteStop, DeleteDestroy, Call, StartCommit,
       StopCommit, DeleteCommit, Commit
<1>3. ASSUME NEW p \in Threads, ApiCrash(p) PROVE UNCHANGED marks \/ \E S, m : Mark(S, m)
    BY <1>3 DEF ApiCrash
<1>4. ASSUME NEW j \in Ids, Work(j) PROVE UNCHANGED marks \/ \E S, m : Mark(S, m)
    BY <1>4 DEF Work, TaskStart, TaskSave, TaskKeys, TaskClone, TaskConfigure, TaskFinish, TaskFail
<1>5. ASSUME NEW j \in Ids, Disturb(j) \/ Administer(j)
      PROVE  UNCHANGED marks \/ \E S, m : Mark(S, m)
    BY <1>5 DEF Disturb, Administer, TaskRaise, TaskKilled, WorkerCrash, Override, Fix
<1> QED
    BY <1>1, <1>2, <1>3, <1>4, <1>5, MarkGrows DEF Next

-----------------------------------------------------------------------------
(* The VM quota.  A request that has passed the check holds a place that   *)
(* its row will take: places and rows together are what the check bounds.  *)

Claiming(t) == {p \in Threads : req[p].pc = "insert" /\ req[p].tenant = t}

Claims(t) ==
    Cardinality(RowsOf(t)) + Cardinality(Claiming(t)) <= MaxVms[t] + Cardinality(Threads) - 1

LEMMA Finite ==
    ASSUME NEW t
    PROVE  /\ IsFiniteSet(RowsOf(t)) /\ Cardinality(RowsOf(t)) \in Nat
           /\ IsFiniteSet(Claiming(t)) /\ Cardinality(Claiming(t)) \in Nat
           /\ Cardinality(Claiming(t)) <= Cardinality(Threads)
           /\ Cardinality(Threads) \in Nat /\ Cardinality(Threads) > 0
<1>1. IsFiniteSet(Ids) /\ IsFiniteSet(Threads) /\ Threads # {}
    BY VmsAssumption
<1>2. RowsOf(t) \subseteq Ids /\ Claiming(t) \subseteq Threads
    BY DEF RowsOf, Claiming
<1> QED
    BY <1>1, <1>2, FS_Subset, FS_CardinalityType, FS_EmptySet

\* A step that adds neither a row nor a place keeps the bound.
LEMMA ClaimsShrink ==
    ASSUME NEW t \in Tenants, Claims(t),
           RowsOf(t)' \subseteq RowsOf(t), Claiming(t)' \subseteq Claiming(t)
    PROVE  Claims(t)'
<1>1. Cardinality(RowsOf(t)') <= Cardinality(RowsOf(t)) /\ Cardinality(RowsOf(t)') \in Nat
    BY Finite, FS_Subset, FS_CardinalityType
<1>2. /\ Cardinality(Claiming(t)') <= Cardinality(Claiming(t))
      /\ Cardinality(Claiming(t)') \in Nat
    BY Finite, FS_Subset, FS_CardinalityType
<1>3. MaxVms[t] \in Nat
    BY VmsAssumption
<1> QED
    BY <1>1, <1>2, <1>3, Finite DEF Claims

LEMMA CheckClaims ==
    ASSUME TypeOK, NEW p \in Threads, NEW u \in Tenants, ProvisionCheck(p, u),
           NEW t \in Tenants, Claims(t)
    PROVE  Claims(t)'
<1>1. RowsOf(t)' = RowsOf(t)
    BY DEF ProvisionCheck, RowsOf, Live
<1>2. CASE t = u
    <2>1. Cardinality(RowsOf(t)) + 1 <= MaxVms[t]
        BY <1>2 DEF ProvisionCheck, UnderQuota
    <2>2. Claiming(t)' \subseteq Threads
        BY DEF Claiming
    <2>3. Cardinality(Claiming(t)') <= Cardinality(Threads) /\ Cardinality(Claiming(t)') \in Nat
        BY <2>2, VmsAssumption, FS_Subset, FS_CardinalityType
    <2>4. MaxVms[t] \in Nat
        BY VmsAssumption
    <2> QED
        BY <1>1, <2>1, <2>3, <2>4, Finite DEF Claims
<1>3. CASE t # u
    <2>1. Claiming(t)' \subseteq Claiming(t)
        BY <1>3 DEF ProvisionCheck, Claiming, TypeOK
    <2> QED
        BY <1>1, <2>1, ClaimsShrink
<1> QED
    BY <1>2, <1>3

LEMMA InsertClaims ==
    ASSUME TypeOK, NEW p \in Threads, NEW i \in Ids, ProvisionInsert(p, i),
           NEW t \in Tenants, Claims(t)
    PROVE  Claims(t)'
<1>1. ~Live(i)
    BY DEF ProvisionInsert, Live, Unused, Status
<1>2. CASE req[p].tenant = t
    <2>1. RowsOf(t)' = RowsOf(t) \cup {i}
        BY <1>2 DEF ProvisionInsert, RowsOf, Live, TypeOK, Status
    <2>2. Claiming(t)' = Claiming(t) \ {p} /\ p \in Claiming(t)
        BY <1>2 DEF ProvisionInsert, Claiming, TypeOK
    <2>3. i \notin RowsOf(t)
        BY <1>1 DEF RowsOf
    <2>4. Cardinality(RowsOf(t)') = Cardinality(RowsOf(t)) + 1
        BY <2>1, <2>3, Finite, FS_AddElement
    <2>5. Cardinality(Claiming(t)') = Cardinality(Claiming(t)) - 1
        BY <2>2, Finite, FS_RemoveElement
    <2>6. MaxVms[t] \in Nat
        BY VmsAssumption
    <2> QED
        BY <2>4, <2>5, <2>6, Finite DEF Claims
<1>3. CASE req[p].tenant # t
    <2>1. RowsOf(t)' \subseteq RowsOf(t)
        BY <1>3 DEF ProvisionInsert, RowsOf, Live, TypeOK
    <2>2. Claiming(t)' \subseteq Claiming(t)
        BY DEF ProvisionInsert, Claiming, TypeOK
    <2> QED
        BY <2>1, <2>2, ClaimsShrink
<1> QED
    BY <1>2, <1>3

LEMMA SaveKeepsTenant ==
    ASSUME TypeOK, NEW i \in Ids, TaskSave(i)
    PROVE  Live(i)' => Live(i) /\ rows'[i].tenant = rows[i].tenant
<1>1. CASE Live(i)
    <2>1. rows'[i] = [rows[i] EXCEPT !.pid = task[i].pid]
        BY <1>1 DEF TaskSave, TypeOK
    <2> QED
        BY <1>1, <2>1, LiveShape
<1>2. CASE ~Live(i)
    BY <1>2 DEF TaskSave, Live
<1> QED
    BY <1>1, <1>2

LEMMA NextClaims ==
    ASSUME TypeOK, NEW t \in Tenants, Claims(t), [Next]_vars
    PROVE  Claims(t)'
<1>1. CASE UNCHANGED vars
    <2>1. RowsOf(t)' = RowsOf(t) /\ Claiming(t)' = Claiming(t)
        BY <1>1 DEF vars, RowsOf, Live, Claiming
    <2> QED
        BY <2>1, ClaimsShrink
<1>2. CASE \E p \in Threads, u \in Tenants : ProvisionCheck(p, u)
    BY <1>2, CheckClaims
<1>3. CASE \E p \in Threads, i \in Ids : ProvisionInsert(p, i)
    BY <1>3, InsertClaims
<1>4. ASSUME Next,
             ~\E p \in Threads, u \in Tenants : ProvisionCheck(p, u),
             ~\E p \in Threads, i \in Ids : ProvisionInsert(p, i)
      PROVE  Claims(t)'
    <2>1. RowsOf(t)' \subseteq RowsOf(t)
        BY <1>4, RowSteps, SaveKeepsTenant DEF RowStep, RowKept, RowsOf
    <2>2. Claiming(t)' \subseteq Claiming(t)
        BY <1>4, ReqSteps DEF ReqStep, Claiming
    <2> QED
        BY <2>1, <2>2, ClaimsShrink
<1> QED
    BY <1>1, <1>2, <1>3, <1>4

\* A tenant's quota is exceeded by fewer rows than the API has threads: each
\* request between its check and its insert (api/vm.py:377, 433) adds one.
THEOREM QuotaCorrect == Spec => []QuotaOvershoot
<1> DEFINE IInv == TypeOK /\ \A t \in Tenants : Claims(t)
<1>1. Init => IInv
    <2> SUFFICES ASSUME Init, NEW t \in Tenants PROVE Claims(t)
        BY VmsAssumption DEF Init, TypeOK, Row, Vm, Request, Task, TaskPc
    <2>1. RowsOf(t) = {} /\ Claiming(t) = {}
        BY DEF Init, RowsOf, Live, Claiming, Unused, Status, Idle
    <2>2. MaxVms[t] \in Nat
        BY VmsAssumption
    <2> QED
        BY <2>1, <2>2, Finite, FS_EmptySet DEF Claims
<1>2. IInv /\ [Next]_vars => IInv'
    BY NextTyped, NextClaims
<1>3. IInv => QuotaOvershoot
    <2> SUFFICES ASSUME NEW t \in Tenants, Claims(t)
                 PROVE  Cardinality(RowsOf(t)) <= MaxVms[t] + Cardinality(Threads) - 1
        BY DEF QuotaOvershoot
    <2>1. MaxVms[t] \in Nat
        BY VmsAssumption
    <2> QED
        BY <2>1, Finite DEF Claims
<1> QED
    BY <1>1, <1>2, <1>3, PTL DEF Spec

-----------------------------------------------------------------------------
(* A row keeps its VM.  The task gives its row the id before it clones, so *)
(* a row's VM appears when the row already names it; what must be excluded *)
(* is a second task for the row, or a row made when its VM is there.       *)

Sender(p) ==
    req[p].pc = "send" => rows[req[p].id] # Unused /\ task[req[p].id].pc = "none"

OneSender(p, q) ==
    p # q /\ req[p].pc = "send" /\ req[q].pc = "send" => req[p].id # req[q].id

FreshRow(i) == rows[i] = Unused => task[i].pc = "none"

NotYetCloned(i) ==
    task[i].pc \in BeforeClone /\ "redelivered" \notin marks[i] => \A n \in Pids : vms[n].for # i

Saved(i) == task[i].pc \in {"saved", "keyed"} /\ Live(i) => rows[i].pid = task[i].pid

VmsInv ==
    /\ TypeOK
    /\ \A p \in Threads : Sender(p)
    /\ \A p, q \in Threads : OneSender(p, q)
    /\ \A i \in Ids : FreshRow(i) /\ NotYetCloned(i) /\ Saved(i)
    /\ RowKeepsItsVm

LEMMA SaveRow ==
    ASSUME TypeOK, NEW i \in Ids, TaskSave(i)
    PROVE  /\ Live(i)' => Live(i) /\ rows'[i].pid = task[i].pid /\ task'[i].pid = task[i].pid
           /\ rows'[i] = Unused => rows[i] = Unused
<1>1. CASE Live(i)
    <2>1. rows'[i] = [rows[i] EXCEPT !.pid = task[i].pid]
        BY <1>1 DEF TaskSave, TypeOK
    <2>2. rows'[i].pid = task[i].pid /\ rows'[i].status \in Status
        BY <1>1, <2>1, LiveShape
    <2>3. task'[i].pid = task[i].pid
        BY <1>1 DEF TaskSave, Proceed, TypeOK, Task
    <2> QED
        BY <1>1, <2>2, <2>3 DEF Unused, Status
<1>2. CASE ~Live(i)
    BY <1>2 DEF TaskSave, Live
<1> QED
    BY <1>1, <1>2

LEMMA InsertRow ==
    ASSUME TypeOK, NEW p \in Threads, NEW i \in Ids, ProvisionInsert(p, i)
    PROVE  rows[i] = Unused /\ rows'[i] # Unused /\ task' = task
BY DEF ProvisionInsert, TypeOK, Unused

LEMMA SendersNext ==
    ASSUME VmsInv, Next, NEW p \in Threads
    PROVE  Sender(p)'
<1> SUFFICES ASSUME req'[p].pc = "send"
             PROVE  rows'[req'[p].id] # Unused /\ task'[req'[p].id].pc = "none"
    BY DEF Sender
<1> TypeOK
    BY DEF VmsInv
<1>1. ASSUME NEW i \in Ids, ProvisionInsert(p, i), req'[p].id = i
      PROVE  rows'[i] # Unused /\ task'[i].pc = "none"
    BY <1>1, InsertRow DEF VmsInv, FreshRow
<1>2. CASE req'[p] = req[p]
    <2> DEFINE i == req[p].id
    <2>1. i \in Ids /\ rows[i] # Unused /\ task[i].pc = "none"
        BY <1>2, RequestShape DEF VmsInv, Sender, TypeOK
    <2>2. rows'[i] # Unused
        BY <2>1, RowSteps, InsertRow, SaveRow DEF RowStep, RowKept
    <2>3. ASSUME NEW q \in Threads, NEW auto \in BOOLEAN, ProvisionSend(q, auto), req[q].id = i
          PROVE  FALSE
        <3>1. q = p
            BY <1>2, <2>3 DEF VmsInv, OneSender, ProvisionSend
        <3> QED
            BY <2>3, <3>1 DEF ProvisionSend, TypeOK, Idle
    <2>4. task'[i] = task[i]
        BY <2>1, <2>3, TaskSteps DEF TaskStep, TaskStart, TaskSave, TaskKeys, WorkerCrash, Started
    <2> QED
        BY <1>2, <2>1, <2>2, <2>4
<1> QED
    BY <1>1, <1>2, ReqSteps DEF ReqStep

LEMMA OneSenderNext ==
    ASSUME VmsInv, Next, NEW p \in Threads, NEW q \in Threads
    PROVE  OneSender(p, q)'
<1> SUFFICES ASSUME p # q, req'[p].pc = "send", req'[q].pc = "send"
             PROVE  req'[p].id # req'[q].id
    BY DEF OneSender
<1> TypeOK
    BY DEF VmsInv
<1>1. ASSUME NEW r \in Threads, NEW s \in Threads, r # s, NEW i \in Ids, ProvisionInsert(r, i),
             req'[r].id = i, req'[s].pc = "send"
      PROVE  req'[r].id # req'[s].id
    <2>1. req'[s] = req[s]
        BY <1>1 DEF ProvisionInsert, TypeOK
    <2> QED
        BY <1>1, <2>1, InsertRow DEF VmsInv, Sender
<1>2. CASE req'[p] = req[p] /\ req'[q] = req[q]
    BY <1>2 DEF VmsInv, OneSender
<1> QED
    BY <1>1, <1>2, ReqSteps DEF ReqStep

LEMMA FreshRowNext ==
    ASSUME VmsInv, Next, NEW i \in Ids
    PROVE  FreshRow(i)'
<1> SUFFICES ASSUME rows'[i] = Unused PROVE task'[i].pc = "none"
    BY DEF FreshRow
<1> TypeOK
    BY DEF VmsInv
<1>1. rows[i] = Unused
    BY RowSteps, InsertRow, SaveRow DEF RowStep, RowKept
<1>2. task[i].pc = "none"
    BY <1>1 DEF VmsInv, FreshRow
<1>3. ASSUME NEW p \in Threads, NEW auto \in BOOLEAN, ProvisionSend(p, auto), req[p].id = i
      PROVE  FALSE
    BY <1>1, <1>3 DEF ProvisionSend, VmsInv, Sender
<1>4. task'[i] = task[i]
    BY <1>2, <1>3, TaskSteps DEF TaskStep, TaskStart, TaskSave, TaskKeys, WorkerCrash, Started
<1> QED
    BY <1>2, <1>4

LEMMA NotYetClonedNext ==
    ASSUME VmsInv, Next, NEW i \in Ids
    PROVE  NotYetCloned(i)'
<1> SUFFICES ASSUME task'[i].pc \in BeforeClone, "redelivered" \notin marks'[i], NEW n \in Pids
             PROVE  vms'[n].for # i
    BY DEF NotYetCloned
<1> TypeOK
    BY DEF VmsInv
<1>1. "redelivered" \notin marks[i]
    BY MarksGrow
<1>2. ~WorkerCrash(i)
    BY DEF WorkerCrash, Mark
<1>3. ASSUME NEW p \in Threads, NEW auto \in BOOLEAN, ProvisionSend(p, auto), req[p].id = i
      PROVE  task[i].pc = "none"
    BY <1>3 DEF ProvisionSend, VmsInv, Sender
<1>4. task[i].pc \in BeforeClone
    BY <1>2, <1>3, TaskSteps DEF TaskStep, TaskStart, TaskSave, TaskKeys, BeforeClone
<1>5. vms[n].for # i
    BY <1>1, <1>4 DEF VmsInv, NotYetCloned
<1>6. ~TaskClone(i)
    BY DEF TaskClone, TypeOK, Task, BeforeClone
<1> QED
    BY <1>5, <1>6, VmSteps, VmsAssumption DEF VmStep

LEMMA SavedNext ==
    ASSUME VmsInv, Next, NEW i \in Ids
    PROVE  Saved(i)'
<1> SUFFICES ASSUME task'[i].pc \in {"saved", "keyed"}, Live(i)'
             PROVE  rows'[i].pid = task'[i].pid
    BY DEF Saved
<1> TypeOK
    BY DEF VmsInv
<1>1. CASE task'[i] = task[i]
    <2>1. rows[i] # Unused /\ ~TaskSave(i)
        BY <1>1 DEF VmsInv, FreshRow, TaskSave
    <2>2. Live(i) /\ rows'[i].pid = rows[i].pid
        BY <2>1, RowSteps, InsertRow DEF RowStep, RowKept
    <2> QED
        BY <1>1, <2>2 DEF VmsInv, Saved
<1>2. CASE TaskSave(i)
    BY <1>2, SaveRow
<1>3. CASE TaskKeys(i)
    <2>1. Live(i) /\ rows' = rows
        BY <1>3 DEF TaskKeys, Live
    <2>2. task'[i].pid = task[i].pid
        BY <1>3, <2>1 DEF TaskKeys, Proceed, TypeOK, Task
    <2> QED
        BY <1>3, <2>1, <2>2 DEF TaskKeys, VmsInv, Saved
<1>4. ASSUME NEW p \in Threads, NEW auto \in BOOLEAN, ProvisionSend(p, auto), req[p].id = i
      PROVE  FALSE
    BY <1>4 DEF ProvisionSend, TypeOK
<1>5. ~TaskStart(i) /\ ~WorkerCrash(i)
    BY DEF TaskStart, WorkerCrash, TypeOK, Task, Ended
<1> QED
    BY <1>1, <1>2, <1>3, <1>4, <1>5, TaskSteps DEF TaskStep, BeforeClone

LEMMA KeepsNext ==
    ASSUME VmsInv, Next
    PROVE  RowKeepsItsVm'
<1> SUFFICES ASSUME NEW n \in Pids, NEW i \in Ids, vms'[n].for = i, Live(i)',
                    "redelivered" \notin marks'[i]
             PROVE  rows'[i].pid = n
    BY DEF RowKeepsItsVm
<1> TypeOK
    BY DEF VmsInv
<1>1. "redelivered" \notin marks[i]
    BY MarksGrow
<1>2. CASE vms[n].for = i
    <2>1. task[i].pc \notin BeforeClone
        BY <1>1, <1>2 DEF VmsInv, NotYetCloned
    <2>2. ~TaskSave(i) /\ rows[i] # Unused
        BY <2>1 DEF TaskSave, VmsInv, FreshRow, BeforeClone
    <2>3. Live(i) /\ rows'[i].pid = rows[i].pid
        BY <2>2, RowSteps, InsertRow DEF RowStep, RowKept
    <2> QED
        BY <1>1, <1>2, <2>3 DEF VmsInv, RowKeepsItsVm
<1>3. CASE TaskClone(i) /\ task[i].pid = n
    <2>1. Live(i) /\ rows' = rows /\ task[i].pc = "keyed"
        BY <1>3 DEF TaskClone, Live
    <2> QED
        BY <1>3, <2>1 DEF VmsInv, Saved
<1> QED
    BY <1>2, <1>3, VmSteps, VmsAssumption DEF VmStep

LEMMA VmsInvInit == Init => VmsInv
<1> SUFFICES ASSUME Init PROVE VmsInv
    OBVIOUS
<1>1. TypeOK
    BY VmsAssumption DEF Init, TypeOK, Row, Vm, Request, Task, TaskPc
<1>2. \A n \in Pids : vms[n].for \notin Ids
    BY VmsAssumption DEF Init, NoVm
<1> QED
    BY <1>1, <1>2 DEF Init, VmsInv, Sender, OneSender, FreshRow, NotYetCloned, Saved,
       RowKeepsItsVm, Idle

LEMMA VmsInvNext == VmsInv /\ [Next]_vars => VmsInv'
<1>1. ASSUME VmsInv, Next PROVE VmsInv'
    <2>1. TypeOK'
        BY <1>1, NextTyped DEF VmsInv
    <2> QED
        BY <1>1, <2>1, SendersNext, OneSenderNext, FreshRowNext, NotYetClonedNext, SavedNext,
           KeepsNext DEF VmsInv
<1>2. ASSUME VmsInv, UNCHANGED vars PROVE VmsInv'
    BY <1>2 DEF vars, VmsInv, TypeOK, Sender, OneSender, FreshRow, NotYetCloned, Saved,
       RowKeepsItsVm, Live
<1> QED
    BY <1>1, <1>2

\* As long as the message of a VM is delivered once, the row names the VM
\* that was cloned for it: the task commits the id before it clones, and no
\* failure of a call, a task or a thread takes it back (tasks/vm.py:192).
THEOREM RowKeepsItsVmCorrect == Spec => []RowKeepsItsVm
<1>1. VmsInv => RowKeepsItsVm
    BY DEF VmsInv
<1> QED
    BY <1>1, VmsInvInit, VmsInvNext, PTL DEF Spec

-----------------------------------------------------------------------------
(* A deleted row leaves no VM, and a status tells the power.  Both rest on *)
(* two facts about a row that no mark excuses: one request or task at a    *)
(* time works on it, and no other row has its hypervisor id.               *)

Plain(i) == marks[i] \cap {"overlap", "entangled", "redelivered", "call"} = {}

\* A request works on a row that has been inserted, a task with an id that
\* the hypervisor has.
KnownRow(p) == req[p].pc \in OpPc \cup {"send"} => rows[req[p].id] # Unused
PidChosen(i) == task[i].pc \in Started => task[i].pid \in Pids

\* One at a time works on a row.
Sole(i) ==
    "overlap" \notin marks[i] =>
        /\ TaskDue(i) => \A p \in Threads : ~Serving(p, i)
        /\ \A p, q \in Threads : Serving(p, i) /\ Serving(q, i) => p = q

\* The ids that a row, its VM, its task or a request on it knows.
TaskHolds(i, n) == task[i].pc \in {"saved", "keyed", "cloned", "up"} /\ task[i].pid = n
ReqHolds(p, i, n) == req[p].pc \in OpPc /\ req[p].id = i /\ req[p].pid = n
Holds(i, n) ==
    \/ rows[i].pid = n \/ vms[n].for = i \/ TaskHolds(i, n)
    \/ \E p \in Threads : ReqHolds(p, i, n)

Apart(i) ==
    "entangled" \notin marks[i] =>
        \A n \in Pids, j \in Ids : j # i /\ Holds(i, n) => ~Holds(j, n)

\* Nothing is left of a deleted row, nor will be.
GoneQuiet(i) == Plain(i) /\ rows[i] = Gone => ~Busy(i) /\ \A n \in Pids : vms[n].for # i

\* What a request on a row has achieved.
OpRow(p, i) ==
    Plain(i) /\ req[p].pc \in OpPc /\ req[p].id = i =>
        /\ Live(i) /\ rows[i].pid = req[p].pid
        /\ req[p].pc = "destroy" => ~Running(req[p].pid)
        /\ req[p].pc = "remove" => \A n \in Pids : vms[n].for # i

\* The steps of the requests that work on a row they have read.
OpStep(p) ==
    \/ StartCall(p) \/ StartCommit(p)
    \/ StopCall(p) \/ StopCommit(p)
    \/ RestartStop(p) \/ RestartStart(p)
    \/ DeleteStop(p) \/ DeleteDestroy(p) \/ DeleteCommit(p)
BeginStep(p, i) ==
    \/ BeginStart(p, i) \/ BeginStop(p, i) \/ BeginRestart(p, i)
    \/ \E force \in BOOLEAN : BeginDelete(p, i, force)
SendStep(p) == ProvisionSendFails(p) \/ \E auto \in BOOLEAN : ProvisionSend(p, auto)

\* The steps of what works on a row, and of all else.
Own(i) ==
    \/ \E p \in Threads : ProvisionInsert(p, i) \/ BeginStep(p, i)
    \/ \E p \in Threads : req[p].id = i /\ (SendStep(p) \/ OpStep(p))
    \/ \E p \in Threads : Serving(p, i) /\ ApiCrash(p)
    \/ Work(i) \/ Disturb(i) \/ Administer(i)
Foreign(i) ==
    /\ rows'[i] = rows[i] /\ task'[i] = task[i]
    /\ \A p \in Threads : Serving(p, i) \/ Serving(p, i)' => req'[p] = req[p]
    /\ \A n \in Pids : vms'[n] # vms[n] =>
          \E j \in Ids : j # i /\ (TaskHolds(j, n) \/ \E p \in Threads : ReqHolds(p, j, n))

LEMMA Marked ==
    ASSUME TypeOK, NEW S, NEW m, Mark(S, m), NEW i \in Ids, i \in S
    PROVE  m \in marks'[i]
BY DEF Mark

LEMMA CallRequest ==
    ASSUME TypeOK, NEW p \in Threads, NEW pc \in OpPc \cup {"idle"}, NEW after,
           req[p].pc \in OpPc, Call(p, pc, after)
    PROVE  /\ \A q \in Threads : q # p => req'[q] = req[q]
           /\ req'[p].pc = pc
           /\ pc # "idle" => req'[p].id = req[p].id /\ req'[p].pid = req[p].pid
           /\ rows' = rows /\ task' = task
           /\ vms' = after \/ (vms' = vms /\ "call" \in marks'[req[p].id])
<1>1. req[p] \in Op
    BY RequestShape DEF TypeOK
<1>0. vms' = after \/ (vms' = vms /\ "call" \in marks'[req[p].id])
    <2>1. CASE vms' = after
        BY <2>1
    <2>2. CASE vms' = vms /\ Mark({req[p].id}, "call")
        <3>1. req[p].id \in Ids
            BY <1>1 DEF Op
        <3>2. "call" \in marks'[req[p].id]
            BY <2>2, <3>1 DEF Mark
        <3> QED
            BY <2>2, <3>2
    <2>3. vms' = after \/ (vms' = vms /\ Mark({req[p].id}, "call"))
        BY Zenon DEF Call
    <2> QED
        BY <2>1, <2>2, <2>3
<1>2. CASE pc = "idle"
    BY <1>0, <1>1, <1>2 DEF Call, TypeOK, Idle
<1>3. CASE pc # "idle"
    <2>1. req'[p] = [req[p] EXCEPT !.pc = pc]
        BY <1>3 DEF Call, TypeOK
    <2>2. req'[p].pc = pc /\ req'[p].id = req[p].id /\ req'[p].pid = req[p].pid
        BY <1>1, <2>1 DEF Op
    <2> QED
        BY <1>0, <1>3, <2>2 DEF Call, TypeOK
<1> QED
    BY <1>2, <1>3

\* A request that has worked on a row changes the VM it knows, and goes on.
LEMMA OpSteps ==
    ASSUME TypeOK, NEW p \in Threads, OpStep(p)
    PROVE  /\ req[p].pc \in OpPc /\ req[p].id \in Ids /\ req[p].pid \in Pids \cup {None}
           /\ \A q \in Threads : q # p => req'[q] = req[q]
           /\ \/ req'[p] = Idle
              \/ req'[p].pc \in OpPc /\ req'[p].id = req[p].id /\ req'[p].pid = req[p].pid
           /\ task' = task
           /\ \A i \in Ids : i # req[p].id => rows'[i] = rows[i]
           /\ \A n \in Pids : n # req[p].pid => vms'[n] = vms[n]
<1>1. req[p].pc \in OpPc
    BY DEF OpStep, StartCall, StartCommit, StopCall, StopCommit, RestartStop, RestartStart,
       DeleteStop, DeleteDestroy, DeleteCommit, OpPc
<1>2. req[p].id \in Ids /\ req[p].pid \in Pids \cup {None}
    BY <1>1, RequestShape DEF TypeOK, Op
<1>3. ASSUME NEW pc \in OpPc \cup {"idle"}, NEW after, Call(p, pc, after),
             \A n \in Pids : n # req[p].pid => after[n] = vms[n]
      PROVE  /\ \A q \in Threads : q # p => req'[q] = req[q]
             /\ \/ req'[p] = Idle
                \/ req'[p].pc \in OpPc /\ req'[p].id = req[p].id /\ req'[p].pid = req[p].pid
             /\ task' = task /\ rows' = rows
             /\ \A n \in Pids : n # req[p].pid => vms'[n] = vms[n]
    <2>1. pc = "idle" => req'[p] = Idle
        BY <1>3 DEF Call, TypeOK
    <2> QED
        BY <1>1, <1>3, <2>1, CallRequest
<1>4. ASSUME NEW on, NEW n \in Pids, n # req[p].pid
      PROVE  Power(req[p].pid, on)[n] = vms[n]
    BY <1>4 DEF Power, TypeOK
<1>5. CASE StartCall(p)
    BY <1>1, <1>2, <1>3, <1>4, <1>5 DEF StartCall, OpPc
<1>6. CASE StopCall(p)
    BY <1>1, <1>2, <1>3, <1>4, <1>6 DEF StopCall, OpPc
<1>7. CASE RestartStop(p)
    BY <1>1, <1>2, <1>3, <1>4, <1>7 DEF RestartStop, OpPc
<1>8. CASE RestartStart(p)
    BY <1>1, <1>2, <1>3, <1>4, <1>8 DEF RestartStart
<1>9. CASE DeleteStop(p)
    BY <1>1, <1>2, <1>3, <1>4, <1>9 DEF DeleteStop, OpPc
<1>10. CASE DeleteDestroy(p)
    <2> DEFINE after == IF Exists(req[p].pid) /\ ~Running(req[p].pid)
                        THEN [vms EXCEPT ![req[p].pid] = NoVm] ELSE vms
    <2>1. \A n \in Pids : n # req[p].pid => after[n] = vms[n]
        BY DEF TypeOK
    <2>2. Call(p, "remove", after)
        BY <1>10 DEF DeleteDestroy
    <2> HIDE DEF after
    <2> QED
        BY <1>1, <1>2, <1>3, <2>1, <2>2 DEF OpPc
<1>11. CASE StartCommit(p) \/ StopCommit(p) \/ DeleteCommit(p)
    <2>1. \A i \in Ids : i # req[p].id => rows'[i] = rows[i]
        BY <1>11 DEF StartCommit, StopCommit, DeleteCommit, Commit, WithStatus, TypeOK
    <2> QED
        BY <1>1, <1>2, <1>11, <2>1 DEF StartCommit, StopCommit, DeleteCommit, Commit, TypeOK
<1> QED
    BY <1>5, <1>6, <1>7, <1>8, <1>9, <1>10, <1>11 DEF OpStep

LEMMA ForeignOrOwn ==
    ASSUME TypeOK, Next, NEW i \in Ids
    PROVE  Foreign(i) \/ Own(i)
<1>1. ASSUME NEW p \in Threads, Provision(p) PROVE Foreign(i) \/ Own(i)
    <2>1. ASSUME NEW t \in Tenants, ProvisionCheck(p, t) PROVE Foreign(i)
        BY <2>1 DEF ProvisionCheck, Foreign, Serving, TypeOK, Idle
    <2>2. CASE ProvisionRefused(p)
        BY <2>2 DEF ProvisionRefused, Foreign, Serving, TypeOK, Idle
    <2>3. ASSUME NEW j \in Ids, ProvisionInsert(p, j), j # i PROVE Foreign(i)
        BY <2>3 DEF ProvisionInsert, Foreign, Serving, TypeOK
    <2>4. ASSUME SendStep(p), req[p].id # i PROVE Foreign(i)
        <3>1. rows'[i] = rows[i] /\ task'[i] = task[i] /\ vms' = vms
            BY <2>4 DEF SendStep, ProvisionSend, ProvisionSendFails, WithStatus, TypeOK
        <3>2. \A q \in Threads : Serving(q, i) \/ Serving(q, i)' => req'[q] = req[q]
            <4>1. req[p].pc = "send" /\ req' = [req EXCEPT ![p] = Idle]
                BY <2>4 DEF SendStep, ProvisionSend, ProvisionSendFails
            <4> QED
                BY <2>4, <4>1 DEF Serving, TypeOK, Idle
        <3> QED
            BY <3>1, <3>2 DEF Foreign
    <2> QED
        BY <1>1, <2>1, <2>2, <2>3, <2>4 DEF Provision, SendStep, Own
<1>2. ASSUME NEW p \in Threads, Operate(p) PROVE Foreign(i) \/ Own(i)
    <2>1. ASSUME NEW j \in Ids, BeginStep(p, j), j # i PROVE Foreign(i)
        BY <2>1 DEF BeginStep, BeginStart, BeginStop, BeginRestart, BeginDelete, Begin, Foreign,
           Serving, TypeOK, Idle
    <2>2. ASSUME OpStep(p), req[p].id # i PROVE Foreign(i)
        <3>1. /\ req[p].pc \in OpPc /\ req[p].id \in Ids
              /\ \A q \in Threads : q # p => req'[q] = req[q]
              /\ req'[p] = Idle \/ req'[p].id = req[p].id
              /\ task' = task /\ rows'[i] = rows[i]
              /\ \A n \in Pids : n # req[p].pid => vms'[n] = vms[n]
            BY <2>2, OpSteps
        <3>2. \A q \in Threads : Serving(q, i) \/ Serving(q, i)' => req'[q] = req[q]
            BY <2>2, <3>1 DEF Serving, Idle
        <3> QED
            BY <2>2, <3>1, <3>2 DEF Foreign, ReqHolds
    <2> QED
        BY <1>2, <2>1, <2>2 DEF Operate, OpStep, BeginStep, Own
<1>3. ASSUME NEW p \in Threads, ApiCrash(p), ~Serving(p, i) PROVE Foreign(i)
    BY <1>3 DEF ApiCrash, Foreign, Serving, TypeOK, Idle
<1>4. ASSUME NEW j \in Ids, j # i, Work(j) \/ Disturb(j) PROVE Foreign(i)
    <2>1. rows'[i] = rows[i] /\ task'[i] = task[i] /\ req' = req
        BY <1>4 DEF Work, Disturb, TaskStart, TaskSave, TaskKeys, TaskClone, TaskConfigure,
           TaskFinish, TaskFail, TaskRaise, TaskKilled, WorkerCrash, Proceed, WithStatus, TypeOK
    <2>2. CASE TaskClone(j) \/ TaskConfigure(j)
        <3>1. \A n \in Pids : vms'[n] # vms[n] => TaskHolds(j, n)
            BY <2>2 DEF TaskClone, TaskConfigure, Power, TaskHolds, TypeOK
        <3> QED
            BY <1>4, <2>1, <3>1 DEF Foreign
    <2>3. CASE vms' = vms
        BY <2>1, <2>3 DEF Foreign
    <2> QED
        BY <1>4, <2>2, <2>3 DEF Work, Disturb, TaskStart, TaskSave, TaskKeys, TaskFinish, TaskFail,
           TaskRaise, TaskKilled, WorkerCrash
<1>5. ASSUME NEW j \in Ids, j # i, Administer(j) PROVE Foreign(i)
    BY <1>5 DEF Administer, Fix, Override, Foreign, TypeOK
<1> QED
    BY <1>1, <1>2, <1>3, <1>4, <1>5 DEF Next, Own

\* Who changes what is written for a row, and what a request has read.
LEMMA TaskCause ==
    ASSUME TypeOK, Next, NEW i \in Ids, task'[i] # task[i]
    PROVE  \/ Work(i) \/ Disturb(i)
           \/ \E p \in Threads, auto \in BOOLEAN : ProvisionSend(p, auto) /\ req[p].id = i
<1>1. Own(i)
    BY ForeignOrOwn DEF Foreign
<1>2. ASSUME NEW p \in Threads, ProvisionInsert(p, i) \/ BeginStep(p, i) \/ ProvisionSendFails(p)
                                \/ ApiCrash(p) \/ OpStep(p)
      PROVE  task' = task
    BY <1>2, OpSteps DEF ProvisionInsert, BeginStep, BeginStart, BeginStop, BeginRestart,
       BeginDelete, Begin, ProvisionSendFails, ApiCrash
<1>3. ~Administer(i)
    BY DEF Administer, Fix, Override
<1> QED
    BY <1>1, <1>2, <1>3 DEF Own, SendStep

LEMMA ServingCause ==
    ASSUME TypeOK, Next, NEW i \in Ids, NEW p \in Threads, Serving(p, i)', req'[p] # req[p]
    PROVE  \/ ProvisionInsert(p, i) /\ req'[p].pc = "send"
           \/ /\ BeginStep(p, i)
              /\ req'[p].pc \in OpPc /\ req'[p].pid = rows[i].pid
           \/ OpStep(p) /\ req[p].id = i /\ req'[p].pc \in OpPc /\ req'[p].pid = req[p].pid
<1>1. Own(i)
    BY ForeignOrOwn DEF Foreign
<1>2. ASSUME NEW q \in Threads, ProvisionInsert(q, i)
      PROVE  q = p /\ ProvisionInsert(p, i) /\ req'[p].pc = "send"
    BY <1>2 DEF ProvisionInsert, TypeOK
<1>3. ASSUME NEW q \in Threads, BeginStep(q, i)
      PROVE  q = p /\ BeginStep(p, i) /\ req'[p].pc \in OpPc /\ req'[p].pid = rows[i].pid
    BY <1>3 DEF BeginStep, BeginStart, BeginStop, BeginRestart, BeginDelete, Begin, TypeOK, OpPc
<1>4. ASSUME NEW q \in Threads, SendStep(q) \/ ApiCrash(q)
      PROVE  FALSE
    <2>1. req' = [req EXCEPT ![q] = Idle]
        BY <1>4 DEF SendStep, ProvisionSend, ProvisionSendFails, ApiCrash
    <2>2. req'[p] = Idle
        BY <2>1 DEF TypeOK
    <2> QED
        BY <2>2 DEF Serving, Idle
<1>5. ASSUME NEW q \in Threads, OpStep(q), req[q].id = i
      PROVE  OpStep(p) /\ req[p].id = i /\ req'[p].pc \in OpPc /\ req'[p].pid = req[p].pid
    BY <1>5, OpSteps DEF Serving, Idle
<1>6. Work(i) \/ Disturb(i) \/ Administer(i) => req' = req
    BY DEF Work, Disturb, Administer, TaskStart, TaskSave, TaskKeys, TaskClone, TaskConfigure,
       TaskFinish, TaskFail, TaskRaise, TaskKilled, WorkerCrash, Override, Fix
<1> QED
    BY <1>1, <1>2, <1>3, <1>4, <1>5, <1>6 DEF Own

LEMMA DueCause ==
    ASSUME TypeOK, Next, NEW i \in Ids, TaskDue(i)'
    PROVE  TaskDue(i) \/ \E p \in Threads, auto \in BOOLEAN : ProvisionSend(p, auto) /\ req[p].id = i
<1>1. CASE task'[i] = task[i]
    BY <1>1 DEF TaskDue
<1>2. Work(i) \/ Disturb(i) => TaskDue(i)
    BY DEF Work, Disturb, TaskStart, TaskSave, TaskKeys, TaskClone, TaskConfigure, TaskFinish,
       TaskFail, TaskRaise, TaskKilled, WorkerCrash, TaskDue, Started
<1> QED
    BY <1>1, <1>2, TaskCause

\* The invariant, with what the first theorem has shown.
RowInv ==
    /\ VmsInv
    /\ \A p \in Threads : KnownRow(p)
    /\ \A i \in Ids : PidChosen(i) /\ Sole(i) /\ Apart(i) /\ GoneQuiet(i)
    /\ \A p \in Threads, i \in Ids : OpRow(p, i)

LEMMA KnownRowNext ==
    ASSUME VmsInv, Next, NEW p \in Threads, KnownRow(p)
    PROVE  KnownRow(p)'
<1> SUFFICES ASSUME req'[p].pc \in OpPc \cup {"send"}
             PROVE  rows'[req'[p].id] # Unused
    BY DEF KnownRow
<1> TypeOK /\ TypeOK'
    BY NextTyped DEF VmsInv
<1>1. PICK i : i = req'[p].id /\ i \in Ids
    BY RequestShape DEF TypeOK, Op
<1>2. rows[i] # Unused => rows'[i] # Unused
    <2>1. RowKept(i) => (rows[i] # Unused => rows'[i] # Unused)
        BY DEF RowKept
    <2>2. \A q \in Threads : ProvisionInsert(q, i) => rows[i] = Unused
        BY DEF ProvisionInsert
    <2>3. TaskSave(i) => (rows[i] # Unused => rows'[i] # Unused)
        BY <1>1, SaveRow
    <2>4. RowStep(i)
        BY <1>1, RowSteps
    <2> QED
        BY <2>1, <2>2, <2>3, <2>4 DEF RowStep
<1>3. CASE req'[p] = req[p]
    BY <1>1, <1>2, <1>3 DEF KnownRow
<1>4. CASE req'[p] # req[p]
    <2>1. Serving(p, i)'
        BY <1>1 DEF Serving, OpPc
    <2>2. CASE ProvisionInsert(p, i)
        BY <1>1, <2>2, InsertRow
    <2>3. CASE BeginStep(p, i)
        <3>1. rows[i] # Unused
            BY <2>3 DEF BeginStep, BeginStart, BeginStop, BeginRestart, BeginDelete, Live, Unused,
               Status
        <3> QED
            BY <1>1, <1>2, <3>1
    <2>4. CASE OpStep(p) /\ req[p].id = i
        BY <1>1, <1>2, <2>4, OpSteps DEF KnownRow
    <2> QED
        BY <1>1, <1>4, <2>1, <2>2, <2>3, <2>4, ServingCause
<1> QED
    BY <1>3, <1>4

LEMMA PidChosenNext ==
    ASSUME TypeOK, Next, NEW i \in Ids, PidChosen(i)
    PROVE  PidChosen(i)'
<1> SUFFICES ASSUME task'[i].pc \in Started
             PROVE  task'[i].pid \in Pids
    BY DEF PidChosen
<1>1. CASE task'[i] = task[i]
    BY <1>1 DEF PidChosen
<1>2. ASSUME NEW p \in Threads, NEW auto \in BOOLEAN, ProvisionSend(p, auto), req[p].id = i
      PROVE  FALSE
    BY <1>2 DEF ProvisionSend, TypeOK, Started
<1>3. CASE Disturb(i)
    BY <1>3 DEF Disturb, TaskRaise, TaskKilled, WorkerCrash, TypeOK, Task, Started, Ended
<1>4. CASE Work(i)
    <2>1. CASE TaskStart(i)
        <3>1. ASSUME NEW n \in NextPids, task' = [task EXCEPT ![i].pc = "chosen", ![i].pid = n]
              PROVE  task'[i].pid \in Pids
            BY <3>1 DEF TypeOK, Task, NextPids, FreePids
        <3>2. CASE task' = [task EXCEPT ![i] = Ended]
            BY <3>2 DEF TypeOK, Started, Ended
        <3> QED
            BY <2>1, <3>1, <3>2 DEF TaskStart
    <2>2. CASE ~TaskStart(i)
        <3>1. ASSUME NEW pc \in Started, Proceed(i, pc)
              PROVE  task'[i].pid = task[i].pid
            <4>1. task'[i] = [task[i] EXCEPT !.pc = pc] \/ task'[i] = Ended
                BY <3>1 DEF Proceed, TypeOK
            <4>2. task[i] \in Task
                BY DEF TypeOK
            <4> QED
                BY <4>1, <4>2 DEF Task, Ended, Started
        <3>2. TaskSave(i) \/ TaskKeys(i) => task'[i].pid = task[i].pid /\ task[i].pc \in Started
            BY <3>1 DEF TaskSave, TaskKeys, Started
        <3>3. TaskClone(i) \/ TaskConfigure(i) =>
                  task'[i].pid = task[i].pid /\ task[i].pc \in Started
            BY DEF TaskClone, TaskConfigure, TypeOK, Task, Started
        <3>4. ~TaskFinish(i) /\ ~TaskFail(i)
            BY DEF TaskFinish, TaskFail, TypeOK, Started, Ended
        <3> QED
            BY <1>4, <2>2, <3>2, <3>3, <3>4 DEF Work, PidChosen
    <2> QED
        BY <2>1, <2>2
<1> QED
    BY <1>1, <1>2, <1>3, <1>4, TaskCause

LEMMA SoleNext ==
    ASSUME VmsInv, Next, NEW i \in Ids, Sole(i), \A p \in Threads : KnownRow(p)
    PROVE  Sole(i)'
<1> SUFFICES ASSUME "overlap" \notin marks'[i]
             PROVE  /\ TaskDue(i)' => \A p \in Threads : ~Serving(p, i)'
                    /\ \A p, q \in Threads : Serving(p, i)' /\ Serving(q, i)' => p = q
    BY DEF Sole
<1> TypeOK
    BY DEF VmsInv
<1>1. /\ TaskDue(i) => \A p \in Threads : ~Serving(p, i)
      /\ \A p, q \in Threads : Serving(p, i) /\ Serving(q, i) => p = q
    BY MarksGrow DEF Sole
\* A request that takes up the row finds it free.
<1>2. ASSUME NEW p \in Threads, ProvisionInsert(p, i) \/ BeginStep(p, i)
      PROVE  ~Busy(i) /\ task' = task /\ \A q \in Threads : q # p => req'[q] = req[q]
    <2>1. task' = task /\ \A q \in Threads : q # p => req'[q] = req[q]
        BY <1>2 DEF ProvisionInsert, BeginStep, BeginStart, BeginStop, BeginRestart, BeginDelete,
           Begin, TypeOK
    <2>2. CASE ProvisionInsert(p, i)
        <3>1. rows[i] = Unused /\ ~TaskDue(i)
            BY <2>2, InsertRow DEF VmsInv, FreshRow, TaskDue
        <3>2. ASSUME NEW q \in Threads, Serving(q, i)
              PROVE  FALSE
            BY <3>1, <3>2, RequestShape DEF KnownRow, Serving, TypeOK
        <3> QED
            BY <2>1, <3>1, <3>2 DEF Busy
    <2>3. CASE BeginStep(p, i)
        <3>1. IF Busy(i) THEN Mark({i}, "overlap") ELSE UNCHANGED marks
            BY <2>3 DEF BeginStep, BeginStart, BeginStop, BeginRestart, BeginDelete, Begin
        <3> QED
            BY <2>1, <3>1, Marked
    <2> QED
        BY <1>2, <2>2, <2>3
<1>3. ASSUME NEW p \in Threads, Serving(p, i)'
      PROVE  \/ Serving(p, i)
             \/ ProvisionInsert(p, i) \/ BeginStep(p, i)
    <2>1. CASE req'[p] = req[p]
        BY <1>3, <2>1 DEF Serving
    <2>2. OpStep(p) /\ req[p].id = i => Serving(p, i)
        BY OpSteps DEF Serving, OpPc
    <2> QED
        BY <1>3, <2>1, <2>2, ServingCause
<1>4. ASSUME TaskDue(i)', NEW p \in Threads, Serving(p, i)'
      PROVE  FALSE
    <2>1. CASE ProvisionInsert(p, i) \/ BeginStep(p, i)
        BY <1>2, <1>4, <2>1 DEF Busy, TaskDue
    <2>2. CASE Serving(p, i)
        <3>1. PICK q \in Threads, auto \in BOOLEAN : ProvisionSend(q, auto) /\ req[q].id = i
            BY <1>1, <1>4, <2>2, DueCause
        <3>2. q = p
            BY <1>1, <2>2, <3>1 DEF Serving, ProvisionSend
        <3>3. req'[p] = Idle
            BY <3>1, <3>2 DEF ProvisionSend, TypeOK
        <3> QED
            BY <1>4, <3>3 DEF Serving, Idle
    <2> QED
        BY <1>3, <1>4, <2>1, <2>2
<1>5. ASSUME NEW p \in Threads, NEW q \in Threads, Serving(p, i)', Serving(q, i)'
      PROVE  p = q
    <2>1. CASE Serving(p, i) /\ Serving(q, i)
        BY <1>1, <2>1
    <2>2. ASSUME NEW r \in Threads, NEW s \in Threads, Serving(s, i)', r # s,
                 ProvisionInsert(r, i) \/ BeginStep(r, i)
          PROVE  FALSE
        BY <1>2, <2>2 DEF Busy, Serving
    <2> QED
        BY <1>3, <1>5, <2>1, <2>2
<1> QED
    BY <1>4, <1>5

\* A row, its VM, its task and its requests learn an id when the task saves it.
LEMMA HoldsStep ==
    ASSUME VmsInv, Next, NEW i \in Ids, NEW n \in Pids, Holds(i, n)'
    PROVE  Holds(i, n) \/ (TaskSave(i) /\ task[i].pid = n)
<1> TypeOK /\ TypeOK'
    BY NextTyped DEF VmsInv
<1>1. CASE rows'[i].pid = n
    <2>1. CASE RowKept(i)
        <3>1. Live(i)'
            BY <1>1, VmsAssumption DEF TypeOK, Row, Live, Unused, Gone
        <3> QED
            BY <1>1, <2>1, <3>1 DEF RowKept, Holds
    <2>2. ASSUME NEW p \in Threads, ProvisionInsert(p, i) PROVE FALSE
        BY <1>1, <2>2, VmsAssumption DEF ProvisionInsert, TypeOK
    <2>3. CASE TaskSave(i)
        <3>1. CASE Live(i)
            <4>1. rows'[i] = [rows[i] EXCEPT !.pid = task[i].pid]
                BY <2>3, <3>1 DEF TaskSave, TypeOK
            <4>2. rows'[i].pid = task[i].pid
                BY <3>1, <4>1, LiveShape
            <4> QED
                BY <1>1, <2>3, <4>2
        <3>2. CASE ~Live(i)
            BY <1>1, <2>3, <3>2 DEF TaskSave, Holds
        <3> QED
            BY <3>1, <3>2
    <2> QED
        BY <2>1, <2>2, <2>3, RowSteps DEF RowStep
<1>2. CASE vms'[n].for = i
    <2>1. CASE vms[n].for = i
        BY <2>1 DEF Holds
    <2>2. CASE TaskClone(i) /\ task[i].pid = n
        BY <2>2 DEF TaskClone, TaskHolds, Holds
    <2> QED
        BY <1>2, <2>1, <2>2, VmSteps, VmsAssumption DEF VmStep
<1>3. CASE TaskHolds(i, n)'
    <2>0. task'[i].pc \in {"saved", "keyed", "cloned", "up"} /\ task'[i].pid = n
        BY <1>3 DEF TaskHolds
    <2>1. CASE task'[i] = task[i]
        BY <2>0, <2>1 DEF TaskHolds, Holds
    <2>2. ASSUME NEW p \in Threads, NEW auto \in BOOLEAN, ProvisionSend(p, auto), req[p].id = i
          PROVE  FALSE
        BY <2>0, <2>2 DEF ProvisionSend, TypeOK
    <2>3. ~Disturb(i)
        BY <2>0 DEF Disturb, TaskRaise, TaskKilled, WorkerCrash, TypeOK, Task, Ended
    <2>4. ~TaskStart(i) /\ ~TaskFinish(i) /\ ~TaskFail(i)
        BY <2>0 DEF TaskStart, TaskFinish, TaskFail, TypeOK, Task, Ended
    <2>5. TaskKeys(i) \/ TaskSave(i) => task'[i].pid = task[i].pid
        <3>1. task[i] \in Task
            BY DEF TypeOK
        <3>2. ASSUME NEW pc \in {"saved", "keyed"}, Proceed(i, pc)
              PROVE  task'[i].pid = task[i].pid
            <4>1. task'[i] = [task[i] EXCEPT !.pc = pc] \/ task'[i] = Ended
                BY <3>2 DEF Proceed, TypeOK
            <4> QED
                BY <2>0, <3>1, <4>1 DEF Task, Ended
        <3> QED
            BY <3>2 DEF TaskKeys, TaskSave
    <2>6. TaskClone(i) \/ TaskConfigure(i) => task'[i].pid = task[i].pid
        <3>1. ASSUME NEW pc, task' = [task EXCEPT ![i].pc = pc]
              PROVE  task'[i].pid = task[i].pid
            BY <3>1 DEF TypeOK, Task
        <3> QED
            BY <3>1 DEF TaskClone, TaskConfigure
    <2>7. TaskKeys(i) \/ TaskClone(i) \/ TaskConfigure(i) => TaskHolds(i, task[i].pid)
        BY DEF TaskKeys, TaskClone, TaskConfigure, TaskHolds
    <2> QED
        BY <2>0, <2>1, <2>2, <2>3, <2>4, <2>5, <2>6, <2>7, TaskCause DEF Work, Holds
<1>4. ASSUME NEW p \in Threads, ReqHolds(p, i, n)'
      PROVE  Holds(i, n)
    <2>1. CASE req'[p] = req[p]
        BY <1>4, <2>1 DEF ReqHolds, Holds
    <2>2. CASE BeginStep(p, i) /\ req'[p].pid = rows[i].pid
        BY <1>4, <2>2 DEF ReqHolds, Holds
    <2>3. CASE OpStep(p) /\ req[p].id = i /\ req'[p].pid = req[p].pid
        BY <1>4, <2>3, OpSteps DEF ReqHolds, Holds
    <2>4. Serving(p, i)' /\ req'[p].pc # "send"
        BY <1>4 DEF ReqHolds, Serving, OpPc
    <2> QED
        BY <2>1, <2>2, <2>3, <2>4, ServingCause
<1> QED
    BY <1>1, <1>2, <1>3, <1>4 DEF Holds

\* The task that saves an id marks every other row that knows it.
LEMMA SaveMarks ==
    ASSUME TypeOK, NEW i \in Ids, NEW j \in Ids \ {i}, TaskSave(i), Holds(j, task[i].pid)
    PROVE  "entangled" \in marks'[i] /\ "entangled" \in marks'[j]
<1>1. j \in Holders(i, task[i].pid)
    BY DEF Holders, Holds, TaskHolds, ReqHolds
<1>2. Mark(Holders(i, task[i].pid) \cup {i}, "entangled")
    BY <1>1 DEF TaskSave
<1> QED
    BY <1>1, <1>2, Marked

LEMMA ApartNext ==
    ASSUME VmsInv, Next, NEW i \in Ids, Apart(i)
    PROVE  Apart(i)'
<1> SUFFICES ASSUME "entangled" \notin marks'[i], NEW n \in Pids, NEW j \in Ids, j # i,
                    Holds(i, n)', Holds(j, n)'
             PROVE  FALSE
    BY DEF Apart
<1> TypeOK
    BY DEF VmsInv
<1>1. "entangled" \notin marks[i]
    BY MarksGrow
<1>2. CASE Holds(i, n) /\ Holds(j, n)
    BY <1>1, <1>2 DEF Apart
<1>3. CASE TaskSave(i) /\ task[i].pid = n
    <2>1. Holds(j, n) \/ (TaskSave(j) /\ task[j].pid = n)
        BY HoldsStep
    <2>2. ~TaskSave(j)
        BY <1>3 DEF TaskSave, Proceed, TypeOK, Task, Ended
    <2> QED
        BY <1>3, <2>1, <2>2, SaveMarks
<1>4. CASE TaskSave(j) /\ task[j].pid = n /\ Holds(i, n)
    BY <1>4, SaveMarks
<1> QED
    BY <1>2, <1>3, <1>4, HoldsStep

\* What is done for the other rows leaves the VMs that a row knows alone.
LEMMA Untouched ==
    ASSUME VmsInv, Next, NEW i \in Ids, Foreign(i), "entangled" \notin marks[i], Apart(i),
           NEW n \in Pids
    PROVE  /\ Holds(i, n) => vms'[n] = vms[n]
           /\ vms'[n].for = i => vms[n] = vms'[n]
<1> TypeOK
    BY DEF VmsInv
<1>1. CASE Holds(i, n)
    <2>1. ASSUME vms'[n] # vms[n] PROVE FALSE
        <3>1. PICK j \in Ids : j # i /\ (TaskHolds(j, n) \/ \E p \in Threads : ReqHolds(p, j, n))
            BY <2>1 DEF Foreign
        <3> QED
            BY <1>1, <3>1 DEF Apart, Holds
    <2> QED
        BY <2>1
<1>2. CASE vms'[n].for = i
    <2>1. vms[n].for = i \/ (TaskClone(i) /\ task[i].pid = n)
        BY <1>2, VmSteps, VmsAssumption DEF VmStep
    <2>2. Holds(i, n)
        BY <2>1 DEF Holds, TaskHolds, TaskClone
    <2> QED
        BY <1>1, <2>2
<1> QED
    BY <1>1, <1>2

\* A row goes when a delete on it commits.
LEMMA GoneStep ==
    ASSUME TypeOK, Next, NEW i \in Ids, rows'[i] = Gone
    PROVE  rows[i] = Gone \/ \E p \in Threads : DeleteCommit(p) /\ req[p].id = i
<1>0. ASSUME NEW s \in Status, rows' = WithStatus(i, s) PROVE rows[i] = Gone
    <2>1. CASE Live(i)
        <3>1. rows'[i] = [rows[i] EXCEPT !.status = s]
            BY <1>0, <2>1 DEF WithStatus, TypeOK
        <3>2. rows'[i].status \in Status
            BY <2>1, <3>1, LiveShape
        <3> QED
            BY <3>2 DEF Gone, Status
    <2>2. CASE ~Live(i)
        BY <1>0, <2>2 DEF WithStatus
    <2> QED
        BY <2>1, <2>2
<1>1. ASSUME NEW p \in Threads, ProvisionInsert(p, i) PROVE FALSE
    BY <1>1 DEF ProvisionInsert, TypeOK, Gone
<1>2. ASSUME NEW p \in Threads, BeginStep(p, i) PROVE rows' = rows
    BY <1>2 DEF BeginStep, BeginStart, BeginStop, BeginRestart, BeginDelete, Begin
<1>3. ASSUME NEW p \in Threads, req[p].id = i, SendStep(p) PROVE rows[i] = Gone
    BY <1>0, <1>3 DEF SendStep, ProvisionSend, ProvisionSendFails, Status
<1>4. ASSUME NEW p \in Threads, req[p].id = i, OpStep(p), ~DeleteCommit(p) PROVE rows[i] = Gone
    <2>1. CASE StartCommit(p) \/ StopCommit(p)
        BY <1>0, <1>4, <2>1 DEF StartCommit, StopCommit, Commit, Status
    <2>2. CASE rows' = rows
        BY <2>2
    <2> QED
        BY <1>4, <2>1, <2>2 DEF OpStep, StartCall, StopCall, RestartStop, RestartStart, DeleteStop,
           DeleteDestroy, Call
<1>5. ASSUME NEW p \in Threads, ApiCrash(p) PROVE rows' = rows
    BY <1>5 DEF ApiCrash
<1>6. ASSUME Work(i) \/ Disturb(i) PROVE rows[i] = Gone
    <2>1. CASE TaskSave(i)
        <3>1. CASE Live(i)
            <4>1. rows'[i] = [rows[i] EXCEPT !.pid = task[i].pid]
                BY <2>1, <3>1 DEF TaskSave, TypeOK
            <4>2. rows'[i].status \in Status
                BY <3>1, <4>1, LiveShape
            <4> QED
                BY <4>2 DEF Gone, Status
        <3>2. CASE ~Live(i)
            BY <2>1, <3>2 DEF TaskSave
        <3> QED
            BY <3>1, <3>2
    <2>2. CASE TaskFinish(i) \/ TaskFail(i)
        BY <1>0, <2>2 DEF TaskFinish, TaskFail, Status
    <2>3. CASE rows' = rows
        BY <2>3
    <2> QED
        BY <1>6, <2>1, <2>2, <2>3 DEF Work, Disturb, TaskStart, TaskKeys, TaskClone, TaskConfigure,
           TaskRaise, TaskKilled, WorkerCrash
<1>7. ASSUME Administer(i) PROVE rows[i] = Gone
    <2>1. \E s \in Status : rows' = WithStatus(i, s)
        BY <1>7 DEF Administer, Fix, Override, WithStatus, Status
    <2> QED
        BY <1>0, <2>1
<1> QED
    BY <1>1, <1>2, <1>3, <1>4, <1>5, <1>6, <1>7, ForeignOrOwn DEF Foreign, Own

LEMMA LiveStep ==
    ASSUME TypeOK, Next, NEW i \in Ids, Live(i)
    PROVE  \/ Live(i)' /\ (rows'[i].pid = rows[i].pid \/ TaskSave(i))
           \/ \E p \in Threads : DeleteCommit(p) /\ req[p].id = i
<1>0. TypeOK' /\ rows[i] # Unused /\ rows[i] # Gone
    BY NextTyped DEF Live, Status, Unused, Gone
<1>1. rows'[i] # Unused
    BY <1>0, RowSteps, InsertRow, SaveRow DEF RowStep, RowKept
<1>2. CASE rows'[i] = Gone
    BY <1>0, <1>2, GoneStep
<1>3. CASE rows'[i] # Gone
    <2>1. Live(i)'
        BY <1>0, <1>1, <1>3 DEF TypeOK, Row, Live
    <2>2. \A p \in Threads : ~ProvisionInsert(p, i)
        BY <1>0 DEF ProvisionInsert
    <2> QED
        BY <2>1, <2>2, RowSteps DEF RowStep, RowKept
<1> QED
    BY <1>2, <1>3

\* A step on the row of a request that works alone is the request's own, or
\* an administrator's.
LEMMA AtWorkAlone ==
    ASSUME VmsInv, Next, NEW i \in Ids, NEW p \in Threads, Serving(p, i)', Sole(i),
           \A q \in Threads : KnownRow(q), "overlap" \notin marks'[i]
    PROVE  \/ Foreign(i) /\ req'[p] = req[p]
           \/ ProvisionInsert(p, i) \/ BeginStep(p, i)
           \/ OpStep(p) /\ req[p].id = i
           \/ Administer(i) /\ req'[p] = req[p]
<1> TypeOK
    BY DEF VmsInv
<1>1. CASE Foreign(i)
    BY <1>1 DEF Foreign
<1>2. ASSUME NEW q \in Threads, ProvisionInsert(q, i) \/ BeginStep(q, i)
      PROVE  q = p
    <2>1. CASE Serving(p, i)
        <3>1. CASE ProvisionInsert(q, i)
            <4>1. rows[i] = Unused /\ (req[p].pc \in OpPc \cup {"send"}) /\ req[p].id = i
                BY <2>1, <3>1, InsertRow, RequestShape DEF Serving, TypeOK
            <4> QED
                BY <4>1 DEF KnownRow
        <3>2. CASE BeginStep(q, i)
            <4>1. IF Busy(i) THEN Mark({i}, "overlap") ELSE UNCHANGED marks
                BY <3>2 DEF BeginStep, BeginStart, BeginStop, BeginRestart, BeginDelete, Begin
            <4>2. Busy(i)
                BY <2>1 DEF Busy
            <4> QED
                BY <4>1, <4>2, Marked
        <3> QED
            BY <1>2, <3>1, <3>2
    <2>2. CASE req'[p] # req[p]
        BY <1>2, <2>2 DEF ProvisionInsert, BeginStep, BeginStart, BeginStop, BeginRestart,
           BeginDelete, Begin, TypeOK
    <2> QED
        BY <2>1, <2>2 DEF Serving
<1>3. ASSUME NEW q \in Threads, q # p, req'[p] = req[p], Serving(q, i)
      PROVE  FALSE
    BY <1>3, MarksGrow DEF Sole, Serving
<1>4. ASSUME NEW q \in Threads, req[q].id = i, SendStep(q)
      PROVE  FALSE
    <2>1. req[q].pc = "send" /\ req' = [req EXCEPT ![q] = Idle]
        BY <1>4 DEF SendStep, ProvisionSend, ProvisionSendFails
    <2>2. Serving(q, i) /\ req'[q] = Idle /\ (q # p => req'[p] = req[p])
        BY <1>4, <2>1 DEF Serving, TypeOK
    <2> QED
        BY <1>3, <2>2 DEF Serving, Idle
<1>5. ASSUME NEW q \in Threads, req[q].id = i, OpStep(q)
      PROVE  q = p
    BY <1>3, <1>5, OpSteps DEF Serving, OpPc
<1>6. ASSUME NEW q \in Threads, Serving(q, i), ApiCrash(q)
      PROVE  FALSE
    <2>1. req' = [req EXCEPT ![q] = Idle]
        BY <1>6 DEF ApiCrash
    <2>2. req'[q] = Idle /\ (q # p => req'[p] = req[p])
        BY <2>1 DEF TypeOK
    <2> QED
        BY <1>3, <1>6, <2>2 DEF Serving, Idle
<1>7. ~Work(i) /\ ~Disturb(i)
    <2>1. Work(i) \/ Disturb(i) => TaskDue(i) /\ req' = req
        BY DEF Work, Disturb, TaskStart, TaskSave, TaskKeys, TaskClone, TaskConfigure, TaskFinish,
           TaskFail, TaskRaise, TaskKilled, WorkerCrash, TaskDue, Started
    <2> QED
        BY <2>1, MarksGrow DEF Sole, Serving
<1>8. Administer(i) => req' = req
    BY DEF Administer, Fix, Override
<1> QED
    BY <1>1, <1>2, <1>4, <1>5, <1>6, <1>7, <1>8, ForeignOrOwn DEF Own

\* A call that leaves a VM stopped, and one that destroys it.
LEMMA StoppedBy ==
    ASSUME TypeOK, NEW n, vms' = Power(n, FALSE)
    PROVE  ~Running(n)'
<1>1. CASE Exists(n)
    <2>1. vms[n] \in [for : Ids, on : BOOLEAN] /\ vms'[n] = [vms[n] EXCEPT !.on = FALSE]
        BY <1>1 DEF Exists, Power, TypeOK, Vm
    <2> QED
        BY <2>1 DEF Running
<1>2. CASE ~Exists(n)
    BY <1>2 DEF Power, Running, Exists
<1> QED
    BY <1>1, <1>2

LEMMA DestroyedBy ==
    ASSUME VmsInv, NEW i \in Ids, Live(i), "redelivered" \notin marks[i], NEW n, rows[i].pid = n,
           ~Running(n), vms' = IF Exists(n) /\ ~Running(n) THEN [vms EXCEPT ![n] = NoVm] ELSE vms
    PROVE  \A m \in Pids : vms'[m].for # i
<1> TypeOK
    BY DEF VmsInv
<1> SUFFICES ASSUME NEW m \in Pids, vms'[m].for = i PROVE FALSE
    OBVIOUS
<1>1. None # i
    BY VmsAssumption
<1>2. CASE m # n
    <2>1. vms[m].for = i
        BY <1>2 DEF TypeOK
    <2> QED
        BY <1>2, <2>1 DEF VmsInv, RowKeepsItsVm
<1>3. CASE m = n /\ Exists(n)
    BY <1>1, <1>3 DEF TypeOK, NoVm
<1>4. CASE m = n /\ ~Exists(n)
    BY <1>1, <1>4 DEF Exists, NoVm
<1> QED
    BY <1>2, <1>3, <1>4

LEMMA OpRowNext ==
    ASSUME RowInv, Next, NEW p \in Threads, NEW i \in Ids
    PROVE  OpRow(p, i)'
<1> SUFFICES ASSUME Plain(i)', NEW r, r = req'[p], r.pc \in OpPc, r.id = i
             PROVE  /\ Live(i)' /\ rows'[i].pid = r.pid
                    /\ r.pc = "destroy" => ~Running(r.pid)'
                    /\ r.pc = "remove" => \A n \in Pids : vms'[n].for # i
    BY DEF OpRow, Running, Exists
<1> VmsInv /\ TypeOK
    BY DEF RowInv, VmsInv
<1>1. Plain(i) /\ Serving(p, i)'
    BY MarksGrow DEF Plain, Serving, OpPc
<1>2. /\ "overlap" \notin marks'[i] /\ "call" \notin marks'[i]
      /\ "entangled" \notin marks[i] /\ "redelivered" \notin marks[i]
    BY <1>1 DEF Plain
<1>3. Sole(i) /\ Apart(i) /\ OpRow(p, i) /\ \A q \in Threads : KnownRow(q)
    BY DEF RowInv
<1>4. CASE Foreign(i) /\ req'[p] = req[p]
    <2>1. /\ Live(i) /\ rows[i].pid = req[p].pid /\ rows'[i] = rows[i]
          /\ req[p].pc = "destroy" => ~Running(req[p].pid)
          /\ req[p].pc = "remove" => \A n \in Pids : vms[n].for # i
        BY <1>1, <1>3, <1>4 DEF OpRow, Foreign
    <2>2. ASSUME req[p].pc = "remove", NEW n \in Pids, vms'[n].for = i PROVE FALSE
        BY <1>2, <1>3, <1>4, <2>1, <2>2, Untouched
    <2>3. CASE req[p].pid \in Pids
        <3>1. Holds(i, req[p].pid)
            BY <2>1 DEF Holds
        <3>2. vms'[r.pid] = vms[r.pid]
            BY <1>2, <1>3, <1>4, <2>3, <3>1, Untouched
        <3> QED
            BY <1>4, <2>1, <2>2, <3>2 DEF Live, Running, Exists
    <2>4. CASE req[p].pid \notin Pids
        BY <1>4, <2>1, <2>2, <2>4 DEF Live, Running, Exists
    <2> QED
        BY <2>3, <2>4
<1>5. CASE BeginStep(p, i)
    <2>1. /\ Live(i) /\ rows' = rows
          /\ req'[p].pid = rows[i].pid /\ req'[p].pc \in {"start", "stop", "restart", "delete"}
        BY <1>5 DEF BeginStep, BeginStart, BeginStop, BeginRestart, BeginDelete, Begin, Live,
           Status, TypeOK
    <2> QED
        BY <2>1 DEF Live
<1>6. CASE OpStep(p) /\ req[p].id = i
    <2>1. req[p].pc \in OpPc /\ req'[p].pid = req[p].pid
        BY <1>6, OpSteps DEF OpPc, Idle
    <2>2. /\ Live(i) /\ rows[i].pid = req[p].pid
          /\ req[p].pc = "destroy" => ~Running(req[p].pid)
        BY <1>1, <1>3, <1>6, <2>1 DEF OpRow
    <2>3. ~StartCommit(p) /\ ~StopCommit(p) /\ ~DeleteCommit(p)
        BY DEF StartCommit, StopCommit, DeleteCommit, Commit, TypeOK, Idle, OpPc
    <2>4. rows' = rows
        BY <1>6, <2>3 DEF OpStep, StartCall, StopCall, RestartStop, RestartStart, DeleteStop,
           DeleteDestroy, Call
    <2>c. ASSUME NEW pc \in OpPc \cup {"idle"}, NEW after, Call(p, pc, after)
          PROVE  req'[p].pc = pc /\ vms' = after
        BY <1>2, <1>6, <2>1, <2>c, CallRequest
    <2>5. CASE DeleteStop(p)
        <3>1. Call(p, "destroy", Power(req[p].pid, FALSE)) /\ "destroy" \in OpPc
            BY <2>5 DEF DeleteStop, OpPc
        <3>2. req'[p].pc = "destroy" /\ vms' = Power(req[p].pid, FALSE)
            BY <2>c, <3>1
        <3>3. ~Running(r.pid)'
            BY <2>1, <3>2, StoppedBy
        <3> QED
            BY <2>1, <2>2, <2>4, <3>2, <3>3 DEF Live
    <2>6. CASE DeleteDestroy(p)
        <3> DEFINE after == IF Exists(req[p].pid) /\ ~Running(req[p].pid)
                            THEN [vms EXCEPT ![req[p].pid] = NoVm] ELSE vms
        <3>1. Call(p, "remove", after) /\ req[p].pc = "destroy"
            BY <2>6 DEF DeleteDestroy
        <3> HIDE DEF after
        <3>2. req'[p].pc = "remove" /\ vms' = after
            BY <1>2, <1>6, <2>1, <3>1, CallRequest DEF OpPc
        <3>3. \A m \in Pids : vms'[m].for # i
            BY <1>2, <2>2, <3>1, <3>2, DestroyedBy DEF after
        <3> QED
            BY <2>1, <2>2, <2>4, <3>2, <3>3 DEF Live
    <2>7. CASE StartCall(p) \/ StopCall(p) \/ RestartStop(p) \/ RestartStart(p)
        <3>1. PICK pc \in {"started", "stopped", "restarting", "idle"} : \E after : Call(p, pc, after)
            BY <2>7 DEF StartCall, StopCall, RestartStop, RestartStart
        <3>2. req'[p].pc \notin {"destroy", "remove"}
            BY <2>c, <3>1 DEF OpPc
        <3> QED
            BY <2>1, <2>2, <2>4, <3>2 DEF Live
    <2> QED
        BY <1>6, <2>3, <2>5, <2>6, <2>7 DEF OpStep
<1>7. CASE Administer(i) /\ req'[p] = req[p]
    <2>1. vms' = vms
        BY <1>7 DEF Administer, Fix, Override
    <2>2. /\ Live(i) /\ rows[i].pid = req[p].pid
          /\ req[p].pc = "destroy" => ~Running(req[p].pid)
          /\ req[p].pc = "remove" => \A n \in Pids : vms[n].for # i
        BY <1>1, <1>3, <1>7 DEF OpRow
    <2>3. ~TaskSave(i) /\ \A q \in Threads : ~DeleteCommit(q) \/ req[q].id # i
        <3>1. task' = task
            BY <1>7 DEF Administer, Fix, Override
        <3>2. ASSUME NEW q \in Threads, DeleteCommit(q), req[q].id = i PROVE FALSE
            <4>1. rows'[i].status = "gone"
                BY <3>2 DEF DeleteCommit, Commit, TypeOK, Gone
            <4>2. Live(i)'
                <5>1. \E s \in Status : rows' = [rows EXCEPT ![i].status = s]
                    BY <1>7 DEF Administer, Fix, Override, Status
                <5> QED
                    BY <2>2, <5>1, LiveShape DEF Live, TypeOK
            <4> QED
                BY <4>1, <4>2 DEF Live, Status
        <3>3. ~TaskSave(i)
            <4>1. TaskSave(i) => task'[i].pc # task[i].pc
                BY <2>2 DEF TaskSave, Proceed, TypeOK, Task
            <4> QED
                BY <3>1, <4>1
        <3> QED
            BY <3>2, <3>3
    <2>4. Live(i)' /\ rows'[i].pid = rows[i].pid
        BY <2>2, <2>3, LiveStep
    <2> QED
        BY <1>7, <2>1, <2>2, <2>4 DEF Running, Exists
<1>8. ~ProvisionInsert(p, i)
    BY DEF ProvisionInsert, TypeOK, OpPc
<1> QED
    BY <1>1, <1>2, <1>3, <1>4, <1>5, <1>6, <1>7, <1>8, AtWorkAlone

LEMMA GoneQuietNext ==
    ASSUME RowInv, Next, NEW i \in Ids
    PROVE  GoneQuiet(i)'
<1> SUFFICES ASSUME Plain(i)', rows'[i] = Gone
             PROVE  ~Busy(i)' /\ \A n \in Pids : vms'[n].for # i
    BY DEF GoneQuiet
<1> VmsInv /\ TypeOK
    BY DEF RowInv, VmsInv
<1>1. Plain(i)
    BY MarksGrow DEF Plain
<1>2. "overlap" \notin marks[i] /\ "entangled" \notin marks[i]
    BY <1>1 DEF Plain
<1>3. /\ Sole(i) /\ Apart(i) /\ GoneQuiet(i)
      /\ \A p \in Threads : KnownRow(p) /\ OpRow(p, i)
    BY DEF RowInv
<1>4. ASSUME NEW p \in Threads, DeleteCommit(p), req[p].id = i
      PROVE  ~Busy(i)' /\ \A n \in Pids : vms'[n].for # i
    <2>1. req[p].pc = "remove" /\ req'[p] = Idle /\ task' = task /\ vms' = vms
          /\ \A q \in Threads : q # p => req'[q] = req[q]
        BY <1>4 DEF DeleteCommit, Commit, TypeOK
    <2>2. Serving(p, i)
        BY <1>4, <2>1 DEF Serving
    <2>3. ~TaskDue(i)'
        BY <1>2, <1>3, <2>1, <2>2 DEF Sole, TaskDue
    <2>4. \A q \in Threads : ~Serving(q, i)'
        BY <1>2, <1>3, <2>1, <2>2 DEF Sole, Serving, Idle
    <2>5. \A n \in Pids : vms[n].for # i
        BY <1>1, <1>3, <1>4, <2>1 DEF OpRow, OpPc
    <2> QED
        BY <2>1, <2>3, <2>4, <2>5 DEF Busy
<1>5. CASE rows[i] = Gone
    <2>1. ~TaskDue(i) /\ (\A p \in Threads : ~Serving(p, i)) /\ \A n \in Pids : vms[n].for # i
        BY <1>1, <1>3, <1>5 DEF GoneQuiet, Busy
    <2>2. Foreign(i)
        <3>1. ASSUME NEW p \in Threads, ProvisionInsert(p, i) PROVE FALSE
            BY <1>5, <3>1, InsertRow DEF Gone, Unused
        <3>2. ASSUME NEW p \in Threads, BeginStep(p, i) PROVE FALSE
            BY <1>5, <3>2 DEF BeginStep, BeginStart, BeginStop, BeginRestart, BeginDelete, Live,
               Gone, Status
        <3>3. ASSUME NEW p \in Threads, req[p].id = i, SendStep(p) \/ OpStep(p) PROVE FALSE
            <4>1. SendStep(p) => req[p].pc = "send"
                BY DEF SendStep, ProvisionSend, ProvisionSendFails
            <4> QED
                BY <2>1, <3>3, <4>1, OpSteps DEF Serving, OpPc
        <3>4. Work(i) \/ Disturb(i) => TaskDue(i)
            BY DEF Work, Disturb, TaskStart, TaskSave, TaskKeys, TaskClone, TaskConfigure,
               TaskFinish, TaskFail, TaskRaise, TaskKilled, WorkerCrash, TaskDue, Started
        <3>5. Administer(i) => Live(i)
            BY DEF Administer, Fix, Override
        <3> QED
            BY <1>5, <2>1, <3>1, <3>2, <3>3, <3>4, <3>5, ForeignOrOwn DEF Own, Live, Gone, Status
    <2>3. \A n \in Pids : vms'[n].for # i
        BY <1>2, <1>3, <2>1, <2>2, Untouched
    <2>4. ~TaskDue(i)' /\ \A p \in Threads : ~Serving(p, i)'
        BY <2>1, <2>2 DEF Foreign, TaskDue, Serving
    <2> QED
        BY <2>3, <2>4 DEF Busy
<1> QED
    BY <1>4, <1>5, GoneStep

LEMMA RowInvInit == Init => RowInv
<1> SUFFICES ASSUME Init PROVE RowInv
    OBVIOUS
<1>2. \A n \in Pids : vms[n].for \notin Ids
    BY VmsAssumption DEF Init, NoVm
<1>3. VmsInv
    BY VmsInvInit
<1>4. \A p \in Threads : req[p].pc = "idle"
    BY DEF Init, Idle
<1>5. ASSUME NEW i \in Ids PROVE /\ rows[i] = Unused /\ task[i].pc = "none"
                                 /\ \A n \in Pids : ~Holds(i, n)
    <2>1. rows[i] = Unused /\ task[i].pc = "none"
        BY DEF Init
    <2>2. None \notin Pids
        BY VmsAssumption
    <2> QED
        BY <1>2, <1>4, <2>1, <2>2 DEF Holds, TaskHolds, ReqHolds, OpPc, Unused
<1>6. ASSUME NEW i \in Ids PROVE PidChosen(i) /\ Sole(i) /\ Apart(i) /\ GoneQuiet(i)
    BY <1>4, <1>5 DEF PidChosen, Started, Sole, Serving, TaskDue, Apart, GoneQuiet, Unused, Gone
<1>7. \A p \in Threads, i \in Ids : KnownRow(p) /\ OpRow(p, i)
    BY <1>4 DEF KnownRow, OpRow, OpPc
<1>8. \A p \in Threads : KnownRow(p)
    BY <1>4 DEF KnownRow, OpPc
<1> QED
    BY <1>3, <1>6, <1>7, <1>8 DEF RowInv

LEMMA RowInvNext == RowInv /\ [Next]_vars => RowInv'
<1>1. ASSUME RowInv, Next PROVE RowInv'
    <2>1. VmsInv'
        BY <1>1, VmsInvNext DEF RowInv
    <2>2. \A p \in Threads : KnownRow(p)'
        BY <1>1, KnownRowNext DEF RowInv
    <2>3. \A i \in Ids : PidChosen(i)' /\ Sole(i)' /\ Apart(i)' /\ GoneQuiet(i)'
        BY <1>1, PidChosenNext, SoleNext, ApartNext, GoneQuietNext DEF RowInv, VmsInv
    <2>4. \A p \in Threads, i \in Ids : OpRow(p, i)'
        BY <1>1, OpRowNext
    <2> QED
        BY <2>1, <2>2, <2>3, <2>4 DEF RowInv
<1>2. ASSUME RowInv, UNCHANGED vars PROVE RowInv'
    <2>1. VmsInv'
        BY <1>2, VmsInvNext DEF RowInv
    <2>2. \A p \in Threads : KnownRow(p)'
        BY <1>2 DEF vars, RowInv, KnownRow
    <2>3. ASSUME NEW i \in Ids PROVE PidChosen(i)' /\ Sole(i)' /\ Apart(i)' /\ GoneQuiet(i)'
        BY <1>2 DEF vars, RowInv, PidChosen, Sole, Apart, GoneQuiet, Holds, TaskHolds, ReqHolds,
           Plain, Busy, TaskDue, Serving
    <2>4. \A p \in Threads, i \in Ids : OpRow(p, i)'
        BY <1>2 DEF vars, RowInv, OpRow, Plain, Live, Running, Exists
    <2> QED
        BY <2>1, <2>2, <2>3, <2>4 DEF RowInv
<1> QED
    BY <1>1, <1>2

\* Whatever a deleted VM leaves on the hypervisor comes of a delete that ran
\* beside other work on the row, of an id that another row knew, of a second
\* delivery or of a failed call: a delete that does its work alone has
\* stopped and destroyed the one VM of the row before it takes the row away
\* (services/vm.py:92).
THEOREM DeletedRowLeavesNoVmCorrect == Spec => []DeletedRowLeavesNoVm
<1>1. RowInv => DeletedRowLeavesNoVm
    BY DEF RowInv, GoneQuiet, DeletedRowLeavesNoVm, Plain
<1> QED
    BY <1>1, RowInvInit, RowInvNext, PTL DEF Spec

-----------------------------------------------------------------------------
(* A status tells the power.  On a row that nothing has disturbed, the     *)
(* status and the VM's power part only between a call and its commit.      *)

Clean(i) == marks[i] = {}
HasOwn(i) == rows[i].pid \in Pids /\ vms[rows[i].pid].for = i

\* A row that is being made has no other status yet, and its task cannot
\* find its id taken.
SendRow(p, i) == Clean(i) /\ Serving(p, i) /\ req[p].pc = "send" => rows[i].status = "provisioning"
TaskRow(i) ==
    Clean(i) /\ TaskDue(i) =>
        /\ rows[i].status = "provisioning" /\ task[i].pc # "failing"
        /\ task[i].pc \in {"cloned", "up"} => HasOwn(i) /\ rows[i].pid = task[i].pid
        /\ task[i].pc = "cloned" => ~Running(rows[i].pid)
        /\ task[i].pc = "up" => (Running(rows[i].pid) <=> task[i].auto)
Unfailed(i) == Clean(i) => rows[i].status # "error"

\* A request that has not called yet has read a status that tells the power;
\* one that has called is about to write it.
Early == {"start", "stop", "restart", "delete"}
OpPower(p, i) ==
    Clean(i) /\ req[p].pc \in OpPc /\ req[p].id = i =>
        /\ req[p].pc \in {"start", "started"} => rows[i].status = "stopped"
        /\ req[p].pc \in {"stop", "stopped", "restart", "restarting"} => rows[i].status = "running"
        /\ req[p].pc \in {"started", "stopped", "restarting"} => HasOwn(i)
        /\ req[p].pc = "started" => Running(rows[i].pid)
        /\ req[p].pc \in {"stopped", "restarting"} => ~Running(rows[i].pid)
Told(i) ==
    rows[i].status \in {"running", "stopped"} =>
        HasOwn(i) /\ (rows[i].status = "running" <=> Running(rows[i].pid))
Tells(i) ==
    Clean(i) /\ (\A p \in Threads : Serving(p, i) => req[p].pc \in Early \cup {"send"}) => Told(i)

PowerInv ==
    /\ RowInv
    /\ \A i \in Ids : TaskRow(i) /\ Unfailed(i) /\ Tells(i)
    /\ \A p \in Threads, i \in Ids : SendRow(p, i) /\ OpPower(p, i)

\* Switching a VM that is there.
LEMMA Switched ==
    ASSUME TypeOK, NEW n, Exists(n), NEW on \in BOOLEAN, vms' = Power(n, on)
    PROVE  vms'[n].for = vms[n].for /\ (Running(n)' <=> on)
<1>1. vms[n] \in [for : Ids, on : BOOLEAN] /\ vms'[n] = [vms[n] EXCEPT !.on = on]
    BY DEF Exists, Power, TypeOK, Vm
<1>2. vms'[n].for = vms[n].for /\ vms'[n].for \in Ids /\ vms'[n].on = on
    BY <1>1
<1>3. vms'[n] # NoVm
    BY <1>2, VmsAssumption DEF NoVm
<1>4. Running(n)' <=> vms'[n].on
    BY <1>3 DEF Running, Exists
<1> QED
    BY <1>2, <1>4

LEMMA OwnExists ==
    ASSUME TypeOK, NEW i \in Ids, HasOwn(i)
    PROVE  Exists(rows[i].pid)
BY VmsAssumption DEF HasOwn, Exists, NoVm

\* A step that leaves the row and its VM alone.
LEMMA LeftAlone ==
    ASSUME TypeOK, NEW i \in Ids, rows'[i] = rows[i],
           rows[i].pid \in Pids => vms'[rows[i].pid] = vms[rows[i].pid]
    PROVE  /\ HasOwn(i)' <=> HasOwn(i)
           /\ Running(rows[i].pid)' <=> Running(rows[i].pid)
           /\ Told(i)' <=> Told(i)
<1>1. PICK n : n = rows[i].pid
    OBVIOUS
<1>2. rows'[i].pid = n /\ (n \in Pids => vms'[n] = vms[n])
    BY <1>1
<1>3. Running(n)' <=> Running(n)
    BY <1>2 DEF Running, Exists
<1>4. HasOwn(i)' <=> HasOwn(i)
    BY <1>1, <1>2 DEF HasOwn
<1> QED
    BY <1>1, <1>2, <1>3, <1>4 DEF Told, Running, Exists

LEMMA ForeignLeaves ==
    ASSUME VmsInv, Next, NEW i \in Ids, Foreign(i), Clean(i), Apart(i)
    PROVE  /\ rows'[i] = rows[i]
           /\ rows[i].pid \in Pids => vms'[rows[i].pid] = vms[rows[i].pid]
<1>1. "entangled" \notin marks[i]
    BY DEF Clean
<1>2. rows'[i] = rows[i]
    BY DEF Foreign
<1>3. ASSUME NEW n \in Pids, n = rows[i].pid PROVE vms'[n] = vms[n]
    BY <1>1, <1>3, Untouched DEF Holds
<1> QED
    BY <1>2, <1>3

\* What fails, is cut or is written over leaves its mark.
LEMMA CleanSteps ==
    ASSUME TypeOK, Next, NEW i \in Ids, Clean(i)'
    PROVE  /\ Clean(i)
           /\ ~Disturb(i) /\ ~Administer(i)
           /\ \A p \in Threads : Serving(p, i) => ~ApiCrash(p) /\ ~ProvisionSendFails(p)
           /\ \A p \in Threads : BeginStep(p, i) => ~Busy(i)
<1>0. marks'[i] = {}
    BY DEF Clean
<1>1. Clean(i)
    BY <1>0, MarksGrow DEF Clean
<1>2. ASSUME NEW S, NEW m, Mark(S, m), i \in S PROVE FALSE
    BY <1>0, <1>2, Marked
<1>3. ~Disturb(i)
    BY <1>2 DEF Disturb, TaskRaise, TaskKilled, WorkerCrash
<1>4. ~Administer(i)
    BY <1>2 DEF Administer, Fix, Override
<1>5. ASSUME NEW p \in Threads, Serving(p, i), ApiCrash(p) PROVE FALSE
    <2>1. req[p].pc # "insert" /\ req[p].id = i
        BY <1>5 DEF Serving
    <2>2. Mark({i}, "lost") \/ Mark({i}, "call")
        BY <1>5, <2>1, Zenon DEF ApiCrash
    <2> QED
        BY <1>2, <2>2
<1>6. ASSUME NEW p \in Threads, Serving(p, i), ProvisionSendFails(p) PROVE FALSE
    <2>1. Mark({i}, "raised")
        BY <1>6 DEF ProvisionSendFails, Serving
    <2> QED
        BY <1>2, <2>1
<1>7. ASSUME NEW p \in Threads, BeginStep(p, i), Busy(i) PROVE FALSE
    <2>1. Mark({i}, "overlap")
        BY <1>7 DEF BeginStep, BeginStart, BeginStop, BeginRestart, BeginDelete, Begin
    <2> QED
        BY <1>2, <2>1
<1> QED
    BY <1>1, <1>3, <1>4, <1>5, <1>6, <1>7

\* A request on a row that nothing has disturbed, before its step and after.
LEMMA CleanOp ==
    ASSUME PowerInv, Next, NEW i \in Ids, Clean(i)', NEW p \in Threads, OpStep(p), req[p].id = i
    PROVE  /\ Live(i) /\ rows[i].pid = req[p].pid /\ ~TaskDue(i)
           /\ \A q \in Threads : Serving(q, i) => q = p
           /\ req[p].pc \in Early => Told(i)
           /\ \A pc \in OpPc \cup {"idle"} : \A after :
                  Call(p, pc, after) => req'[p].pc = pc /\ vms' = after /\ rows' = rows
<1> TypeOK
    BY DEF PowerInv, RowInv, VmsInv
<1>1. Clean(i)
    BY CleanSteps
<1>2. req[p].pc \in OpPc /\ Serving(p, i)
    BY OpSteps DEF Serving, OpPc
<1>3. ~TaskDue(i) /\ \A q \in Threads : Serving(q, i) => q = p
    BY <1>1, <1>2 DEF PowerInv, RowInv, Sole, Clean
<1>4. Live(i) /\ rows[i].pid = req[p].pid
    BY <1>1, <1>2 DEF PowerInv, RowInv, OpRow, Plain, Clean
<1>5. req[p].pc \in Early => Told(i)
    BY <1>1, <1>3 DEF PowerInv, Tells
<1>6. ASSUME NEW pc \in OpPc \cup {"idle"}, NEW after, Call(p, pc, after)
      PROVE  req'[p].pc = pc /\ vms' = after /\ rows' = rows
    <2>1. /\ req'[p].pc = pc /\ rows' = rows
          /\ vms' = after \/ (vms' = vms /\ "call" \in marks'[req[p].id])
        BY <1>2, <1>6, CallRequest
    <2>2. "call" \notin marks'[req[p].id]
        BY DEF Clean
    <2> QED
        BY <2>1, <2>2
<1>7. \A pc \in OpPc \cup {"idle"} : \A after :
          Call(p, pc, after) => req'[p].pc = pc /\ vms' = after /\ rows' = rows
    BY <1>6
<1> QED
    BY <1>3, <1>4, <1>5, <1>7

LEMMA Written ==
    ASSUME TypeOK, NEW i \in Ids, NEW s \in Status, rows' = WithStatus(i, s)
    PROVE  /\ Live(i) => rows'[i].status = s /\ rows'[i].pid = rows[i].pid
           /\ ~Live(i) => rows'[i] = rows[i]
<1>1. CASE Live(i)
    <2>1. rows'[i] = [rows[i] EXCEPT !.status = s]
        BY <1>1 DEF WithStatus, TypeOK
    <2> QED
        BY <1>1, <2>1, LiveShape
<1>2. CASE ~Live(i)
    BY <1>2 DEF WithStatus
<1> QED
    BY <1>1, <1>2

LEMMA SavedRow ==
    ASSUME TypeOK, NEW i \in Ids, TaskSave(i)
    PROVE  rows'[i].status = rows[i].status
<1>1. CASE Live(i)
    <2>1. rows'[i] = [rows[i] EXCEPT !.pid = task[i].pid]
        BY <1>1 DEF TaskSave, TypeOK
    <2> QED
        BY <1>1, <2>1, LiveShape
<1>2. CASE ~Live(i)
    BY <1>2 DEF TaskSave
<1> QED
    BY <1>1, <1>2

LEMMA UnfailedNext ==
    ASSUME PowerInv, Next, NEW i \in Ids
    PROVE  Unfailed(i)'
<1> SUFFICES ASSUME Clean(i)' PROVE rows'[i].status # "error"
    BY DEF Unfailed
<1> TypeOK
    BY DEF PowerInv, RowInv, VmsInv
<1>1. Clean(i) /\ rows[i].status # "error"
    BY CleanSteps DEF PowerInv, Unfailed
<1>2. CASE rows'[i] = rows[i]
    BY <1>1, <1>2
<1>3. ASSUME NEW p \in Threads, ProvisionInsert(p, i) PROVE rows'[i].status # "error"
    BY <1>3 DEF ProvisionInsert, TypeOK
<1>4. ASSUME NEW p \in Threads, req[p].id = i, SendStep(p) PROVE rows' = rows
    <2>1. ProvisionSendFails(p) => Serving(p, i)
        BY <1>4 DEF ProvisionSendFails, Serving
    <2> QED
        BY <1>4, <2>1, CleanSteps DEF SendStep, ProvisionSend
<1>5. ASSUME NEW p \in Threads, req[p].id = i, OpStep(p) PROVE rows'[i].status # "error"
    <2>1. CASE StartCommit(p) \/ StopCommit(p)
        <3>1. PICK s \in {"running", "stopped"} : rows' = WithStatus(i, s)
            BY <1>5, <2>1 DEF StartCommit, StopCommit, Commit
        <3> QED
            BY <1>1, <3>1, Written DEF Status
    <2>2. CASE DeleteCommit(p)
        BY <1>5, <2>2 DEF DeleteCommit, Commit, TypeOK, Gone
    <2>3. CASE rows' = rows
        BY <1>2, <2>3
    <2> QED
        BY <1>5, <2>1, <2>2, <2>3 DEF OpStep, StartCall, StopCall, RestartStop, RestartStart,
           DeleteStop, DeleteDestroy, Call
<1>6. ASSUME Work(i) PROVE rows'[i].status # "error"
    <2>1. CASE TaskSave(i)
        BY <1>1, <2>1, SavedRow
    <2>2. CASE TaskFinish(i)
        <3>1. PICK s \in {"running", "stopped"} : rows' = WithStatus(i, s)
            BY <2>2 DEF TaskFinish
        <3> QED
            BY <1>1, <3>1, Written DEF Status
    <2>3. ~TaskFail(i)
        BY <1>1 DEF PowerInv, TaskRow, TaskDue, TaskFail
    <2>4. CASE rows' = rows
        BY <1>2, <2>4
    <2> QED
        BY <1>6, <2>1, <2>2, <2>3, <2>4 DEF Work, TaskStart, TaskKeys, TaskClone, TaskConfigure
<1>7. ASSUME NEW p \in Threads, BeginStep(p, i) PROVE rows' = rows
    BY <1>7 DEF BeginStep, BeginStart, BeginStop, BeginRestart, BeginDelete, Begin
<1> QED
    BY <1>2, <1>3, <1>4, <1>5, <1>6, <1>7, CleanSteps, ForeignOrOwn DEF Foreign, Own

\* Who works on a row that nothing has disturbed: one request, or the task.
LEMMA CleanOwn ==
    ASSUME PowerInv, Next, NEW i \in Ids, Clean(i)'
    PROVE  \/ Foreign(i)
           \/ \E p \in Threads : \/ ProvisionInsert(p, i)
                                 \/ BeginStep(p, i) /\ ~Busy(i)
                                 \/ req[p].id = i /\ \E auto \in BOOLEAN : ProvisionSend(p, auto)
                                 \/ req[p].id = i /\ OpStep(p)
           \/ Work(i) /\ \A p \in Threads : ~Serving(p, i)
<1> TypeOK
    BY DEF PowerInv, RowInv, VmsInv
<1>1. ASSUME NEW p \in Threads, req[p].id = i, SendStep(p)
      PROVE  \E auto \in BOOLEAN : ProvisionSend(p, auto)
    <2>1. ProvisionSendFails(p) => Serving(p, i)
        BY <1>1 DEF ProvisionSendFails, Serving
    <2> QED
        BY <1>1, <2>1, CleanSteps DEF SendStep
<1>2. ASSUME Work(i), NEW p \in Threads, Serving(p, i) PROVE FALSE
    <2>1. TaskDue(i)
        BY <1>2 DEF Work, TaskStart, TaskSave, TaskKeys, TaskClone, TaskConfigure, TaskFinish,
           TaskFail, TaskDue
    <2> QED
        BY <1>2, <2>1, CleanSteps DEF PowerInv, RowInv, Sole, Clean
<1> QED
    BY <1>1, <1>2, CleanSteps, ForeignOrOwn DEF Own

LEMMA SendRowNext ==
    ASSUME PowerInv, Next, NEW p \in Threads, NEW i \in Ids
    PROVE  SendRow(p, i)'
<1> SUFFICES ASSUME Clean(i)', Serving(p, i)', req'[p].pc = "send"
             PROVE  rows'[i].status = "provisioning"
    BY DEF SendRow
<1> TypeOK
    BY DEF PowerInv, RowInv, VmsInv
<1>1. CASE req'[p] = req[p]
    <2>1. Serving(p, i) /\ Clean(i) /\ rows[i].status = "provisioning"
        BY <1>1, CleanSteps DEF Serving, PowerInv, SendRow
    <2>2. \A q \in Threads : Serving(q, i) => q = p
        BY <2>1 DEF PowerInv, RowInv, Sole, Clean
    <2>3. ASSUME NEW q \in Threads, req[q].id = i, OpStep(q) PROVE FALSE
        BY <1>1, <2>2, <2>3, OpSteps DEF Serving, OpPc
    <2>4. ASSUME NEW q \in Threads, NEW auto \in BOOLEAN, ProvisionSend(q, auto), req[q].id = i
          PROVE  FALSE
        <3>1. q = p
            BY <2>2, <2>4 DEF Serving, ProvisionSend
        <3> QED
            BY <1>1, <2>4, <3>1 DEF ProvisionSend, TypeOK, Idle
    <2>5. \A q \in Threads : ProvisionInsert(q, i) => rows[i] = Unused
        BY DEF ProvisionInsert
    <2>6. rows'[i] = rows[i]
        BY <2>1, <2>3, <2>4, <2>5, CleanOwn DEF Foreign, Busy, Unused
    <2> QED
        BY <2>1, <2>6
<1>2. CASE req'[p] # req[p]
    <2>1. ProvisionInsert(p, i)
        BY <1>2, ServingCause DEF OpPc
    <2> QED
        BY <2>1 DEF ProvisionInsert, TypeOK
<1> QED
    BY <1>1, <1>2

\* The task's steps up to its clone leave the hypervisor alone; the clone is
\* made under an id that is free, and its power is what the request asked for.
LEMMA TaskRowWork ==
    ASSUME PowerInv, Next, NEW i \in Ids, Clean(i)', Work(i), TaskDue(i)'
    PROVE  /\ rows'[i].status = "provisioning" /\ task'[i].pc # "failing"
           /\ task'[i].pc \in {"cloned", "up"} => HasOwn(i)' /\ rows'[i].pid = task'[i].pid
           /\ task'[i].pc = "cloned" => ~Running(rows[i].pid)'
           /\ task'[i].pc = "up" => (Running(rows[i].pid)' <=> task'[i].auto)
<1> TypeOK
    BY DEF PowerInv, RowInv, VmsInv
<1>1. Clean(i) /\ TaskDue(i)
    BY CleanSteps DEF Work, TaskStart, TaskSave, TaskKeys, TaskClone, TaskConfigure, TaskFinish,
       TaskFail, TaskDue
<1>2. /\ rows[i].status = "provisioning" /\ task[i].pc # "failing"
      /\ task[i].pc = "cloned" => HasOwn(i) /\ rows[i].pid = task[i].pid /\ ~Running(rows[i].pid)
    BY <1>1 DEF PowerInv, TaskRow
<1>3. Live(i) /\ task[i] \in Task
    BY <1>2 DEF Live, Status, TypeOK
<1>4. ASSUME NEW pc, Proceed(i, pc) PROVE task'[i].pc = pc
    BY <1>3, <1>4 DEF Proceed, TypeOK, Task
<1>5. CASE TaskStart(i)
    <2>1. task'[i].pc = "chosen"
        BY <1>3, <1>5 DEF TaskStart, TypeOK, Task
    <2> QED
        BY <1>2, <1>5, <2>1 DEF TaskStart
<1>6. CASE TaskSave(i)
    <2>1. task'[i].pc = "saved"
        BY <1>4, <1>6 DEF TaskSave
    <2> QED
        BY <1>2, <1>6, <2>1, SavedRow
<1>7. CASE TaskKeys(i)
    <2>1. task'[i].pc = "keyed"
        BY <1>4, <1>7 DEF TaskKeys
    <2> QED
        BY <1>2, <1>7, <2>1 DEF TaskKeys
<1>8. CASE TaskClone(i)
    <2>1. PICK n : n = task[i].pid
        OBVIOUS
    <2>2. /\ n \in Pids /\ rows[i].pid = n
          /\ \A m \in Pids : vms[m].for # i
          /\ TaskHolds(i, n)
        BY <1>1, <1>3, <1>8, <2>1 DEF TaskClone, PowerInv, RowInv, PidChosen, Started, VmsInv, Saved,
           NotYetCloned, BeforeClone, Clean, TaskHolds
    <2>3. ~Exists(n)
        <3>1. ASSUME Exists(n) PROVE FALSE
            <4>1. vms[n].for \in Ids
                BY <3>1 DEF Exists, TypeOK, Vm
            <4> QED
                BY <1>1, <2>2, <4>1 DEF PowerInv, RowInv, Apart, Clean, Holds
        <3> QED
            BY <3>1
    <2>4. /\ vms' = [vms EXCEPT ![n] = [for |-> i, on |-> FALSE]] /\ rows' = rows
          /\ task' = [task EXCEPT ![i].pc = "cloned"]
        BY <1>8, <2>1, <2>3 DEF TaskClone
    <2>5. vms'[n] = [for |-> i, on |-> FALSE]
        BY <2>2, <2>4 DEF TypeOK
    <2>6. ~Running(n)'
        BY <2>5 DEF Running
    <2>7. vms'[n].for = i
        BY <2>5
    <2>8. task'[i].pc = "cloned" /\ task'[i].pid = n
        BY <1>3, <2>1, <2>4 DEF TypeOK, Task
    <2> QED
        BY <1>2, <2>2, <2>4, <2>6, <2>7, <2>8 DEF HasOwn
<1>9. CASE TaskConfigure(i)
    <2>1. PICK n : n = task[i].pid
        OBVIOUS
    <2>2. rows[i].pid = n /\ n \in Pids /\ vms[n].for = i /\ ~Running(n) /\ Exists(n)
        BY <1>2, <1>9, <2>1, OwnExists DEF TaskConfigure, HasOwn
    <2>3. task'[i] = [task[i] EXCEPT !.pc = "up"] /\ rows' = rows
        BY <1>9, <2>1, <2>2 DEF TaskConfigure, TypeOK
    <2>4. task'[i].pc = "up" /\ task'[i].pid = n /\ task'[i].auto = task[i].auto
        BY <1>3, <2>1, <2>3 DEF Task
    <2>5. vms'[n].for = i /\ (Running(n)' <=> task[i].auto)
        <3>1. CASE task[i].auto
            <4>1. vms' = Power(n, TRUE)
                BY <1>9, <2>1, <3>1 DEF TaskConfigure
            <4>2. vms'[n].for = i /\ (Running(n)' <=> TRUE)
                BY <2>2, <4>1, Switched
            <4> QED
                BY <3>1, <4>2
        <3>2. CASE ~task[i].auto
            <4>1. vms' = vms
                BY <1>9, <3>2 DEF TaskConfigure
            <4> QED
                BY <2>2, <3>2, <4>1 DEF Running, Exists
        <3> QED
            BY <3>1, <3>2
    <2>6. HasOwn(i)' /\ rows'[i].pid = n
        BY <2>2, <2>3, <2>5 DEF HasOwn
    <2> QED
        BY <1>2, <2>2, <2>3, <2>4, <2>5, <2>6
<1>10. ~TaskFinish(i) /\ ~TaskFail(i)
    BY DEF TaskFinish, TaskFail, TaskDue, TypeOK, Ended
<1> QED
    BY <1>5, <1>6, <1>7, <1>8, <1>9, <1>10 DEF Work

LEMMA TaskRowNext ==
    ASSUME PowerInv, Next, NEW i \in Ids
    PROVE  TaskRow(i)'
<1> SUFFICES ASSUME Clean(i)', TaskDue(i)'
             PROVE  TaskRow(i)'
    BY DEF TaskRow
<1> TypeOK
    BY DEF PowerInv, RowInv, VmsInv
<1>0. PICK n : n = rows[i].pid
    OBVIOUS
<1>1. Clean(i)
    BY CleanSteps
<1>2. CASE Foreign(i)
    <2>1. task'[i] = task[i] /\ rows'[i] = rows[i] /\ TaskDue(i)
        BY <1>2 DEF Foreign, TaskDue
    <2>2. /\ rows[i].status = "provisioning" /\ task[i].pc # "failing"
          /\ task[i].pc \in {"cloned", "up"} => HasOwn(i) /\ rows[i].pid = task[i].pid
          /\ task[i].pc = "cloned" => ~Running(n)
          /\ task[i].pc = "up" => (Running(n) <=> task[i].auto)
        BY <1>0, <1>1, <2>1 DEF PowerInv, TaskRow
    <2>3. (HasOwn(i)' <=> HasOwn(i)) /\ (Running(n)' <=> Running(n))
        <3>1. n \in Pids => vms'[n] = vms[n]
            BY <1>0, <1>1, <1>2, ForeignLeaves DEF PowerInv, RowInv
        <3>2. Running(n)' <=> Running(n)
            BY <3>1 DEF Running, Exists
        <3>3. HasOwn(i)' <=> HasOwn(i)
            BY <1>0, <2>1, <3>1 DEF HasOwn
        <3> QED
            BY <3>2, <3>3
    <2>4. Running(rows[i].pid)' <=> Running(n)'
        BY <1>0, <2>1
    <2> QED
        BY <1>0, <2>1, <2>2, <2>3, <2>4 DEF TaskRow
<1>3. CASE Work(i)
    BY <1>3, TaskRowWork DEF TaskRow
<1>4. ASSUME NEW p \in Threads, NEW auto \in BOOLEAN, ProvisionSend(p, auto), req[p].id = i
      PROVE  TaskRow(i)'
    <2>1. rows' = rows /\ task'[i].pc = "queued"
        BY <1>4 DEF ProvisionSend, TypeOK
    <2>2. rows[i].status = "provisioning"
        BY <1>1, <1>4 DEF ProvisionSend, PowerInv, SendRow, Serving
    <2> QED
        BY <2>1, <2>2 DEF TaskRow
<1>5. ASSUME NEW p \in Threads, task' = task, ProvisionInsert(p, i) \/ ~Busy(i)
      PROVE  FALSE
    <2>1. TaskDue(i)
        BY <1>5 DEF TaskDue
    <2> QED
        BY <1>5, <2>1 DEF Busy, ProvisionInsert, PowerInv, RowInv, VmsInv, FreshRow, TaskDue
<1>6. ASSUME NEW p \in Threads, OpStep(p), req[p].id = i
      PROVE  FALSE
    <2>1. task' = task /\ ~TaskDue(i)
        BY <1>6, OpSteps, CleanOp
    <2> QED
        BY <2>1 DEF TaskDue
<1>7. ASSUME NEW p \in Threads, ProvisionInsert(p, i) \/ BeginStep(p, i)
      PROVE  task' = task
    BY <1>7 DEF ProvisionInsert, BeginStep, BeginStart, BeginStop, BeginRestart, BeginDelete, Begin
<1> QED
    BY <1>2, <1>3, <1>4, <1>5, <1>6, <1>7, CleanOwn

LEMMA OpPowerNext ==
    ASSUME PowerInv, Next, NEW p \in Threads, NEW i \in Ids
    PROVE  OpPower(p, i)'
<1> SUFFICES ASSUME Clean(i)', req'[p].pc \in OpPc, req'[p].id = i
             PROVE  OpPower(p, i)'
    BY DEF OpPower
<1> TypeOK
    BY DEF PowerInv, RowInv, VmsInv
<1>0. PICK n : n = rows[i].pid
    OBVIOUS
<1>1. Clean(i) /\ Serving(p, i)'
    BY CleanSteps DEF Serving, OpPc
<1>2. CASE Foreign(i) /\ req'[p] = req[p]
    <2>1. rows'[i] = rows[i] /\ (rows[i].pid \in Pids => vms'[rows[i].pid] = vms[rows[i].pid])
        BY <1>1, <1>2, ForeignLeaves DEF PowerInv, RowInv
    <2>2. (HasOwn(i)' <=> HasOwn(i)) /\ (Running(rows[i].pid)' <=> Running(rows[i].pid))
        <3>1. n \in Pids => vms'[n] = vms[n]
            BY <1>0, <2>1
        <3>2. Running(n)' <=> Running(n)
            BY <3>1 DEF Running, Exists
        <3>3. HasOwn(i)' <=> HasOwn(i)
            BY <1>0, <2>1, <3>1 DEF HasOwn
        <3>4. Running(rows[i].pid)' <=> Running(n)'
            BY <1>0, <2>1
        <3> QED
            BY <1>0, <3>2, <3>3, <3>4
    <2>3. OpPower(p, i)
        BY DEF PowerInv
    <2> QED
        BY <1>1, <1>2, <2>1, <2>2, <2>3 DEF OpPower
<1>3. CASE BeginStep(p, i)
    <2>1. /\ rows' = rows /\ req'[p].pc \in Early
          /\ req'[p].pc = "start" => rows[i].status \in {"stopped", "error"}
          /\ req'[p].pc \in {"stop", "restart"} => rows[i].status = "running"
        BY <1>3 DEF BeginStep, BeginStart, BeginStop, BeginRestart, BeginDelete, Begin, TypeOK,
           Early
    <2>2. rows[i].status # "error"
        BY <1>1 DEF PowerInv, Unfailed
    <2> QED
        BY <2>1, <2>2 DEF OpPower, Early
<1>4. CASE OpStep(p) /\ req[p].id = i
    <2>1. /\ req[p].pc \in OpPc /\ n = req[p].pid
          /\ req[p].pc \in Early => Told(i)
          /\ OpPower(p, i)
        BY <1>0, <1>4, OpSteps, CleanOp DEF PowerInv
    <2>2. ASSUME NEW pc \in OpPc \cup {"idle"}, NEW after, Call(p, pc, after)
          PROVE  req'[p].pc = pc /\ vms' = after /\ rows' = rows
        BY <1>4, <2>2, CleanOp
    <2>3. ASSUME NEW pc \in {"started", "stopped", "restarting"}, NEW on \in BOOLEAN,
                 Call(p, pc, Power(n, on)), HasOwn(i)
          PROVE  req'[p].pc = pc /\ rows' = rows /\ HasOwn(i)' /\ (Running(rows[i].pid)' <=> on)
        <3>1. req'[p].pc = pc /\ rows' = rows /\ vms' = Power(n, on)
            BY <2>2, <2>3 DEF OpPc
        <3>2. vms'[n].for = vms[n].for /\ (Running(n)' <=> on)
            BY <1>0, <2>3, <3>1, OwnExists, Switched
        <3>3. HasOwn(i)'
            BY <1>0, <2>3, <3>1, <3>2 DEF HasOwn
        <3>4. Running(rows[i].pid)' <=> Running(n)'
            BY <1>0, <3>1
        <3> QED
            BY <3>1, <3>2, <3>3, <3>4
    <2>4. CASE StartCall(p)
        <3>1. req[p].pc = "start" /\ Call(p, "started", Power(n, TRUE))
            BY <2>1, <2>4 DEF StartCall
        <3>2. rows[i].status = "stopped" /\ HasOwn(i)
            BY <1>1, <1>4, <2>1, <3>1 DEF OpPower, Told, Early
        <3>3. req'[p].pc = "started" /\ rows' = rows /\ HasOwn(i)' /\ (Running(rows[i].pid)' <=> TRUE)
            BY <2>3, <3>1, <3>2
        <3> QED
            BY <3>2, <3>3 DEF OpPower
    <2>5. ASSUME NEW pc \in {"stopped", "restarting"}, req[p].pc \in {"stop", "restart"},
                 Call(p, pc, Power(n, FALSE))
          PROVE  OpPower(p, i)'
        <3>1. rows[i].status = "running" /\ HasOwn(i)
            BY <1>1, <1>4, <2>1, <2>5 DEF OpPower, Told, Early
        <3>2. req'[p].pc = pc /\ rows' = rows /\ HasOwn(i)' /\ (Running(rows[i].pid)' <=> FALSE)
            BY <2>3, <2>5, <3>1
        <3> QED
            BY <3>1, <3>2 DEF OpPower
    <2>6. CASE StopCall(p) \/ RestartStop(p)
        BY <2>1, <2>5, <2>6 DEF StopCall, RestartStop
    <2>7. CASE DeleteStop(p) \/ DeleteDestroy(p)
        <3>1. req'[p].pc \in {"destroy", "remove"}
            BY <2>2, <2>7 DEF DeleteStop, DeleteDestroy, OpPc
        <3> QED
            BY <3>1 DEF OpPower
    <2>8. ~RestartStart(p)
        <3>1. ASSUME NEW after, Call(p, "idle", after) PROVE FALSE
            <4>1. req'[p].pc = "idle"
                BY <2>2, <3>1
            <4> QED
                BY <4>1 DEF OpPc
        <3> QED
            BY <3>1 DEF RestartStart
    <2>9. ~StartCommit(p) /\ ~StopCommit(p) /\ ~DeleteCommit(p)
        BY DEF StartCommit, StopCommit, DeleteCommit, Commit, TypeOK, Idle, OpPc
    <2> QED
        BY <1>4, <2>4, <2>6, <2>7, <2>8, <2>9 DEF OpStep
<1>5. ~ProvisionInsert(p, i)
    BY DEF ProvisionInsert, TypeOK, OpPc
<1>6. ~Administer(i)
    BY CleanSteps
<1>7. "overlap" \notin marks'[i]
    BY DEF Clean
<1> QED
    BY <1>1, <1>2, <1>3, <1>4, <1>5, <1>6, <1>7, AtWorkAlone DEF PowerInv, RowInv

LEMMA TellsNext ==
    ASSUME PowerInv, Next, NEW i \in Ids
    PROVE  Tells(i)'
<1> SUFFICES ASSUME Clean(i)', \A p \in Threads : Serving(p, i)' => req'[p].pc \in Early \cup {"send"}
             PROVE  Told(i)'
    BY DEF Tells
<1> TypeOK
    BY DEF PowerInv, RowInv, VmsInv
<1>0. PICK n : n = rows[i].pid
    OBVIOUS
<1>1. Clean(i)
    BY CleanSteps
<1>2. (\A p \in Threads : Serving(p, i) => req[p].pc \in Early \cup {"send"}) => Told(i)
    BY <1>1 DEF PowerInv, Tells
<1>s. rows' = rows /\ vms' = vms => (Told(i)' <=> Told(i))
    BY DEF Told, HasOwn, Running, Exists
<1>w. ASSUME rows'[i].pid = n, HasOwn(i), vms' = vms,
             rows'[i].status = "running" <=> Running(n)
      PROVE  Told(i)'
    <2>1. Running(rows[i].pid)' <=> Running(n)
        BY <1>w DEF Running, Exists
    <2>2. HasOwn(i)'
        BY <1>0, <1>w DEF HasOwn
    <2> QED
        BY <1>w, <2>1, <2>2 DEF Told
<1>3. CASE Foreign(i)
    <2>1. \A p \in Threads : Serving(p, i) => req[p].pc \in Early \cup {"send"}
        BY <1>3 DEF Foreign, Serving
    <2>2. rows'[i] = rows[i] /\ (rows[i].pid \in Pids => vms'[rows[i].pid] = vms[rows[i].pid])
        BY <1>1, <1>3, ForeignLeaves DEF PowerInv, RowInv
    <2> QED
        BY <1>2, <2>1, <2>2, LeftAlone
<1>4. ASSUME NEW p \in Threads, ProvisionInsert(p, i) PROVE Told(i)'
    <2>1. rows'[i].status = "provisioning"
        BY <1>4 DEF ProvisionInsert, TypeOK
    <2> QED
        BY <2>1 DEF Told
<1>5. ASSUME NEW p \in Threads, BeginStep(p, i), ~Busy(i) PROVE Told(i)'
    <2>1. rows' = rows /\ vms' = vms
        BY <1>5 DEF BeginStep, BeginStart, BeginStop, BeginRestart, BeginDelete, Begin
    <2> QED
        BY <1>2, <1>5, <1>s, <2>1 DEF Busy
<1>6. ASSUME NEW p \in Threads, NEW auto \in BOOLEAN, ProvisionSend(p, auto), req[p].id = i
      PROVE  Told(i)'
    <2>1. rows' = rows /\ vms' = vms /\ Serving(p, i) /\ req[p].pc = "send"
        BY <1>6 DEF ProvisionSend, Serving
    <2>2. \A q \in Threads : Serving(q, i) => q = p
        BY <1>1, <2>1 DEF PowerInv, RowInv, Sole, Clean
    <2> QED
        BY <1>2, <1>s, <2>1, <2>2
<1>7. ASSUME NEW p \in Threads, OpStep(p), req[p].id = i PROVE Told(i)'
    <2>1. /\ Live(i) /\ n = req[p].pid
          /\ OpPower(p, i) /\ req[p].pc \in OpPc
        BY <1>0, <1>7, OpSteps, CleanOp DEF PowerInv
    <2>2. ASSUME NEW pc \in OpPc \cup {"idle"}, NEW after, Call(p, pc, after)
          PROVE  req'[p].pc = pc /\ vms' = after /\ rows' = rows
        BY <1>7, <2>2, CleanOp
    <2>3. ASSUME NEW pc \in OpPc \ Early, NEW after, Call(p, pc, after)
          PROVE  FALSE
        <3>1. req'[p].pc = pc
            BY <2>2, <2>3
        <3>2. Serving(p, i)'
            BY <1>7, <2>3, <3>1, OpSteps DEF Serving, OpPc, Idle
        <3> QED
            BY <2>3, <3>1, <3>2 DEF OpPc
    <2>4. ~StartCall(p) /\ ~StopCall(p) /\ ~RestartStop(p) /\ ~DeleteStop(p) /\ ~DeleteDestroy(p)
        BY <2>3 DEF StartCall, StopCall, RestartStop, DeleteStop, DeleteDestroy, OpPc, Early
    <2>5. CASE RestartStart(p)
        <3>1. req[p].pc = "restarting" /\ Call(p, "idle", Power(n, TRUE))
            BY <2>1, <2>5 DEF RestartStart
        <3>2. rows[i].status = "running" /\ HasOwn(i)
            BY <1>1, <1>7, <2>1, <3>1 DEF OpPower
        <3>3. vms' = Power(n, TRUE) /\ rows' = rows
            BY <2>2, <3>1
        <3>4. vms'[n].for = vms[n].for /\ (Running(n)' <=> TRUE)
            BY <1>0, <3>2, <3>3, OwnExists, Switched
        <3>5. HasOwn(i)' /\ (Running(rows[i].pid)' <=> Running(n)')
            BY <1>0, <3>2, <3>3, <3>4 DEF HasOwn
        <3> QED
            BY <3>2, <3>3, <3>4, <3>5 DEF Told
    <2>6. CASE StartCommit(p)
        <3>1. req[p].pc = "started" /\ rows' = WithStatus(i, "running") /\ vms' = vms
            BY <1>7, <2>6 DEF StartCommit, Commit
        <3>2. HasOwn(i) /\ Running(n)
            BY <1>0, <1>1, <1>7, <2>1, <3>1 DEF OpPower
        <3>3. rows'[i].status = "running" /\ rows'[i].pid = n
            BY <1>0, <2>1, <3>1, Written DEF Status
        <3> QED
            BY <1>w, <3>1, <3>2, <3>3
    <2>7. CASE StopCommit(p)
        <3>1. req[p].pc = "stopped" /\ rows' = WithStatus(i, "stopped") /\ vms' = vms
            BY <1>7, <2>7 DEF StopCommit, Commit
        <3>2. HasOwn(i) /\ ~Running(n)
            BY <1>0, <1>1, <1>7, <2>1, <3>1 DEF OpPower
        <3>3. rows'[i].status = "stopped" /\ rows'[i].pid = n
            BY <1>0, <2>1, <3>1, Written DEF Status
        <3> QED
            BY <1>w, <3>1, <3>2, <3>3
    <2>8. CASE DeleteCommit(p)
        <3>1. rows'[i].status = "gone"
            BY <1>7, <2>8 DEF DeleteCommit, Commit, TypeOK, Gone
        <3> QED
            BY <3>1 DEF Told
    <2> QED
        BY <1>7, <2>4, <2>5, <2>6, <2>7, <2>8 DEF OpStep
<1>8. CASE Work(i)
    <2>1. CASE TaskDue(i)'
        <3>1. rows'[i].status = "provisioning"
            BY <1>8, <2>1, TaskRowWork
        <3> QED
            BY <3>1 DEF Told
    <2>2. CASE ~TaskDue(i)'
        <3>1. TaskDue(i)
            BY <1>8 DEF Work, TaskStart, TaskSave, TaskKeys, TaskClone, TaskConfigure, TaskFinish,
               TaskFail, TaskDue
        <3>2. /\ rows[i].status = "provisioning" /\ task[i].pc # "failing" /\ Live(i)
              /\ task[i].pc = "up" => HasOwn(i) /\ (Running(n) <=> task[i].auto)
            BY <1>0, <1>1, <3>1 DEF PowerInv, TaskRow, Live, Status
        <3>3. CASE TaskFinish(i)
            <4>1. /\ task[i].pc = "up" /\ vms' = vms
                  /\ rows' = WithStatus(i, IF task[i].auto THEN "running" ELSE "stopped")
                BY <3>3 DEF TaskFinish
            <4>2. CASE task[i].auto
                <5>1. rows'[i].status = "running" /\ rows'[i].pid = n
                    BY <1>0, <3>2, <4>1, <4>2, Written DEF Status
                <5> QED
                    BY <1>w, <3>2, <4>1, <4>2, <5>1
            <4>3. CASE ~task[i].auto
                <5>1. rows'[i].status = "stopped" /\ rows'[i].pid = n
                    BY <1>0, <3>2, <4>1, <4>3, Written DEF Status
                <5> QED
                    BY <1>w, <3>2, <4>1, <4>3, <5>1
            <4> QED
                BY <4>2, <4>3
        <3>4. CASE rows'[i].status = rows[i].status
            BY <3>2, <3>4 DEF Told
        <3>5. ~TaskFail(i)
            BY <3>2 DEF TaskFail
        <3> QED
            BY <1>8, <3>3, <3>4, <3>5, SavedRow DEF Work, TaskStart, TaskKeys, TaskClone,
               TaskConfigure
    <2> QED
        BY <2>1, <2>2
<1> QED
    BY <1>3, <1>4, <1>5, <1>6, <1>7, <1>8, CleanOwn

\* When nothing has met or failed on a row and no one is at work on it, its
\* status tells its VM's power: each request and the task make their last call
\* before they write the status, and a request reads the status that its call
\* changes (services/vm.py:132-240, tasks/vm.py:248-295).
THEOREM StatusTellsPowerCorrect == Spec => []StatusTellsPower
<1>1. Init => PowerInv
    <2> SUFFICES ASSUME Init PROVE PowerInv
        OBVIOUS
    <2>1. \A p \in Threads : req[p].pc = "idle"
        BY DEF Init, Idle
    <2>2. \A i \in Ids : rows[i].status = "unused" /\ task[i].pc = "none"
        BY DEF Init, Unused
    <2> QED
        BY <2>1, <2>2, RowInvInit DEF PowerInv, TaskRow, TaskDue, Unfailed, Tells, Told, SendRow,
           OpPower, OpPc
<1>2. PowerInv /\ [Next]_vars => PowerInv'
    <2>1. ASSUME PowerInv, Next PROVE PowerInv'
        BY <2>1, RowInvNext, TaskRowNext, UnfailedNext, TellsNext, SendRowNext, OpPowerNext
        DEF PowerInv
    <2>2. ASSUME PowerInv, UNCHANGED vars PROVE PowerInv'
        <3>1. RowInv'
            BY <2>2, RowInvNext DEF PowerInv
        <3>2. ASSUME NEW i \in Ids PROVE TaskRow(i)' /\ Unfailed(i)' /\ Tells(i)'
            BY <2>2 DEF vars, PowerInv, TaskRow, TaskDue, Unfailed, Tells, Told, Clean, HasOwn,
               Running, Exists, Serving
        <3>3. ASSUME NEW p \in Threads, NEW i \in Ids PROVE SendRow(p, i)' /\ OpPower(p, i)'
            BY <2>2 DEF vars, PowerInv, SendRow, OpPower, Clean, HasOwn, Running, Exists, Serving
        <3> QED
            BY <3>1, <3>2, <3>3 DEF PowerInv
    <2> QED
        BY <2>1, <2>2
<1>3. PowerInv => StatusTellsPower
    <2> SUFFICES ASSUME PowerInv, NEW i \in Ids, marks[i] = {}, ~Busy(i)
                 PROVE  /\ rows[i].status = "running" =>
                               Running(rows[i].pid) /\ vms[rows[i].pid].for = i
                        /\ rows[i].status = "stopped" =>
                               /\ Exists(rows[i].pid) /\ ~Running(rows[i].pid)
                               /\ vms[rows[i].pid].for = i
        BY DEF StatusTellsPower
    <2>1. Told(i)
        BY DEF PowerInv, Tells, Clean, Busy
    <2>2. HasOwn(i) => Exists(rows[i].pid)
        BY OwnExists DEF PowerInv, RowInv, VmsInv
    <2> QED
        BY <2>1, <2>2 DEF Told, HasOwn
<1> QED
    BY <1>1, <1>2, <1>3, PTL DEF Spec
=============================================================================
