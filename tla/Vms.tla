--------------------------------- MODULE Vms ---------------------------------
(***************************************************************************)
(* Tenant VMs: the requests of api/vm.py that create, start, stop, restart *)
(* and delete one (services/vm.py), the VM quota (services/quota.py), the  *)
(* task that clones it (workers/tasks/vm.py: provision_vm_task) and the    *)
(* administrator's status override and fix (api/admin.py,                  *)
(* services/reconciler.py).                                                *)
(*                                                                         *)
(* A request or a task is a sequence of steps, one for each commit and     *)
(* each hypervisor call, and any other step may come in between: no row is *)
(* locked.  The hypervisor's calls that change a VM's power or destroy it  *)
(* report a failure to the log only, so that the caller goes on as if they *)
(* had succeeded.                                                          *)
(*                                                                         *)
(* A name that is taken, or being taken, makes a request end without any   *)
(* effect: names are left out and a checked request may always end so.     *)
(* CPU, RAM and disk quotas are compared as the VM count is.               *)
(***************************************************************************)
EXTENDS Naturals, FiniteSets

CONSTANTS
    Ids,            \* ids of VM rows: bounds the VMs ever created
    Pids,           \* the hypervisor's VM ids (proxmox_vm_id)
    Tenants,
    MaxVms,         \* [Tenants -> Nat], quota.max_vms
    Threads,        \* API threads
    MaxMishaps,     \* bound on crashes, failing calls and administrator's acts
    None            \* the SQL NULL

ASSUME VmsAssumption ==
    /\ Pids \subseteq Nat
    /\ MaxVms \in [Tenants -> Nat]
    /\ MaxMishaps \in Nat
    /\ IsFiniteSet(Ids) /\ IsFiniteSet(Threads) /\ Threads # {}
    /\ None \notin Ids \cup Pids \cup Tenants

VARIABLES
    rows,       \* table vms
    vms,        \* the hypervisor: which row a VM was cloned for, and its power
    req,        \* the request each API thread is serving
    task,       \* the provision_vm message of each row
    mishaps,    \* mishaps so far
    marks       \* history: what has disturbed each row

vars == <<rows, vms, req, task, mishaps, marks>>

-----------------------------------------------------------------------------
Status == {"pending", "creating", "provisioning", "running", "stopped", "error"}

\* VALID_STATUS_TRANSITIONS
Transitions(s) ==
    CASE s = "pending"      -> {"creating", "provisioning", "running", "error"}
      [] s = "creating"     -> {"pending", "provisioning", "error"}
      [] s = "provisioning" -> {"running", "error"}
      [] s = "running"      -> {"stopped", "error"}
      [] s = "stopped"      -> {"running", "error"}
      [] s = "error"        -> {"pending", "stopped"}

Unused == [status |-> "unused", tenant |-> None, pid |-> None]
Gone == [status |-> "gone", tenant |-> None, pid |-> None]
Row == {Unused, Gone} \cup [status : Status, tenant : Tenants, pid : Pids \cup {None}]

NoVm == [for |-> None, on |-> FALSE]
Vm == {NoVm} \cup [for : Ids, on : BOOLEAN]

\* A request that works on a VM holds the row as it read it: its id and pid.
Idle == [pc |-> "idle"]
OpPc == {"start", "started", "stop", "stopped", "restart", "restarting",
         "delete", "destroy", "remove"}
Op == [pc : OpPc, id : Ids, pid : Pids \cup {None}]
Request == {Idle} \cup [pc : {"insert"}, tenant : Tenants] \cup [pc : {"send"}, id : Ids]
           \cup Op

\* auto is the request's auto_start, pid the id the running task has asked for.
TaskPc == {"none", "queued", "chosen", "saved", "keyed", "cloned", "up", "failing", "done"}
Task == [pc : TaskPc, auto : BOOLEAN, pid : Pids \cup {None}]
Started == {"chosen", "saved", "keyed", "cloned", "up"}
Ended == [pc |-> "done", auto |-> FALSE, pid |-> None]

Marks == {"overlap",        \* a request began while another step on it was due
          "entangled",      \* it was given a hypervisor id that another row held
          "redelivered",    \* its message was delivered again
          "raised",         \* its task failed
          "call",           \* a request's hypervisor call, or its thread, failed
          "lost",           \* its message was never sent, or its task killed
          "override"}       \* an administrator wrote its status

TypeOK ==
    /\ rows \in [Ids -> Row]
    /\ vms \in [Pids -> Vm]
    /\ req \in [Threads -> Request]
    /\ task \in [Ids -> Task]
    /\ mishaps \in 0..MaxMishaps
    /\ marks \in [Ids -> SUBSET Marks]

-----------------------------------------------------------------------------
Live(i) == rows[i].status \in Status
Exists(n) == n \in Pids /\ vms[n] # NoVm
RowsOf(t) == {i \in Ids : Live(i) /\ rows[i].tenant = t}
Inserting == {p \in Threads : req[p].pc = "insert"}
FreePids == {n \in Pids : vms[n] = NoVm}
NextPids == {n \in FreePids : \A m \in FreePids : n <= m}

TaskDue(i) == task[i].pc \notin {"none", "done"}
Serving(p, i) == req[p].pc \notin {"idle", "insert"} /\ req[p].id = i
Busy(i) == TaskDue(i) \/ \E p \in Threads : Serving(p, i)

Mishap == mishaps < MaxMishaps /\ mishaps' = mishaps + 1
Mark(S, m) == marks' = [i \in Ids |-> IF i \in S THEN marks[i] \cup {m} ELSE marks[i]]

Init ==
    /\ rows = [i \in Ids |-> Unused]
    /\ vms = [n \in Pids |-> NoVm]
    /\ req = [p \in Threads |-> Idle]
    /\ task = [i \in Ids |-> [pc |-> "none", auto |-> FALSE, pid |-> None]]
    /\ mishaps = 0
    /\ marks = [i \in Ids |-> {}]

-----------------------------------------------------------------------------
(* POST /vm/provision.                                                     *)

\* Mutant: a quota that compares the count without the new VM.
UnderQuotaBefore(t) == Cardinality(RowsOf(t)) <= MaxVms[t]

UnderQuota(t) == Cardinality(RowsOf(t)) + 1 <= MaxVms[t]

ProvisionCheck(p, t) ==
    /\ req[p] = Idle
    /\ UnderQuota(t)
    /\ req' = [req EXCEPT ![p] = [pc |-> "insert", tenant |-> t]]
    /\ UNCHANGED <<rows, vms, task, mishaps, marks>>

\* 409: the name is locked by a concurrent request or belongs to a VM.
ProvisionRefused(p) ==
    /\ req[p].pc = "insert"
    /\ req' = [req EXCEPT ![p] = Idle]
    /\ UNCHANGED <<rows, vms, task, mishaps, marks>>

ProvisionInsert(p, i) ==
    /\ req[p].pc = "insert"
    /\ rows[i] = Unused
    /\ rows' = [rows EXCEPT ![i] = [status |-> "provisioning", tenant |-> req[p].tenant,
                                    pid |-> None]]
    /\ req' = [req EXCEPT ![p] = [pc |-> "send", id |-> i]]
    /\ UNCHANGED <<vms, task, mishaps, marks>>

ProvisionSend(p, auto) ==
    /\ req[p].pc = "send"
    /\ task' = [task EXCEPT ![req[p].id] = [pc |-> "queued", auto |-> auto, pid |-> None]]
    /\ req' = [req EXCEPT ![p] = Idle]
    /\ UNCHANGED <<rows, vms, mishaps, marks>>

\* Mutant: a write to a row that may be gone.
WithStatusAnyway(i, s) == [rows EXCEPT ![i].status = s]

\* The table with a status written to a row, if the row is still there.
WithStatus(i, s) == IF Live(i) THEN [rows EXCEPT ![i].status = s] ELSE rows

\* The broker refuses the message.
ProvisionSendFails(p) ==
    /\ req[p].pc = "send"
    /\ Mishap
    /\ rows' = WithStatus(req[p].id, "error")
    /\ Mark({req[p].id}, "raised")
    /\ req' = [req EXCEPT ![p] = Idle]
    /\ UNCHANGED <<vms, task>>

-----------------------------------------------------------------------------
(* POST /vm/{id}/start, /stop, /restart and DELETE /vm/{id}: a read with a *)
(* guard on the status, hypervisor calls, a commit.                        *)

Begin(p, i, pc) ==
    /\ req[p] = Idle
    /\ req' = [req EXCEPT ![p] = [pc |-> pc, id |-> i, pid |-> rows[i].pid]]
    /\ IF Busy(i) THEN Mark({i}, "overlap") ELSE UNCHANGED marks
    /\ UNCHANGED <<rows, vms, task, mishaps>>

BeginStart(p, i) == rows[i].status \in {"stopped", "error"} /\ Begin(p, i, "start")
BeginStop(p, i) == rows[i].status = "running" /\ Begin(p, i, "stop")
BeginRestart(p, i) == rows[i].status = "running" /\ Begin(p, i, "restart")
BeginDelete(p, i, force) ==
    /\ Live(i)
    /\ force \/ rows[i].status # "running"
    /\ Begin(p, i, "delete")

Power(n, on) == IF Exists(n) THEN [vms EXCEPT ![n].on = on] ELSE vms
Running(n) == Exists(n) /\ vms[n].on

\* A call brings the VMs to after, or fails and leaves them alone; the
\* request goes on with pc either way.
Call(p, pc, after) ==
    /\ \/ vms' = after /\ UNCHANGED <<mishaps, marks>>
       \/ /\ Mishap
          /\ Mark({req[p].id}, "call")
          /\ UNCHANGED vms
    /\ req' = [req EXCEPT ![p] = IF pc = "idle" THEN Idle ELSE [@ EXCEPT !.pc = pc]]
    /\ UNCHANGED <<rows, task>>

StartCall(p) == req[p].pc = "start" /\ Call(p, "started", Power(req[p].pid, TRUE))
StopCall(p) == req[p].pc = "stop" /\ Call(p, "stopped", Power(req[p].pid, FALSE))

\* A restart writes the status it has read, so its commit writes nothing.
RestartStop(p) == req[p].pc = "restart" /\ Call(p, "restarting", Power(req[p].pid, FALSE))
RestartStart(p) == req[p].pc = "restarting" /\ Call(p, "idle", Power(req[p].pid, TRUE))

\* Mutant: a delete that does not stop the VM first.
DeleteUnstopped(p) == req[p].pc = "delete" /\ Call(p, "destroy", vms)

DeleteStop(p) == req[p].pc = "delete" /\ Call(p, "destroy", Power(req[p].pid, FALSE))

\* The hypervisor destroys no running VM.
DeleteDestroy(p) ==
    /\ req[p].pc = "destroy"
    /\ Call(p, "remove",
            IF Exists(req[p].pid) /\ ~Running(req[p].pid)
            THEN [vms EXCEPT ![req[p].pid] = NoVm] ELSE vms)

Commit(p, after) ==
    /\ rows' = after
    /\ req' = [req EXCEPT ![p] = Idle]
    /\ UNCHANGED <<vms, task, mishaps, marks>>

StartCommit(p) == req[p].pc = "started" /\ Commit(p, WithStatus(req[p].id, "running"))
StopCommit(p) == req[p].pc = "stopped" /\ Commit(p, WithStatus(req[p].id, "stopped"))
DeleteCommit(p) == req[p].pc = "remove" /\ Commit(p, [rows EXCEPT ![req[p].id] = Gone])

\* The API process dies; what it has not committed is rolled back.
ApiCrash(p) ==
    /\ req[p] # Idle
    /\ Mishap
    /\ CASE req[p].pc = "insert" -> UNCHANGED marks
         [] req[p].pc = "send" -> Mark({req[p].id}, "lost")
         [] OTHER -> Mark({req[p].id}, "call")
    /\ req' = [req EXCEPT ![p] = Idle]
    /\ UNCHANGED <<rows, vms, task>>

-----------------------------------------------------------------------------
(* provision_vm_task.                                                      *)

\* The task runs on as long as its row is there: each commit of its own
\* fails on a row that was deleted, and so does the handler of that failure.
Proceed(i, pc) ==
    task' = [task EXCEPT ![i] = IF Live(i) THEN [@ EXCEPT !.pc = pc] ELSE Ended]

TaskStart(i) ==
    /\ task[i].pc = "queued"
    /\ \/ /\ Live(i)
          /\ \E n \in NextPids :                         \* bound: Pids
                task' = [task EXCEPT ![i].pc = "chosen", ![i].pid = n]
       \/ /\ ~Live(i)
          /\ task' = [task EXCEPT ![i] = Ended]
    /\ UNCHANGED <<rows, vms, req, mishaps, marks>>

\* The other rows that have a hypervisor id, a VM with it, or work under way
\* with it.
Holders(i, n) ==
    {j \in Ids \ {i} : \/ rows[j].pid = n
                       \/ vms[n].for = j
                       \/ task[j].pid = n
                       \/ \E p \in Threads : req[p].pc \in OpPc /\ req[p].id = j /\ req[p].pid = n}

\* Mutant: a task that keeps the id to itself.
TaskSaveNothing(i) ==
    /\ task[i].pc = "chosen"
    /\ Proceed(i, "saved")
    /\ UNCHANGED <<rows, vms, req, mishaps, marks>>

TaskSave(i) ==
    LET n == task[i].pid
        others == Holders(i, n)
    IN  /\ task[i].pc = "chosen"
        /\ Proceed(i, "saved")
        /\ rows' = IF Live(i) THEN [rows EXCEPT ![i].pid = n] ELSE rows
        /\ IF others # {} THEN Mark(others \cup {i}, "entangled") ELSE UNCHANGED marks
        /\ UNCHANGED <<vms, req, mishaps>>

TaskKeys(i) ==
    /\ task[i].pc = "saved"
    /\ Proceed(i, "keyed")
    /\ UNCHANGED <<rows, vms, req, mishaps, marks>>

\* The hypervisor refuses an id that is in use.
TaskClone(i) ==
    LET n == task[i].pid IN
    /\ task[i].pc = "keyed"
    /\ IF Exists(n)
       THEN /\ task' = [task EXCEPT ![i].pc = "failing"]
            /\ UNCHANGED vms
       ELSE /\ task' = [task EXCEPT ![i].pc = "cloned"]
            /\ vms' = [vms EXCEPT ![n] = [for |-> i, on |-> FALSE]]
    /\ UNCHANGED <<rows, req, mishaps, marks>>

\* Resources and network of the clone, and its first start.
TaskConfigure(i) ==
    LET n == task[i].pid IN
    /\ task[i].pc = "cloned"
    /\ task' = [task EXCEPT ![i].pc = IF Exists(n) THEN "up" ELSE "failing"]
    /\ vms' = IF task[i].auto THEN Power(n, TRUE) ELSE vms
    /\ UNCHANGED <<rows, req, mishaps, marks>>

\* Mutant: a task that takes every clone for started.
TaskFinishRunning(i) ==
    /\ task[i].pc = "up"
    /\ rows' = WithStatus(i, "running")
    /\ task' = [task EXCEPT ![i] = Ended]
    /\ UNCHANGED <<vms, req, mishaps, marks>>

TaskFinish(i) ==
    /\ task[i].pc = "up"
    /\ rows' = WithStatus(i, IF task[i].auto THEN "running" ELSE "stopped")
    /\ task' = [task EXCEPT ![i] = Ended]
    /\ UNCHANGED <<vms, req, mishaps, marks>>

TaskFail(i) ==
    /\ task[i].pc = "failing"
    /\ rows' = WithStatus(i, "error")
    /\ task' = [task EXCEPT ![i] = Ended]
    /\ UNCHANGED <<vms, req, mishaps, marks>>

\* A call of the task fails, or its soft time limit expires.
TaskRaise(i) ==
    /\ task[i].pc \in Started \cup {"queued"}
    /\ Mishap
    /\ Mark({i}, "raised")
    /\ task' = [task EXCEPT ![i].pc = "failing"]
    /\ UNCHANGED <<rows, vms, req>>

\* The hard time limit: the message counts as handled.
TaskKilled(i) ==
    /\ task[i].pc \in Started \cup {"failing"}
    /\ Mishap
    /\ Mark({i}, "lost")
    /\ task' = [task EXCEPT ![i] = Ended]
    /\ UNCHANGED <<rows, vms, req>>

\* The worker dies: its message is delivered again.
WorkerCrash(i) ==
    /\ task[i].pc \in Started \cup {"failing"}
    /\ Mishap
    /\ Mark({i}, "redelivered")
    /\ task' = [task EXCEPT ![i].pc = "queued", ![i].pid = None]
    /\ UNCHANGED <<rows, vms, req>>

-----------------------------------------------------------------------------
(* The administrator's PATCH /vm/{id}/status and POST /fix/{id}.           *)

Override(i, s, force) ==
    /\ Live(i)
    /\ s # rows[i].status
    /\ force \/ s \in Transitions(rows[i].status)
    /\ Mishap
    /\ rows' = [rows EXCEPT ![i].status = s]
    /\ Mark({i}, "override")
    /\ UNCHANGED <<vms, req, task>>

\* fix_ghost_vm commits "pending" and then fails on vm.disk_size, which the
\* model has no column for: no task is dispatched.
Fix(i) ==
    /\ Live(i)
    /\ Mishap
    /\ rows' = [rows EXCEPT ![i].status = "pending"]
    /\ Mark({i}, "override")
    /\ UNCHANGED <<vms, req, task>>

-----------------------------------------------------------------------------
Provision(p) ==
    \/ \E t \in Tenants : ProvisionCheck(p, t)
    \/ ProvisionRefused(p)
    \/ \E i \in Ids : ProvisionInsert(p, i)
    \/ \E auto \in BOOLEAN : ProvisionSend(p, auto)
    \/ ProvisionSendFails(p)

Operate(p) ==
    \/ \E i \in Ids : BeginStart(p, i) \/ BeginStop(p, i) \/ BeginRestart(p, i)
    \/ \E i \in Ids, force \in BOOLEAN : BeginDelete(p, i, force)
    \/ StartCall(p) \/ StartCommit(p)
    \/ StopCall(p) \/ StopCommit(p)
    \/ RestartStop(p) \/ RestartStart(p)
    \/ DeleteStop(p) \/ DeleteDestroy(p) \/ DeleteCommit(p)

Work(i) ==
    \/ TaskStart(i) \/ TaskSave(i) \/ TaskKeys(i) \/ TaskClone(i) \/ TaskConfigure(i)
    \/ TaskFinish(i) \/ TaskFail(i)

Disturb(i) == TaskRaise(i) \/ TaskKilled(i) \/ WorkerCrash(i)

Administer(i) == Fix(i) \/ \E s \in Status, force \in BOOLEAN : Override(i, s, force)

Next ==
    \/ \E p \in Threads : Provision(p) \/ Operate(p) \/ ApiCrash(p)
    \/ \E i \in Ids : Work(i) \/ Disturb(i) \/ Administer(i)

\* A worker takes every message and runs it to its end, and an API thread
\* that has committed a row goes on to send its message.
Fairness ==
    /\ \A i \in Ids : WF_vars(Work(i))
    /\ \A p \in Threads : WF_vars(\E auto \in BOOLEAN : ProvisionSend(p, auto))

Spec == Init /\ [][Next]_vars /\ Fairness

-----------------------------------------------------------------------------
(* Properties.                                                             *)

\* However many requests pass the quota check before the others insert their
\* rows, a tenant exceeds its VM quota by fewer rows than there are threads.
\* provision_vm checks and inserts in two steps (api/vm.py:377, 433).
QuotaOvershoot == \A t \in Tenants :
    Cardinality(RowsOf(t)) <= MaxVms[t] + Cardinality(Threads) - 1

\* A VM whose row is still there is the VM the row names, whatever call, task
\* or thread failed and when: provision_vm_task saves the id before it clones
\* (tasks/vm.py:192).  Only a second delivery of the message, which asks for
\* another id, can lose it.
RowKeepsItsVm == \A n \in Pids : \A i \in Ids :
    vms[n].for = i /\ Live(i) /\ "redelivered" \notin marks[i] => rows[i].pid = n

\* A VM without its row has been left behind by a delete that ran at the same
\* time as the VM's task or another request on it, that could not destroy the
\* VM, or that knew another id; otherwise delete_vm_logic leaves no VM
\* (services/vm.py:92).
DeletedRowLeavesNoVm == \A n \in Pids : \A i \in Ids :
    vms[n].for = i /\ rows[i] = Gone =>
        marks[i] \cap {"overlap", "entangled", "redelivered", "call"} # {}

\* When no request and no task is at work on it, and none ever met another or
\* failed on it, a running row has its own VM running and a stopped row has
\* its own VM powered off: the status is written after the call it reports
\* (services/vm.py:132-240, tasks/vm.py:248-295).
StatusTellsPower == \A i \in Ids :
    marks[i] = {} /\ ~Busy(i) =>
        /\ rows[i].status = "running" => Running(rows[i].pid) /\ vms[rows[i].pid].for = i
        /\ rows[i].status = "stopped" =>
               Exists(rows[i].pid) /\ ~Running(rows[i].pid) /\ vms[rows[i].pid].for = i
=============================================================================
