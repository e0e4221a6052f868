----------------------------- MODULE VlansProofs -----------------------------
(***************************************************************************)
(* Proofs about Networks and about Vlans, for every value of their         *)
(* constants.  The first part knows only Networks.                         *)
(*                                                                         *)
(* Vlans implements Networks: what the first part proves of every          *)
(* behaviour of Networks holds while VLANs are configured step by step.    *)
(* On that rest NamesApart and DoneIsWired, each from an invariant of its  *)
(* own, NamesInv and WiredInv.                                             *)
(***************************************************************************)
EXTENDS Vlans, FiniteSetTheorems, TLAPS

-----------------------------------------------------------------------------
(* Networks.                                                               *)

\* Which of the record types a request is of, by its program counter.
LEMMA RequestShape ==
    ASSUME NEW r \in Request
    PROVE  /\ r.pc = "subnet" => r \in CreateReq
           /\ r.pc = "vlan" => r \in CreateFullReq
           /\ r.pc = "dispatch" => r \in DispatchReq
           /\ r.pc = "delete" => r \in DeleteReq
BY DEF Request, Idle, CreateReq, CreateFullReq, DispatchReq, DeleteReq

-----------------------------------------------------------------------------
(* Type correctness.  A request or task refers only to rows that exist, so *)
(* the rows it names have the fields the step reads.                       *)

WellFormed ==
    /\ \A n \in NetIds : Exists(n) =>
          /\ nets[n] \in Row
          /\ nets[n].default => nets[n].vlan = None
          /\ ~nets[n].default => nets[n].vlan \in VlanTags
    /\ \A p \in Workers :
          req[p].pc \in {"dispatch", "delete"} =>
              Exists(req[p].net) /\ ~nets[req[p].net].default
    /\ \A n \in NetIds : task[n] # "none" => Exists(n) /\ ~nets[n].default
    /\ \A n \in NetIds : found[n] =>
          /\ task[n] # "none"
          /\ target[n] \in NetIds
          /\ Exists(target[n]) /\ ~nets[target[n]].default
    /\ \A k \in reopened : Exists(k)

TypeInv == TypeOK /\ WellFormed

LEMMA InitTyped == Init => TypeInv
<1> SUFFICES ASSUME Init PROVE TypeInv
    OBVIOUS
<1> USE NetworksAssumption
<1>1. ASSUME NEW n \in NetIds
      PROVE  IF \E t \in Tenants : DefaultNet[t] = n
             THEN nets[n] \in Row /\ nets[n].default /\ nets[n].vlan = None /\ Exists(n)
             ELSE nets[n] = NoRow /\ ~Exists(n)
    <2>1. CASE \E t \in Tenants : DefaultNet[t] = n
        <3> DEFINE t == CHOOSE u \in Tenants : DefaultNet[u] = n
        <3>1. t \in Tenants
            BY <2>1
        <3>2. nets[n] = [tenant |-> t, pod |-> PodOf[t], subnet |-> DefaultSubnet[t],
                         vlan |-> None, default |-> TRUE]
            BY <2>1 DEF Init
        <3> QED
            BY <2>1, <3>1, <3>2 DEF Init, Row, Exists, Subnets
    <2>2. CASE ~\E t \in Tenants : DefaultNet[t] = n
        BY <2>2 DEF Init, Exists
    <2> QED
        BY <2>1, <2>2
<1>2. nets \in [NetIds -> Row \cup {NoRow}]
    BY <1>1 DEF Init
<1>3. TypeOK
    BY <1>2 DEF Init, TypeOK, Request, TaskPc, Tags, LiveStatus
<1>4. WellFormed
    BY <1>1 DEF Init, WellFormed, Idle
<1> QED
    BY <1>3, <1>4 DEF TypeInv

-----------------------------------------------------------------------------
(* What the steps do to tenant_networks, whichever handler they are of.    *)

\* Rows are never removed, and only their status changes.
RowsKept ==
    \A n \in NetIds : Exists(n) => status'[n] # "none" /\ nets'[n] = nets[n]

\* The only effects a step of a task has on rows: it gives an existing row a
\* live status, and notes it if the row was deleted.
StatusWritten ==
    /\ nets' = nets
    /\ \/ UNCHANGED <<status, reopened>>
       \/ \E m \in NetIds, new \in LiveStatus :
             /\ Exists(m)
             /\ status' = [status EXCEPT ![m] = new]
             /\ reopened' = IF status[m] = "deleted" THEN reopened \cup {m} ELSE reopened

LEMMA TaskWrites ==
    ASSUME TypeInv, NEW n \in NetIds, TaskStep(n)
    PROVE  StatusWritten /\ UNCHANGED <<subnet, vlan, req, crashes>>
<1>1. ASSUME NEW m, NEW new \in LiveStatus, WriteStatus(m, new), nets' = nets
      PROVE  StatusWritten
    BY <1>1 DEF WriteStatus, StatusWritten, Exists, TypeInv, TypeOK
<1>2. CASE TaskLookup(n)
    BY <1>2 DEF TaskLookup, StatusWritten, netVars
<1>3. CASE TaskMark(n)
    BY <1>1, <1>3 DEF TaskMark, StatusWritten, LiveStatus
<1>4. CASE TaskConfigure(n)
    BY <1>4 DEF TaskConfigure, StatusWritten, netVars
<1>5. CASE TaskFinish(n)
    BY <1>1, <1>5 DEF TaskFinish, LiveStatus
<1>6. CASE TaskFail(n)
    BY <1>1, <1>6 DEF TaskFail, StatusWritten, LiveStatus
<1> QED
    BY <1>2, <1>3, <1>4, <1>5, <1>6 DEF TaskStep, TaskLookup, TaskMark, TaskConfigure,
       TaskFinish, TaskFail

\* The row a create inserts, and that it was not there before.
LEMMA CommitRow ==
    ASSUME TypeInv, NEW p \in Workers, CreateCommit(p)
    PROVE  \E n \in NetIds :
              /\ ~Exists(n)
              /\ req[p] \in CreateFullReq
              /\ status' = [status EXCEPT ![n] = "pending"]
              /\ nets' = [nets EXCEPT ![n] = nets'[n]]
              /\ nets'[n] = [tenant |-> req[p].tenant, pod |-> PodOf[req[p].tenant],
                             subnet |-> req[p].subnet, vlan |-> req[p].vlan, default |-> FALSE]
              /\ nets'[n] \in Row
              /\ req' = [req EXCEPT ![p] = [pc |-> "dispatch", net |-> n]]
<1>1. req[p] \in CreateFullReq
    BY RequestShape DEF CreateCommit, TypeInv, TypeOK
<1> DEFINE new == [tenant |-> req[p].tenant, pod |-> PodOf[req[p].tenant],
                   subnet |-> req[p].subnet, vlan |-> req[p].vlan, default |-> FALSE]
<1>2. PICK n \in Unused :
          /\ status' = [status EXCEPT ![n] = "pending"]
          /\ nets' = [nets EXCEPT ![n] = new]
          /\ req' = [req EXCEPT ![p] = [pc |-> "dispatch", net |-> n]]
    BY DEF CreateCommit
<1>3. n \in NetIds /\ ~Exists(n)
    BY <1>2 DEF Unused
<1>4. nets'[n] = new
    BY <1>2, <1>3 DEF TypeInv, TypeOK
<1>5. new \in Row
    BY <1>1, NetworksAssumption DEF Row, CreateFullReq
<1> QED
    BY <1>1, <1>2, <1>3, <1>4, <1>5

\* A delete request names an existing additional network.
LEMMA DeleteShape ==
    ASSUME TypeInv, NEW p \in Workers, req[p].pc = "delete"
    PROVE  /\ req[p] \in DeleteReq
           /\ req[p].net \in NetIds /\ Exists(req[p].net)
           /\ nets[req[p].net] \in Row /\ ~nets[req[p].net].default
           /\ TagOf(req[p].net) \in Tags
<1>1. req[p] \in DeleteReq
    BY RequestShape DEF TypeInv, TypeOK
<1>2. /\ req[p].net \in NetIds /\ Exists(req[p].net)
      /\ nets[req[p].net] \in Row /\ ~nets[req[p].net].default
      /\ nets[req[p].net].vlan \in VlanTags
    BY <1>1 DEF DeleteReq, TypeInv, WellFormed
<1> QED
    BY <1>1, <1>2 DEF TagOf, Tags, Row

-----------------------------------------------------------------------------
(* Every step keeps the types.                                             *)

\* Taking locks and reading rows changes a request only.
LEMMA RequestStepTyped ==
    ASSUME TypeInv, NEW p \in Workers, NEW r \in Request,
           r.pc \in {"dispatch", "delete"} => Exists(r.net) /\ ~nets[r.net].default,
           req' = [req EXCEPT ![p] = r],
           UNCHANGED <<subnet, vlan, netVars, taskVars, iface, reopened>>,
           crashes' \in 0..MaxCrashes
    PROVE  TypeInv'
<1>1. TypeOK'
    BY DEF TypeInv, TypeOK, netVars, taskVars
<1>2. WellFormed'
    BY DEF TypeInv, TypeOK, WellFormed, Exists, netVars, taskVars
<1> QED
    BY <1>1, <1>2 DEF TypeInv

\* A task's step touches its own entry and the status of existing rows.
LEMMA TaskStepTyped ==
    ASSUME TypeInv, NEW n \in NetIds, task[n] # "none",
           NEW pc \in TaskPc \ {"none"}, NEW r \in 0..MaxRetries,
           NEW f \in BOOLEAN, NEW m \in Nat,
           f => m \in NetIds /\ Exists(m) /\ ~nets[m].default,
           task' = [task EXCEPT ![n] = pc],
           retries' = [retries EXCEPT ![n] = r],
           found' = [found EXCEPT ![n] = f],
           target' = [target EXCEPT ![n] = m],
           iface' \in [OpnVms \X VlanTags -> Subnets \cup {None}],
           crashes' \in 0..MaxCrashes,
           StatusWritten, UNCHANGED <<subnet, vlan, req>>
    PROVE  TypeInv'
<1>1. /\ status' \in [NetIds -> LiveStatus \cup {"none", "deleted"}]
      /\ reopened' \subseteq NetIds
      /\ \A k \in NetIds : Exists(k) <=> status'[k] # "none"
      /\ \A k \in reopened' : Exists(k)
    <2>1. CASE UNCHANGED <<status, reopened>>
        BY <2>1 DEF TypeInv, TypeOK, WellFormed, Exists
    <2>2. CASE ~UNCHANGED <<status, reopened>>
        <3>1. PICK k \in NetIds, new \in LiveStatus :
                  /\ Exists(k)
                  /\ status' = [status EXCEPT ![k] = new]
                  /\ reopened' = IF status[k] = "deleted" THEN reopened \cup {k} ELSE reopened
            BY <2>2 DEF StatusWritten
        <3> QED
            BY <3>1 DEF TypeInv, TypeOK, WellFormed, Exists, LiveStatus
    <2> QED
        BY <2>1, <2>2
<1>2. nets' = nets
    BY DEF StatusWritten
<1>3. TypeOK'
    BY <1>1, <1>2 DEF TypeInv, TypeOK
<1>4. WellFormed'
    <2>1. \A k \in NetIds : Exists(k)' <=> Exists(k)
        BY <1>1 DEF Exists
    <2>2. \A k \in NetIds : task'[k] = IF k = n THEN pc ELSE task[k]
        BY DEF TypeInv, TypeOK
    <2>3. \A k \in NetIds : /\ found'[k] = IF k = n THEN f ELSE found[k]
                            /\ target'[k] = IF k = n THEN m ELSE target[k]
        BY DEF TypeInv, TypeOK
    <2>4. \A k \in NetIds : Exists(k)' =>
              /\ nets'[k] \in Row
              /\ nets'[k].default => nets'[k].vlan = None
              /\ ~nets'[k].default => nets'[k].vlan \in VlanTags
        BY <1>2, <2>1 DEF TypeInv, WellFormed
    <2>5. \A p \in Workers :
              req'[p].pc \in {"dispatch", "delete"} =>
                  status'[req'[p].net] # "none" /\ ~nets'[req'[p].net].default
        <3> SUFFICES ASSUME NEW p \in Workers, req[p].pc \in {"dispatch", "delete"}
                     PROVE  status'[req[p].net] # "none" /\ ~nets[req[p].net].default
            BY <1>2
        <3>1. req[p].net \in NetIds
            BY RequestShape DEF TypeInv, TypeOK, DispatchReq, DeleteReq
        <3> QED
            BY <2>1, <3>1 DEF TypeInv, WellFormed, Exists
    <2>6. \A k \in NetIds : task'[k] # "none" => Exists(k)' /\ ~nets'[k].default
        BY <1>2, <2>1, <2>2 DEF TypeInv, WellFormed
    <2>7. \A k \in NetIds : found'[k] =>
              /\ task'[k] # "none"
              /\ target'[k] \in NetIds
              /\ status'[target'[k]] # "none" /\ ~nets'[target'[k]].default
        BY <1>2, <2>1, <2>2, <2>3 DEF TypeInv, WellFormed, Exists
    <2> QED
        BY <1>1, <2>4, <2>5, <2>6, <2>7 DEF WellFormed, Exists
<1> QED
    BY <1>3, <1>4 DEF TypeInv

\* The steps that keep what the lookup found.
LEMMA TaskSameLookup ==
    ASSUME TypeInv, NEW n \in NetIds, task[n] # "none",
           NEW pc \in TaskPc \ {"none"}, task' = [task EXCEPT ![n] = pc],
           UNCHANGED <<retries, found, target>>,
           iface' \in [OpnVms \X VlanTags -> Subnets \cup {None}],
           StatusWritten, UNCHANGED <<subnet, vlan, req, crashes>>
    PROVE  TypeInv'
<1>1. /\ retries' = [retries EXCEPT ![n] = retries[n]]
      /\ found' = [found EXCEPT ![n] = found[n]]
      /\ target' = [target EXCEPT ![n] = target[n]]
      /\ retries[n] \in 0..MaxRetries /\ found[n] \in BOOLEAN /\ target[n] \in Nat
      /\ crashes' \in 0..MaxCrashes
    BY DEF TypeInv, TypeOK
<1>2. found[n] => target[n] \in NetIds /\ Exists(target[n]) /\ ~nets[target[n]].default
    BY DEF TypeInv, WellFormed
<1>3. CASE found[n] = TRUE
    <2>1. found' = [found EXCEPT ![n] = TRUE]
        BY <1>1, <1>3
    <2> QED
        BY <1>1, <1>2, <1>3, <2>1, TaskStepTyped
<1>4. CASE found[n] = FALSE
    <2>1. found' = [found EXCEPT ![n] = FALSE]
        BY <1>1, <1>4
    <2> QED
        BY <1>1, <1>4, <2>1, TaskStepTyped
<1> QED
    BY <1>1, <1>3, <1>4

\* The steps that end an execution of the task.
LEMMA LeaveTyped ==
    ASSUME TypeInv, NEW n \in NetIds, task[n] # "none",
           NEW pc \in TaskPc \ {"none"}, NEW r \in 0..MaxRetries, Leave(n, pc, r),
           iface' = iface, crashes' \in 0..MaxCrashes,
           StatusWritten, UNCHANGED <<subnet, vlan, req>>
    PROVE  TypeInv'
BY TaskStepTyped DEF Leave, TypeInv, TypeOK

\* A commit inserts its row where there was none.
LEMMA CommitTyped ==
    ASSUME TypeInv, NEW p \in Workers, CreateCommit(p)
    PROVE  TypeInv'
<1>1. PICK n \in NetIds :
          /\ ~Exists(n)
          /\ req[p] \in CreateFullReq
          /\ status' = [status EXCEPT ![n] = "pending"]
          /\ nets' = [nets EXCEPT ![n] = nets'[n]]
          /\ nets'[n] = [tenant |-> req[p].tenant, pod |-> PodOf[req[p].tenant],
                         subnet |-> req[p].subnet, vlan |-> req[p].vlan, default |-> FALSE]
          /\ nets'[n] \in Row
          /\ req' = [req EXCEPT ![p] = [pc |-> "dispatch", net |-> n]]
    BY CommitRow
<1>2. /\ subnet' = [subnet EXCEPT ![req[p].subnet] = "allocated"]
      /\ vlan' = [vlan EXCEPT ![<<PodOf[req[p].tenant], req[p].vlan>>] = "allocated"]
      /\ UNCHANGED <<taskVars, iface, crashes, reopened>>
    BY DEF CreateCommit
<1>3. TypeOK'
    <2>1. req' \in [Workers -> Request]
        BY <1>1 DEF TypeInv, TypeOK, Request, DispatchReq
    <2>2. subnet' \in [Subnets -> {"free", "allocated"}] /\ vlan' \in [Tags -> {"free", "allocated"}]
        BY <1>2 DEF TypeInv, TypeOK
    <2>3. /\ status' \in [NetIds -> LiveStatus \cup {"none", "deleted"}]
          /\ nets' \in [NetIds -> Row \cup {NoRow}]
        BY <1>1 DEF TypeInv, TypeOK, LiveStatus
    <2> QED
        BY <1>2, <2>1, <2>2, <2>3 DEF TypeInv, TypeOK, taskVars
<1>4. WellFormed'
    <2>1. \A k \in NetIds : status'[k] = IF k = n THEN "pending" ELSE status[k]
        BY <1>1 DEF TypeInv, TypeOK
    <2>2. \A k \in NetIds : k # n => nets'[k] = nets[k]
        BY <1>1 DEF TypeInv, TypeOK
    <2>3. nets'[n] \in Row /\ ~nets'[n].default /\ nets'[n].vlan \in VlanTags
        BY <1>1 DEF CreateFullReq
    <2>4. \A k \in NetIds : status'[k] # "none" =>
              /\ nets'[k] \in Row
              /\ nets'[k].default => nets'[k].vlan = None
              /\ ~nets'[k].default => nets'[k].vlan \in VlanTags
        BY <2>1, <2>2, <2>3 DEF TypeInv, WellFormed, Exists
    <2>5. \A k \in NetIds : Exists(k) /\ ~nets[k].default =>
              status'[k] # "none" /\ ~nets'[k].default
        BY <1>1, <2>1, <2>2 DEF Exists
    <2>6. \A q \in Workers :
              req'[q].pc \in {"dispatch", "delete"} =>
                  status'[req'[q].net] # "none" /\ ~nets'[req'[q].net].default
        <3> SUFFICES ASSUME NEW q \in Workers, req'[q].pc \in {"dispatch", "delete"}
                     PROVE  status'[req'[q].net] # "none" /\ ~nets'[req'[q].net].default
            OBVIOUS
        <3>1. CASE q = p
            BY <1>1, <2>1, <2>3, <3>1 DEF TypeInv, TypeOK
        <3>2. CASE q # p
            <4>1. req'[q] = req[q]
                BY <1>1, <3>2 DEF TypeInv, TypeOK
            <4>2. req[q].net \in NetIds
                BY <4>1, RequestShape DEF TypeInv, TypeOK, DispatchReq, DeleteReq
            <4> QED
                BY <2>5, <4>1, <4>2 DEF TypeInv, WellFormed
        <3> QED
            BY <3>1, <3>2
    <2>7. \A k \in NetIds : task'[k] # "none" => status'[k] # "none" /\ ~nets'[k].default
        BY <1>2, <2>5 DEF TypeInv, WellFormed, taskVars
    <2>8. \A k \in NetIds : found'[k] =>
              /\ task'[k] # "none"
              /\ target'[k] \in NetIds
              /\ status'[target'[k]] # "none" /\ ~nets'[target'[k]].default
        BY <1>2, <2>5 DEF TypeInv, WellFormed, taskVars
    <2>9. \A k \in reopened' : status'[k] # "none"
        BY <1>2, <2>1 DEF TypeInv, TypeOK, WellFormed, Exists
    <2> QED
        BY <2>4, <2>6, <2>7, <2>8, <2>9 DEF WellFormed, Exists
<1> QED
    BY <1>3, <1>4 DEF TypeInv

LEMMA DeleteTyped ==
    ASSUME TypeInv, NEW p \in Workers, DeleteCommit(p)
    PROVE  TypeInv'
<1> DEFINE n == req[p].net
<1>1. /\ n \in NetIds /\ Exists(n)
      /\ status' = IF req[p].sawDeleted THEN status ELSE [status EXCEPT ![n] = "deleted"]
      /\ reopened' \in {reopened, reopened \cup {n}}
      /\ req' = [req EXCEPT ![p] = Idle]
      /\ UNCHANGED <<nets, taskVars, iface, crashes>>
    BY DeleteShape DEF DeleteCommit
<1>2. /\ subnet' \in [Subnets -> {"free", "allocated"}]
      /\ vlan' \in [Tags -> {"free", "allocated"}]
    BY DEF DeleteCommit, TypeInv, TypeOK
<1>3. /\ status' \in [NetIds -> LiveStatus \cup {"none", "deleted"}]
      /\ \A k \in NetIds : Exists(k) <=> status'[k] # "none"
      /\ reopened' \subseteq NetIds
      /\ \A k \in reopened' : Exists(k)
    BY <1>1 DEF TypeInv, TypeOK, WellFormed, Exists
<1>4. TypeOK'
    BY <1>1, <1>2, <1>3 DEF TypeInv, TypeOK, Request, taskVars
<1>5. WellFormed'
    <2>1. \A q \in Workers :
              req'[q].pc \in {"dispatch", "delete"} =>
                  status'[req'[q].net] # "none" /\ ~nets'[req'[q].net].default
        <3> SUFFICES ASSUME NEW q \in Workers, req'[q].pc \in {"dispatch", "delete"}
                     PROVE  status'[req'[q].net] # "none" /\ ~nets'[req'[q].net].default
            OBVIOUS
        <3>1. req'[q] = req[q]
            BY <1>1 DEF TypeInv, TypeOK, Idle
        <3>2. req[q].net \in NetIds
            BY <3>1, RequestShape DEF TypeInv, TypeOK, DispatchReq, DeleteReq
        <3> QED
            BY <1>1, <1>3, <3>1, <3>2 DEF TypeInv, WellFormed
    <2> QED
        BY <1>1, <1>3, <2>1 DEF TypeInv, TypeOK, WellFormed, Exists, taskVars
<1> QED
    BY <1>4, <1>5 DEF TypeInv

LEMMA ApiStepTyped ==
    ASSUME TypeInv, NEW p \in Workers, ApiStep(p)
    PROVE  TypeInv'
<1> USE DEF TypeInv
<1>1. ASSUME NEW t \in Tenants, CreateTakeSubnet(p, t)
      PROVE  TypeInv'
    <2>1. PICK s \in FreeSubnets :
              req' = [req EXCEPT ![p] = [pc |-> "subnet", tenant |-> t, subnet |-> s]]
        BY <1>1 DEF CreateTakeSubnet
    <2>2. [pc |-> "subnet", tenant |-> t, subnet |-> s] \in Request
        BY <2>1 DEF Request, CreateReq, FreeSubnets, Subnets
    <2> QED
        BY <1>1, <2>1, <2>2, RequestStepTyped DEF CreateTakeSubnet, TypeOK
<1>2. CASE CreateTakeVlan(p)
    <2>1. req[p] \in CreateReq
        BY <1>2, RequestShape DEF CreateTakeVlan, TypeOK
    <2>2. PICK v \in FreeTags(PodOf[req[p].tenant]) :
              req' = [req EXCEPT ![p] = [pc |-> "vlan", tenant |-> req[p].tenant,
                                         subnet |-> req[p].subnet, vlan |-> v]]
        BY <1>2 DEF CreateTakeVlan
    <2> DEFINE r == [pc |-> "vlan", tenant |-> req[p].tenant,
                     subnet |-> req[p].subnet, vlan |-> v]
    <2>3. r \in Request
        BY <2>1, <2>2 DEF Request, CreateReq, CreateFullReq, FreeTags
    <2>4. r.pc \notin {"dispatch", "delete"}
        OBVIOUS
    <2> HIDE DEF r
    <2> QED
        BY <1>2, <2>2, <2>3, <2>4, RequestStepTyped DEF CreateTakeVlan, TypeOK, r
<1>3. CASE CreateOutOfVlans(p)
    BY <1>3, RequestStepTyped DEF CreateOutOfVlans, Idle, Request, TypeOK
<1>4. CASE CreateCommit(p)
    BY <1>4, CommitTyped
<1>5. CASE CreateDispatch(p)
    <2>1. req[p].net \in NetIds /\ Exists(req[p].net) /\ ~nets[req[p].net].default
        BY <1>5, RequestShape DEF CreateDispatch, TypeOK, DispatchReq, WellFormed
    <2>2. TypeOK'
        BY <1>5, <2>1 DEF CreateDispatch, TypeOK, netVars, Request, TaskPc
    <2>3. WellFormed'
        BY <1>5, <2>1 DEF CreateDispatch, TypeOK, WellFormed, netVars, Idle, Exists
    <2> QED
        BY <2>2, <2>3
<1>6. ASSUME NEW n \in NetIds, DeleteRead(p, n)
      PROVE  TypeInv'
    <2> DEFINE r == [pc |-> "delete", net |-> n,
                     sawDeleted |-> status[n] = "deleted",
                     sawSubnet |-> subnet[nets[n].subnet] = "allocated",
                     sawVlan |-> vlan[TagOf(n)] = "allocated"]
    <2>1. r \in Request /\ r.net = n
        BY DEF Request, DeleteReq
    <2> HIDE DEF r
    <2> QED
        BY <1>6, <2>1, RequestStepTyped DEF DeleteRead, TypeOK, r
<1>7. CASE DeleteCommit(p)
    BY <1>7, DeleteTyped
<1>8. CASE ApiCrash(p)
    <2>1. crashes' \in 0..MaxCrashes
        BY <1>8, NetworksAssumption DEF ApiCrash, TypeOK
    <2> QED
        BY <1>8, <2>1, RequestStepTyped DEF ApiCrash, Idle, Request
<1> QED
    BY <1>1, <1>2, <1>3, <1>4, <1>5, <1>6, <1>7, <1>8 DEF ApiStep

LEMMA TaskTyped ==
    ASSUME TypeInv, NEW n \in NetIds, TaskStep(n) \/ WorkerCrash(n)
    PROVE  TypeInv'
<1> USE DEF TypeInv
<1>1. CASE TaskLookup(n)
    <2> DEFINE Matches == {m \in NetIds : /\ status[m] \in {"active", "pending"}
                                          /\ nets[m].tenant = nets[n].tenant
                                          /\ nets[m].vlan = nets[n].vlan}
    <2>1. PICK m \in IF Matches = {} THEN {nets[n].vlan} ELSE Matches :
              target' = [target EXCEPT ![n] = m]
        BY <1>1 DEF TaskLookup
    <2>2. /\ task' = [task EXCEPT ![n] = "looked"]
          /\ found' = [found EXCEPT ![n] = (Matches # {})]
          /\ UNCHANGED <<subnet, vlan, netVars, req, retries, iface, crashes, reopened>>
        BY <1>1 DEF TaskLookup
    <2>3. task[n] # "none" /\ nets[n].vlan \in VlanTags
        BY <1>1 DEF TaskLookup, WellFormed
    <2>4. m \in Nat
        BY <2>1, <2>3, NetworksAssumption
    <2>5. ASSUME Matches # {}
          PROVE  m \in NetIds /\ Exists(m) /\ ~nets[m].default
        <3>1. m \in NetIds /\ status[m] \in {"active", "pending"} /\ nets[m].vlan \in VlanTags
            BY <2>1, <2>3, <2>5
        <3> QED
            BY <3>1, NetworksAssumption DEF Exists, WellFormed
    <2>6. (Matches # {}) \in BOOLEAN
        OBVIOUS
    <2> HIDE DEF Matches
    <2>7. retries' = [retries EXCEPT ![n] = retries[n]] /\ retries[n] \in 0..MaxRetries
        BY <2>2 DEF TypeOK
    <2>8. "looked" \in TaskPc \ {"none"} /\ StatusWritten
        BY <2>2 DEF TaskPc, StatusWritten, netVars
    <2>9. iface' \in [OpnVms \X VlanTags -> Subnets \cup {None}] /\ crashes' \in 0..MaxCrashes
        BY <2>2 DEF TypeOK
    <2> QED
        BY <2>1, <2>2, <2>3, <2>4, <2>5, <2>6, <2>7, <2>8, <2>9, TaskStepTyped
<1>2. CASE TaskMark(n)
    <2>1. StatusWritten /\ UNCHANGED <<subnet, vlan, req, crashes>>
        BY <1>2, TaskWrites DEF TaskStep
    <2>2. /\ task' = [task EXCEPT ![n] = "marked"]
          /\ UNCHANGED <<retries, found, target, iface>>
          /\ task[n] # "none"
        BY <1>2 DEF TaskMark
    <2> QED
        BY <2>1, <2>2, TaskSameLookup DEF TaskPc, TypeOK
<1>3. CASE TaskConfigure(n)
    <2>1. StatusWritten /\ UNCHANGED <<subnet, vlan, req, crashes>>
        BY <1>3, TaskWrites DEF TaskStep
    <2>2. /\ task' = [task EXCEPT ![n] = "configured"]
          /\ UNCHANGED <<retries, found, target>>
          /\ task[n] # "none"
        BY <1>3 DEF TaskConfigure
    <2>3. iface' \in [OpnVms \X VlanTags -> Subnets \cup {None}]
        <3>1. nets[n].subnet \in Subnets
            BY <1>3 DEF TaskConfigure, WellFormed, Row
        <3> QED
            BY <1>3, <3>1 DEF TaskConfigure, TypeOK
    <2> QED
        BY <2>1, <2>2, <2>3, TaskSameLookup DEF TaskPc
<1>4. CASE TaskFinish(n)
    <2>1. StatusWritten /\ UNCHANGED <<subnet, vlan, req, crashes>>
        BY <1>4, TaskWrites DEF TaskStep
    <2> QED
        BY <1>4, <2>1, LeaveTyped, NetworksAssumption DEF TaskFinish, TaskPc, TypeOK
<1>5. CASE TaskFail(n)
    <2>1. StatusWritten /\ UNCHANGED <<subnet, vlan, req, crashes>>
        BY <1>5, TaskWrites DEF TaskStep
    <2>2. task[n] # "none" /\ iface' = iface
        BY <1>5 DEF TaskFail
    <2>3. CASE retries[n] < MaxRetries
        <3>1. Leave(n, "queued", retries[n] + 1) /\ retries[n] + 1 \in 0..MaxRetries
            BY <1>5, <2>3, NetworksAssumption DEF TaskFail, TypeOK
        <3> QED
            BY <2>1, <2>2, <3>1, LeaveTyped DEF TaskPc, TypeOK
    <2>4. CASE ~(retries[n] < MaxRetries)
        <3>1. Leave(n, "failed", 0) /\ 0 \in 0..MaxRetries
            BY <1>5, <2>4, NetworksAssumption DEF TaskFail
        <3> QED
            BY <2>1, <2>2, <3>1, LeaveTyped DEF TaskPc, TypeOK
    <2> QED
        BY <2>3, <2>4
<1>6. CASE WorkerCrash(n)
    <2>1. /\ task[n] # "none" /\ retries[n] \in 0..MaxRetries
          /\ Leave(n, "queued", retries[n])
          /\ UNCHANGED <<subnet, vlan, netVars, req, iface, reopened>>
        BY <1>6 DEF WorkerCrash, TypeOK
    <2>2. crashes' \in 0..MaxCrashes
        BY <1>6, NetworksAssumption DEF WorkerCrash, TypeOK
    <2>3. StatusWritten
        BY <2>1 DEF StatusWritten, netVars
    <2> QED
        BY <2>1, <2>2, <2>3, LeaveTyped DEF TaskPc, TypeOK
<1> QED
    BY <1>1, <1>2, <1>3, <1>4, <1>5, <1>6 DEF TaskStep

LEMMA StepTyped == TypeInv /\ [Next]_vars => TypeInv'
<1> SUFFICES ASSUME TypeInv, [Next]_vars PROVE TypeInv'
    OBVIOUS
<1>1. CASE UNCHANGED vars
    BY <1>1 DEF vars, TypeInv, TypeOK, WellFormed, Exists
<1>2. CASE Next
    BY <1>2, ApiStepTyped, TaskTyped DEF Next
<1> QED
    BY <1>1, <1>2

\* Every variable keeps to its type, and every request and task to rows that
\* exist (models/network.py and the handlers' reads).
THEOREM TypeCorrect == Spec => []TypeOK
<1>1. Spec => []TypeInv
    BY InitTyped, StepTyped, PTL DEF Spec
<1> QED
    BY <1>1, PTL DEF TypeInv

-----------------------------------------------------------------------------
(* The default network.  A task whose lookup failed may hold a default      *)
(* network's id, but all it writes there is "active".                      *)

DefaultInv ==
    \A t \in Tenants : nets[DefaultNet[t]].default /\ status[DefaultNet[t]] = "active"

LEMMA InitDefault == Init => DefaultInv
<1> SUFFICES ASSUME Init, NEW t \in Tenants
             PROVE  nets[DefaultNet[t]].default /\ status[DefaultNet[t]] = "active"
    BY DEF DefaultInv
<1>1. DefaultNet[t] \in NetIds
    BY NetworksAssumption
<1>2. \E u \in Tenants : DefaultNet[u] = DefaultNet[t]
    OBVIOUS
<1>3. nets[DefaultNet[t]] = LET v == CHOOSE u \in Tenants : DefaultNet[u] = DefaultNet[t]
                            IN  [tenant |-> v, pod |-> PodOf[v], subnet |-> DefaultSubnet[v],
                                 vlan |-> None, default |-> TRUE]
    BY <1>1, <1>2 DEF Init
<1> QED
    BY <1>1, <1>2, <1>3 DEF Init

LEMMA DefaultStep == TypeInv /\ DefaultInv /\ [Next]_vars => DefaultInv'
<1> SUFFICES ASSUME TypeInv, DefaultInv, [Next]_vars, NEW t \in Tenants
             PROVE  nets'[DefaultNet[t]].default /\ status'[DefaultNet[t]] = "active"
    BY DEF DefaultInv
<1> DEFINE d == DefaultNet[t]
<1>1. d \in NetIds /\ Exists(d) /\ nets[d].default /\ status[d] = "active"
    BY NetworksAssumption DEF DefaultInv, Exists
<1> HIDE DEF d
<1>2. ASSUME UNCHANGED <<status, nets>>
      PROVE  nets'[d].default /\ status'[d] = "active"
    BY <1>1, <1>2
<1>3. ASSUME NEW p \in Workers, CreateCommit(p)
      PROVE  nets'[d].default /\ status'[d] = "active"
    <2>1. PICK n \in NetIds : /\ ~Exists(n)
                              /\ status' = [status EXCEPT ![n] = "pending"]
                              /\ nets' = [nets EXCEPT ![n] = nets'[n]]
        BY <1>3, CommitRow
    <2> QED
        BY <1>1, <2>1 DEF TypeInv, TypeOK
<1>4. ASSUME NEW p \in Workers, DeleteCommit(p)
      PROVE  nets'[d].default /\ status'[d] = "active"
    <2>1. req[p].net # d
        BY <1>1, <1>4, DeleteShape DEF DeleteCommit
    <2> QED
        BY <1>1, <1>4, <2>1 DEF DeleteCommit, TypeInv, TypeOK
<1>5. ASSUME NEW n \in NetIds, NEW new \in LiveStatus, nets' = nets,
             found[n] \/ new = "active", WriteStatus(target[n], new)
      PROVE  nets'[d].default /\ status'[d] = "active"
    <2>1. found[n] => target[n] # d
        BY <1>1 DEF TypeInv, WellFormed
    <2> QED
        BY <1>1, <1>5, <2>1 DEF WriteStatus, TypeInv, TypeOK
<1>6. ASSUME NEW n \in NetIds, TaskStep(n)
      PROVE  nets'[d].default /\ status'[d] = "active"
    <2>1. CASE TaskLookup(n) \/ TaskConfigure(n)
        BY <1>2, <2>1 DEF TaskLookup, TaskConfigure, netVars
    <2>2. CASE TaskMark(n)
        BY <1>2, <1>5, <2>2 DEF TaskMark, LiveStatus
    <2>3. CASE TaskFinish(n)
        BY <1>5, <2>3 DEF TaskFinish, LiveStatus
    <2>4. CASE TaskFail(n)
        BY <1>2, <1>5, <2>4 DEF TaskFail, LiveStatus
    <2> QED
        BY <1>6, <2>1, <2>2, <2>3, <2>4 DEF TaskStep
<1>7. ASSUME NEW p \in Workers, ApiStep(p)
      PROVE  nets'[d].default /\ status'[d] = "active"
    BY <1>2, <1>3, <1>4, <1>7 DEF ApiStep, CreateTakeSubnet, CreateTakeVlan,
       CreateOutOfVlans, CreateDispatch, DeleteRead, ApiCrash, netVars
<1>8. CASE \E n \in NetIds : WorkerCrash(n)
    BY <1>2, <1>8 DEF WorkerCrash, netVars, d
<1>9. CASE UNCHANGED vars
    BY <1>2, <1>9 DEF vars, d
<1> QED
    BY <1>6, <1>7, <1>8, <1>9 DEF Next, d

\* A tenant's default network is active in every reachable state, although
\* a retried create_opnsense_vlan writes to the row whose id is its VLAN tag
\* (workers/tasks/vlan.py:247, 401-405, 417-423).
THEOREM DefaultCorrect == Spec => []DefaultStaysActive
<1>1. Spec => [](TypeInv /\ DefaultInv)
    BY InitTyped, StepTyped, InitDefault, DefaultStep, PTL DEF Spec
<1>2. DefaultInv => DefaultStaysActive
    BY DEF DefaultInv, DefaultStaysActive
<1> QED
    BY <1>1, <1>2, PTL

-----------------------------------------------------------------------------
(* Row locks.  A row a transaction has locked is free, and no other         *)
(* transaction has it.                                                      *)

LockInv ==
    /\ \A p \in Creating : subnet[req[p].subnet] = "free"
    /\ \A p, q \in Creating : p # q => req[p].subnet # req[q].subnet
    /\ \A p \in Workers : req[p].pc = "vlan" =>
          vlan[<<PodOf[req[p].tenant], req[p].vlan>>] = "free"
    /\ \A p, q \in Workers :
          p # q /\ req[p].pc = "vlan" /\ req[q].pc = "vlan" =>
              <<PodOf[req[p].tenant], req[p].vlan>> # <<PodOf[req[q].tenant], req[q].vlan>>

LEMMA InitLock == Init => LockInv
BY DEF Init, LockInv, Creating, Idle

\* The step frees pool rows or leaves them, and takes no new lock.
LEMMA LockKept ==
    ASSUME TypeInv, LockInv, NEW p \in Workers, NEW r,
           r.pc \notin {"subnet", "vlan"},
           req' = [req EXCEPT ![p] = r] \/ req' = req,
           \A s \in Subnets : subnet[s] = "free" => subnet'[s] = "free",
           \A x \in Tags : vlan[x] = "free" => vlan'[x] = "free"
    PROVE  LockInv'
<1>1. \A q \in Workers : req'[q] = req[q] \/ req'[q].pc \notin {"subnet", "vlan"}
    BY DEF TypeInv, TypeOK
<1>2. \A q \in Workers : req[q].pc \in {"subnet", "vlan"} => req[q].subnet \in Subnets
    BY RequestShape DEF TypeInv, TypeOK, CreateReq, CreateFullReq
<1>3. \A q \in Workers : req[q].pc = "vlan" => <<PodOf[req[q].tenant], req[q].vlan>> \in Tags
    BY RequestShape, NetworksAssumption DEF TypeInv, TypeOK, CreateFullReq, Tags
<1> QED
    BY <1>1, <1>2, <1>3 DEF LockInv, Creating

LEMMA LockStep == TypeInv /\ LockInv /\ [Next]_vars => LockInv'
<1> SUFFICES ASSUME TypeInv, LockInv, [Next]_vars PROVE LockInv'
    OBVIOUS
<1>1. ASSUME NEW p \in Workers, NEW t \in Tenants, CreateTakeSubnet(p, t)
      PROVE  LockInv'
    <2>1. PICK s \in FreeSubnets :
              req' = [req EXCEPT ![p] = [pc |-> "subnet", tenant |-> t, subnet |-> s]]
        BY <1>1 DEF CreateTakeSubnet
    <2>2. subnet[s] = "free" /\ s \notin LockedSubnets
        BY <2>1 DEF FreeSubnets
    <2> QED
        BY <1>1, <2>1, <2>2 DEF CreateTakeSubnet, LockInv, LockedSubnets, Creating, TypeInv, TypeOK
<1>2. ASSUME NEW p \in Workers, CreateTakeVlan(p)
      PROVE  LockInv'
    <2>1. PICK v \in FreeTags(PodOf[req[p].tenant]) :
              req' = [req EXCEPT ![p] = [pc |-> "vlan", tenant |-> req[p].tenant,
                                         subnet |-> req[p].subnet, vlan |-> v]]
        BY <1>2 DEF CreateTakeVlan
    <2>2. vlan[<<PodOf[req[p].tenant], v>>] = "free"
        BY <2>1 DEF FreeTags
    <2>3. \A q \in Workers : req[q].pc = "vlan" =>
              <<PodOf[req[p].tenant], v>> # <<PodOf[req[q].tenant], req[q].vlan>>
        BY <2>1 DEF FreeTags, LockedTags
    <2>4. \A q \in Workers : /\ req'[q].pc \in {"subnet", "vlan"} => req[q].pc \in {"subnet", "vlan"}
                             /\ req'[q].pc \in {"subnet", "vlan"} => req'[q].subnet = req[q].subnet
        BY <1>2, <2>1 DEF CreateTakeVlan, TypeInv, TypeOK
    <2>5. UNCHANGED <<subnet, vlan>>
        BY <1>2 DEF CreateTakeVlan
    <2>6. \A q \in Workers : req'[q] = IF q = p THEN [pc |-> "vlan", tenant |-> req[p].tenant,
                                         subnet |-> req[p].subnet, vlan |-> v] ELSE req[q]
        BY <2>1 DEF TypeInv, TypeOK
    <2> QED
        BY <2>2, <2>3, <2>4, <2>5, <2>6 DEF LockInv, Creating
<1>3. ASSUME NEW p \in Workers, CreateCommit(p)
      PROVE  LockInv'
    <2>1. PICK n \in NetIds : req' = [req EXCEPT ![p] = [pc |-> "dispatch", net |-> n]]
        BY <1>3, CommitRow
    <2>2. /\ subnet' = [subnet EXCEPT ![req[p].subnet] = "allocated"]
          /\ vlan' = [vlan EXCEPT ![<<PodOf[req[p].tenant], req[p].vlan>>] = "allocated"]
          /\ req[p].pc = "vlan"
        BY <1>3 DEF CreateCommit
    <2>3. \A q \in Workers : req'[q].pc \in {"subnet", "vlan"} => q # p /\ req'[q] = req[q]
        BY <2>1 DEF TypeInv, TypeOK
    <2> QED
        BY <2>2, <2>3 DEF LockInv, Creating, TypeInv, TypeOK
<1>4. ASSUME NEW p \in Workers, DeleteCommit(p)
      PROVE  LockInv'
    <2>1. /\ req' = [req EXCEPT ![p] = Idle]
          /\ subnet' = subnet \/ subnet' = [subnet EXCEPT ![nets[req[p].net].subnet] = "free"]
          /\ vlan' = vlan \/ vlan' = [vlan EXCEPT ![TagOf(req[p].net)] = "free"]
        BY <1>4 DEF DeleteCommit
    <2>2. /\ \A s \in Subnets : subnet[s] = "free" => subnet'[s] = "free"
          /\ \A x \in Tags : vlan[x] = "free" => vlan'[x] = "free"
        BY <2>1 DEF TypeInv, TypeOK
    <2>3. Idle.pc \notin {"subnet", "vlan"}
        BY DEF Idle
    <2> QED
        BY <2>1, <2>2, <2>3, LockKept
<1>5. ASSUME UNCHANGED <<subnet, vlan, req>>
      PROVE  LockInv'
    BY <1>5 DEF LockInv, Creating
<1>6. ASSUME NEW p \in Workers, NEW r, r.pc \notin {"subnet", "vlan"},
             req' = [req EXCEPT ![p] = r], UNCHANGED <<subnet, vlan>>
      PROVE  LockInv'
    BY <1>6, LockKept
<1>7. ASSUME NEW p \in Workers, ApiStep(p)
      PROVE  LockInv'
    <2>1. CASE CreateOutOfVlans(p) \/ CreateDispatch(p) \/ ApiCrash(p)
        BY <1>6, <2>1 DEF CreateOutOfVlans, CreateDispatch, ApiCrash, Idle
    <2>2. ASSUME NEW n \in NetIds, DeleteRead(p, n)
          PROVE  LockInv'
        <3> DEFINE r == [pc |-> "delete", net |-> n,
                         sawDeleted |-> status[n] = "deleted",
                         sawSubnet |-> subnet[nets[n].subnet] = "allocated",
                         sawVlan |-> vlan[TagOf(n)] = "allocated"]
        <3>1. r.pc \notin {"subnet", "vlan"}
            OBVIOUS
        <3>2. req' = [req EXCEPT ![p] = r] /\ UNCHANGED <<subnet, vlan>>
            BY <2>2 DEF DeleteRead
        <3> HIDE DEF r
        <3> QED
            BY <1>6, <3>1, <3>2
    <2> QED
        BY <1>1, <1>2, <1>3, <1>4, <1>7, <2>1, <2>2 DEF ApiStep
<1>8. CASE \E n \in NetIds : TaskStep(n) \/ WorkerCrash(n)
    BY <1>5, <1>8, TaskWrites DEF WorkerCrash
<1>9. CASE UNCHANGED vars
    BY <1>5, <1>9 DEF vars
<1> QED
    BY <1>7, <1>8, <1>9 DEF Next

-----------------------------------------------------------------------------
(* The two pools.  Both are used the same way, so the invariant is stated   *)
(* once for a kind of row: the /24 rows and the VLAN tags.                  *)

Kinds == {"subnet", "tag"}
Rows(kind) == IF kind = "subnet" THEN Subnets ELSE Tags
Pool(kind) == IF kind = "subnet" THEN subnet ELSE vlan
Item(kind, n) == IF kind = "subnet" THEN nets[n].subnet ELSE TagOf(n)
Saw(kind, p) == IF kind = "subnet" THEN req[p].sawSubnet ELSE req[p].sawVlan

Holds(kind, n, x) == Live(n) /\ Item(kind, n) = x
Deletes(p, n) == req[p].pc = "delete" /\ req[p].net = n

\* Some row holds an allocated x whose deletion, if it is under way, will
\* free x: the reason why no deletion can leave x allocated and unheld.
Held(kind, x) ==
    \E n \in NetIds : /\ Holds(kind, n, x)
                      /\ \A p \in Workers : Deletes(p, n) => Saw(kind, p)

\* As long as every deletion of a holder of x stayed final: x has at most
\* one holder, none when it is free, and a deletion of the holder has seen
\* x allocated and its network not yet deleted.
Final(kind, x) ==
    /\ Pool(kind)[x] = "free" => \A n \in NetIds : ~Holds(kind, n, x)
    /\ \A m, n \in NetIds : Holds(kind, m, x) /\ Holds(kind, n, x) => m = n
    /\ \A n \in NetIds : \A p \in Workers :
          Holds(kind, n, x) /\ Deletes(p, n) => Saw(kind, p) /\ ~req[p].sawDeleted

Tainted(kind, x) == \E k \in reopened : Item(kind, k) = x

PoolInv ==
    \A kind \in Kinds : \A x \in Rows(kind) :
        /\ Pool(kind)[x] = "allocated" => Held(kind, x)
        /\ Tainted(kind, x) \/ Final(kind, x)

IInv == TypeInv /\ LockInv /\ PoolInv

\* A row keeps its item, so a tainted item stays tainted.
LEMMA ItemKept ==
    ASSUME NEW kind \in Kinds, NEW n \in NetIds, nets'[n] = nets[n]
    PROVE  Item(kind, n)' = Item(kind, n)
BY DEF Item, TagOf

LEMMA ItemTyped ==
    ASSUME TypeInv, NEW kind \in Kinds, NEW n \in NetIds, Exists(n), ~nets[n].default
    PROVE  Item(kind, n) \in Rows(kind)
BY DEF TypeInv, WellFormed, Row, Item, TagOf, Rows, Tags

LEMMA PoolTyped ==
    ASSUME TypeInv, NEW kind \in Kinds
    PROVE  Pool(kind) \in [Rows(kind) -> {"free", "allocated"}]
BY DEF TypeInv, TypeOK, Pool, Rows

LEMMA InitPool == Init => PoolInv
<1> SUFFICES ASSUME Init, NEW kind \in Kinds, NEW x \in Rows(kind)
             PROVE  /\ Pool(kind)[x] = "allocated" => Held(kind, x)
                    /\ Final(kind, x)
    BY DEF PoolInv
<1>1. TypeInv
    BY InitTyped
<1>2. \A n \in NetIds : Live(n) <=> \E t \in Tenants : DefaultNet[t] = n
    BY DEF Init, Live, LiveStatus
<1>3. ASSUME NEW t \in Tenants
      PROVE  /\ DefaultNet[t] \in NetIds
             /\ nets[DefaultNet[t]].subnet = DefaultSubnet[t]
             /\ nets[DefaultNet[t]].vlan = None
    <2>1. DefaultNet[t] \in NetIds /\ \E u \in Tenants : DefaultNet[u] = DefaultNet[t]
        BY NetworksAssumption
    <2>2. \A u \in Tenants : DefaultNet[u] = DefaultNet[t] => u = t
        BY NetworksAssumption
    <2>3. (CHOOSE u \in Tenants : DefaultNet[u] = DefaultNet[t]) = t
        BY <2>2
    <2>4. nets[DefaultNet[t]] = [tenant |-> t, pod |-> PodOf[t], subnet |-> DefaultSubnet[t],
                                 vlan |-> None, default |-> TRUE]
        BY <2>1, <2>3 DEF Init
    <2> QED
        BY <2>1, <2>4
<1>4. \A p \in Workers : req[p].pc # "delete"
    BY DEF Init, Idle
<1>5. CASE kind = "subnet"
    <2>1. \A t \in Tenants : Holds(kind, DefaultNet[t], DefaultSubnet[t])
        <3> SUFFICES ASSUME NEW t \in Tenants
                     PROVE  Holds(kind, DefaultNet[t], DefaultSubnet[t])
            OBVIOUS
        <3>1. Live(DefaultNet[t])
            BY <1>2, <1>3
        <3>2. nets[DefaultNet[t]].subnet = DefaultSubnet[t]
            BY <1>3
        <3> QED
            BY <1>5, <3>1, <3>2 DEF Holds, Item
    <2>2. ASSUME NEW n \in NetIds, Holds(kind, n, x)
          PROVE  \E t \in Tenants : n = DefaultNet[t] /\ x = DefaultSubnet[t]
        <3>1. PICK t \in Tenants : DefaultNet[t] = n
            BY <1>2, <2>2 DEF Holds
        <3> QED
            BY <1>5, <2>1, <2>2, <3>1 DEF Holds
    <2>3. Pool(kind)[x] = IF \E t \in Tenants : DefaultSubnet[t] = x
                          THEN "allocated" ELSE "free"
        BY <1>5 DEF Init, Pool, Rows
    <2>4. Pool(kind)[x] = "allocated" => \E n \in NetIds : Holds(kind, n, x)
        BY <1>3, <2>1, <2>3
    <2>5. Pool(kind)[x] = "free" => \A n \in NetIds : ~Holds(kind, n, x)
        BY <2>2, <2>3
    <2>6. \A m, n \in NetIds : Holds(kind, m, x) /\ Holds(kind, n, x) => m = n
        <3> SUFFICES ASSUME NEW m \in NetIds, NEW n \in NetIds,
                            Holds(kind, m, x), Holds(kind, n, x)
                     PROVE  m = n
            OBVIOUS
        <3>1. PICK t \in Tenants : m = DefaultNet[t] /\ x = DefaultSubnet[t]
            BY <2>2
        <3>2. PICK u \in Tenants : n = DefaultNet[u] /\ x = DefaultSubnet[u]
            BY <2>2
        <3> QED
            BY <3>1, <3>2, NetworksAssumption
    <2> QED
        BY <1>4, <2>4, <2>5, <2>6 DEF Held, Final, Deletes
<1>6. CASE kind = "tag"
    <2>1. Pool(kind)[x] = "free"
        BY <1>6 DEF Init, Pool, Rows
    <2>2. \A n \in NetIds : ~Holds(kind, n, x)
        <3>0. SUFFICES ASSUME NEW n \in NetIds, Holds(kind, n, x)
                       PROVE  FALSE
            OBVIOUS
        <3>1. PICK t \in Tenants : DefaultNet[t] = n
            BY <1>2, <3>0 DEF Holds
        <3>2. nets[n].vlan = None
            <4>1. nets[DefaultNet[t]].vlan = None
                BY <1>3
            <4> QED
                BY <3>1, <4>1
        <3>3. x = <<nets[n].pod, None>>
            BY <1>6, <3>0, <3>2 DEF Holds, Item, TagOf
        <3> QED
            BY <1>6, <3>3, NetworksAssumption DEF Rows, Tags
    <2> QED
        BY <1>4, <2>1, <2>2 DEF Final
<1> QED
    BY <1>5, <1>6 DEF Kinds

\* A step of a task: rows live before are live after, and a row that came
\* back to life is in reopened.
LEMMA TaskPool ==
    ASSUME IInv, StatusWritten, UNCHANGED <<subnet, vlan, req>>
    PROVE  PoolInv'
<1> SUFFICES ASSUME NEW kind \in Kinds, NEW x \in Rows(kind)
             PROVE  /\ Pool(kind)'[x] = "allocated" => Held(kind, x)'
                    /\ Tainted(kind, x)' \/ Final(kind, x)'
    BY DEF PoolInv, Rows
<1>1. /\ Pool(kind)' = Pool(kind)
      /\ \A n \in NetIds : Item(kind, n)' = Item(kind, n)
      /\ \A p \in Workers : Saw(kind, p)' = Saw(kind, p)
      /\ \A p \in Workers, n \in NetIds : Deletes(p, n)' <=> Deletes(p, n)
      /\ req' = req
    BY ItemKept DEF StatusWritten, Pool, Saw, Deletes
<1>2. /\ \A n \in NetIds : Live(n) => Live(n)'
      /\ \A n \in NetIds : Live(n)' => Live(n) \/ n \in reopened'
      /\ reopened \subseteq reopened'
      /\ reopened' \subseteq NetIds
    <2>1. CASE UNCHANGED <<status, reopened>>
        BY <2>1 DEF Live, IInv, TypeInv, TypeOK
    <2>2. CASE ~UNCHANGED <<status, reopened>>
        <3>1. PICK m \in NetIds, new \in LiveStatus :
                  /\ Exists(m)
                  /\ status' = [status EXCEPT ![m] = new]
                  /\ reopened' = IF status[m] = "deleted" THEN reopened \cup {m} ELSE reopened
            BY <2>2 DEF StatusWritten
        <3> QED
            BY <3>1 DEF Live, Exists, LiveStatus, IInv, TypeInv, TypeOK
    <2> QED
        BY <2>1, <2>2
<1>3. /\ \A n \in NetIds : Holds(kind, n, x) => Holds(kind, n, x)'
      /\ Tainted(kind, x) => Tainted(kind, x)'
      /\ ~Tainted(kind, x)' => \A n \in NetIds : Holds(kind, n, x)' => Holds(kind, n, x)
    BY <1>1, <1>2 DEF Holds, Tainted, IInv, TypeInv, TypeOK
<1>4. /\ Pool(kind)[x] = "allocated" => Held(kind, x)
      /\ Tainted(kind, x) \/ Final(kind, x)
    BY DEF IInv, PoolInv
<1>5. Held(kind, x) => Held(kind, x)'
    BY <1>1, <1>3 DEF Held
<1>6. ASSUME Final(kind, x), ~Tainted(kind, x)'
      PROVE  Final(kind, x)'
    BY <1>1, <1>3, <1>6 DEF Final
<1> QED
    BY <1>1, <1>3, <1>4, <1>5, <1>6

LEMMA CommitPool ==
    ASSUME IInv, NEW p \in Workers, CreateCommit(p)
    PROVE  PoolInv'
<1> SUFFICES ASSUME NEW kind \in Kinds, NEW x \in Rows(kind)
             PROVE  /\ Pool(kind)'[x] = "allocated" => Held(kind, x)'
                    /\ Tainted(kind, x)' \/ Final(kind, x)'
    BY DEF PoolInv, Rows
<1> USE DEF IInv
<1> DEFINE y == IF kind = "subnet" THEN req[p].subnet
                ELSE <<PodOf[req[p].tenant], req[p].vlan>>
<1>1. PICK n \in NetIds :
          /\ ~Exists(n)
          /\ req[p] \in CreateFullReq
          /\ status' = [status EXCEPT ![n] = "pending"]
          /\ nets' = [nets EXCEPT ![n] = nets'[n]]
          /\ nets'[n] = [tenant |-> req[p].tenant, pod |-> PodOf[req[p].tenant],
                         subnet |-> req[p].subnet, vlan |-> req[p].vlan, default |-> FALSE]
          /\ nets'[n] \in Row
          /\ req' = [req EXCEPT ![p] = [pc |-> "dispatch", net |-> n]]
    BY CommitRow
<1>2. /\ subnet' = [subnet EXCEPT ![req[p].subnet] = "allocated"]
      /\ vlan' = [vlan EXCEPT ![<<PodOf[req[p].tenant], req[p].vlan>>] = "allocated"]
      /\ req[p].pc = "vlan" /\ reopened' = reopened
    BY DEF CreateCommit
<1>3. Item(kind, n)' = y
    BY <1>1 DEF Item, TagOf
<1>4. Pool(kind)' = [Pool(kind) EXCEPT ![y] = "allocated"] /\ Pool(kind)[y] = "free"
    BY <1>2 DEF Pool, LockInv, Creating
<1> HIDE DEF y
<1>5. \A k \in NetIds : k # n => nets'[k] = nets[k]
    BY <1>1 DEF TypeInv, TypeOK
<1>6. \A k \in NetIds : k # n => Item(kind, k)' = Item(kind, k)
    BY <1>5, ItemKept
<1>7. ~Live(n) /\ Live(n)' /\ \A k \in NetIds : k # n => (Live(k)' <=> Live(k))
    BY <1>1 DEF Live, Exists, LiveStatus, TypeInv, TypeOK
<1>8. \A k \in NetIds : Holds(kind, k, x)' <=> (IF k = n THEN y = x ELSE Holds(kind, k, x))
    BY <1>3, <1>6, <1>7 DEF Holds
<1>9. ASSUME NEW q \in Workers, NEW k \in NetIds, Deletes(q, k)'
      PROVE  k # n /\ Deletes(q, k) /\ (Saw(kind, q)' <=> Saw(kind, q)) /\ req'[q] = req[q]
    <2>1. q # p /\ req'[q] = req[q]
        BY <1>1, <1>9 DEF Deletes, TypeInv, TypeOK
    <2>2. Deletes(q, k)
        BY <1>9, <2>1 DEF Deletes
    <2>3. Exists(k)
        BY <2>2 DEF Deletes, TypeInv, WellFormed
    <2> QED
        BY <1>1, <2>1, <2>2, <2>3 DEF Saw
<1>10. Pool(kind) \in [Rows(kind) -> {"free", "allocated"}]
    BY PoolTyped
<1>11. Tainted(kind, x)' <=> Tainted(kind, x)
    <2>1. \A k \in reopened : k \in NetIds /\ k # n
        BY <1>1 DEF TypeInv, TypeOK, WellFormed
    <2> QED
        BY <1>2, <1>6, <2>1 DEF Tainted
<1>12. /\ Pool(kind)[x] = "allocated" => Held(kind, x)
       /\ Tainted(kind, x) \/ Final(kind, x)
    BY DEF PoolInv
<1>13. CASE x = y
    <2>1. Held(kind, x)'
        BY <1>8, <1>9, <1>13 DEF Held
    <2>2. Pool(kind)'[x] = "allocated"
        BY <1>4, <1>10, <1>13
    <2>3. ASSUME Final(kind, x)
          PROVE  Final(kind, x)'
        <3>1. \A k \in NetIds : ~Holds(kind, k, x)
            BY <1>4, <1>13, <2>3 DEF Final
        <3>2. \A k \in NetIds : Holds(kind, k, x)' <=> k = n
            BY <1>8, <1>13, <3>1
        <3> QED
            BY <1>9, <2>2, <3>2 DEF Final
    <2> QED
        BY <1>11, <1>12, <2>1, <2>3
<1>14. CASE x # y
    <2>1. \A k \in NetIds : Holds(kind, k, x)' <=> Holds(kind, k, x)
        BY <1>7, <1>8, <1>14 DEF Holds
    <2>2. Pool(kind)'[x] = Pool(kind)[x]
        BY <1>4, <1>10, <1>14
    <2>3. ASSUME Held(kind, x)
          PROVE  Held(kind, x)'
        BY <1>9, <2>1, <2>3 DEF Held
    <2>4. ASSUME Final(kind, x)
          PROVE  Final(kind, x)'
        BY <1>9, <2>1, <2>2, <2>4 DEF Final
    <2> QED
        BY <1>11, <1>12, <2>2, <2>3, <2>4
<1> QED
    BY <1>13, <1>14

LEMMA DeletePool ==
    ASSUME IInv, NEW p \in Workers, DeleteCommit(p)
    PROVE  PoolInv'
<1> SUFFICES ASSUME NEW kind \in Kinds, NEW x \in Rows(kind)
             PROVE  /\ Pool(kind)'[x] = "allocated" => Held(kind, x)'
                    /\ Tainted(kind, x)' \/ Final(kind, x)'
    BY DEF PoolInv, Rows
<1> USE DEF IInv
<1>0. PICK n \in NetIds : n = req[p].net
    BY DeleteShape DEF DeleteCommit
<1>1. Exists(n) /\ ~nets[n].default /\ req[p] \in DeleteReq /\ Deletes(p, n)
    BY <1>0, DeleteShape DEF DeleteCommit, Deletes
<1>2. /\ status' = IF req[p].sawDeleted THEN status ELSE [status EXCEPT ![n] = "deleted"]
      /\ reopened' = IF ~Live(n) /\ (req[p].sawSubnet \/ req[p].sawVlan)
                     THEN reopened \cup {n} ELSE reopened
      /\ req' = [req EXCEPT ![p] = Idle]
      /\ nets' = nets
    BY <1>0 DEF DeleteCommit
<1>3. Pool(kind)' = IF Saw(kind, p) THEN [Pool(kind) EXCEPT ![Item(kind, n)] = "free"]
                                    ELSE Pool(kind)
    BY <1>0 DEF DeleteCommit, Pool, Saw, Item
<1>4. Saw(kind, p) => req[p].sawSubnet \/ req[p].sawVlan
    BY DEF Saw
<1>5. \A k \in NetIds : Item(kind, k)' = Item(kind, k)
    BY <1>2, ItemKept
<1>6. \A k \in NetIds : /\ k # n => (Live(k)' <=> Live(k))
                        /\ Live(k)' => Live(k)
    BY <1>2 DEF Live, LiveStatus, TypeInv, TypeOK
<1>7. \A k \in NetIds : /\ k # n => (Holds(kind, k, x)' <=> Holds(kind, k, x))
                        /\ Holds(kind, k, x)' => Holds(kind, k, x)
    BY <1>5, <1>6 DEF Holds
<1>8. ASSUME NEW q \in Workers, NEW k \in NetIds, Deletes(q, k)'
      PROVE  Deletes(q, k) /\ (Saw(kind, q)' <=> Saw(kind, q)) /\ req'[q] = req[q]
    <2>1. q # p /\ req'[q] = req[q]
        BY <1>2, <1>8 DEF Deletes, Idle, TypeInv, TypeOK
    <2> QED
        BY <1>8, <2>1 DEF Deletes, Saw
<1>9. Pool(kind) \in [Rows(kind) -> {"free", "allocated"}] /\ Item(kind, n) \in Rows(kind)
    BY <1>1, PoolTyped, ItemTyped
<1>10. Tainted(kind, x) => Tainted(kind, x)'
    BY <1>2, <1>5 DEF Tainted, TypeInv, TypeOK
<1>11. /\ Pool(kind)[x] = "allocated" => Held(kind, x)
       /\ Tainted(kind, x) \/ Final(kind, x)
    BY DEF PoolInv
<1>12. ASSUME Pool(kind)'[x] = "allocated"
       PROVE  Held(kind, x)'
    <2>1. Pool(kind)[x] = "allocated" /\ (Saw(kind, p) => Item(kind, n) # x)
        BY <1>3, <1>9, <1>12
    <2>2. PICK k \in NetIds : /\ Holds(kind, k, x)
                              /\ \A q \in Workers : Deletes(q, k) => Saw(kind, q)
        BY <1>11, <2>1 DEF Held
    <2>3. k # n
        BY <1>1, <2>1, <2>2 DEF Holds
    <2> QED
        BY <1>7, <1>8, <2>2, <2>3 DEF Held
<1>13. ASSUME Final(kind, x), ~Tainted(kind, x)'
       PROVE  Final(kind, x)'
    <2>1. /\ \A k, m \in NetIds : Holds(kind, k, x)' /\ Holds(kind, m, x)' => k = m
          /\ \A k \in NetIds : \A q \in Workers :
                Holds(kind, k, x)' /\ Deletes(q, k)' => Saw(kind, q)' /\ ~req'[q].sawDeleted
        BY <1>7, <1>8, <1>13 DEF Final
    <2>2. ASSUME Pool(kind)'[x] = "free", NEW k \in NetIds, Holds(kind, k, x)'
          PROVE  FALSE
        <3>1. Holds(kind, k, x)
            BY <1>7, <2>2
        <3>2. Saw(kind, p) /\ Item(kind, n) = x
            BY <1>3, <1>9, <1>13, <2>2, <3>1 DEF Final
        <3>3. Live(n)
            BY <1>2, <1>4, <1>5, <1>13, <3>2 DEF Tainted
        <3>4. k = n /\ ~req[p].sawDeleted
            BY <1>1, <1>13, <3>1, <3>2, <3>3 DEF Final, Holds
        <3>5. ~Live(n)'
            <4>1. status'[n] = "deleted"
                BY <1>1, <1>2, <3>4 DEF TypeInv, TypeOK
            <4> QED
                BY <4>1 DEF Live, LiveStatus
        <3> QED
            BY <2>2, <3>4, <3>5 DEF Holds
    <2> QED
        BY <2>1, <2>2 DEF Final
<1> QED
    BY <1>10, <1>11, <1>12, <1>13

\* A step of a request that touches no row.
LEMMA RequestPool ==
    ASSUME IInv, NEW p \in Workers, NEW r,
           req' = [req EXCEPT ![p] = r],
           UNCHANGED <<subnet, vlan, status, nets, reopened>>,
           r.pc = "delete" =>
               /\ r.net \in NetIds
               /\ r.sawSubnet <=> subnet[nets[r.net].subnet] = "allocated"
               /\ r.sawVlan <=> vlan[TagOf(r.net)] = "allocated"
               /\ r.sawDeleted <=> status[r.net] = "deleted"
    PROVE  PoolInv'
<1> SUFFICES ASSUME NEW kind \in Kinds, NEW x \in Rows(kind)
             PROVE  /\ Pool(kind)'[x] = "allocated" => Held(kind, x)'
                    /\ Tainted(kind, x)' \/ Final(kind, x)'
    BY DEF PoolInv, Rows
<1>1. /\ Pool(kind)' = Pool(kind)
      /\ \A n \in NetIds : Item(kind, n)' = Item(kind, n)
      /\ \A n \in NetIds : Holds(kind, n, x)' <=> Holds(kind, n, x)
      /\ Tainted(kind, x)' <=> Tainted(kind, x)
    BY ItemKept DEF Pool, Holds, Live, Tainted, IInv, TypeInv, TypeOK
<1>2. \A q \in Workers : req'[q] = IF q = p THEN r ELSE req[q]
    BY DEF IInv, TypeInv, TypeOK
<1>3. ASSUME NEW q \in Workers, NEW n \in NetIds, Deletes(q, n)', q # p
      PROVE  /\ Deletes(q, n)
             /\ Saw(kind, q)' = Saw(kind, q)
             /\ req'[q].sawDeleted = req[q].sawDeleted
    BY <1>2, <1>3 DEF Deletes, Saw
<1>4. ASSUME NEW n \in NetIds, Deletes(p, n)', Holds(kind, n, x)
      PROVE  /\ Saw(kind, p)' <=> Pool(kind)[x] = "allocated"
             /\ ~req'[p].sawDeleted
    <2>1. req'[p] = r /\ r.net = n /\ r.pc = "delete"
        BY <1>2, <1>4 DEF Deletes
    <2>2. ~req'[p].sawDeleted
        BY <1>4, <2>1 DEF Holds, Live, LiveStatus
    <2>3. CASE kind = "subnet"
        BY <1>4, <2>1, <2>2, <2>3 DEF Holds, Item, Saw, Pool
    <2>4. CASE kind = "tag"
        BY <1>4, <2>1, <2>2, <2>4 DEF Holds, Item, Saw, Pool
    <2> QED
        BY <2>3, <2>4 DEF Kinds
<1>5. /\ Pool(kind)[x] = "allocated" => Held(kind, x)
      /\ Tainted(kind, x) \/ Final(kind, x)
    BY DEF IInv, PoolInv
<1>6. Pool(kind)[x] \in {"free", "allocated"}
    BY PoolTyped DEF IInv
<1>7. ASSUME Pool(kind)[x] = "allocated"
      PROVE  Held(kind, x)'
    <2>1. PICK n \in NetIds : /\ Holds(kind, n, x)
                              /\ \A q \in Workers : Deletes(q, n) => Saw(kind, q)
        BY <1>5, <1>7 DEF Held
    <2>2. \A q \in Workers : Deletes(q, n)' => Saw(kind, q)'
        BY <1>3, <1>4, <1>7, <2>1
    <2> QED
        BY <1>1, <2>1, <2>2 DEF Held
<1>8. ASSUME Final(kind, x)
      PROVE  Final(kind, x)'
    <2>1. \A n \in NetIds : \A q \in Workers :
              Holds(kind, n, x) /\ Deletes(q, n)' => Saw(kind, q)' /\ ~req'[q].sawDeleted
        BY <1>3, <1>4, <1>6, <1>8 DEF Final
    <2> QED
        BY <1>1, <1>8, <2>1 DEF Final
<1> QED
    BY <1>1, <1>5, <1>7, <1>8

LEMMA PoolStep == IInv /\ [Next]_vars => PoolInv'
<1> SUFFICES ASSUME IInv, [Next]_vars PROVE PoolInv'
    OBVIOUS
<1>1. ASSUME NEW p \in Workers, NEW r, r.pc # "delete",
             req' = [req EXCEPT ![p] = r], UNCHANGED <<subnet, vlan, netVars, reopened>>
      PROVE  PoolInv'
    BY <1>1, RequestPool DEF netVars
<1>2. ASSUME NEW p \in Workers, ApiStep(p)
      PROVE  PoolInv'
    <2>1. ASSUME NEW t \in Tenants, CreateTakeSubnet(p, t)
          PROVE  PoolInv'
        <3>1. PICK s : req' = [req EXCEPT ![p] = [pc |-> "subnet", tenant |-> t, subnet |-> s]]
            BY <2>1 DEF CreateTakeSubnet
        <3> QED
            BY <1>1, <2>1, <3>1 DEF CreateTakeSubnet
    <2>2. CASE CreateTakeVlan(p)
        <3>1. PICK v : req' = [req EXCEPT ![p] = [pc |-> "vlan", tenant |-> req[p].tenant,
                                                  subnet |-> req[p].subnet, vlan |-> v]]
            BY <2>2 DEF CreateTakeVlan
        <3> DEFINE r == [pc |-> "vlan", tenant |-> req[p].tenant,
                         subnet |-> req[p].subnet, vlan |-> v]
        <3>2. r.pc # "delete" /\ req' = [req EXCEPT ![p] = r]
            BY <3>1
        <3> HIDE DEF r
        <3> QED
            BY <1>1, <2>2, <3>2 DEF CreateTakeVlan
    <2>3. CASE CreateOutOfVlans(p) \/ CreateDispatch(p) \/ ApiCrash(p)
        BY <1>1, <2>3 DEF CreateOutOfVlans, CreateDispatch, ApiCrash, Idle
    <2>4. ASSUME NEW n \in NetIds, DeleteRead(p, n)
          PROVE  PoolInv'
        <3> DEFINE r == [pc |-> "delete", net |-> n,
                         sawDeleted |-> status[n] = "deleted",
                         sawSubnet |-> subnet[nets[n].subnet] = "allocated",
                         sawVlan |-> vlan[TagOf(n)] = "allocated"]
        <3>1. /\ r.pc = "delete" /\ r.net = n
              /\ r.sawSubnet <=> subnet[nets[n].subnet] = "allocated"
              /\ r.sawVlan <=> vlan[TagOf(n)] = "allocated"
              /\ r.sawDeleted <=> status[n] = "deleted"
            OBVIOUS
        <3>2. req' = [req EXCEPT ![p] = r] /\ UNCHANGED <<subnet, vlan, status, nets, reopened>>
            BY <2>4 DEF DeleteRead, netVars
        <3> HIDE DEF r
        <3> QED
            BY <3>1, <3>2, RequestPool
    <2> QED
        BY <1>2, <2>1, <2>2, <2>3, <2>4, CommitPool, DeletePool DEF ApiStep
<1>3. ASSUME NEW n \in NetIds, TaskStep(n)
      PROVE  PoolInv'
    BY <1>3, TaskWrites, TaskPool DEF IInv
<1>4. ASSUME NEW n \in NetIds, WorkerCrash(n)
      PROVE  PoolInv'
    BY <1>4, TaskPool DEF WorkerCrash, StatusWritten, netVars
<1>5. CASE UNCHANGED vars
    BY <1>5, TaskPool DEF vars, StatusWritten
<1> QED
    BY <1>2, <1>3, <1>4, <1>5 DEF Next

LEMMA Invariance == Spec => []IInv
<1>1. Init => IInv
    BY InitTyped, InitLock, InitPool DEF IInv
<1>2. IInv /\ [Next]_vars => IInv'
    BY StepTyped, LockStep, PoolStep DEF IInv
<1> QED
    BY <1>1, <1>2, PTL DEF Spec

\* No /24 and no VLAN tag is lost: an allocated pool row is held by a live
\* network (services/ipam.py, create_network, delete_network).
THEOREM NoRowLeaks == Spec => []NoLeak
<1>1. ASSUME IInv PROVE NoLeak
    <2>1. ASSUME NEW kind \in Kinds, NEW x \in Rows(kind), Pool(kind)[x] = "allocated"
          PROVE  \E n \in NetIds : Holds(kind, n, x)
        BY <1>1, <2>1 DEF IInv, PoolInv, Held
    <2>2. ASSUME NEW s \in Subnets, subnet[s] = "allocated"
          PROVE  \E n \in NetIds : Live(n) /\ nets[n].subnet = s
        <3>1. "subnet" \in Kinds /\ s \in Rows("subnet") /\ Pool("subnet")[s] = "allocated"
            BY <2>2 DEF Kinds, Rows, Pool
        <3>2. \E n \in NetIds : Holds("subnet", n, s)
            BY <2>1, <3>1
        <3> QED
            BY <3>2 DEF Holds, Item
    <2>3. ASSUME NEW x \in Tags, vlan[x] = "allocated"
          PROVE  \E n \in NetIds : Live(n) /\ TagOf(n) = x
        <3>1. "tag" \in Kinds /\ x \in Rows("tag") /\ Pool("tag")[x] = "allocated"
            BY <2>3 DEF Kinds, Rows, Pool
        <3>2. \E n \in NetIds : Holds("tag", n, x)
            BY <2>1, <3>1
        <3> QED
            BY <3>2 DEF Holds, Item
    <2> QED
        BY <2>2, <2>3 DEF NoLeak
<1> QED
    BY <1>1, Invariance, PTL

\* Two live networks share a /24 or a tag only through a deletion that did
\* not stay final (delete_network:145-176, workers/tasks/vlan.py:279, 401).
THEOREM RowsExclusive == Spec => []ExclusiveUnlessReopened
<1>1. ASSUME IInv PROVE ExclusiveUnlessReopened
    <2>1. ASSUME NEW kind \in Kinds, NEW m \in NetIds, NEW n \in NetIds, m # n,
                 Live(m), Live(n), Item(kind, m) = Item(kind, n),
                 Item(kind, m) \in Rows(kind)
          PROVE  \E k \in reopened : Item(kind, k) = Item(kind, m)
        BY <1>1, <2>1 DEF IInv, PoolInv, Final, Holds, Tainted
    <2>2. SUFFICES ASSUME NEW m \in NetIds, NEW n \in NetIds, m # n, Live(m), Live(n)
                   PROVE  /\ nets[m].subnet = nets[n].subnet =>
                                \E k \in reopened : nets[k].subnet = nets[m].subnet
                          /\ ~nets[m].default /\ TagOf(m) = TagOf(n) =>
                                \E k \in reopened : TagOf(k) = TagOf(m)
        BY DEF ExclusiveUnlessReopened
    <2>3. Exists(m)
        BY <2>2 DEF Live, LiveStatus, Exists
    <2>4. ASSUME nets[m].subnet = nets[n].subnet
          PROVE  \E k \in reopened : nets[k].subnet = nets[m].subnet
        <3>1. nets[m].subnet \in Subnets
            BY <1>1, <2>3 DEF IInv, TypeInv, WellFormed, Row
        <3>2. "subnet" \in Kinds /\ Item("subnet", m) = Item("subnet", n)
              /\ Item("subnet", m) \in Rows("subnet")
            BY <2>4, <3>1 DEF Kinds, Item, Rows
        <3>3. \E k \in reopened : Item("subnet", k) = Item("subnet", m)
            BY <2>1, <2>2, <3>2
        <3> QED
            BY <3>3 DEF Item
    <2>5. ASSUME ~nets[m].default, TagOf(m) = TagOf(n)
          PROVE  \E k \in reopened : TagOf(k) = TagOf(m)
        <3>1. "tag" \in Kinds /\ Item("tag", m) = Item("tag", n)
            BY <2>5 DEF Kinds, Item
        <3>2. Item("tag", m) \in Rows("tag")
            BY <1>1, <2>3, <2>5, <3>1, ItemTyped DEF IInv
        <3>3. \E k \in reopened : Item("tag", k) = Item("tag", m)
            BY <2>1, <2>2, <3>1, <3>2
        <3> QED
            BY <3>3 DEF Item
    <2> QED
        BY <2>4, <2>5
<1> QED
    BY <1>1, Invariance, PTL
-----------------------------------------------------------------------------
(* Both pools implement Leases.  The abstract variables and the abstract    *)
(* next-state relation for a kind of row.                                   *)

FreeOf(kind) == {x \in Rows(kind) : Pool(kind)[x] = "free"}
HoldersOf(kind) == [x \in Rows(kind) |-> {n \in NetIds : Holds(kind, n, x)}]
SpoiltOf(kind) == {x \in Rows(kind) : Tainted(kind, x)}

\* The next-state relation of Leases, as a relation between values: R are the
\* rows, and F, H and S what the step makes of f, h and s.
Step(R, f, F, h, H, s, S) ==
    \/ \E x \in R \ s :
          \/ /\ x \notin f
             /\ F = f \cup {x}
             /\ H = [h EXCEPT ![x] = {}]
             /\ S = s
          \/ \E u \in NetIds :
             /\ x \in f
             /\ F = f \ {x}
             /\ H = [h EXCEPT ![x] = {u}]
             /\ S = s
    \/ /\ s \subseteq S /\ S \subseteq R
       /\ F \subseteq R /\ H \in [R -> SUBSET NetIds]
       /\ \A x \in R \ S : (x \in F <=> x \in f) /\ H[x] = h[x]
       /\ \A x \in R \ F : H[x] # {}

PoolNext(kind) ==
    Step(Rows(kind), FreeOf(kind), FreeOf(kind)', HoldersOf(kind), HoldersOf(kind)',
         SpoiltOf(kind), SpoiltOf(kind)')

\* A step that changes nothing about rows that are not tainted after it: the
\* rows it may have changed are not lost, by PoolInv after the step.
LEMMA SpoilStep ==
    ASSUME IInv', NEW kind \in Kinds,
           \A x \in Rows(kind) : Tainted(kind, x) => Tainted(kind, x)',
           \A x \in Rows(kind) : ~Tainted(kind, x)' =>
               /\ Pool(kind)'[x] = "free" <=> Pool(kind)[x] = "free"
               /\ \A n \in NetIds : Holds(kind, n, x)' <=> Holds(kind, n, x)
    PROVE  PoolNext(kind)
<1>1. FreeOf(kind)' = {x \in Rows(kind) : Pool(kind)'[x] = "free"}
    BY DEF FreeOf, Rows
<1>2. HoldersOf(kind)' = [x \in Rows(kind) |-> {n \in NetIds : Holds(kind, n, x)'}]
    BY DEF HoldersOf, Rows
<1>3. SpoiltOf(kind)' = {x \in Rows(kind) : Tainted(kind, x)'}
    BY DEF SpoiltOf, Rows
<1>4. \A x \in Rows(kind) : Pool(kind)'[x] # "free" => \E n \in NetIds : Holds(kind, n, x)'
    <2> SUFFICES ASSUME NEW x \in Rows(kind), Pool(kind)'[x] # "free"
                 PROVE  \E n \in NetIds : Holds(kind, n, x)'
        OBVIOUS
    <2>1. Pool(kind)' \in [Rows(kind) -> {"free", "allocated"}]
        BY DEF IInv, TypeInv, TypeOK, Pool, Rows
    <2>2. Pool(kind)'[x] = "allocated"
        BY <2>1
    <2>3. Held(kind, x)'
        BY <2>2 DEF IInv, PoolInv, Rows
    <2> QED
        BY <2>3 DEF Held
<1>5. SpoiltOf(kind) \subseteq SpoiltOf(kind)' /\ SpoiltOf(kind)' \subseteq Rows(kind)
    BY <1>3 DEF SpoiltOf
<1>6. ASSUME NEW x \in Rows(kind) \ SpoiltOf(kind)'
      PROVE  /\ x \in FreeOf(kind)' <=> x \in FreeOf(kind)
             /\ HoldersOf(kind)'[x] = HoldersOf(kind)[x]
    <2>1. ~Tainted(kind, x)'
        BY <1>3, <1>6
    <2> QED
        BY <1>1, <1>2, <1>6, <2>1 DEF FreeOf, HoldersOf
<1>7. \A x \in Rows(kind) \ FreeOf(kind)' : HoldersOf(kind)'[x] # {}
    BY <1>1, <1>2, <1>4
<1> QED
    BY <1>1, <1>2, <1>5, <1>6, <1>7 DEF PoolNext, Step

\* A step of a task: what comes back to life is tainted.
LEMMA TaskLeases ==
    ASSUME IInv, IInv', NEW kind \in Kinds, StatusWritten, UNCHANGED <<subnet, vlan>>
    PROVE  PoolNext(kind)
<1>1. /\ Pool(kind)' = Pool(kind)
      /\ \A n \in NetIds : Item(kind, n)' = Item(kind, n)
    BY ItemKept DEF StatusWritten, Pool
<1>2. /\ \A n \in NetIds : Live(n) => Live(n)'
      /\ \A n \in NetIds : Live(n)' => Live(n) \/ n \in reopened'
      /\ reopened \subseteq reopened'
      /\ reopened \subseteq NetIds
    <2>1. CASE UNCHANGED <<status, reopened>>
        BY <2>1 DEF Live, IInv, TypeInv, TypeOK
    <2>2. CASE ~UNCHANGED <<status, reopened>>
        <3>1. PICK m \in NetIds, new \in LiveStatus :
                  /\ Exists(m)
                  /\ status' = [status EXCEPT ![m] = new]
                  /\ reopened' = IF status[m] = "deleted" THEN reopened \cup {m} ELSE reopened
            BY <2>2 DEF StatusWritten
        <3> QED
            BY <3>1 DEF Live, Exists, LiveStatus, IInv, TypeInv, TypeOK
    <2> QED
        BY <2>1, <2>2
<1>3. ASSUME NEW x \in Rows(kind)
      PROVE  /\ Tainted(kind, x) => Tainted(kind, x)'
             /\ ~Tainted(kind, x)' =>
                   \A n \in NetIds : Holds(kind, n, x)' <=> Holds(kind, n, x)
    BY <1>1, <1>2 DEF Holds, Tainted
<1> QED
    BY <1>1, <1>3, SpoilStep

LEMMA CommitLeases ==
    ASSUME IInv, IInv', NEW kind \in Kinds, NEW p \in Workers, CreateCommit(p)
    PROVE  PoolNext(kind)
<1> USE DEF IInv
<1> DEFINE y == IF kind = "subnet" THEN req[p].subnet
                ELSE <<PodOf[req[p].tenant], req[p].vlan>>
<1>1. PICK n \in NetIds :
          /\ ~Exists(n)
          /\ req[p] \in CreateFullReq
          /\ status' = [status EXCEPT ![n] = "pending"]
          /\ nets' = [nets EXCEPT ![n] = nets'[n]]
          /\ nets'[n] = [tenant |-> req[p].tenant, pod |-> PodOf[req[p].tenant],
                         subnet |-> req[p].subnet, vlan |-> req[p].vlan, default |-> FALSE]
          /\ nets'[n] \in Row
          /\ req' = [req EXCEPT ![p] = [pc |-> "dispatch", net |-> n]]
    BY CommitRow
<1>2. /\ subnet' = [subnet EXCEPT ![req[p].subnet] = "allocated"]
      /\ vlan' = [vlan EXCEPT ![<<PodOf[req[p].tenant], req[p].vlan>>] = "allocated"]
      /\ req[p].pc = "vlan" /\ reopened' = reopened
    BY DEF CreateCommit
<1>3. Item(kind, n)' = y
    BY <1>1 DEF Item, TagOf
<1>4. /\ Pool(kind)' = [Pool(kind) EXCEPT ![y] = "allocated"]
      /\ Pool(kind)[y] = "free" /\ y \in Rows(kind)
    BY <1>1, <1>2, NetworksAssumption DEF Pool, LockInv, Creating, CreateFullReq, Rows, Tags
<1> HIDE DEF y
<1>5. \A k \in NetIds : k # n => Item(kind, k)' = Item(kind, k)
    <2>1. \A k \in NetIds : k # n => nets'[k] = nets[k]
        BY <1>1 DEF TypeInv, TypeOK
    <2> QED
        BY <2>1, ItemKept
<1>6. ~Live(n) /\ Live(n)' /\ \A k \in NetIds : k # n => (Live(k)' <=> Live(k))
    BY <1>1 DEF Live, Exists, LiveStatus, TypeInv, TypeOK
<1>7. \A x \in Rows(kind), k \in NetIds :
          Holds(kind, k, x)' <=> (IF k = n THEN y = x ELSE Holds(kind, k, x))
    BY <1>3, <1>5, <1>6 DEF Holds
<1>8. Pool(kind) \in [Rows(kind) -> {"free", "allocated"}]
    BY PoolTyped
<1>9. \A x \in Rows(kind) : Tainted(kind, x)' <=> Tainted(kind, x)
    <2>1. \A k \in reopened : k \in NetIds /\ k # n
        BY <1>1 DEF TypeInv, TypeOK, WellFormed
    <2> QED
        BY <1>2, <1>5, <2>1 DEF Tainted
<1>10. CASE Tainted(kind, y)
    <2>1. ASSUME NEW x \in Rows(kind), ~Tainted(kind, x)'
          PROVE  /\ Pool(kind)'[x] = "free" <=> Pool(kind)[x] = "free"
                 /\ \A k \in NetIds : Holds(kind, k, x)' <=> Holds(kind, k, x)
        <3>1. x # y
            BY <1>9, <1>10, <2>1
        <3> QED
            BY <1>4, <1>6, <1>7, <1>8, <3>1 DEF Holds
    <2> QED
        BY <1>9, <2>1, SpoilStep
<1>11. CASE ~Tainted(kind, y)
    <2>1. \A k \in NetIds : ~Holds(kind, k, y)
        BY <1>4, <1>11 DEF PoolInv, Final
    <2>2. FreeOf(kind)' = FreeOf(kind) \ {y}
        <3>1. FreeOf(kind)' = {x \in Rows(kind) : Pool(kind)'[x] = "free"}
            BY DEF FreeOf, Rows
        <3> QED
            BY <1>4, <1>8, <3>1 DEF FreeOf
    <2>3. HoldersOf(kind)' = [HoldersOf(kind) EXCEPT ![y] = {n}]
        <3>1. HoldersOf(kind)' = [x \in Rows(kind) |-> {k \in NetIds : Holds(kind, k, x)'}]
            BY DEF HoldersOf, Rows
        <3>2. \A x \in Rows(kind) : {k \in NetIds : Holds(kind, k, x)'}
                  = IF x = y THEN {n} ELSE {k \in NetIds : Holds(kind, k, x)}
            BY <1>6, <1>7, <2>1 DEF Holds
        <3> QED
            BY <3>1, <3>2 DEF HoldersOf
    <2>4. SpoiltOf(kind)' = SpoiltOf(kind)
        <3>1. SpoiltOf(kind)' = {x \in Rows(kind) : Tainted(kind, x)'}
            BY DEF SpoiltOf, Rows
        <3> QED
            BY <1>9, <3>1 DEF SpoiltOf
    <2>5. y \in Rows(kind) \ SpoiltOf(kind) /\ y \in FreeOf(kind)
        BY <1>4, <1>11 DEF SpoiltOf, FreeOf
    <2> QED
        BY <2>2, <2>3, <2>4, <2>5 DEF PoolNext, Step
<1> QED
    BY <1>10, <1>11

LEMMA DeleteLeases ==
    ASSUME IInv, IInv', NEW kind \in Kinds, NEW p \in Workers, DeleteCommit(p)
    PROVE  PoolNext(kind)
<1> USE DEF IInv
<1>0. PICK n \in NetIds : n = req[p].net
    BY DeleteShape DEF DeleteCommit
<1>1. Exists(n) /\ ~nets[n].default /\ req[p] \in DeleteReq /\ Deletes(p, n)
    BY <1>0, DeleteShape DEF DeleteCommit, Deletes
<1> PICK y \in Rows(kind) : y = Item(kind, n)
    BY <1>1, ItemTyped
<1>2. /\ status' = IF req[p].sawDeleted THEN status ELSE [status EXCEPT ![n] = "deleted"]
      /\ reopened' = IF ~Live(n) /\ (req[p].sawSubnet \/ req[p].sawVlan)
                     THEN reopened \cup {n} ELSE reopened
      /\ nets' = nets
    BY <1>0 DEF DeleteCommit
<1>3. Pool(kind)' = IF Saw(kind, p) THEN [Pool(kind) EXCEPT ![y] = "free"] ELSE Pool(kind)
    BY <1>0 DEF DeleteCommit, Pool, Saw, Item
<1>4. Saw(kind, p) => req[p].sawSubnet \/ req[p].sawVlan
    BY DEF Saw
<1>5. \A k \in NetIds : Item(kind, k)' = Item(kind, k)
    BY <1>2, ItemKept
<1>6. /\ \A k \in NetIds : k # n => (Live(k)' <=> Live(k))
      /\ Live(n)' <=> Live(n) /\ req[p].sawDeleted
    BY <1>2 DEF Live, LiveStatus, TypeInv, TypeOK
<1>7. Pool(kind) \in [Rows(kind) -> {"free", "allocated"}]
    BY PoolTyped
<1>8. \A x \in Rows(kind) : Tainted(kind, x) => Tainted(kind, x)'
    BY <1>2, <1>5 DEF Tainted, TypeInv, TypeOK
<1>9. \A x \in Rows(kind), k \in NetIds :
          Holds(kind, k, x)' <=> Holds(kind, k, x) /\ (k # n \/ req[p].sawDeleted)
    BY <1>5, <1>6 DEF Holds
<1>10. \A x \in Rows(kind) : x # y =>
          /\ Pool(kind)'[x] = Pool(kind)[x]
          /\ \A k \in NetIds : Holds(kind, k, x)' <=> Holds(kind, k, x)
    BY <1>3, <1>7, <1>9 DEF Holds
<1>11. CASE Tainted(kind, y)' \/ ~Live(n)
    <2>1. ASSUME NEW x \in Rows(kind), ~Tainted(kind, x)'
          PROVE  /\ Pool(kind)'[x] = "free" <=> Pool(kind)[x] = "free"
                 /\ \A k \in NetIds : Holds(kind, k, x)' <=> Holds(kind, k, x)
        <3>1. CASE x # y
            BY <1>10, <3>1
        <3>2. CASE x = y
            <4>1. ~Live(n) /\ n \notin reopened'
                BY <1>5, <1>11, <2>1, <3>2 DEF Tainted
            <4>2. ~Saw(kind, p)
                BY <1>2, <1>4, <4>1
            <4> QED
                BY <1>3, <1>9, <4>1, <4>2 DEF Holds
        <3> QED
            BY <3>1, <3>2
    <2> QED
        BY <1>8, <2>1, SpoilStep
<1>12. CASE ~Tainted(kind, y)' /\ Live(n)
    <2>1. ~Tainted(kind, y) /\ Holds(kind, n, y)
        BY <1>7, <1>8, <1>12 DEF Holds
    <2>2. Final(kind, y)
        BY <1>7, <2>1 DEF PoolInv
    <2>3. Saw(kind, p) /\ ~req[p].sawDeleted /\ Pool(kind)[y] # "free"
        BY <1>1, <2>1, <2>2 DEF Final
    <2>4. \A k \in NetIds : ~Holds(kind, k, y)'
        BY <1>7, <1>9, <2>1, <2>2, <2>3 DEF Final
    <2>5. FreeOf(kind)' = FreeOf(kind) \cup {y}
        <3>1. FreeOf(kind)' = {x \in Rows(kind) : Pool(kind)'[x] = "free"}
            BY DEF FreeOf, Rows
        <3> QED
            BY <1>3, <1>7, <2>3, <3>1 DEF FreeOf
    <2>6. HoldersOf(kind)' = [HoldersOf(kind) EXCEPT ![y] = {}]
        <3>1. HoldersOf(kind)' = [x \in Rows(kind) |-> {k \in NetIds : Holds(kind, k, x)'}]
            BY DEF HoldersOf, Rows
        <3>2. \A x \in Rows(kind) : {k \in NetIds : Holds(kind, k, x)'}
                  = IF x = y THEN {} ELSE {k \in NetIds : Holds(kind, k, x)}
            BY <1>10, <2>4
        <3> QED
            BY <3>1, <3>2 DEF HoldersOf
    <2>7. SpoiltOf(kind)' = SpoiltOf(kind)
        <3>1. SpoiltOf(kind)' = {x \in Rows(kind) : Tainted(kind, x)'}
            BY DEF SpoiltOf, Rows
        <3>2. reopened' = reopened
            BY <1>2, <1>12
        <3>3. reopened \subseteq NetIds
            BY DEF TypeInv, TypeOK
        <3>4. \A x \in Rows(kind) : Tainted(kind, x)' <=> Tainted(kind, x)
            BY <1>5, <3>2, <3>3 DEF Tainted
        <3> QED
            BY <3>1, <3>4 DEF SpoiltOf
    <2>8. y \in Rows(kind) \ SpoiltOf(kind) /\ y \notin FreeOf(kind)
        BY <1>7, <2>1, <2>3 DEF SpoiltOf, FreeOf
    <2> QED
        BY <2>5, <2>6, <2>7, <2>8 DEF PoolNext, Step
<1> QED
    BY <1>11, <1>12

LEMMA LeaseStep ==
    ASSUME IInv, IInv', [Next]_vars, NEW kind \in Kinds
    PROVE  PoolNext(kind)
<1>1. ASSUME UNCHANGED <<subnet, vlan, netVars, reopened>>
      PROVE  PoolNext(kind)
    BY <1>1, TaskLeases DEF StatusWritten, netVars
<1>2. ASSUME NEW p \in Workers, ApiStep(p)
      PROVE  PoolNext(kind)
    BY <1>1, <1>2, CommitLeases, DeleteLeases DEF ApiStep, CreateTakeSubnet, CreateTakeVlan,
       CreateOutOfVlans, CreateDispatch, DeleteRead, ApiCrash
<1>3. ASSUME NEW n \in NetIds, TaskStep(n)
      PROVE  PoolNext(kind)
    BY <1>3, TaskWrites, TaskLeases DEF IInv
<1>4. ASSUME NEW n \in NetIds, WorkerCrash(n)
      PROVE  PoolNext(kind)
    BY <1>1, <1>4 DEF WorkerCrash
<1>5. CASE UNCHANGED vars
    BY <1>1, <1>5 DEF vars, netVars
<1> QED
    BY <1>2, <1>3, <1>4, <1>5 DEF Next

LEMMA LeaseInit ==
    ASSUME Init, NEW kind \in Kinds
    PROVE  /\ FreeOf(kind) \subseteq Rows(kind)
           /\ HoldersOf(kind) \in [Rows(kind) -> SUBSET NetIds]
           /\ \A x \in Rows(kind) : IF x \in FreeOf(kind) THEN HoldersOf(kind)[x] = {}
                                    ELSE \E n \in NetIds : HoldersOf(kind)[x] = {n}
           /\ SpoiltOf(kind) = {}
<1>1. IInv
    BY InitTyped, InitLock, InitPool DEF IInv
<1>2. \A x \in Rows(kind) : ~Tainted(kind, x)
    BY DEF Init, Tainted
<1>3. ASSUME NEW x \in Rows(kind)
      PROVE  IF x \in FreeOf(kind) THEN HoldersOf(kind)[x] = {}
             ELSE \E n \in NetIds : HoldersOf(kind)[x] = {n}
    <2>1. Final(kind, x)
        BY <1>1, <1>2 DEF IInv, PoolInv
    <2>2. CASE Pool(kind)[x] = "free"
        BY <2>1, <2>2 DEF FreeOf, HoldersOf, Final
    <2>3. CASE Pool(kind)[x] # "free"
        <3>1. Pool(kind)[x] = "allocated"
            BY <1>1, <2>3, PoolTyped DEF IInv
        <3>2. PICK n \in NetIds : Holds(kind, n, x)
            BY <1>1, <3>1 DEF IInv, PoolInv, Held
        <3> QED
            BY <2>1, <2>3, <3>2 DEF FreeOf, HoldersOf, Final
    <2> QED
        BY <2>2, <2>3
<1> QED
    BY <1>2, <1>3 DEF FreeOf, HoldersOf, SpoiltOf

\* The tables global_ip_pool and vlan_allocations are pools of leases: what
\* create_network and delete_network do to a /24 or a tag is what module
\* Leases allows, whatever tasks, crashes and other requests come between.
THEOREM LeasedCorrect == Spec => Leased
<1> DEFINE A == "subnet"
           B == "tag"
<1>1. A \in Kinds /\ B \in Kinds
    BY DEF Kinds
<1>2. /\ Rows(A) = Subnets /\ Rows(B) = Tags
      /\ FreeOf(A) = {s \in Subnets : subnet[s] = "free"}
      /\ FreeOf(B) = {x \in Tags : vlan[x] = "free"}
      /\ HoldersOf(A) = [s \in Subnets |-> {n \in NetIds : Live(n) /\ nets[n].subnet = s}]
      /\ HoldersOf(B) = [x \in Tags |-> {n \in NetIds : Live(n) /\ TagOf(n) = x}]
      /\ SpoiltOf(A) = {s \in Subnets : \E k \in reopened : nets[k].subnet = s}
      /\ SpoiltOf(B) = {x \in Tags : \E k \in reopened : TagOf(k) = x}
    BY DEF Rows, FreeOf, HoldersOf, SpoiltOf, Pool, Holds, Item, Tainted
<1>3. Init => SubnetPool!Init /\ TagPool!Init
    BY <1>1, <1>2, LeaseInit DEF SubnetPool!Init, TagPool!Init
<1>4. ASSUME IInv, IInv', [Next]_vars
      PROVE  SubnetPool!Next /\ TagPool!Next
    <2>1. PoolNext(A) /\ PoolNext(B)
        BY <1>1, <1>4, LeaseStep
    <2>2. /\ FreeOf(A)' = {s \in Subnets : subnet[s] = "free"}'
          /\ FreeOf(B)' = {x \in Tags : vlan[x] = "free"}'
          /\ HoldersOf(A)' =
                 [s \in Subnets |-> {n \in NetIds : Live(n) /\ nets[n].subnet = s}]'
          /\ HoldersOf(B)' = [x \in Tags |-> {n \in NetIds : Live(n) /\ TagOf(n) = x}]'
          /\ SpoiltOf(A)' = {s \in Subnets : \E k \in reopened : nets[k].subnet = s}'
          /\ SpoiltOf(B)' = {x \in Tags : \E k \in reopened : TagOf(k) = x}'
        BY DEF Rows, FreeOf, HoldersOf, SpoiltOf, Pool, Holds, Item, Tainted
    <2>3. Step(Subnets, {s \in Subnets : subnet[s] = "free"},
               {s \in Subnets : subnet[s] = "free"}',
               [s \in Subnets |-> {n \in NetIds : Live(n) /\ nets[n].subnet = s}],
               [s \in Subnets |-> {n \in NetIds : Live(n) /\ nets[n].subnet = s}]',
               {s \in Subnets : \E k \in reopened : nets[k].subnet = s},
               {s \in Subnets : \E k \in reopened : nets[k].subnet = s}')
        BY <1>2, <2>1, <2>2 DEF PoolNext
    <2>4. Step(Tags, {x \in Tags : vlan[x] = "free"}, {x \in Tags : vlan[x] = "free"}',
               [x \in Tags |-> {n \in NetIds : Live(n) /\ TagOf(n) = x}],
               [x \in Tags |-> {n \in NetIds : Live(n) /\ TagOf(n) = x}]',
               {x \in Tags : \E k \in reopened : TagOf(k) = x},
               {x \in Tags : \E k \in reopened : TagOf(k) = x}')
        BY <1>2, <2>1, <2>2 DEF PoolNext
    <2>5. SubnetPool!Next
        BY <2>3 DEF Step, SubnetPool!Next, SubnetPool!Return, SubnetPool!Lease, SubnetPool!Spoil
    <2>6. TagPool!Next
        BY <2>4 DEF Step, TagPool!Next, TagPool!Return, TagPool!Lease, TagPool!Spoil
    <2> QED
        BY <2>5, <2>6
<1> QED
    BY <1>3, <1>4, Invariance, PTL DEF Spec, Leased, SubnetPool!Spec, TagPool!Spec

-----------------------------------------------------------------------------
(* Vlans: its steps are steps of Networks.                                 *)

\* A step of a task is one step of Networks, or none that Networks can see:
\* what is read and written inside the OPNsense VM before the last call
\* touches no row and no message (workers/tasks/vlan.py:286-364).
LEMMA StepMaps == ASSUME NEW n \in NetIds, VlanStep(n)
                  PROVE  Next \/ UNCHANGED vars
<1>1. CASE (TaskLookup(n) \/ TaskMark(n) \/ TaskFinish(n)) /\ UNCHANGED vlanVars
  BY <1>1 DEF Next, TaskStep
<1>2. CASE ReadDevices(n) \/ ReadNames(n)
  BY <1>2 DEF ReadDevices, ReadNames
<1>3. CASE FindOpt(n)
  BY <1>3 DEF FindOpt
<1>4. CASE SetAddress(n)
  BY <1>4 DEF SetAddress
<1>5. CASE AddDevice(n)
  BY <1>5 DEF AddDevice
<1>6. CASE AddOpt(n)
  BY <1>6 DEF AddOpt
<1>7. CASE MakeInterface(n)
  BY <1>7 DEF MakeInterface
<1>8. CASE KeaRead(n)
  BY <1>8 DEF KeaRead
<1>9. CASE KeaSet(n)
  BY <1>9 DEF KeaSet, Next, TaskStep
<1>10. CASE Break(n)
  BY <1>10 DEF Break, Next, TaskStep
<1> QED
  BY <1>1, <1>2, <1>3, <1>4, <1>5, <1>6, <1>7, <1>8, <1>9, <1>10 DEF VlanStep

LEMMA AllStepsMap == [VlanNext]_<<vars, vlanVars>> => [Next]_vars
<1> SUFFICES ASSUME [VlanNext]_<<vars, vlanVars>>
             PROVE  Next \/ UNCHANGED vars
  OBVIOUS
<1>1. CASE \E p \in Workers : ApiStep(p) /\ UNCHANGED vlanVars
  BY <1>1 DEF Next
<1>2. CASE \E n \in NetIds : VlanStep(n)
  BY <1>2, StepMaps
<1>3. CASE UNCHANGED <<vars, vlanVars>>
  BY <1>3
<1> QED
  BY <1>1, <1>2, <1>3 DEF VlanNext

\* Vlans implements Networks, whatever the instance.
THEOREM ImplementsNetworks == VlanSpec => Spec
<1>1. VlanInit => Init
  BY DEF VlanInit
<1> QED
  BY <1>1, AllStepsMap, PTL DEF VlanSpec, Spec


-----------------------------------------------------------------------------
(* Sets of numbers.                                                        *)

\* A non-empty set of numbers has a least one: the order of the intervals
\* 0..d by inclusion is well-founded.
LEMMA LeastNumber ==
    ASSUME NEW D, D \subseteq Nat, D # {}
    PROVE  \E d \in D : \A e \in D : d <= e
<1> DEFINE T == {0..d : d \in D}
<1>1. \A d \in D : 0..d \in FiniteSubsetsOf(Nat)
    <2> TAKE d \in D
    <2>1. IsFiniteSet(0..d)
        BY FS_Interval
    <2> QED
        BY <2>1 DEF FiniteSubsetsOf
<1>2. T \subseteq FiniteSubsetsOf(Nat) /\ T # {}
    BY <1>1
<1>3. PICK x \in T : \A y \in T : ~(<<y, x>> \in StrictSubsetOrdering(Nat))
  <2> HIDE DEF T
  <2> QED
    BY <1>2, FS_StrictSubsetOrderingWellFounded, WFMin
<1>4. PICK d \in D : x = 0..d
    BY <1>3
<1>5. ASSUME NEW e \in D PROVE d <= e
    <2> SUFFICES ASSUME e < d PROVE FALSE
        BY <1>4
    <2>1. 0..e \in T
        OBVIOUS
    <2>2. 0..e \subseteq 0..d /\ 0..e # 0..d
        BY <1>4
    <2>3. <<0..e, 0..d>> \in StrictSubsetOrdering(Nat)
        BY <2>2, 0..e \in SUBSET Nat, 0..d \in SUBSET Nat DEF StrictSubsetOrdering
    <2> QED
        BY <1>3, <1>4, <2>1, <2>3
<1> QED
    BY <1>5

\* A bounded one has a greatest.
LEMMA GreatestNumber ==
    ASSUME NEW D, D \subseteq Nat, D # {}, NEW K \in Nat, \A d \in D : d <= K
    PROVE  \E d \in D : \A e \in D : e <= d
<1> DEFINE E == {K - d : d \in D}
<1>1. E \subseteq Nat /\ E # {}
    <2>1. ASSUME NEW d \in D PROVE K - d \in Nat
        BY <2>1, d \in Nat, d <= K
    <2> QED
        BY <2>1
<1>2. PICK x \in E : \A y \in E : x <= y
    <2> HIDE DEF E
    <2> QED BY <1>1, LeastNumber
<1>3. PICK d \in D : x = K - d
    BY <1>2
<1> QED
  <2>1. ASSUME NEW e \in D PROVE e <= d
    <3>1. K - e \in E
      OBVIOUS
    <3>2. K - d <= K - e
      BY <1>2, <1>3, <3>1
    <3> QED BY <3>2, d \in Nat, e \in Nat
  <2> QED BY <2>1

-----------------------------------------------------------------------------
(* The inductive invariant.  It is the one of Networks and, of the         *)
(* configuration, the parts below.  Most speak of the tags on which no two *)
(* tasks worked at once (overlap): a task of such a tag works alone.       *)

Tag(n) == nets[n].vlan
Clear == VlanTags \ overlap
Wires == {v \in Clear : device[v] # 0}

WorkPc == {"idle", "known", "fresh", "found", "new", "opted", "device", "opt", "set", "kea"}

ConfigType ==
    /\ device \in [VlanTags -> Nat]
    /\ opts \in Seq([device : Nat \ {0}, ip : Subnets])
    /\ kea \in SUBSET Nat
    /\ work \in [NetIds -> [pc : WorkPc, device : Nat, opt : Nat, kea : SUBSET Nat]]
    /\ lost \in SUBSET Nat

\* There is a largest device number.
Bounded == \E k \in Nat : \A v \in VlanTags : device[v] <= k

\* A task is sent once, and works only while it is marked.
SentOnce ==
    \A p \in Workers : req[p].pc = "dispatch" =>
        /\ task[req[p].net] = "none"
        /\ \A q \in Workers \ {p} : ~(req[q].pc = "dispatch" /\ req[q].net = req[p].net)
AtWork == \A n \in NetIds : Working(n) => task[n] = "marked" /\ work[n].device # 0

Alone ==
    \A n \in NetIds : Working(n) /\ Tag(n) \in Clear =>
        \A m \in NetIds \ {n} : ~Working(m)

\* Every interface is on a device that some tag has or had.
Numbers == Devices \cup lost
OnDevices ==
    /\ \A o \in Opts : opts[o].device \in Numbers
    /\ \A n \in NetIds : work[n].pc = "device" => work[n].device \in Numbers

\* What a task that works alone has read is still so.
ChosenBy(n) ==
    LET w == work[n]
        v == Tag(n)
    IN  /\ w.pc \in {"fresh", "new"} =>
              device[v] = 0 /\ \A x \in VlanTags : device[x] < w.device
        /\ w.pc \in {"found", "new", "device"} => w.opt = NextOpt
        /\ w.pc \in {"known", "found", "opted", "device", "opt", "set", "kea"} =>
              device[v] = w.device
        /\ w.pc = "device" => w.device \in lost \/ OptsOf(w.device) = {}
        /\ w.pc = "opted" => w.opt \in OptsOf(w.device) \/ w.opt = NextOpt
        /\ w.pc \in {"opt", "set", "kea"} =>
              w.opt \in OptsOf(w.device) /\ opts[w.opt].ip = nets[n].subnet
Chosen == \A n \in NetIds : Working(n) /\ Tag(n) \in Clear => ChosenBy(n)

\* The names of a tag that no two tasks worked on are no one else's.
DevicesApart == \A v \in Wires : \A w \in VlanTags \ {v} : device[v] # device[w]
OptsApart ==
    \A v \in Wires : device[v] \notin lost =>
        \A o, q \in OptsOf(device[v]) : o = q
Elsewhere ==
    \A v \in Wires : \A n \in NetIds : Working(n) /\ Tag(n) # v =>
        /\ work[n].device # device[v]
        /\ work[n].pc \notin {"known", "fresh"} => work[n].opt \notin OptsOf(device[v])

\* What a task has read of Kea's list is still so for the interfaces of such a
\* tag.
KeaKept ==
    \A v \in Wires : \A n \in NetIds : work[n].pc = "kea" /\ KeyAccepted(n) =>
        work[n].kea \cap OptsOf(device[v]) = kea \cap OptsOf(device[v])

\* The device of such a tag runs, unless its task is still at it.
Runs ==
    \A v \in Wires \ cut :
        \/ \E n \in NetIds : work[n].pc \in {"device", "opt"} /\ Tag(n) = v
        \/ <<device[v], v>> \in running

\* While a task works alone, no other network of its pod and tag is live whose
\* task has ended.
Again == {nets[k].vlan : k \in reopened}
Answered(n) == task[n] \in {"configured", "done"} /\ Live(n)
NoOther ==
    \A m, n \in NetIds :
        /\ m # n /\ Working(m) /\ Answered(n)
        /\ Tag(n) = Tag(m) /\ Tag(m) \in Clear \ Again
        => nets[m].pod # nets[n].pod

SharedWith(n) ==
    \E m \in NetIds : Exists(m) /\ nets[m].vlan = Tag(n) /\ nets[m].pod # nets[n].pod
Wired(n) ==
    LET d == device[Tag(n)] IN
    /\ d # 0
    /\ <<d, Tag(n)>> \in running
    /\ \E o \in OptsOf(d) :
          /\ opts[o].ip = nets[n].subnet \/ SharedWith(n)
          /\ KeyAccepted(n) => o \in kea
AllWired ==
    \A n \in NetIds : Answered(n) /\ Tag(n) \in Clear \ (cut \cup Again) => Wired(n)

NamesInv ==
    /\ ConfigType /\ Bounded /\ SentOnce /\ AtWork /\ Alone /\ OnDevices /\ Chosen
    /\ DevicesApart /\ OptsApart /\ Elsewhere

WiredInv == KeaKept /\ Runs /\ NoOther /\ AllWired

-----------------------------------------------------------------------------
(* What the steps do.                                                      *)

Config(n) ==
    \/ ReadDevices(n) \/ ReadNames(n) \/ FindOpt(n) \/ SetAddress(n)
    \/ AddDevice(n) \/ AddOpt(n) \/ MakeInterface(n)
    \/ KeaRead(n) \/ KeaSet(n) \/ Break(n)
Quiet ==
    /\ UNCHANGED vlanVars
    /\ \/ UNCHANGED vars
       \/ \E p \in Workers : ApiStep(p)
       \/ \E n \in NetIds : TaskLookup(n) \/ TaskMark(n) \/ TaskFinish(n)

LEMMA TwoKinds ==
    ASSUME [VlanNext]_<<vars, vlanVars>>
    PROVE  Quiet \/ \E n \in NetIds : Config(n)
<1>1. CASE \E p \in Workers : ApiStep(p) /\ UNCHANGED vlanVars
    BY <1>1 DEF Quiet
<1>2. ASSUME NEW n \in NetIds, VlanStep(n)
      PROVE  Quiet \/ Config(n)
    <2>1. CASE (TaskLookup(n) \/ TaskMark(n) \/ TaskFinish(n)) /\ UNCHANGED vlanVars
        BY <2>1 DEF Quiet
    <2> QED
        BY <1>2, <2>1 DEF VlanStep, Config
<1>3. CASE UNCHANGED <<vars, vlanVars>>
    BY <1>3 DEF Quiet
<1> QED
    BY <1>1, <1>2, <1>3 DEF VlanNext

\* The work of a task is its own, and touches no row.
LEMMA ConfigKeeps ==
    ASSUME TypeInv, ConfigType, NEW n \in NetIds, Config(n)
    PROVE  /\ nets' = nets /\ req' = req
           /\ \A m \in NetIds \ {n} : work'[m] = work[m] /\ task'[m] = task[m]
           /\ overlap \subseteq overlap'
           /\ cut \subseteq cut'
<1>1. CASE ReadDevices(n) \/ ReadNames(n) \/ FindOpt(n) \/ SetAddress(n)
    BY <1>1 DEF ReadDevices, ReadNames, FindOpt, SetAddress, ConfigType, vars, netVars, taskVars
<1>2. CASE AddDevice(n) \/ AddOpt(n) \/ MakeInterface(n) \/ KeaRead(n)
    BY <1>2 DEF AddDevice, AddOpt, MakeInterface, KeaRead, ConfigType, vars, netVars, taskVars
<1>3. CASE KeaSet(n)
    BY <1>3 DEF KeaSet, TaskConfigure, Reset, ConfigType, netVars
<1>4. CASE Break(n)
    <2>1. work' = [work EXCEPT ![n] = NoWork] /\ UNCHANGED overlap /\ cut \subseteq cut'
        BY <1>4 DEF Break, Reset
    <2>2. nets' = nets /\ req' = req /\ \E pc : task' = [task EXCEPT ![n] = pc]
        BY <1>4, Zenon DEF Break, TaskFail, WorkerCrash, Leave, netVars
    <2> QED
        BY <2>1, <2>2 DEF ConfigType, TypeInv, TypeOK
<1> QED
    BY <1>1, <1>2, <1>3, <1>4 DEF Config

\* Which part of the configuration a step writes.
LEMMA ConfigWrites ==
    ASSUME NEW n \in NetIds, Config(n)
    PROVE  /\ AddDevice(n) \/ UNCHANGED <<device, lost>>
           /\ SetAddress(n) \/ AddOpt(n) \/ opts' = opts
           /\ MakeInterface(n) \/ running' = running
           /\ KeaSet(n) \/ kea' = kea
           /\ ReadDevices(n) \/ overlap' = overlap
           /\ Break(n) \/ cut' = cut
BY DEF Config, ReadDevices, ReadNames, FindOpt, SetAddress, AddDevice, AddOpt,
       MakeInterface, KeaRead, KeaSet, Break, vlanVars, configVars

\* The work of the task itself, step by step.
LEMMA WorkStep ==
    ASSUME ConfigType, NEW n \in NetIds, Config(n)
    PROVE  LET w == work[n]
               x == work'[n]
           IN  /\ ReadDevices(n) =>
                     /\ w.pc = "idle" /\ task[n] = "marked"
                     /\ IF device[Tag(n)] # 0
                        THEN x.pc = "known" /\ x.device = device[Tag(n)]
                        ELSE x.pc = "fresh" /\ x.device = NextDevice
               /\ ReadNames(n) =>
                     /\ \/ w.pc = "known" /\ x.pc = "found"
                        \/ w.pc = "fresh" /\ x.pc = "new"
                     /\ x.device = w.device /\ x.opt = NextOpt
               /\ FindOpt(n) =>
                     w.pc = "found" /\ x.pc = "opted" /\ x.device = w.device
               /\ SetAddress(n) => w.pc = "opted" /\ x = [w EXCEPT !.pc = "set"]
               /\ AddDevice(n) => w.pc = "new" /\ x = [w EXCEPT !.pc = "device"]
               /\ AddOpt(n) => w.pc = "device" /\ x = [w EXCEPT !.pc = "opt"]
               /\ MakeInterface(n) => w.pc = "opt" /\ x = [w EXCEPT !.pc = "set"]
               /\ KeaRead(n) =>
                     /\ w.pc = "set" /\ x.pc = "kea" /\ x.device = w.device /\ x.opt = w.opt
                     /\ x.kea = IF KeyAccepted(n) THEN kea ELSE {}
               /\ KeaSet(n) => w.pc = "kea" /\ x = NoWork
               /\ Break(n) => x = NoWork
<1>1. ASSUME ReadDevices(n)
      PROVE  /\ work[n].pc = "idle" /\ task[n] = "marked"
             /\ IF device[Tag(n)] # 0
                THEN work'[n].pc = "known" /\ work'[n].device = device[Tag(n)]
                ELSE work'[n].pc = "fresh" /\ work'[n].device = NextDevice
    BY <1>1 DEF ReadDevices, ConfigType, Working, NoWork, Tag
<1>2. ASSUME ReadNames(n)
      PROVE  /\ \/ work[n].pc = "known" /\ work'[n].pc = "found"
                \/ work[n].pc = "fresh" /\ work'[n].pc = "new"
             /\ work'[n].device = work[n].device /\ work'[n].opt = NextOpt
    BY <1>2 DEF ReadNames, ConfigType
<1>3. ASSUME FindOpt(n)
      PROVE  work[n].pc = "found" /\ work'[n].pc = "opted" /\ work'[n].device = work[n].device
    BY <1>3 DEF FindOpt, ConfigType
<1>4. ASSUME KeaRead(n)
      PROVE  /\ work[n].pc = "set" /\ work'[n].pc = "kea"
             /\ work'[n].device = work[n].device /\ work'[n].opt = work[n].opt
             /\ work'[n].kea = IF KeyAccepted(n) THEN kea ELSE {}
    BY <1>4 DEF KeaRead, ConfigType
<1>5. ASSUME SetAddress(n)
      PROVE  work[n].pc = "opted" /\ work'[n] = [work[n] EXCEPT !.pc = "set"]
    BY <1>5 DEF SetAddress, ConfigType
<1>6. ASSUME AddDevice(n)
      PROVE  work[n].pc = "new" /\ work'[n] = [work[n] EXCEPT !.pc = "device"]
    BY <1>6 DEF AddDevice, ConfigType
<1>7. ASSUME AddOpt(n)
      PROVE  work[n].pc = "device" /\ work'[n] = [work[n] EXCEPT !.pc = "opt"]
    BY <1>7 DEF AddOpt, ConfigType
<1>8. ASSUME MakeInterface(n)
      PROVE  work[n].pc = "opt" /\ work'[n] = [work[n] EXCEPT !.pc = "set"]
    BY <1>8 DEF MakeInterface, ConfigType
<1>9. ASSUME KeaSet(n)
      PROVE  work[n].pc = "kea" /\ work'[n] = NoWork
    BY <1>9 DEF KeaSet, Reset, ConfigType
<1>10. ASSUME Break(n)
       PROVE  work'[n] = NoWork
    BY <1>10 DEF Break, Reset, ConfigType
<1> QED
    BY <1>1, <1>2, <1>3, <1>4, <1>5, <1>6, <1>7, <1>8, <1>9, <1>10

-----------------------------------------------------------------------------
(* Types.                                                                  *)

\* A network with a task has a row with a tag, which stays.
LEMMA RowOfTask ==
    ASSUME TypeInv, NEW n \in NetIds, task[n] # "none"
    PROVE  /\ Exists(n) /\ nets[n] \in Row /\ Tag(n) \in VlanTags
           /\ Tag(n) \in Nat \ {0} /\ nets[n].subnet \in Subnets
<1>1. Exists(n) /\ nets[n] \in Row /\ ~nets[n].default
    BY DEF TypeInv, WellFormed
<1>2. Tag(n) \in VlanTags
    BY <1>1 DEF TypeInv, WellFormed, Tag
<1> QED
    BY <1>1, <1>2, NetworksAssumption DEF Row

LEMMA RowOfWork ==
    ASSUME TypeInv, AtWork, NEW n \in NetIds, Working(n)
    PROVE  /\ Exists(n) /\ nets[n] \in Row /\ Tag(n) \in VlanTags
           /\ Tag(n) \in Nat \ {0} /\ nets[n].subnet \in Subnets
BY RowOfTask DEF AtWork

LEMMA WhoWorks ==
    ASSUME AtWork, NEW n \in NetIds, Config(n), ~Break(n)
    PROVE  task[n] = "marked"
<1>1. CASE ReadDevices(n)
    BY <1>1 DEF ReadDevices
<1>2. CASE Working(n)
    BY <1>2 DEF AtWork
<1> QED
    BY <1>1, <1>2 DEF Config, Working, ReadNames, FindOpt, SetAddress, AddDevice, AddOpt,
                      MakeInterface, KeaRead, KeaSet

\* The number a new device gets is larger than every other.
LEMMA NextIsLarger ==
    ASSUME ConfigType, Bounded, NEW t \in VlanTags
    PROVE  NextDevice \in Nat \ {0} /\ \A v \in VlanTags : device[v] < NextDevice
<1>1. PICK k \in Nat : \A v \in VlanTags : device[v] <= k
    BY DEF Bounded
<1>2. Devices \subseteq Nat /\ Devices # {} /\ \A d \in Devices : d <= k
    BY <1>1 DEF Devices, ConfigType
<1>3. \E d \in Devices : \A e \in Devices : e <= d
    BY <1>2, GreatestNumber
<1> DEFINE max == CHOOSE d \in Devices : \A e \in Devices : e <= d
<1>4. max \in Devices /\ \A e \in Devices : e <= max
    BY <1>3
<1>5. NextDevice = 1 + max
    BY DEF NextDevice
<1> HIDE DEF max
<1>6. ASSUME NEW v \in VlanTags PROVE device[v] < NextDevice
    <2>1. device[v] \in Devices
        BY DEF Devices
    <2>2. device[v] \in Nat /\ max \in Nat /\ device[v] <= max
        BY <1>2, <1>4, <2>1
    <2> QED
        BY <1>5, <2>2
<1> QED
    BY <1>2, <1>4, <1>5, <1>6

\* The first interface of a device is one of them.
LEMMA FirstIsOne ==
    ASSUME ConfigType, NEW d, OptsOf(d) # {}
    PROVE  LET first == CHOOSE o \in OptsOf(d) : \A q \in OptsOf(d) : o <= q
           IN  first \in OptsOf(d)
<1>1. OptsOf(d) \subseteq Nat
    BY DEF OptsOf, Opts, ConfigType
<1>2. \E o \in OptsOf(d) : \A q \in OptsOf(d) : o <= q
    BY <1>1, LeastNumber
<1> QED
    BY <1>2

LEMMA OptsAre ==
    ASSUME ConfigType
    PROVE  /\ Opts = 1..Len(opts) /\ NextOpt = Len(opts) + 1 /\ NextOpt \in Nat \ {0}
           /\ NextOpt \notin Opts /\ Len(opts) \in Nat
           /\ \A o \in Opts : opts[o] \in [device : Nat \ {0}, ip : Subnets]
<1> DEFINE Interface == [device : Nat \ {0}, ip : Subnets]
<1>1. opts \in Seq(Interface)
    BY DEF ConfigType
<1>2. /\ DOMAIN opts = 1..Len(opts) /\ Len(opts) \in Nat
      /\ \A o \in DOMAIN opts : opts[o] \in Interface
    <2> HIDE DEF Interface
    <2> QED
        BY <1>1
<1> QED
    BY <1>2 DEF Opts, NextOpt

\* What the writes make of the list of interfaces.
LEMMA AddressSet ==
    ASSUME ConfigType, TypeInv, AtWork, NEW n \in NetIds, SetAddress(n)
    PROVE  /\ opts' \in Seq([device : Nat \ {0}, ip : Subnets])
           /\ Opts' = Opts /\ NextOpt' = NextOpt
           /\ \A o \in Opts : opts'[o].device = opts[o].device
           /\ opts'[work[n].opt].ip = nets[n].subnet
           /\ \A o \in Opts \ {work[n].opt} : opts'[o] = opts[o]
           /\ \A d : (OptsOf(d))' = OptsOf(d)
<1> DEFINE q == work[n].opt
           new == [opts[q] EXCEPT !.ip = nets[n].subnet]
<1>1. q \in Opts /\ opts' = [opts EXCEPT ![q] = new]
    BY DEF SetAddress
<1>2. nets[n].subnet \in Subnets
    BY RowOfWork DEF SetAddress, Working
<1>3. opts[q] \in [device : Nat \ {0}, ip : Subnets]
    BY <1>1, OptsAre
<1>4. new \in [device : Nat \ {0}, ip : Subnets] /\ new.device = opts[q].device
      /\ new.ip = nets[n].subnet
    BY <1>2, <1>3
<1> HIDE DEF new, q
<1>5. opts' \in Seq([device : Nat \ {0}, ip : Subnets]) /\ Len(opts') = Len(opts)
      /\ DOMAIN opts' = DOMAIN opts
    BY <1>1, <1>4 DEF ConfigType, Opts
<1>6. opts'[q] = new /\ \A o \in Opts \ {q} : opts'[o] = opts[o]
    BY <1>1 DEF Opts
<1>7. \A o \in Opts : opts'[o].device = opts[o].device
    BY <1>4, <1>6
<1>8. \A d : (OptsOf(d))' = OptsOf(d)
    BY <1>5, <1>7 DEF OptsOf, Opts
<1> QED
    BY <1>4, <1>5, <1>6, <1>7, <1>8 DEF q, Opts, NextOpt

LEMMA OptAdded ==
    ASSUME ConfigType, TypeInv, AtWork, NEW n \in NetIds, AddOpt(n)
    PROVE  LET q == IF work[n].opt \in Opts THEN work[n].opt ELSE NextOpt IN
           /\ opts' \in Seq([device : Nat \ {0}, ip : Subnets])
           /\ Opts' = Opts \cup {q} /\ q \in Opts'
           /\ opts'[q].device = work[n].device /\ opts'[q].ip = nets[n].subnet
           /\ \A o \in Opts' \ {q} : o \in Opts /\ opts'[o] = opts[o]
           /\ \A d : d # work[n].device => (OptsOf(d))' = OptsOf(d) \ {q}
           /\ \A d : d = work[n].device => (OptsOf(d))' = OptsOf(d) \cup {q}
<1> DEFINE q == IF work[n].opt \in Opts THEN work[n].opt ELSE NextOpt
           new == [device |-> work[n].device, ip |-> nets[n].subnet]
<1>1. new \in [device : Nat \ {0}, ip : Subnets]
    <2>1. Working(n) /\ work[n].device \in Nat \ {0}
        BY DEF AddOpt, Working, AtWork, ConfigType
    <2> QED
        BY <2>1, RowOfWork
<1>2. opts' = IF work[n].opt \in Opts THEN [opts EXCEPT ![work[n].opt] = new]
                                       ELSE Append(opts, new)
    BY DEF AddOpt
<1>3. new.device = work[n].device /\ new.ip = nets[n].subnet
    OBVIOUS
<1> HIDE DEF new
<1>4. /\ opts' \in Seq([device : Nat \ {0}, ip : Subnets])
      /\ DOMAIN opts' = Opts \cup {q} /\ opts'[q] = new
      /\ \A o \in DOMAIN opts' \ {q} : o \in Opts /\ opts'[o] = opts[o]
    <2>1. CASE work[n].opt \in Opts
        <3>1. q \in DOMAIN opts /\ opts' = [opts EXCEPT ![q] = new]
              /\ opts \in Seq([device : Nat \ {0}, ip : Subnets])
            BY <1>2, <2>1 DEF Opts, ConfigType
        <3>2. /\ opts' \in Seq([device : Nat \ {0}, ip : Subnets])
              /\ DOMAIN opts' = DOMAIN opts
            BY <1>1, <3>1
        <3>3. opts'[q] = new /\ \A o \in DOMAIN opts \ {q} : opts'[o] = opts[o]
            BY <3>1
        <3> QED
            BY <3>1, <3>2, <3>3 DEF Opts
    <2>2. CASE work[n].opt \notin Opts
        <3>1. q = Len(opts) + 1 /\ opts' = Append(opts, new) /\ opts \in Seq([device : Nat \ {0}, ip : Subnets])
            BY <1>2, <2>2 DEF NextOpt, ConfigType
        <3>2. /\ opts' \in Seq([device : Nat \ {0}, ip : Subnets]) /\ Len(opts') = q
              /\ opts'[q] = new
              /\ \A o \in 1..Len(opts) : opts'[o] = opts[o]
            BY <1>1, <3>1
        <3> QED
            BY <3>1, <3>2 DEF Opts
    <2> QED
        BY <2>1, <2>2
<1> HIDE DEF q
<1>5. \A d : (OptsOf(d))' = {o \in Opts \cup {q} : opts'[o].device = d}
    BY <1>4 DEF OptsOf, Opts
<1>6. ASSUME NEW d, d # work[n].device PROVE (OptsOf(d))' = OptsOf(d) \ {q}
    BY <1>3, <1>4, <1>5, <1>6 DEF OptsOf, Opts
<1>7. ASSUME NEW d, d = work[n].device PROVE (OptsOf(d))' = OptsOf(d) \cup {q}
    <2>1. opts'[q].device = d /\ \A o \in Opts \ {q} : opts'[o] = opts[o]
        BY <1>3, <1>4, <1>7
    <2> QED
        BY <1>5, <2>1 DEF OptsOf
<1>8. Opts' = Opts \cup {q}
    BY <1>4 DEF Opts
<1> QED
    BY <1>3, <1>4, <1>6, <1>7, <1>8 DEF q, Opts


LEMMA WorkTyped ==
    ASSUME ConfigType, Bounded, TypeInv, AtWork, NEW n \in NetIds, Config(n)
    PROVE  work' \in [NetIds -> [pc : WorkPc, device : Nat, opt : Nat, kea : SUBSET Nat]]
<1> DEFINE W == [pc : WorkPc, device : Nat, opt : Nat, kea : SUBSET Nat]
<1>1. work[n] \in W /\ work \in [NetIds -> W]
    BY DEF ConfigType
<1>2. NoWork \in W
    BY DEF NoWork, WorkPc
<1>3. ASSUME NEW w \in W, work' = [work EXCEPT ![n] = w] PROVE work' \in [NetIds -> W]
    BY <1>1, <1>3
<1>4. CASE ReadDevices(n)
    <2>1. Tag(n) \in VlanTags
        BY <1>4, RowOfTask DEF ReadDevices
    <2>2. device[Tag(n)] \in Nat /\ NextDevice \in Nat
        BY <2>1, NextIsLarger DEF ConfigType
    <2>3. [NoWork EXCEPT !.pc = "known", !.device = device[Tag(n)]] \in W
        BY <1>2, <2>2 DEF WorkPc
    <2>4. [NoWork EXCEPT !.pc = "fresh", !.device = NextDevice] \in W
        BY <1>2, <2>2 DEF WorkPc
    <2>5. CASE device[Tag(n)] # 0
        <3>1. work' = [work EXCEPT ![n] =
                          [NoWork EXCEPT !.pc = "known", !.device = device[Tag(n)]]]
            BY <1>4, <2>5 DEF ReadDevices, Tag
        <3> QED
            BY <1>3, <2>3, <3>1
    <2>6. CASE device[Tag(n)] = 0
        <3>1. work' = [work EXCEPT ![n] =
                          [NoWork EXCEPT !.pc = "fresh", !.device = NextDevice]]
            BY <1>4, <2>6 DEF ReadDevices, Tag
        <3> QED
            BY <1>3, <2>4, <3>1
    <2> QED
        BY <2>5, <2>6
<1>5. CASE ReadNames(n)
    <2>1. PICK pc \in WorkPc : work' = [work EXCEPT ![n] = [work[n] EXCEPT !.pc = pc, !.opt = NextOpt]]
        BY <1>1, <1>5 DEF ReadNames, WorkPc
    <2> QED
        BY <1>1, <1>3, <2>1, OptsAre
<1>6. CASE FindOpt(n)
    <2>1. \A d, o : o \in OptsOf(d) => o \in Nat
        BY OptsAre DEF OptsOf
    <2> DEFINE mine == OptsOf(work[n].device)
               first == CHOOSE x \in mine : \A y \in mine : x <= y
               o == IF mine = {} THEN work[n].opt ELSE first
    <2>2. /\ o = work[n].opt \/ o \in OptsOf(work[n].device)
          /\ work' = [work EXCEPT ![n] = [work[n] EXCEPT !.pc = "opted", !.opt = o]]
        <3>1. o = work[n].opt \/ o \in OptsOf(work[n].device)
            BY FirstIsOne
        <3>2. work' = [work EXCEPT ![n].pc = "opted",
                                   ![n].opt = IF mine = {} THEN @ ELSE first]
            BY <1>6 DEF FindOpt
        <3>3. work' = [work EXCEPT ![n] = [work[n] EXCEPT !.pc = "opted", !.opt = o]]
            <4> HIDE DEF first, mine
            <4> QED
                BY <1>1, <3>2
        <3> QED
            BY <3>1, <3>3
    <2> HIDE DEF o, mine
    <2>3. o \in Nat /\ "opted" \in WorkPc
        BY <1>1, <2>1, <2>2 DEF WorkPc
    <2> QED
        BY <1>1, <1>3, <2>2, <2>3
<1>7. CASE SetAddress(n) \/ AddDevice(n) \/ AddOpt(n) \/ MakeInterface(n)
    <2>1. PICK pc \in {"set", "device", "opt"} : work' = [work EXCEPT ![n] = [work[n] EXCEPT !.pc = pc]]
        BY <1>1, <1>7 DEF SetAddress, AddDevice, AddOpt, MakeInterface
    <2>2. pc \in WorkPc
        BY DEF WorkPc
    <2> QED
        BY <1>1, <1>3, <2>1, <2>2
<1>8. CASE KeaRead(n)
    <2>1. PICK k \in SUBSET Nat : work' = [work EXCEPT ![n] = [work[n] EXCEPT !.pc = "kea", !.kea = k]]
        BY <1>1, <1>8 DEF KeaRead, ConfigType
    <2>2. "kea" \in WorkPc
        BY DEF WorkPc
    <2> QED
        BY <1>1, <1>3, <2>1, <2>2
<1>9. CASE KeaSet(n) \/ Break(n)
    BY <1>2, <1>3, <1>9 DEF KeaSet, Break, Reset
<1> QED
    BY <1>4, <1>5, <1>6, <1>7, <1>8, <1>9 DEF Config

LEMMA ConfigTyped ==
    ASSUME ConfigType, Bounded, TypeInv, AtWork, [VlanNext]_<<vars, vlanVars>>
    PROVE  (ConfigType /\ Bounded)'
<1>1. CASE Quiet
    BY <1>1 DEF Quiet, vlanVars, configVars, ConfigType, Bounded
<1>2. ASSUME NEW n \in NetIds, Config(n)
      PROVE  (ConfigType /\ Bounded)'
    <2>1. work' \in [NetIds -> [pc : WorkPc, device : Nat, opt : Nat, kea : SUBSET Nat]]
        BY <1>2, WorkTyped
    <2>2. opts' \in Seq([device : Nat \ {0}, ip : Subnets])
        BY <1>2, ConfigWrites, AddressSet, OptAdded DEF ConfigType
    <2>3. kea' \in SUBSET Nat
        <3>1. CASE KeaSet(n)
            BY <3>1 DEF KeaSet, ConfigType
        <3> QED
            BY <1>2, <3>1, ConfigWrites DEF ConfigType
    <2>4. /\ device' \in [VlanTags -> Nat] /\ lost' \in SUBSET Nat
          /\ \E k \in Nat : \A v \in VlanTags : device'[v] <= k
        <3>1. CASE AddDevice(n)
            <4>1. Working(n)
                BY <3>1 DEF AddDevice, Working
            <4>2. work[n].device \in Nat /\ Tag(n) \in VlanTags
                BY <4>1, RowOfWork DEF ConfigType
            <4>3. device' = [device EXCEPT ![Tag(n)] = work[n].device]
                BY <3>1 DEF AddDevice, Tag
            <4>4. lost' \in SUBSET Nat
                BY <3>1, <4>2 DEF AddDevice, ConfigType, Tag
            <4>5. PICK k \in Nat : \A v \in VlanTags : device[v] <= k
                BY DEF Bounded
            <4>6. \A v \in VlanTags : device'[v] <= k + work[n].device
                BY <4>2, <4>3, <4>5 DEF ConfigType
            <4>7. k + work[n].device \in Nat
                BY <4>2
            <4>8. \E b \in Nat : \A v \in VlanTags : device'[v] <= b
                BY <4>6, <4>7
            <4>9. device' \in [VlanTags -> Nat]
                BY <4>2, <4>3 DEF ConfigType
            <4> QED
                BY <4>4, <4>8, <4>9
        <3>2. CASE UNCHANGED <<device, lost>>
            BY <3>2 DEF ConfigType, Bounded
        <3> QED
            BY <1>2, <3>1, <3>2, ConfigWrites
    <2> QED
        BY <2>1, <2>2, <2>3, <2>4 DEF ConfigType, Bounded
<1> QED
    BY <1>1, <1>2, TwoKinds

-----------------------------------------------------------------------------
(* Rows and messages.                                                      *)

\* A row, once there, stays, and keeps its columns.
LEMMA RowsStay ==
    ASSUME TypeInv, [Next]_vars, NEW n \in NetIds, Exists(n)
    PROVE  Exists(n)' /\ nets'[n] = nets[n]
<1>1. ASSUME StatusWritten PROVE Exists(n)' /\ nets'[n] = nets[n]
    BY <1>1 DEF StatusWritten, Exists, LiveStatus, TypeInv, TypeOK
<1>2. ASSUME NEW p \in Workers, CreateCommit(p)
      PROVE  Exists(n)' /\ nets'[n] = nets[n]
    <2>1. PICK m \in NetIds : /\ ~Exists(m)
                              /\ status' = [status EXCEPT ![m] = "pending"]
                              /\ nets' = [nets EXCEPT ![m] = nets'[m]]
        BY <1>2, CommitRow
    <2> QED
        BY <2>1 DEF Exists, TypeInv, TypeOK
<1>3. ASSUME NEW p \in Workers, DeleteCommit(p)
      PROVE  Exists(n)' /\ nets'[n] = nets[n]
    BY <1>3 DEF DeleteCommit, Exists, TypeInv, TypeOK
<1>4. CASE UNCHANGED <<status, nets>>
    BY <1>4 DEF Exists
<1>5. ASSUME NEW p \in Workers, ApiStep(p), ~CreateCommit(p), ~DeleteCommit(p)
      PROVE  UNCHANGED <<status, nets>>
    BY <1>5 DEF ApiStep, CreateTakeSubnet, CreateTakeVlan, CreateOutOfVlans, CreateDispatch,
                DeleteRead, ApiCrash, netVars
<1>6. ASSUME NEW m \in NetIds, WorkerCrash(m)
      PROVE  UNCHANGED <<status, nets>>
    BY <1>6 DEF WorkerCrash, netVars
<1>7. CASE UNCHANGED vars
    BY <1>4, <1>7 DEF vars
<1> QED
    BY <1>1, <1>2, <1>3, <1>4, <1>5, <1>6, <1>7, TaskWrites DEF Next

\* What an API thread does to the messages.
LEMMA ApiMessages ==
    ASSUME TypeInv, NEW p \in Workers, ApiStep(p)
    PROVE  \E r : /\ req' = [req EXCEPT ![p] = r]
                  /\ \/ task' = task /\ r.pc # "dispatch"
                     \/ task' = task /\ r.pc = "dispatch" /\ r.net \in NetIds /\ ~Exists(r.net)
                     \/ /\ req[p].pc = "dispatch" /\ r.pc # "dispatch"
                        /\ task' = [task EXCEPT ![req[p].net] = "queued"]
<1> DEFINE Goal(r) ==
              /\ req' = [req EXCEPT ![p] = r]
              /\ \/ task' = task /\ r.pc # "dispatch"
                 \/ task' = task /\ r.pc = "dispatch" /\ r.net \in NetIds /\ ~Exists(r.net)
                 \/ /\ req[p].pc = "dispatch" /\ r.pc # "dispatch"
                    /\ task' = [task EXCEPT ![req[p].net] = "queued"]
<1> SUFFICES \E r : Goal(r)
    OBVIOUS
<1>1. CASE CreateCommit(p)
    <2>1. PICK m \in NetIds : ~Exists(m) /\ req' = [req EXCEPT ![p] = [pc |-> "dispatch", net |-> m]]
        BY <1>1, CommitRow
    <2>2. task' = task
        BY <1>1 DEF CreateCommit, taskVars
    <2>3. Goal([pc |-> "dispatch", net |-> m])
        BY <2>1, <2>2
    <2> QED
        BY <2>3
<1>2. CASE CreateDispatch(p) \/ CreateOutOfVlans(p) \/ DeleteCommit(p) \/ ApiCrash(p)
    <2>1. Goal(Idle)
        BY <1>2 DEF CreateDispatch, CreateOutOfVlans, DeleteCommit, ApiCrash, taskVars, Idle
    <2> QED
        BY <2>1
<1>3. CASE (\E t \in Tenants : CreateTakeSubnet(p, t)) \/ CreateTakeVlan(p)
    <2>1. PICK r : req' = [req EXCEPT ![p] = r] /\ r.pc # "dispatch"
        BY <1>3 DEF CreateTakeSubnet, CreateTakeVlan
    <2>2. Goal(r)
        BY <1>3, <2>1 DEF CreateTakeSubnet, CreateTakeVlan, taskVars
    <2> QED
        BY <2>2
<1>4. ASSUME NEW n \in NetIds, DeleteRead(p, n)
      PROVE  \E r : Goal(r)
    <2> DEFINE r == [pc |-> "delete", net |-> n,
                     sawDeleted |-> status[n] = "deleted",
                     sawSubnet |-> subnet[nets[n].subnet] = "allocated",
                     sawVlan |-> vlan[TagOf(n)] = "allocated"]
    <2>1. req' = [req EXCEPT ![p] = r] /\ task' = task
        BY <1>4 DEF DeleteRead, taskVars
    <2>2. r.pc = "delete"
        OBVIOUS
    <2> HIDE DEF r
    <2>3. Goal(r)
        BY <2>1, <2>2
    <2> QED
        BY <2>3
<1> QED
    BY <1>1, <1>2, <1>3, <1>4 DEF ApiStep

LEMMA TaskMessages ==
    ASSUME TypeInv, NEW n \in NetIds, TaskStep(n) \/ WorkerCrash(n)
    PROVE  /\ req' = req /\ task[n] # "none"
           /\ \E pc : task' = [task EXCEPT ![n] = pc]
<1>1. CASE TaskLookup(n)
    BY <1>1 DEF TaskLookup
<1>2. CASE TaskMark(n)
    BY <1>2 DEF TaskMark
<1>3. CASE TaskConfigure(n)
    BY <1>3 DEF TaskConfigure
<1>4. CASE TaskFinish(n)
    BY <1>4 DEF TaskFinish, Leave
<1>5. CASE TaskFail(n)
    <2>1. req' = req /\ task[n] # "none"
        BY <1>5 DEF TaskFail
    <2>2. (\E r : Leave(n, "queued", r)) \/ \E r : Leave(n, "failed", r)
        BY <1>5, Zenon DEF TaskFail
    <2> QED
        BY <2>1, <2>2 DEF Leave
<1>6. CASE WorkerCrash(n)
    BY <1>6 DEF WorkerCrash, Leave
<1> QED
    BY <1>1, <1>2, <1>3, <1>4, <1>5, <1>6 DEF TaskStep

LEMMA SentStep ==
    ASSUME TypeInv, SentOnce, [Next]_vars
    PROVE  SentOnce'
<1>1. ASSUME NEW p \in Workers, ApiStep(p)
      PROVE  SentOnce'
    <2>1. PICK r : /\ req' = [req EXCEPT ![p] = r]
                   /\ \/ task' = task /\ r.pc # "dispatch"
                      \/ task' = task /\ r.pc = "dispatch" /\ r.net \in NetIds /\ ~Exists(r.net)
                      \/ /\ req[p].pc = "dispatch" /\ r.pc # "dispatch"
                         /\ task' = [task EXCEPT ![req[p].net] = "queued"]
        BY <1>1, ApiMessages
    <2>2. req'[p] = r /\ \A q \in Workers \ {p} : req'[q] = req[q]
        BY <2>1 DEF TypeInv, TypeOK
    <2>3. CASE task' = task /\ r.pc # "dispatch"
        BY <2>2, <2>3 DEF SentOnce
    <2>4. CASE task' = task /\ r.pc = "dispatch" /\ r.net \in NetIds /\ ~Exists(r.net)
        <3>1. task[r.net] = "none"
            BY <2>4 DEF TypeInv, WellFormed
        <3>2. \A q \in Workers : ~(req[q].pc = "dispatch" /\ req[q].net = r.net)
            BY <2>4 DEF TypeInv, WellFormed
        <3> QED
            BY <2>2, <2>4, <3>1, <3>2 DEF SentOnce
    <2>5. CASE /\ req[p].pc = "dispatch" /\ r.pc # "dispatch"
               /\ task' = [task EXCEPT ![req[p].net] = "queued"]
        <3>1. \A m \in NetIds : m # req[p].net => task'[m] = task[m]
            BY <2>5 DEF TypeInv, TypeOK
        <3>2. \A q \in Workers : req[q].pc = "dispatch" => req[q].net \in NetIds
            BY RequestShape DEF TypeInv, TypeOK, DispatchReq
        <3> QED
            BY <2>2, <2>5, <3>1, <3>2 DEF SentOnce
    <2> QED
        BY <2>1, <2>3, <2>4, <2>5
<1>2. ASSUME NEW n \in NetIds, TaskStep(n) \/ WorkerCrash(n)
      PROVE  SentOnce'
    <2>1. req' = req /\ task[n] # "none" /\ \A m \in NetIds \ {n} : task'[m] = task[m]
        BY <1>2, TaskMessages DEF TypeInv, TypeOK
    <2>2. \A q \in Workers : req[q].pc = "dispatch" => req[q].net \in NetIds \ {n}
        BY <2>1, RequestShape DEF TypeInv, TypeOK, DispatchReq, SentOnce
    <2> QED
        BY <2>1, <2>2 DEF SentOnce
<1>3. CASE UNCHANGED vars
    BY <1>3 DEF vars, SentOnce
<1> QED
    BY <1>1, <1>2, <1>3 DEF Next

\* A task at work is left where it is by all but its own work.
LEMMA QuietTasks ==
    ASSUME TypeInv, SentOnce, Quiet, NEW n \in NetIds, task[n] = "marked"
    PROVE  task'[n] = "marked"
<1>1. ASSUME NEW p \in Workers, ApiStep(p)
      PROVE  task'[n] = "marked"
    <2>1. \/ task' = task
          \/ req[p].pc = "dispatch" /\ task' = [task EXCEPT ![req[p].net] = "queued"]
        BY <1>1, ApiMessages
    <2> QED
        BY <2>1 DEF SentOnce, TypeInv, TypeOK
<1>2. ASSUME NEW m \in NetIds, TaskLookup(m) \/ TaskMark(m) \/ TaskFinish(m)
      PROVE  task'[n] = "marked"
    <2>1. m # n
        BY <1>2 DEF TaskLookup, TaskMark, TaskFinish
    <2> QED
        BY <1>2, <2>1, TaskMessages DEF TaskStep, TypeInv, TypeOK
<1> QED
    BY <1>1, <1>2 DEF Quiet, vars

LEMMA AtWorkStep ==
    ASSUME TypeInv, ConfigType, Bounded, SentOnce, AtWork, [VlanNext]_<<vars, vlanVars>>
    PROVE  AtWork'
<1>1. CASE Quiet
    BY <1>1, QuietTasks DEF AtWork, Working, Quiet, vlanVars
<1>2. ASSUME NEW n \in NetIds, Config(n)
      PROVE  AtWork'
    <2>1. \A m \in NetIds \ {n} : work'[m] = work[m] /\ task'[m] = task[m]
        BY <1>2, ConfigKeeps
    <2>2. Working(n)' => task'[n] = "marked" /\ work'[n].device # 0
        <3>1. CASE ReadDevices(n)
            <4>1. task' = task /\ Tag(n) \in VlanTags
                BY <3>1, RowOfTask DEF ReadDevices, vars
            <4>2. NextDevice # 0
                BY <4>1, NextIsLarger
            <4> QED
                BY <1>2, <3>1, <4>1, <4>2, WorkStep
        <3>2. CASE KeaSet(n) \/ Break(n)
            <4>1. work' = [work EXCEPT ![n] = NoWork]
                BY <3>2 DEF KeaSet, Break, Reset
            <4> QED
                BY <4>1 DEF Working, NoWork, ConfigType
        <3>3. CASE ReadNames(n) \/ FindOpt(n) \/ KeaRead(n)
            <4>1. task' = task /\ Working(n)
                BY <3>3 DEF ReadNames, FindOpt, KeaRead, vars, Working
            <4>2. work'[n].device = work[n].device
                BY <1>2, <3>3, WorkStep
            <4> QED
                BY <4>1, <4>2 DEF AtWork
        <3>4. CASE SetAddress(n) \/ AddDevice(n) \/ AddOpt(n) \/ MakeInterface(n)
            <4>1. task' = task /\ Working(n)
                BY <3>4 DEF SetAddress, AddDevice, AddOpt, MakeInterface, vars, Working
            <4>2. work'[n].device = work[n].device
                BY <1>2, <3>4, WorkStep DEF ConfigType
            <4> QED
                BY <4>1, <4>2 DEF AtWork
        <3> QED
            BY <1>2, <3>1, <3>2, <3>3, <3>4 DEF Config
    <2> QED
        BY <2>1, <2>2 DEF AtWork, Working
<1> QED
    BY <1>1, <1>2, TwoKinds

-----------------------------------------------------------------------------
(* Names.                                                                  *)

\* Where a task is tells which step brought it there.
LEMMA PcStep ==
    ASSUME ConfigType, NEW n \in NetIds, Config(n)
    PROVE  LET pc == work'[n].pc
           IN  /\ pc \in {"known", "fresh"} => ReadDevices(n)
               /\ pc \in {"found", "new"} => ReadNames(n)
               /\ pc = "opted" => FindOpt(n)
               /\ pc = "device" => AddDevice(n)
               /\ pc = "opt" => AddOpt(n)
               /\ pc = "set" => SetAddress(n) \/ MakeInterface(n)
               /\ pc = "kea" => KeaRead(n)
<1>1. KeaSet(n) \/ Break(n) => work'[n].pc = "idle"
    <2>1. KeaSet(n) \/ Break(n) => work' = [work EXCEPT ![n] = NoWork]
        BY DEF KeaSet, Break, Reset
    <2> QED
        BY <2>1 DEF ConfigType, NoWork
<1>2. SetAddress(n) \/ MakeInterface(n) => work'[n].pc = "set"
    BY DEF ConfigType, SetAddress, MakeInterface
<1>3. AddDevice(n) => work'[n].pc = "device"
    BY DEF ConfigType, AddDevice
<1>4. AddOpt(n) => work'[n].pc = "opt"
    BY DEF ConfigType, AddOpt
<1>5. /\ ReadDevices(n) => work'[n].pc \in {"known", "fresh"}
      /\ ReadNames(n) => work'[n].pc \in {"found", "new"}
      /\ FindOpt(n) => work'[n].pc = "opted"
      /\ KeaRead(n) => work'[n].pc = "kea"
    BY WorkStep
<1> QED
    BY <1>1, <1>2, <1>3, <1>4, <1>5 DEF Config

LEMMA TagsStay ==
    ASSUME TypeInv, AtWork, [VlanNext]_<<vars, vlanVars>>, NEW n \in NetIds, Working(n)
    PROVE  Tag(n)' = Tag(n) /\ nets'[n] = nets[n]
BY RowOfWork, RowsStay, AllStepsMap DEF Tag

LEMMA AloneStep ==
    ASSUME TypeInv, ConfigType, AtWork, Alone, [VlanNext]_<<vars, vlanVars>>
    PROVE  Alone'
<1>1. CASE Quiet
    <2>1. UNCHANGED <<work, overlap>>
        BY <1>1 DEF Quiet, vlanVars
    <2> QED
        BY <2>1, TagsStay DEF Alone, Working, Clear
<1>2. ASSUME NEW n \in NetIds, Config(n)
      PROVE  Alone'
    <2>1. /\ \A m \in NetIds : Tag(m)' = Tag(m)
          /\ \A m \in NetIds \ {n} : work'[m] = work[m]
          /\ Clear' \subseteq Clear
        BY <1>2, ConfigKeeps DEF Tag, Clear
    <2>2. CASE ReadDevices(n)
        <3>1. ASSUME NEW m \in NetIds \ {n}, Working(m)
              PROVE  Tag(m) \in overlap' /\ Tag(n) \in overlap'
            BY <2>2, <3>1 DEF ReadDevices, Tag
        <3> QED
            BY <2>1, <3>1 DEF Alone, Working, Clear
    <2>3. CASE ~ReadDevices(n)
        <3>1. Working(n)' => Working(n)
            <4>1. CASE Break(n)
                BY <4>1, ConfigType DEF Break, Reset, Working, NoWork, ConfigType
            <4> QED
                BY <1>2, <2>3, <4>1 DEF Config, Working, ReadNames, FindOpt, SetAddress,
                   AddDevice, AddOpt, MakeInterface, KeaRead, KeaSet
        <3> QED
            BY <2>1, <3>1 DEF Alone, Working
    <2> QED
        BY <2>2, <2>3
<1> QED
    BY <1>1, <1>2, TwoKinds

\* While a task of a clear tag works, no other one does anything, but end.
LEMMA Bystander ==
    ASSUME TypeInv, ConfigType, AtWork, Alone, NEW n \in NetIds, Config(n),
           NEW m \in NetIds \ {n}, Working(m), Tag(m) \in Clear'
    PROVE  /\ ~Working(n) /\ Break(n)
           /\ UNCHANGED <<device, opts, running, kea, lost, cut, overlap>>
<1>1. Tag(m) \in Clear /\ Tag(m) \notin overlap'
    BY ConfigKeeps DEF Clear
<1>2. ~Working(n)
    BY <1>1 DEF Alone
<1>3. ~ReadDevices(n)
    BY <1>1 DEF ReadDevices, Tag
<1>4. Break(n)
    BY <1>2, <1>3 DEF Config, Working, ReadNames, FindOpt, SetAddress,
                      AddDevice, AddOpt, MakeInterface, KeaRead, KeaSet
<1> QED
    BY <1>2, <1>4 DEF Break, Working, configVars

\* A tag's device number is set once; a number it loses is noted.
LEMMA DeviceSet ==
    ASSUME TypeInv, ConfigType, AtWork, NEW n \in NetIds, AddDevice(n)
    PROVE  /\ Tag(n) \in VlanTags
           /\ device' = [device EXCEPT ![Tag(n)] = work[n].device]
           /\ device'[Tag(n)] = work[n].device /\ work[n].device \in Nat \ {0}
           /\ \A v \in VlanTags \ {Tag(n)} : device'[v] = device[v]
           /\ lost \subseteq lost'
           /\ device[Tag(n)] \in {0, work[n].device} \cup lost'
           /\ lost' \subseteq lost \cup {device[Tag(n)]}
           /\ (device[Tag(n)] = 0 => lost' = lost)
<1>1. Working(n)
    BY DEF AddDevice, Working
<1>2. Tag(n) \in VlanTags /\ work[n].device \in Nat \ {0}
    BY <1>1, RowOfWork DEF AtWork, ConfigType
<1>3. /\ device' = [device EXCEPT ![Tag(n)] = work[n].device]
      /\ lost' = IF device[Tag(n)] \in {0, work[n].device} THEN lost
                 ELSE lost \cup {device[Tag(n)]}
    BY DEF AddDevice, Tag
<1> QED
    BY <1>2, <1>3 DEF ConfigType

LEMMA OnDevicesStep ==
    ASSUME TypeInv, ConfigType, AtWork, OnDevices, [VlanNext]_<<vars, vlanVars>>
    PROVE  OnDevices'
<1>1. CASE Quiet
    BY <1>1 DEF Quiet, vlanVars, configVars, OnDevices, Numbers, Devices, Opts
<1>2. ASSUME NEW n \in NetIds, Config(n)
      PROVE  OnDevices'
    <2>1. Numbers \ {0} \subseteq Numbers'
        <3>1. CASE AddDevice(n)
            BY <3>1, DeviceSet DEF Numbers, Devices
        <3>2. CASE UNCHANGED <<device, lost>>
            BY <3>2 DEF Numbers, Devices
        <3> QED
            BY <1>2, <3>1, <3>2, ConfigWrites
    <2>2. ASSUME NEW o \in Opts' PROVE opts'[o].device \in Numbers'
        <3>1. ASSUME o \in Opts, opts'[o].device = opts[o].device
              PROVE  opts'[o].device \in Numbers'
            <4>1. opts[o].device # 0 /\ opts[o].device \in Numbers
                BY <3>1, OptsAre DEF OnDevices
            <4> QED
                BY <2>1, <3>1, <4>1
        <3>2. CASE SetAddress(n)
            BY <2>2, <3>1, <3>2, AddressSet
        <3>3. CASE AddOpt(n)
            <4> DEFINE q == IF work[n].opt \in Opts THEN work[n].opt ELSE NextOpt
            <4>1. opts'[q].device = work[n].device
                BY <3>3, OptAdded
            <4>2. \A x \in Opts' \ {q} : x \in Opts /\ opts'[x] = opts[x]
                BY <3>3, OptAdded
            <4>3. work[n].device \in Numbers /\ work[n].device # 0
                BY <3>3 DEF AddOpt, OnDevices, AtWork, Working
            <4> HIDE DEF q
            <4>4. CASE o = q
                BY <2>1, <4>1, <4>3, <4>4
            <4>5. CASE o # q
                BY <2>2, <3>1, <4>2, <4>5
            <4> QED
                BY <4>4, <4>5
        <3>4. CASE opts' = opts
            BY <2>2, <3>1, <3>4 DEF Opts
        <3> QED
            BY <1>2, <3>2, <3>3, <3>4, ConfigWrites
    <2>3. ASSUME NEW m \in NetIds, work'[m].pc = "device"
          PROVE  work'[m].device \in Numbers'
        <3>1. CASE m # n
            <4>1. work'[m] = work[m]
                BY <1>2, <3>1, ConfigKeeps
            <4>2. work[m].device \in Numbers /\ work[m].device # 0
                BY <2>3, <4>1 DEF OnDevices, AtWork, Working
            <4> QED
                BY <2>1, <4>1, <4>2
        <3>2. CASE m = n
            <4>1. AddDevice(n)
                BY <1>2, <2>3, <3>2, PcStep
            <4>2. work'[n].device = work[n].device
                BY <1>2, <4>1, WorkStep DEF ConfigType
            <4>3. device'[Tag(n)] = work'[n].device /\ Tag(n) \in VlanTags
                BY <4>1, <4>2, DeviceSet
            <4> QED
                BY <3>2, <4>3 DEF Numbers, Devices
        <3> QED
            BY <3>1, <3>2
    <2> QED
        BY <2>2, <2>3 DEF OnDevices
<1> QED
    BY <1>1, <1>2, TwoKinds

LEMMA OptFound ==
    ASSUME ConfigType, NEW n \in NetIds, FindOpt(n)
    PROVE  \/ work'[n].opt = work[n].opt /\ OptsOf(work[n].device) = {}
           \/ work'[n].opt \in OptsOf(work[n].device)
<1> DEFINE mine == OptsOf(work[n].device)
           first == CHOOSE x \in mine : \A y \in mine : x <= y
<1>1. mine = {} \/ first \in mine
    BY FirstIsOne
<1>2. work' = [work EXCEPT ![n].pc = "opted", ![n].opt = IF mine = {} THEN @ ELSE first]
    BY DEF FindOpt
<1> HIDE DEF mine, first
<1>3. work'[n].opt = IF mine = {} THEN work[n].opt ELSE first
    BY <1>2 DEF ConfigType
<1> QED
    BY <1>1, <1>3 DEF mine

LEMMA DeviceKept ==
    ASSUME TypeInv, ConfigType, AtWork, NEW n \in NetIds, Config(n),
           NEW v \in VlanTags, Tag(n) # v
    PROVE  device'[v] = device[v]
BY ConfigWrites, DeviceSet

\* The device and the interfaces of a clear tag are written by its own task.
LEMMA Untouched ==
    ASSUME TypeInv, ConfigType, AtWork, Elsewhere, NEW n \in NetIds, Config(n),
           NEW v \in Wires, Tag(n) # v, NEW d, d = device[v]
    PROVE  /\ device'[v] = d
           /\ (OptsOf(d))' = OptsOf(d)
           /\ \A o \in OptsOf(d) : opts'[o] = opts[o]
<1>1. device'[v] = d
    BY DeviceKept DEF Wires, Clear
<1>2. Working(n) =>
          /\ work[n].device # d
          /\ work[n].pc \notin {"known", "fresh"} => work[n].opt \notin OptsOf(d)
    BY DEF Elsewhere
<1>3. CASE SetAddress(n)
    <2>1. work[n].opt \notin OptsOf(d)
        BY <1>2, <1>3 DEF SetAddress, Working
    <2> QED
        BY <1>1, <1>3, <2>1, AddressSet DEF OptsOf
<1>4. CASE AddOpt(n)
    <2> DEFINE q == IF work[n].opt \in Opts THEN work[n].opt ELSE NextOpt
    <2>1. work[n].opt \notin OptsOf(d) /\ work[n].device # d
        BY <1>2, <1>4 DEF AddOpt, Working
    <2>2. q \notin OptsOf(d)
        BY <2>1, OptsAre DEF OptsOf
    <2>3. (OptsOf(d))' = OptsOf(d) \ {q}
        BY <1>4, <2>1, OptAdded
    <2>4. \A o \in Opts' \ {q} : opts'[o] = opts[o]
        BY <1>4, OptAdded
    <2>5. OptsOf(d) \subseteq Opts' \ {q}
        BY <1>4, <2>2, OptAdded DEF OptsOf
    <2> QED
        BY <1>1, <2>2, <2>3, <2>4, <2>5
<1>5. CASE opts' = opts
    BY <1>1, <1>5 DEF OptsOf, Opts
<1> QED
    BY <1>3, <1>4, <1>5, ConfigWrites

LEMMA DevicesApartStep ==
    ASSUME TypeInv, ConfigType, AtWork, Chosen, DevicesApart, Elsewhere,
           [VlanNext]_<<vars, vlanVars>>
    PROVE  DevicesApart'
<1>1. CASE Quiet
    BY <1>1 DEF Quiet, vlanVars, configVars, DevicesApart, Wires, Clear
<1>2. ASSUME NEW n \in NetIds, Config(n)
      PROVE  DevicesApart'
    <2>1. Clear' \subseteq Clear
        BY <1>2, ConfigKeeps DEF Clear
    <2>2. CASE device' = device
        BY <2>1, <2>2 DEF DevicesApart, Wires
    <2>3. CASE AddDevice(n)
        <3>1. SUFFICES ASSUME NEW v \in Wires', NEW w \in VlanTags \ {v}
                       PROVE  device'[v] # device'[w]
            BY DEF DevicesApart
        <3>2. v \in Clear /\ v \in VlanTags /\ device'[v] # 0 /\ Working(n) /\ work[n].pc = "new"
            BY <2>1, <2>3, <3>1 DEF Wires, Clear, AddDevice, Working
        <3>3. CASE v = Tag(n)
            <4>1. \A x \in VlanTags : device[x] < work[n].device
                BY <3>2, <3>3 DEF Chosen, ChosenBy
            <4>2. device'[v] = work[n].device /\ device'[w] = device[w]
                BY <2>3, <3>2, <3>3, DeviceSet
            <4>3. device[w] \in Nat /\ work[n].device \in Nat
                BY DEF ConfigType
            <4> QED
                BY <4>1, <4>2, <4>3
        <3>4. CASE v # Tag(n)
            <4>1. device'[v] = device[v] /\ v \in Wires
                BY <2>3, <3>2, <3>4, DeviceSet DEF Wires
            <4>2. work[n].device # device[v]
                BY <3>2, <3>4, <4>1 DEF Elsewhere
            <4> QED
                BY <2>3, <4>1, <4>2, DeviceSet DEF DevicesApart
        <3> QED
            BY <3>3, <3>4
    <2> QED
        BY <1>2, <2>2, <2>3, ConfigWrites
<1> QED
    BY <1>1, <1>2, TwoKinds

\* A number no tag has, and none had, has no interface.
LEMMA NewIsBare ==
    ASSUME ConfigType, OnDevices, NEW d \in Nat \ lost, \A v \in VlanTags : device[v] < d
    PROVE  OptsOf(d) = {}
<1>1. d \notin Devices
    BY DEF Devices, ConfigType
<1> QED
    BY <1>1 DEF OnDevices, Numbers, OptsOf

LEMMA OptsApartStep ==
    ASSUME TypeInv, ConfigType, AtWork, OnDevices, Chosen, OptsApart, Elsewhere,
           [VlanNext]_<<vars, vlanVars>>
    PROVE  OptsApart'
<1>1. CASE Quiet
    BY <1>1 DEF Quiet, vlanVars, configVars, OptsApart, Wires, Clear, OptsOf, Opts
<1>2. ASSUME NEW n \in NetIds, Config(n)
      PROVE  OptsApart'
    <2>1. Clear' \subseteq Clear /\ lost \subseteq lost'
        BY <1>2, ConfigKeeps, ConfigWrites, DeviceSet DEF Clear
    <2>2. SUFFICES ASSUME NEW v \in Wires', device'[v] \notin lost', NEW d, d = device'[v]
                   PROVE  \A o, q \in (OptsOf(d))' : o = q
        BY DEF OptsApart, OptsOf
    <2>3. v \in Clear /\ v \in VlanTags /\ d # 0 /\ d \notin lost
        BY <2>1, <2>2 DEF Wires, Clear
    <2>4. CASE Tag(n) # v
        <3>1. device[v] = d /\ v \in Wires
            BY <1>2, <2>2, <2>3, <2>4, DeviceKept DEF Wires
        <3>2. (OptsOf(d))' = OptsOf(d)
            BY <1>2, <2>4, <3>1, Untouched
        <3> QED
            BY <2>3, <3>1, <3>2 DEF OptsApart
    <2>5. CASE Tag(n) = v /\ AddDevice(n)
        <3>1. Working(n) /\ work[n].pc = "new" /\ opts' = opts
            BY <2>5 DEF AddDevice, Working
        <3>2. \A x \in VlanTags : device[x] < work[n].device
            BY <2>3, <2>5, <3>1 DEF Chosen, ChosenBy
        <3>3. d = work[n].device /\ d \in Nat
            BY <2>2, <2>5, DeviceSet
        <3>4. OptsOf(d) = {}
            BY <2>3, <3>2, <3>3, NewIsBare
        <3>5. (OptsOf(d))' = OptsOf(d)
            BY <3>1 DEF OptsOf, Opts
        <3> QED
            BY <3>4, <3>5
    <2>6. CASE Tag(n) = v /\ AddOpt(n)
        <3>1. Working(n) /\ work[n].pc = "device" /\ device' = device
            BY <2>6 DEF AddOpt, Working
        <3>2. /\ work[n].opt = NextOpt /\ d = work[n].device
              /\ work[n].device \in lost \/ OptsOf(work[n].device) = {}
            BY <2>2, <2>3, <2>6, <3>1 DEF Chosen, ChosenBy
        <3>3. OptsOf(d) = {}
            BY <2>3, <3>2
        <3>4. (OptsOf(d))' = OptsOf(d) \cup {NextOpt}
            BY <2>6, <3>2, OptAdded
        <3> QED
            BY <3>3, <3>4
    <2>7. CASE ~AddDevice(n) /\ ~AddOpt(n)
        <3>1. device[v] = d /\ v \in Wires
            BY <1>2, <2>2, <2>3, <2>7, ConfigWrites DEF Wires
        <3>2. (OptsOf(d))' = OptsOf(d)
            <4>1. CASE SetAddress(n)
                BY <4>1, AddressSet
            <4>2. CASE opts' = opts
                BY <4>2 DEF OptsOf, Opts
            <4> QED
                BY <1>2, <2>7, <4>1, <4>2, ConfigWrites
        <3> QED
            BY <2>3, <3>1, <3>2 DEF OptsApart
    <2> QED
        BY <2>4, <2>5, <2>6, <2>7
<1> QED
    BY <1>1, <1>2, TwoKinds

LEMMA ElsewhereStep ==
    ASSUME TypeInv, ConfigType, Bounded, AtWork, Alone, Alone', DevicesApart, Elsewhere,
           [VlanNext]_<<vars, vlanVars>>
    PROVE  Elsewhere'
<1>1. CASE Quiet
    <2>1. UNCHANGED <<device, opts, work, overlap>>
        BY <1>1 DEF Quiet, vlanVars, configVars
    <2> QED
        BY <2>1, TagsStay DEF Elsewhere, Wires, Clear, OptsOf, Opts, Working
<1>2. ASSUME NEW n \in NetIds, Config(n)
      PROVE  Elsewhere'
    <2>1. /\ Clear' \subseteq Clear
          /\ \A m \in NetIds : Tag(m)' = Tag(m)
          /\ \A m \in NetIds \ {n} : work'[m] = work[m]
        BY <1>2, ConfigKeeps DEF Clear, Tag
    <2>2. SUFFICES ASSUME NEW v \in Wires', NEW m \in NetIds, Working(m)', Tag(m) # v,
                          NEW d, d = device'[v]
                   PROVE  /\ work'[m].device # d
                          /\ work'[m].pc \notin {"known", "fresh"} =>
                                work'[m].opt \notin (OptsOf(d))'
        BY <2>1 DEF Elsewhere, OptsOf
    <2>3. v \in Clear /\ v \in VlanTags /\ v \in Clear' /\ d # 0
        BY <2>1, <2>2 DEF Wires, Clear
    <2>4. CASE Tag(n) = v
        <3>1. m # n /\ Working(m) /\ work'[m] = work[m]
            BY <2>1, <2>2, <2>4 DEF Working
        <3>2. ~Working(n)
            BY <2>3, <2>4, <3>1 DEF Alone
        <3>3. ~Working(n)'
            BY <2>1, <2>2, <2>3, <2>4, <3>1 DEF Alone
        <3>4. Break(n)
            <4>1. ~ReadDevices(n)
                BY <1>2, <3>3, WorkStep DEF Working
            <4> QED
                BY <1>2, <3>2, <4>1 DEF Config, Working, ReadNames, FindOpt, SetAddress,
                   AddDevice, AddOpt, MakeInterface, KeaRead, KeaSet
        <3>5. UNCHANGED <<device, opts>>
            BY <3>4 DEF Break, configVars
        <3>6. v \in Wires /\ d = device[v] /\ (OptsOf(d))' = OptsOf(d)
            BY <2>2, <2>3, <3>5 DEF Wires, OptsOf, Opts
        <3> QED
            BY <2>2, <3>1, <3>6 DEF Elsewhere
    <2>5. CASE Tag(n) # v
        <3>1. device[v] = d /\ v \in Wires
            BY <1>2, <2>2, <2>3, <2>5, DeviceKept DEF Wires
        <3>2. (OptsOf(d))' = OptsOf(d)
            BY <1>2, <2>5, <3>1, Untouched
        <3>3. CASE m # n
            BY <2>1, <2>2, <3>1, <3>2, <3>3 DEF Elsewhere, Working
        <3>4. CASE m = n /\ ReadDevices(n)
            <4>1. Tag(n) \in VlanTags
                BY <3>4, RowOfTask DEF ReadDevices
            <4>2. work'[n].pc \in {"known", "fresh"}
                BY <1>2, <3>4, WorkStep
            <4>3. CASE device[Tag(n)] # 0
                <5>1. work'[n].device = device[Tag(n)]
                    BY <1>2, <3>4, <4>3, WorkStep
                <5> QED
                    BY <2>5, <3>1, <3>4, <4>1, <4>2, <5>1 DEF DevicesApart
            <4>4. CASE device[Tag(n)] = 0
                <5>1. work'[n].device = NextDevice
                    BY <1>2, <3>4, <4>4, WorkStep
                <5>2. d < NextDevice /\ NextDevice \in Nat /\ d \in Nat
                    BY <2>3, <3>1, <4>1, NextIsLarger DEF ConfigType
                <5> QED
                    BY <3>4, <4>2, <5>1, <5>2
            <4> QED
                BY <4>3, <4>4
        <3>5. CASE m = n /\ ~ReadDevices(n)
            <4>1. ASSUME Working(n), work'[n].device = work[n].device,
                         work'[n].pc \notin {"known", "fresh"} => work'[n].opt \notin OptsOf(d)
                  PROVE  /\ work'[n].device # d
                         /\ work'[n].pc \notin {"known", "fresh"} =>
                               work'[n].opt \notin (OptsOf(d))'
                BY <2>2, <3>1, <3>2, <3>5, <4>1 DEF Elsewhere
            <4>2. CASE ReadNames(n)
                <5>1. Working(n) /\ work'[n].device = work[n].device /\ work'[n].opt = NextOpt
                    BY <1>2, <4>2, WorkStep DEF Working
                <5>2. NextOpt \notin OptsOf(d)
                    BY OptsAre DEF OptsOf
                <5> QED
                    BY <3>5, <4>1, <5>1, <5>2
            <4>3. CASE FindOpt(n)
                <5>1. work[n].pc = "found" /\ work'[n].device = work[n].device
                    BY <1>2, <4>3, WorkStep
                <5>2. work[n].device # d /\ work[n].opt \notin OptsOf(d)
                    BY <2>2, <3>1, <3>5, <5>1 DEF Elsewhere, Working
                <5>3. work'[n].opt \notin OptsOf(d)
                    BY <4>3, <5>2, OptFound DEF OptsOf
                <5> QED
                    BY <3>5, <4>1, <5>1, <5>3 DEF Working
            <4>4. CASE SetAddress(n) \/ AddDevice(n) \/ AddOpt(n) \/ MakeInterface(n) \/ KeaRead(n)
                <5>1. /\ Working(n) /\ work[n].pc \notin {"known", "fresh"}
                      /\ work'[n].device = work[n].device /\ work'[n].opt = work[n].opt
                    <6>1. CASE KeaRead(n)
                        BY <1>2, <6>1, WorkStep DEF Working
                    <6>2. CASE SetAddress(n) \/ AddDevice(n) \/ AddOpt(n) \/ MakeInterface(n)
                        BY <6>2 DEF SetAddress, AddDevice, AddOpt, MakeInterface, Working, ConfigType
                    <6> QED
                        BY <4>4, <6>1, <6>2
                <5>2. work[n].opt \notin OptsOf(d)
                    BY <2>2, <3>1, <3>5, <5>1 DEF Elsewhere
                <5> QED
                    BY <3>5, <4>1, <5>1, <5>2
            <4>5. CASE KeaSet(n) \/ Break(n)
                BY <2>2, <3>5, <4>5 DEF KeaSet, Break, Reset, ConfigType, NoWork, Working
            <4> QED
                BY <1>2, <3>5, <4>2, <4>3, <4>4, <4>5 DEF Config
        <3> QED
            BY <3>3, <3>4, <3>5
    <2> QED
        BY <2>4, <2>5
<1> QED
    BY <1>1, <1>2, TwoKinds


LEMMA ChosenStep ==
    ASSUME TypeInv, ConfigType, Bounded, AtWork, Alone, OnDevices, Chosen,
           [VlanNext]_<<vars, vlanVars>>
    PROVE  Chosen'
<1>1. CASE Quiet
    <2>1. UNCHANGED <<device, opts, work, lost, overlap>>
        BY <1>1 DEF Quiet, vlanVars, configVars
    <2>2. SUFFICES ASSUME NEW n \in NetIds, Working(n)', (Tag(n) \in Clear)'
                   PROVE  ChosenBy(n)'
        BY DEF Chosen
    <2>3. Working(n) /\ Tag(n)' = Tag(n) /\ nets'[n] = nets[n]
        BY <2>1, <2>2, TagsStay DEF Working
    <2>4. ChosenBy(n)
        BY <2>1, <2>2, <2>3 DEF Chosen, Clear
    <2> QED
        BY <2>1, <2>3, <2>4 DEF ChosenBy, NextOpt, OptsOf, Opts
<1>2. ASSUME NEW n \in NetIds, Config(n)
      PROVE  Chosen'
    <2>1. /\ nets' = nets
          /\ \A m \in NetIds : Tag(m)' = Tag(m)
          /\ \A m \in NetIds \ {n} : work'[m] = work[m]
          /\ Clear' \subseteq Clear
        BY <1>2, ConfigKeeps DEF Tag, Clear
    <2>2. SUFFICES ASSUME NEW m \in NetIds, Working(m)', Tag(m) \in Clear'
                   PROVE  ChosenBy(m)'
        BY <2>1 DEF Chosen
    <2>3. CASE m # n
        <3>1. Working(m) /\ work'[m] = work[m]
            BY <2>1, <2>2, <2>3 DEF Working
        <3>2. UNCHANGED <<device, opts, lost>>
            BY <1>2, <2>2, <2>3, <3>1, Bystander
        <3>3. ChosenBy(m)
            BY <2>1, <2>2, <3>1 DEF Chosen
        <3> QED
            BY <2>1, <3>1, <3>2, <3>3 DEF ChosenBy, NextOpt, OptsOf, Opts
    <2>4. CASE m = n
        <3> DEFINE w == work[n]
                   x == work'[n]
                   v == Tag(n)
        <3>1. v \in Clear /\ v \in VlanTags /\ Tag(n)' = v
            BY <2>1, <2>2, <2>4 DEF Clear
        <3>2. Working(n) => ChosenBy(n)
            BY <3>1 DEF Chosen
        <3>3. CASE ReadDevices(n)
            <4>1. device' = device
                BY <3>3 DEF ReadDevices, configVars
            <4>2. IF device[v] # 0 THEN x.pc = "known" /\ x.device = device[v]
                                   ELSE x.pc = "fresh" /\ x.device = NextDevice
                BY <1>2, <3>3, WorkStep
            <4>3. \A t \in VlanTags : device[t] < NextDevice
                BY <3>1, NextIsLarger
            <4>4. ChosenBy(n)'
                BY <3>1, <4>1, <4>2, <4>3 DEF ChosenBy
            <4> QED
                BY <2>4, <4>4
        <3>4. CASE ReadNames(n)
            <4>1. UNCHANGED <<device, opts>> /\ Working(n)
                BY <3>4 DEF ReadNames, configVars, Working
            <4>2. /\ (w.pc = "known" /\ x.pc = "found") \/ (w.pc = "fresh" /\ x.pc = "new")
                  /\ x.device = w.device /\ x.opt = NextOpt
                BY <1>2, <3>4, WorkStep
            <4>3. ChosenBy(n)'
                BY <3>1, <3>2, <4>1, <4>2 DEF ChosenBy, NextOpt
            <4> QED
                BY <2>4, <4>3
        <3>5. CASE FindOpt(n)
            <4>1. UNCHANGED <<device, opts>> /\ Working(n)
                BY <3>5 DEF FindOpt, configVars, Working
            <4>2. w.pc = "found" /\ x.pc = "opted" /\ x.device = w.device
                BY <1>2, <3>5, WorkStep
            <4>3. x.opt = w.opt \/ x.opt \in OptsOf(w.device)
                BY <3>5, OptFound
            <4>4. w.opt = NextOpt /\ device[v] = w.device
                BY <3>2, <4>1, <4>2 DEF ChosenBy
            <4>5. ChosenBy(n)'
                BY <3>1, <4>1, <4>2, <4>3, <4>4 DEF ChosenBy, NextOpt, OptsOf, Opts
            <4> QED
                BY <2>4, <4>5
        <3>6. CASE SetAddress(n)
            <4>1. device' = device /\ Working(n) /\ w.opt \in Opts
                BY <3>6 DEF SetAddress, Working
            <4>2. w.pc = "opted" /\ x.pc = "set" /\ x.device = w.device /\ x.opt = w.opt
                BY <3>6 DEF SetAddress, ConfigType
            <4>3. w.opt \in OptsOf(w.device) /\ device[v] = w.device
                BY <3>2, <4>1, <4>2, OptsAre DEF ChosenBy
            <4>4. opts'[w.opt].ip = nets[n].subnet /\ \A d : (OptsOf(d))' = OptsOf(d)
                BY <3>6, AddressSet
            <4>5. x.opt \in (OptsOf(x.device))
                BY <4>2, <4>3
            <4>6. ASSUME NEW d, d = x.device PROVE x.opt \in (OptsOf(d))'
                BY <4>4, <4>5, <4>6
            <4>7. ChosenBy(n)'
                BY <2>1, <3>1, <4>1, <4>2, <4>3, <4>4, <4>6 DEF ChosenBy
            <4> QED
                BY <2>4, <4>7
        <3>7. CASE AddDevice(n)
            <4>1. opts' = opts /\ Working(n)
                BY <3>7 DEF AddDevice, Working
            <4>2. w.pc = "new" /\ x.pc = "device" /\ x.device = w.device /\ x.opt = w.opt
                BY <3>7 DEF AddDevice, ConfigType
            <4>3. w.opt = NextOpt /\ \A t \in VlanTags : device[t] < w.device
                BY <3>2, <4>1, <4>2 DEF ChosenBy
            <4>4. device'[v] = w.device /\ w.device \in Nat /\ lost \subseteq lost'
                BY <3>7, DeviceSet
            <4>5. w.device \in lost \/ OptsOf(w.device) = {}
                BY <4>3, <4>4, NewIsBare
            <4>6. ChosenBy(n)'
                BY <3>1, <4>1, <4>2, <4>3, <4>4, <4>5 DEF ChosenBy, NextOpt, OptsOf, Opts
            <4> QED
                BY <2>4, <4>6
        <3>8. CASE AddOpt(n)
            <4>1. device' = device /\ Working(n)
                BY <3>8 DEF AddOpt, Working
            <4>2. w.pc = "device" /\ x.pc = "opt" /\ x.device = w.device /\ x.opt = w.opt
                BY <3>8 DEF AddOpt, ConfigType
            <4>3. w.opt = NextOpt /\ device[v] = w.device
                BY <3>2, <4>1, <4>2 DEF ChosenBy
            <4>4. /\ opts'[NextOpt].ip = nets[n].subnet
                  /\ \A d : d = w.device => (OptsOf(d))' = OptsOf(d) \cup {NextOpt}
                BY <3>8, <4>3, OptAdded
            <4>5. ASSUME NEW d, d = x.device PROVE x.opt \in (OptsOf(d))'
                BY <4>2, <4>3, <4>4, <4>5
            <4>6. ChosenBy(n)'
                BY <2>1, <3>1, <4>1, <4>2, <4>3, <4>4, <4>5 DEF ChosenBy
            <4> QED
                BY <2>4, <4>6
        <3>9. CASE MakeInterface(n) \/ KeaRead(n)
            <4>1. UNCHANGED <<device, opts>> /\ Working(n)
                BY <3>9 DEF MakeInterface, KeaRead, configVars, Working
            <4>2. /\ w.pc \in {"opt", "set"} /\ x.pc \in {"set", "kea"}
                  /\ x.device = w.device /\ x.opt = w.opt
                <5>1. CASE MakeInterface(n)
                    BY <5>1 DEF MakeInterface, ConfigType
                <5>2. CASE KeaRead(n)
                    BY <1>2, <5>2, WorkStep
                <5> QED
                    BY <3>9, <5>1, <5>2
            <4>3. /\ device[v] = w.device
                  /\ w.opt \in OptsOf(w.device) /\ opts[w.opt].ip = nets[n].subnet
                BY <3>2, <4>1, <4>2 DEF ChosenBy
            <4>4. ChosenBy(n)'
                BY <2>1, <3>1, <4>1, <4>2, <4>3 DEF ChosenBy, OptsOf, Opts
            <4> QED
                BY <2>4, <4>4
        <3>10. CASE KeaSet(n) \/ Break(n)
            BY <2>2, <2>4, <3>10 DEF KeaSet, Break, Reset, ConfigType, NoWork, Working
        <3> QED
            BY <1>2, <3>3, <3>4, <3>5, <3>6, <3>7, <3>8, <3>9, <3>10 DEF Config
    <2> QED
        BY <2>3, <2>4
<1> QED
    BY <1>1, <1>2, TwoKinds

-----------------------------------------------------------------------------
(* NamesApart.                                                             *)

LEMMA NamesInit == VlanInit => NamesInv
<1> SUFFICES ASSUME VlanInit PROVE NamesInv
    OBVIOUS
<1>1. ConfigType
    BY DEF VlanInit, ConfigType, NoWork, WorkPc
<1>2. Bounded
    BY DEF VlanInit, Bounded
<1>3. SentOnce
    BY DEF VlanInit, Init, Idle, SentOnce
<1>4. \A n \in NetIds : ~Working(n)
    BY DEF VlanInit, Working, NoWork
<1>5. AtWork /\ Alone /\ Chosen /\ Elsewhere
    BY <1>4 DEF AtWork, Alone, Chosen, Elsewhere
<1>6. Opts = {} /\ Wires = {}
    BY DEF VlanInit, Opts, Wires, Clear
<1>7. OnDevices
    BY <1>4, <1>6 DEF OnDevices, Working
<1>8. DevicesApart /\ OptsApart
    BY <1>6 DEF DevicesApart, OptsApart
<1> QED
    BY <1>1, <1>2, <1>3, <1>5, <1>7, <1>8 DEF NamesInv

LEMMA NamesStep ==
    ASSUME TypeInv, NamesInv, [VlanNext]_<<vars, vlanVars>>
    PROVE  NamesInv'
<1> USE DEF NamesInv
<1>1. (ConfigType /\ Bounded)'
    BY ConfigTyped
<1>2. SentOnce'
    BY SentStep, AllStepsMap
<1>3. AtWork'
    BY AtWorkStep
<1>4. Alone'
    BY AloneStep
<1>5. OnDevices'
    BY OnDevicesStep
<1>6. Chosen'
    BY ChosenStep
<1>7. DevicesApart'
    BY DevicesApartStep
<1>8. OptsApart'
    BY OptsApartStep
<1>9. Elsewhere'
    BY <1>4, ElsewhereStep
<1> QED
    BY <1>1, <1>2, <1>3, <1>4, <1>5, <1>6, <1>7, <1>8, <1>9

LEMMA NamesInvariance == VlanSpec => []NamesInv
<1>1. IInv /\ NamesInv /\ [VlanNext]_<<vars, vlanVars>> => NamesInv'
    BY NamesStep DEF IInv
<1>2. VlanSpec => []IInv
    BY ImplementsNetworks, Invariance
<1> QED
    BY <1>1, <1>2, NamesInit, PTL DEF VlanSpec

\* Two tags never share a device, nor two interfaces one, unless two tasks
\* worked at once or the device is one a tag lost
\* (workers/tasks/vlan.py:291-334, opnsense_config_invm.py:331-346).
THEOREM NamesApartCorrect == VlanSpec => []NamesApart
<1>1. ASSUME NamesInv PROVE NamesApart
    <2>1. ASSUME NEW v \in VlanTags \ overlap, NEW w \in VlanTags \ overlap,
                 v # w, device[v] # 0
          PROVE  device[v] # device[w]
        BY <1>1, <2>1 DEF NamesInv, DevicesApart, Wires, Clear
    <2>2. ASSUME NEW v \in VlanTags \ overlap, device[v] \notin {0} \cup lost
          PROVE  Cardinality(OptsOf(device[v])) <= 1
        <3> DEFINE O == OptsOf(device[v])
        <3>1. \A o, q \in O : o = q
            BY <1>1, <2>2 DEF NamesInv, OptsApart, Wires, Clear
        <3>2. CASE O = {}
            <4>1. Cardinality(O) = 0
                BY <3>2, FS_EmptySet
            <4> QED
                BY <4>1
        <3>3. CASE O # {}
            <4>1. PICK o \in O : TRUE
                BY <3>3
            <4> HIDE DEF O
            <4>2. O = {o}
                BY <3>1, <4>1
            <4>3. Cardinality({o}) = 1
                BY FS_Singleton
            <4> QED
                BY <4>2, <4>3 DEF O
        <3> QED
            BY <3>2, <3>3
    <2> QED
        BY <2>1, <2>2 DEF NamesApart
<1> QED
    BY <1>1, NamesInvariance, PTL

-----------------------------------------------------------------------------
(* DoneIsWired.                                                            *)

LEMMA RunsStep ==
    ASSUME TypeInv, ConfigType, AtWork, Alone, Chosen, Elsewhere, Runs,
           [VlanNext]_<<vars, vlanVars>>
    PROVE  Runs'
<1> DEFINE Making(n) == work[n].pc \in {"device", "opt"}
<1>1. CASE Quiet
    <2>1. UNCHANGED <<device, running, work, overlap, cut>>
        BY <1>1 DEF Quiet, vlanVars, configVars
    <2>2. \A n \in NetIds : Making(n) => Tag(n)' = Tag(n)
        BY TagsStay DEF Working
    <2> QED
        BY <2>1, <2>2 DEF Runs, Wires, Clear
<1>2. ASSUME NEW n \in NetIds, Config(n)
      PROVE  Runs'
    <2>1. /\ \A m \in NetIds : Tag(m)' = Tag(m)
          /\ \A m \in NetIds \ {n} : work'[m] = work[m]
          /\ Clear' \subseteq Clear /\ cut \subseteq cut'
        BY <1>2, ConfigKeeps DEF Tag, Clear
    <2>2. SUFFICES ASSUME NEW v \in Wires', v \notin cut'
                   PROVE  \/ \E m \in NetIds : Making(m)' /\ Tag(m) = v
                          \/ <<device'[v], v>> \in running'
        BY <2>1 DEF Runs
    <2>3. v \in Clear /\ v \in VlanTags /\ v \notin cut /\ device'[v] # 0
        BY <2>1, <2>2 DEF Wires, Clear
    <2>4. ASSUME device'[v] = device[v],
                 Tag(n) = v => ~Making(n),
                 <<device[v], v>> \in running => <<device[v], v>> \in running'
          PROVE  \/ \E m \in NetIds : Making(m)' /\ Tag(m) = v
                 \/ <<device'[v], v>> \in running'
        <3>1. v \in Wires
            BY <2>3, <2>4 DEF Wires
        <3>2. CASE <<device[v], v>> \in running
            BY <2>4, <3>2
        <3>3. ASSUME NEW m \in NetIds, Making(m), Tag(m) = v
              PROVE  Making(m)' /\ Tag(m) = v
            BY <2>1, <2>4, <3>3
        <3> QED
            BY <2>3, <3>1, <3>2, <3>3 DEF Runs
    <2>5. CASE Tag(n) # v
        <3>1. device'[v] = device[v] /\ v \in Wires
            BY <1>2, <2>3, <2>5, DeviceKept DEF Wires
        <3>2. CASE MakeInterface(n)
            <4>1. work[n].device # device[v]
                BY <2>5, <3>1, <3>2 DEF MakeInterface, Elsewhere, Working
            <4> QED
                BY <2>4, <2>5, <3>1, <3>2, <4>1 DEF MakeInterface
        <3>3. CASE running' = running
            BY <2>4, <2>5, <3>1, <3>3
        <3> QED
            BY <1>2, <3>2, <3>3, ConfigWrites
    <2>6. CASE Tag(n) = v
        <3>1. CASE AddDevice(n) \/ AddOpt(n)
            <4>1. Making(n)'
                BY <3>1 DEF AddDevice, AddOpt, ConfigType
            <4> QED
                BY <2>6, <4>1
        <3>2. CASE MakeInterface(n)
            <4>1. device[v] = work[n].device /\ device' = device
                BY <2>3, <2>6, <3>2 DEF MakeInterface, Chosen, ChosenBy, Working
            <4> QED
                BY <2>6, <3>2, <4>1 DEF MakeInterface, Tag
        <3>3. CASE Break(n)
            <4>1. ~Making(n) /\ UNCHANGED <<device, running>>
                BY <2>2, <2>6, <3>3 DEF Break, configVars, Tag
            <4> QED
                BY <2>4, <4>1
        <3>4. CASE ~AddDevice(n) /\ ~AddOpt(n) /\ ~MakeInterface(n) /\ ~Break(n)
            <4>1. UNCHANGED <<device, running>>
                BY <1>2, <3>4, ConfigWrites
            <4>2. ~Making(n)
                BY <1>2, <3>4 DEF Config, ReadDevices, ReadNames, FindOpt, SetAddress,
                                  KeaRead, KeaSet, Working
            <4> QED
                BY <2>4, <4>1, <4>2
        <3> QED
            BY <3>1, <3>2, <3>3, <3>4
    <2> QED
        BY <2>5, <2>6
<1> QED
    BY <1>1, <1>2, TwoKinds

\* Beside the task of a clear tag that works, the others are idle.
LEMMA OwnTaskOnly ==
    ASSUME TypeInv, ConfigType, AtWork, Alone, Alone', NEW n \in NetIds, Config(n),
           NEW m \in NetIds \ {n}, Working(m), Tag(n) \in Clear'
    PROVE  UNCHANGED <<device, opts, running, kea, lost, cut, overlap>>
<1>1. work'[m] = work[m] /\ Tag(n)' = Tag(n) /\ Tag(n) \in Clear
    BY ConfigKeeps DEF Tag, Clear
<1>2. ~Working(n)
    BY <1>1 DEF Alone
<1>3. ~Working(n)'
    BY <1>1 DEF Alone, Working
<1>4. ~ReadDevices(n)
    BY <1>3, WorkStep DEF Working
<1>5. Break(n)
    BY <1>2, <1>4 DEF Config, Working, ReadNames, FindOpt, SetAddress,
                      AddDevice, AddOpt, MakeInterface, KeaRead, KeaSet
<1> QED
    BY <1>2, <1>5 DEF Break, Working, configVars

LEMMA KeaKeptStep ==
    ASSUME TypeInv, ConfigType, AtWork, Alone, Alone', Elsewhere, KeaKept,
           [VlanNext]_<<vars, vlanVars>>
    PROVE  KeaKept'
<1>1. CASE Quiet
    <2>1. UNCHANGED <<device, opts, kea, work, overlap>>
        BY <1>1 DEF Quiet, vlanVars, configVars
    <2>2. \A n \in NetIds : work[n].pc = "kea" => nets'[n] = nets[n]
        BY TagsStay DEF Working
    <2> QED
        BY <2>1, <2>2 DEF KeaKept, Wires, Clear, OptsOf, Opts, KeyAccepted
<1>2. ASSUME NEW n \in NetIds, Config(n)
      PROVE  KeaKept'
    <2>1. /\ nets' = nets
          /\ \A m \in NetIds \ {n} : work'[m] = work[m]
          /\ Clear' \subseteq Clear
        BY <1>2, ConfigKeeps DEF Clear
    <2>2. SUFFICES ASSUME NEW v \in Wires', NEW m \in NetIds, work'[m].pc = "kea",
                          KeyAccepted(m), NEW d, d = device'[v]
                   PROVE  work'[m].kea \cap (OptsOf(d))' = kea' \cap (OptsOf(d))'
        BY <2>1 DEF KeaKept, OptsOf, KeyAccepted
    <2>3. v \in Clear /\ v \in VlanTags /\ v \in Clear' /\ d # 0
        BY <2>1, <2>2 DEF Wires, Clear
    <2>4. CASE m = n
        <3>1. KeaRead(n)
            BY <1>2, <2>2, <2>4, PcStep
        <3>2. work'[n].kea = kea /\ kea' = kea
            BY <1>2, <2>2, <2>4, <3>1, WorkStep DEF KeaRead, configVars
        <3> QED
            BY <2>4, <3>2
    <2>5. CASE m # n /\ Tag(n) = v
        <3>1. Working(m) /\ work'[m] = work[m]
            BY <2>1, <2>2, <2>5 DEF Working
        <3>2. UNCHANGED <<device, opts, kea>>
            BY <1>2, <2>3, <2>5, <3>1, OwnTaskOnly
        <3>3. v \in Wires /\ d = device[v] /\ (OptsOf(d))' = OptsOf(d)
            BY <2>2, <2>3, <3>2 DEF Wires, OptsOf, Opts
        <3> QED
            BY <2>2, <3>1, <3>2, <3>3 DEF KeaKept
    <2>6. CASE m # n /\ Tag(n) # v
        <3>1. work'[m] = work[m]
            BY <2>1, <2>6
        <3>2. device[v] = d /\ v \in Wires
            BY <1>2, <2>2, <2>3, <2>6, DeviceKept DEF Wires
        <3>3. (OptsOf(d))' = OptsOf(d)
            BY <1>2, <2>6, <3>2, Untouched
        <3>4. work[m].kea \cap OptsOf(d) = kea \cap OptsOf(d)
            BY <2>2, <3>1, <3>2 DEF KeaKept
        <3>5. CASE KeaSet(n) /\ KeyAccepted(n)
            <4>1. work[n].pc = "kea" /\ kea' = work[n].kea \cup {work[n].opt}
                BY <3>5 DEF KeaSet
            <4>2. work[n].kea \cap OptsOf(d) = kea \cap OptsOf(d)
                BY <3>2, <3>5, <4>1 DEF KeaKept
            <4>3. work[n].opt \notin OptsOf(d)
                BY <2>6, <3>2, <4>1 DEF Elsewhere, Working
            <4>4. kea' \cap OptsOf(d) = kea \cap OptsOf(d)
                BY <4>1, <4>2, <4>3
            <4> QED
                BY <3>1, <3>3, <3>4, <4>4
        <3>6. CASE ~(KeaSet(n) /\ KeyAccepted(n))
            <4>1. kea' = kea
                BY <1>2, <3>6, ConfigWrites DEF KeaSet
            <4> QED
                BY <3>1, <3>3, <3>4, <4>1
        <3> QED
            BY <3>5, <3>6
    <2> QED
        BY <2>4, <2>5, <2>6
<1> QED
    BY <1>1, <1>2, TwoKinds

\* Only the end of its own work gives a network whose task has ended and which
\* is live; a deleted one that comes back is in reopened.
LEMMA AnsweredStep ==
    ASSUME TypeInv, ConfigType, SentOnce, AtWork, [VlanNext]_<<vars, vlanVars>>,
           NEW n \in NetIds, Answered(n)', n \notin reopened'
    PROVE  /\ Exists(n) /\ nets'[n] = nets[n] /\ Live(n)
           /\ KeaSet(n) \/ (Answered(n) /\ ~Config(n))
<1>1. KeaSet(n) \/ (task[n] \in {"configured", "done"} /\ ~Config(n))
    <2>1. task'[n] \in {"configured", "done"} /\ n \in DOMAIN task
        BY DEF Answered, TypeInv, TypeOK
    <2>2. ASSUME Config(n) PROVE KeaSet(n)
        <3>1. ~Break(n)
            <4>1. Break(n) => \E r : Leave(n, "queued", r) \/ Leave(n, "failed", r)
                <5>1. Break(n) => TaskFail(n) \/ WorkerCrash(n)
                    BY DEF Break
                <5>2. TaskFail(n) => \E r : Leave(n, "queued", r) \/ Leave(n, "failed", r)
                    BY Zenon DEF TaskFail
                <5>3. WorkerCrash(n) => \E r : Leave(n, "queued", r) \/ Leave(n, "failed", r)
                    BY DEF WorkerCrash
                <5> QED
                    BY <5>1, <5>2, <5>3
            <4> QED
                BY <2>1, <4>1 DEF Leave
        <3>2. task[n] = "marked"
            BY <2>2, <3>1, WhoWorks
        <3>3. KeaSet(n) \/ task' = task
            BY <2>2, <3>1 DEF Config, ReadDevices, ReadNames, FindOpt, SetAddress,
               AddDevice, AddOpt, MakeInterface, KeaRead, vars
        <3> QED
            BY <2>1, <3>2, <3>3
    <2>3. ASSUME ~Config(n) PROVE task[n] \in {"configured", "done"}
        <3>1. ASSUME NEW m \in NetIds, Config(m)
              PROVE  task'[n] = task[n]
            BY <2>3, <3>1, ConfigKeeps
        <3>2. CASE Quiet
            <4>1. ASSUME NEW p \in Workers, ApiStep(p)
                  PROVE  task[n] \in {"configured", "done"}
                BY <2>1, <4>1, ApiMessages
            <4>2. ASSUME NEW m \in NetIds, TaskLookup(m) \/ TaskMark(m) \/ TaskFinish(m)
                  PROVE  task[n] \in {"configured", "done"}
                <5>1. CASE m = n
                    BY <2>1, <4>2, <5>1 DEF TaskLookup, TaskMark, TaskFinish
                <5>2. CASE m # n
                    BY <2>1, <4>2, <5>2, TaskMessages DEF TaskStep
                <5> QED
                    BY <5>1, <5>2
            <4> QED
                BY <2>1, <3>2, <4>1, <4>2 DEF Quiet, vars
        <3> QED
            BY <2>1, <3>1, <3>2, TwoKinds
    <2> QED
        BY <2>2, <2>3
<1>2. Exists(n)
    <2>1. task[n] # "none"
        BY <1>1 DEF KeaSet, TaskConfigure
    <2> QED
        BY <2>1, RowOfTask
<1>3. nets'[n] = nets[n]
    BY <1>2, RowsStay, AllStepsMap
<1>4. Live(n)
    <2>1. ASSUME StatusWritten PROVE Live(n)
        BY <1>2, <2>1 DEF StatusWritten, Answered, Live, LiveStatus, Exists, TypeInv, TypeOK
    <2>2. ASSUME NEW p \in Workers, CreateCommit(p)
          PROVE  Live(n)
        <3>1. PICK m \in NetIds : ~Exists(m) /\ status' = [status EXCEPT ![m] = "pending"]
            BY <2>2, CommitRow
        <3> QED
            BY <1>2, <3>1 DEF Answered, Live
    <2>3. ASSUME NEW p \in Workers, DeleteCommit(p)
          PROVE  Live(n)
        BY <2>3 DEF DeleteCommit, Answered, Live, LiveStatus, TypeInv, TypeOK
    <2>4. ASSUME NEW p \in Workers, ApiStep(p), ~CreateCommit(p), ~DeleteCommit(p)
          PROVE  status' = status
        BY <2>4 DEF ApiStep, CreateTakeSubnet, CreateTakeVlan, CreateOutOfVlans, CreateDispatch,
                    DeleteRead, ApiCrash, netVars
    <2>5. ASSUME NEW m \in NetIds, WorkerCrash(m)
          PROVE  status' = status
        BY <2>5 DEF WorkerCrash, netVars
    <2>6. CASE status' = status
        BY <2>6 DEF Answered, Live
    <2>7. CASE UNCHANGED vars
        BY <2>6, <2>7 DEF vars
    <2> QED
        BY <2>1, <2>2, <2>3, <2>4, <2>5, <2>6, <2>7, TaskWrites, AllStepsMap DEF Next
<1> QED
    BY <1>1, <1>2, <1>3, <1>4 DEF Answered

\* What came back from its deletion stays noted.
LEMMA AgainGrows ==
    ASSUME TypeInv, [VlanNext]_<<vars, vlanVars>>
    PROVE  Again \subseteq Again' /\ \A n \in reopened' : Tag(n)' \in Again'
<1>1. reopened \subseteq reopened'
    <2>1. ASSUME NEW p \in Workers, ApiStep(p), ~DeleteCommit(p)
          PROVE  reopened' = reopened
        BY <2>1 DEF ApiStep, CreateTakeSubnet, CreateTakeVlan, CreateOutOfVlans, CreateDispatch,
                    DeleteRead, ApiCrash, CreateCommit
    <2>2. ASSUME NEW p \in Workers, DeleteCommit(p)
          PROVE  reopened \subseteq reopened'
        BY <2>2 DEF DeleteCommit
    <2>3. ASSUME StatusWritten PROVE reopened \subseteq reopened'
        BY <2>3 DEF StatusWritten
    <2>4. ASSUME NEW m \in NetIds, WorkerCrash(m)
          PROVE  reopened' = reopened
        BY <2>4 DEF WorkerCrash
    <2>5. CASE UNCHANGED vars
        BY <2>5 DEF vars
    <2> QED
        BY <2>1, <2>2, <2>3, <2>4, <2>5, TaskWrites, AllStepsMap DEF Next
<1>2. \A k \in reopened : nets'[k] = nets[k]
    BY RowsStay, AllStepsMap DEF TypeInv, TypeOK, WellFormed
<1> QED
    BY <1>1, <1>2 DEF Again, Tag

LEMMA NoOtherStep ==
    ASSUME TypeInv, ExclusiveUnlessReopened, ConfigType, SentOnce, AtWork, Alone, NoOther,
           [VlanNext]_<<vars, vlanVars>>
    PROVE  NoOther'
<1>1. SUFFICES ASSUME NEW m \in NetIds, NEW n \in NetIds, m # n, Working(m)', Answered(n)',
                      Tag(n)' = Tag(m)', Tag(m)' \in Clear' \ Again'
               PROVE  nets'[m].pod # nets'[n].pod
    BY DEF NoOther
<1>2. n \notin reopened'
    BY <1>1, AgainGrows
<1>3. /\ Exists(n) /\ nets'[n] = nets[n] /\ Live(n)
      /\ KeaSet(n) \/ (Answered(n) /\ ~Config(n))
    BY <1>1, <1>2, AnsweredStep
<1>4. Clear' \subseteq Clear /\ Again \subseteq Again'
    <2>1. CASE Quiet
        BY <2>1, AgainGrows DEF Quiet, vlanVars, Clear
    <2> QED
        BY <2>1, TwoKinds, ConfigKeeps, AgainGrows DEF Clear
<1>5. CASE Working(m)
    <2>1. nets'[m] = nets[m] /\ Tag(m)' = Tag(m) /\ Tag(n)' = Tag(n)
        BY <1>3, <1>5, TagsStay DEF Tag
    <2>2. Answered(n)
        BY <1>1, <1>3, <1>4, <1>5, <2>1 DEF Alone, KeaSet, Working
    <2>3. Tag(n) = Tag(m) /\ Tag(m) \in Clear \ Again
        BY <1>1, <1>4, <2>1
    <2>4. nets[m].pod # nets[n].pod
        BY <1>1, <1>5, <2>2, <2>3 DEF NoOther
    <2> QED
        BY <1>3, <2>1, <2>4
<1>6. CASE ~Working(m)
    <2>1. PICK k \in NetIds : Config(k)
        BY <1>1, <1>6, TwoKinds DEF Quiet, vlanVars, Working
    <2>2. k = m /\ nets' = nets
        BY <1>1, <1>6, <2>1, ConfigKeeps DEF Working
    <2>3. ReadDevices(m)
        <3>1. ~KeaSet(m) /\ ~Break(m)
            BY <1>1 DEF KeaSet, Break, Reset, ConfigType, NoWork, Working
        <3> QED
            BY <1>6, <2>1, <2>2, <3>1 DEF Config, ReadNames, FindOpt, SetAddress,
               AddDevice, AddOpt, MakeInterface, KeaRead, Working
    <2>4. Live(m)
        BY <1>1, <2>2, <2>3 DEF ReadDevices, Clear, Tag
    <2>5. ~nets[m].default
        BY <2>3 DEF ReadDevices, TypeInv, WellFormed
    <2>6. ASSUME nets[m].pod = nets[n].pod PROVE FALSE
        <3>1. TagOf(m) = TagOf(n)
            BY <1>1, <2>2, <2>6 DEF TagOf, Tag
        <3>2. PICK j \in reopened : TagOf(j) = TagOf(m)
            BY <1>1, <1>3, <2>4, <2>5, <3>1 DEF ExclusiveUnlessReopened
        <3>3. Tag(m) \in Again
            BY <3>2 DEF Again, Tag, TagOf
        <3> QED
            BY <1>1, <1>4, <2>2, <3>3 DEF Tag
    <2> QED
        BY <2>2, <2>6
<1> QED
    BY <1>5, <1>6

LEMMA AllWiredStep ==
    ASSUME TypeInv, NamesInv, Alone', Runs, KeaKept, NoOther, AllWired,
           [VlanNext]_<<vars, vlanVars>>
    PROVE  AllWired'
<1> USE DEF NamesInv
<1>1. SUFFICES ASSUME NEW n \in NetIds, Answered(n)', Tag(n)' \in Clear' \ (cut' \cup Again')
               PROVE  Wired(n)'
    BY DEF AllWired
<1>v. PICK v : v = Tag(n)
    OBVIOUS
<1>d. PICK d : d = device[v]
    OBVIOUS
<1> USE <1>v, <1>d
<1>2. n \notin reopened'
    BY <1>1, AgainGrows
<1>3. /\ Exists(n) /\ nets'[n] = nets[n] /\ Live(n)
      /\ KeaSet(n) \/ (Answered(n) /\ ~Config(n))
    BY <1>1, <1>2, AnsweredStep
<1>4. Clear' \subseteq Clear /\ Again \subseteq Again' /\ cut \subseteq cut'
    <2>1. CASE Quiet
        BY <2>1, AgainGrows DEF Quiet, vlanVars, Clear
    <2> QED
        BY <2>1, TwoKinds, ConfigKeeps, AgainGrows DEF Clear
<1>5. /\ Tag(n)' = v /\ v \in Clear /\ v \in VlanTags /\ v \in Clear'
      /\ v \notin cut /\ v \notin Again /\ v \notin cut' /\ v \notin Again'
    BY <1>1, <1>3, <1>4 DEF Tag, Clear
<1>6. CASE KeaSet(n)
    <2>1. Working(n) /\ work[n].pc = "kea" /\ UNCHANGED <<device, opts, running>>
        BY <1>6 DEF KeaSet, Working
    <2>2. /\ d = work[n].device /\ d # 0
          /\ work[n].opt \in OptsOf(d) /\ opts[work[n].opt].ip = nets[n].subnet
        BY <1>5, <2>1 DEF Chosen, ChosenBy, AtWork
    <2>3. \A m \in NetIds : work[m].pc \in {"device", "opt"} => m # n /\ Working(m)
        BY <2>1 DEF Working
    <2>4. <<d, v>> \in running
        BY <1>5, <2>1, <2>2, <2>3 DEF Runs, Wires, Alone
    <2>5. KeyAccepted(n)' = KeyAccepted(n)
        BY <1>3 DEF KeyAccepted
    <2>6. KeyAccepted(n) => work[n].opt \in kea'
        BY <1>6 DEF KeaSet
    <2>7. device'[v] = d /\ work[n].opt \in (OptsOf(d))'
        BY <1>5, <2>1, <2>2 DEF OptsOf, Opts
    <2> QED
        BY <1>3, <1>5, <2>1, <2>2, <2>4, <2>5, <2>6, <2>7 DEF Wired
<1>7. CASE Answered(n) /\ ~Config(n)
    <2>1. Wired(n)
        BY <1>5, <1>7 DEF AllWired
    <2>2. d # 0 /\ <<d, v>> \in running /\ v \in Wires
        BY <1>5, <2>1 DEF Wired, Wires
    <2>3. PICK o \in OptsOf(d) : /\ opts[o].ip = nets[n].subnet \/ SharedWith(n)
                                 /\ KeyAccepted(n) => o \in kea
        BY <2>1 DEF Wired
    <2>4. SharedWith(n) => SharedWith(n)'
        BY <1>3, RowsStay, AllStepsMap DEF SharedWith, Tag
    <2>5. KeyAccepted(n)' = KeyAccepted(n)
        BY <1>3 DEF KeyAccepted
    <2>6. ASSUME device'[v] = d, <<d, v>> \in running', o \in (OptsOf(d))',
                 opts'[o].ip = opts[o].ip \/ opts'[o].ip = nets[n].subnet \/ SharedWith(n)',
                 o \in kea => o \in kea'
          PROVE  Wired(n)'
        <3>2. /\ opts'[o].ip = nets'[n].subnet \/ SharedWith(n)'
              /\ KeyAccepted(n)' => o \in kea'
            BY <1>3, <2>3, <2>4, <2>5, <2>6
        <3>3. Tag(n)' = v
            BY <1>5
        <3>4. o \in (OptsOf(device[Tag(n)]))'
            BY <2>6, <3>3 DEF OptsOf
        <3> QED
            BY <2>2, <2>6, <3>2, <3>3, <3>4 DEF Wired
    <2>7. CASE Quiet
        <3>1. UNCHANGED <<device, opts, running, kea>>
            BY <2>7 DEF Quiet, vlanVars, configVars
        <3>2. (OptsOf(d))' = OptsOf(d)
            BY <1>5, <3>1 DEF OptsOf, Opts
        <3> QED
            BY <2>2, <2>3, <2>6, <3>1, <3>2
    <2>8. ASSUME NEW k \in NetIds, Config(k)
          PROVE  Wired(n)'
        <3>1. k # n /\ nets' = nets
            BY <1>7, <2>8, ConfigKeeps
        <3>2. o \in kea => o \in kea'
            <4>1. CASE KeaSet(k) /\ KeyAccepted(k)
                <5>1. work[k].pc = "kea" /\ kea' = work[k].kea \cup {work[k].opt}
                    BY <4>1 DEF KeaSet
                <5>2. work[k].kea \cap OptsOf(d) = kea \cap OptsOf(d)
                    BY <2>2, <4>1, <5>1 DEF KeaKept
                <5> QED
                    BY <2>3, <5>1, <5>2
            <4>2. CASE ~(KeaSet(k) /\ KeyAccepted(k))
                BY <2>8, <4>2, ConfigWrites DEF KeaSet
            <4> QED
                BY <4>1, <4>2
        <3>3. CASE Tag(k) # v
            <4>1. /\ device'[v] = d /\ (OptsOf(d))' = OptsOf(d) /\ opts'[o] = opts[o]
                BY <2>2, <2>3, <2>8, <3>3, Untouched
            <4>2. <<d, v>> \in running'
                <5>1. CASE MakeInterface(k)
                    <6>1. work[k].device # d
                        BY <2>2, <3>3, <5>1 DEF MakeInterface, Elsewhere, Working
                    <6> QED
                        BY <2>2, <5>1, <6>1 DEF MakeInterface
                <5> QED
                    BY <2>2, <2>8, <5>1, ConfigWrites
            <4> QED
                BY <2>3, <2>6, <3>2, <4>1, <4>2
        <3>4. CASE Tag(k) = v
            <4>1. ~AddDevice(k)
                BY <1>5, <2>2, <3>4 DEF AddDevice, Chosen, ChosenBy, Working
            <4>2. device'[v] = d
                BY <2>8, <4>1, ConfigWrites
            <4>3. <<d, v>> \in running'
                <5>1. CASE MakeInterface(k)
                    <6>1. work[k].device = d
                        BY <1>5, <3>4, <5>1 DEF MakeInterface, Chosen, ChosenBy, Working
                    <6> QED
                        BY <3>4, <5>1, <6>1 DEF MakeInterface, Tag
                <5> QED
                    BY <2>2, <2>8, <5>1, ConfigWrites
            <4>4. CASE AddOpt(k)
                <5>1. work[k].device = d /\ work[k].opt = NextOpt
                    BY <1>5, <3>4, <4>4 DEF AddOpt, Chosen, ChosenBy, Working
                <5>2. (OptsOf(d))' = OptsOf(d) \cup {NextOpt}
                    BY <4>4, <5>1, OptAdded, OptsAre
                <5>3. o # NextOpt /\ o \in Opts'
                    BY <2>3, <4>4, <5>1, OptsAre, OptAdded DEF OptsOf
                <5>4. opts'[o] = opts[o]
                    BY <4>4, <5>1, <5>3, OptAdded, OptsAre
                <5> QED
                    BY <2>3, <2>6, <3>2, <4>2, <4>3, <5>2, <5>4
            <4>5. CASE SetAddress(k)
                <5>1. (OptsOf(d))' = OptsOf(d)
                    BY <4>5, AddressSet
                <5>2. SharedWith(n)'
                    <6>1. Working(k) /\ Exists(k)
                        BY <4>5, RowOfWork DEF SetAddress, Working
                    <6>2. nets[k].pod # nets[n].pod
                        BY <1>5, <1>7, <3>1, <3>4, <6>1 DEF NoOther
                    <6>3. SharedWith(n)
                        BY <3>4, <6>1, <6>2 DEF SharedWith, Tag
                    <6> QED
                        BY <2>4, <6>3
                <5> QED
                    BY <2>3, <2>6, <3>2, <4>2, <4>3, <5>1, <5>2
            <4>6. CASE opts' = opts
                <5>1. (OptsOf(d))' = OptsOf(d)
                    BY <1>5, <4>2, <4>6 DEF OptsOf, Opts
                <5> QED
                    BY <2>3, <2>6, <3>2, <4>2, <4>3, <4>6, <5>1
            <4> QED
                BY <2>8, <4>4, <4>5, <4>6, ConfigWrites
        <3> QED
            BY <3>3, <3>4
    <2> QED
        BY <2>7, <2>8, TwoKinds
<1> QED
    BY <1>3, <1>6, <1>7

LEMMA WiredInvariance == VlanSpec => []WiredInv
<1>1. VlanInit => WiredInv
    <2> SUFFICES ASSUME VlanInit PROVE WiredInv
        OBVIOUS
    <2>1. \A n \in NetIds : work[n].pc = "idle" /\ ~Working(n) /\ ~Answered(n)
        BY DEF VlanInit, Init, Working, NoWork, Answered
    <2>2. Wires = {}
        BY DEF VlanInit, Wires, Clear
    <2> QED
        BY <2>1, <2>2 DEF WiredInv, KeaKept, Runs, NoOther, AllWired
<1>2. /\ IInv /\ ExclusiveUnlessReopened /\ NamesInv /\ NamesInv'
      /\ WiredInv /\ [VlanNext]_<<vars, vlanVars>>
      => WiredInv'
    <2> SUFFICES ASSUME TypeInv, ExclusiveUnlessReopened, NamesInv, NamesInv', WiredInv,
                        [VlanNext]_<<vars, vlanVars>>
                 PROVE  WiredInv'
        BY DEF IInv
    <2>1. Alone' /\ TypeInv
        BY DEF NamesInv
    <2>2. Runs'
        BY RunsStep DEF NamesInv, WiredInv
    <2>3. KeaKept'
        BY <2>1, KeaKeptStep DEF NamesInv, WiredInv
    <2>4. NoOther'
        BY NoOtherStep DEF NamesInv, WiredInv
    <2>5. AllWired'
        BY <2>1, AllWiredStep DEF WiredInv
    <2> QED
        BY <2>2, <2>3, <2>4, <2>5 DEF WiredInv
<1>3. VlanSpec => []IInv /\ []ExclusiveUnlessReopened
    BY ImplementsNetworks, Invariance, RowsExclusive, PTL
<1> QED
    BY <1>1, <1>2, <1>3, NamesInvariance, PTL DEF VlanSpec

\* A network whose task ended well has a device, an interface that runs and
\* carries its gateway, and DHCP on it, but for the cases DoneIsWired names
\* (workers/tasks/vlan.py:303-364).
THEOREM DoneIsWiredCorrect == VlanSpec => []DoneIsWired
<1>1. ASSUME TypeInv, WiredInv PROVE DoneIsWired
    <2>1. SUFFICES ASSUME NEW n \in NetIds, task[n] = "done", Live(n),
                          Tag(n) \notin overlap \cup cut \cup Again
                   PROVE  Wired(n)
        BY DEF DoneIsWired, Tag, Again, Wired, SharedWith
    <2>2. Tag(n) \in VlanTags
        BY <1>1, <2>1, RowOfTask
    <2> QED
        BY <1>1, <2>1, <2>2 DEF WiredInv, AllWired, Answered, Clear
<1>2. VlanSpec => []TypeInv
    BY ImplementsNetworks, Invariance, PTL DEF IInv
<1> QED
    BY <1>1, <1>2, WiredInvariance, PTL
=============================================================================
