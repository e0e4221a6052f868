-------------------------------- MODULE Sizes --------------------------------
(***************************************************************************)
(* Resizing: the requests of api/vm.py that grow the disk of a tenant's VM *)
(* or set its CPU cores or RAM, those of api/images.py that do so for the  *)
(* VM of an image build, and the hypervisor calls they make                *)
(* (providers/proxmox.py).                                                 *)
(*                                                                         *)
(* The size of a VM is kept twice, in its row and in the hypervisor.  A    *)
(* request reads one, changes the other and writes the first, in           *)
(* transactions that lock nothing, so that other requests come in between. *)
(* A client that gets no answer, or an error, asks again: the resize       *)
(* records of the last two minutes are to keep a disk from growing twice.  *)
(*                                                                         *)
(* CPU cores and RAM are handled alike and stand as one number, "size".    *)
(* Starting and stopping a VM are single steps here, Vms takes them apart. *)
(***************************************************************************)
EXTENDS Naturals, FiniteSets

CONSTANTS
    Rows,           \* VM rows of one tenant
    Builds,         \* running image builds
    Threads,        \* API threads
    Steps,          \* the amounts by which a disk may grow, in MiB
    Sizes,          \* the CPU sizes, or the RAM sizes, a request may ask for
    Quota,          \* quota.max_disk_gb, in MiB
    Slack,          \* the most that round(MiB / 1024, 1) drops: 51 MiB
    MaxAsks,        \* bound on requests that are no repetition
    MaxMishaps,     \* bound on crashes, failing calls and lost answers
    None            \* the SQL NULL

Targets == Rows \cup Builds

ASSUME SizesAssumption ==
    /\ Steps \subseteq Nat \ {0} /\ Sizes \subseteq Nat \ {0} /\ Sizes # {}
    /\ {Quota, Slack, MaxAsks, MaxMishaps} \subseteq Nat
    /\ IsFiniteSet(Rows) /\ IsFiniteSet(Threads) /\ Rows \cap Builds = {}
    /\ Cardinality(Rows) <= Quota
    /\ None \notin Nat \cup [by : Nat, restart : BOOLEAN] \cup [prev : Nat, new : Nat, by : Nat]

VARIABLES
    rows,       \* vms and image_templates: disk size, CPU or RAM size, status
    pve,        \* the hypervisor: the VM's configuration and its power
    late,       \* growth that the hypervisor has accepted and not yet shown
    last,       \* the newest record in vm_disk_resizes not older than 2 minutes
    req,        \* the request each API thread is serving
    open,       \* the disk request a client has no good answer to
    asked,      \* history: by how much clients want the disk to have grown
    owed,       \* history: by how much the answers say it has grown
    asks,       \* requests so far
    mishaps,    \* mishaps so far
    marks       \* history: what has disturbed each VM

vars == <<rows, pve, late, last, req, open, asked, owed, asks, mishaps, marks>>

-----------------------------------------------------------------------------
Start == 1      \* every disk's size before the first request

Disk == Nat     \* in MiB
Row == [disk : Disk \cup {None}, size : Sizes \cup {None}, status : {"running", "stopped"}]
Config == [disk : Disk, size : Sizes]
\* by is history: the growth that the recorded request asked for.
Record == [prev : Disk, new : Disk, by : Steps \cup {0}]
Intent == [by : Steps, restart : BOOLEAN]

\* seen is the row's value when the request read it: SQLAlchemy writes a
\* column only when it differs.  again tells a repetition.
Idle == [pc |-> "idle"]
DiskPc == {"check", "grow", "read", "save", "restart", "reread", "answer"}
DiskRequest ==
    [pc : DiskPc, v : Targets,
     by : Steps, restart : BOOLEAN, again : BOOLEAN, seen : Disk \cup {None},
     prev : Disk, new : Disk]
SizeRequest ==
    [pc : {"digest", "put", "cycle", "keep", "boot"}, v : Targets, size : Sizes,
     restart : BOOLEAN, seen : Sizes \cup {None}, digest : Config \cup {None}]

Marks == {"overlap",    \* a request began while another was working on the VM
          "cut",        \* a crash or a failing call ended a request half way
          "rush",       \* a request was checked while another had yet to commit
          "late",       \* the hypervisor showed a growth later than the read-back
          "guessed",    \* the size was not read back but computed
          "aged",       \* the record of a request without answer turned 2 minutes old
          "hidden",     \* a restart's record took the place of the growth's
          "passed",     \* a client asked for something else before repeating
          "twice",      \* the same amount was asked for twice within two minutes
          "mistaken",   \* a repetition found a record that is not of its growth
          "refused"}    \* a repetition was refused by the quota

TypeOK ==
    /\ rows \in [Targets -> Row]
    /\ pve \in [Targets -> [cfg : Config, on : BOOLEAN]]
    /\ late \in [Targets -> Disk]
    /\ last \in [Rows -> Record \cup {None}]
    /\ req \in [Threads -> {Idle} \cup DiskRequest \cup SizeRequest]
    /\ open \in [Targets -> Intent \cup {None}]
    /\ asked \in [Targets -> Disk] /\ owed \in [Targets -> Disk]
    /\ asks \in 0..MaxAsks /\ mishaps \in 0..MaxMishaps
    /\ marks \in [Targets -> SUBSET Marks]

-----------------------------------------------------------------------------
Busy(v) == \E p \in Threads : req[p] # Idle /\ req[p].v = v
Mishap == mishaps < MaxMishaps /\ mishaps' = mishaps + 1
Marked(v, S) == marks' = [marks EXCEPT ![v] = @ \cup S]
Overlap(v) == IF Busy(v) THEN {"overlap"} ELSE {}
DiskOf(v) == pve[v].cfg.disk
DiskBy(p, v) == IF req[p].pc \in DiskPc /\ req[p].v = v THEN req[p].by ELSE None
Become(p, r) == req' = [req EXCEPT ![p] = r]
At(p, pc) == req[p].pc = pc
Goto(p, pc) == req' = [req EXCEPT ![p].pc = pc]

Init ==
    LET smallest == CHOOSE s \in Sizes : \A o \in Sizes : s <= o IN
    /\ rows = [v \in Targets |->
                  [disk |-> IF v \in Rows THEN Start ELSE None,
                   size |-> IF v \in Rows THEN smallest ELSE None, status |-> "running"]]
    /\ pve = [v \in Targets |-> [cfg |-> [disk |-> Start, size |-> smallest], on |-> TRUE]]
    /\ late = [v \in Targets |-> 0]
    /\ last = [v \in Rows |-> None]
    /\ req = [p \in Threads |-> Idle]
    /\ open = [v \in Targets |-> None]
    /\ asked = [v \in Targets |-> Start] /\ owed = [v \in Targets |-> Start]
    /\ asks = 0 /\ mishaps = 0
    /\ marks = [v \in Targets |-> {}]

-----------------------------------------------------------------------------
(* POST /{vm_id}/resize-disk and POST /build/{vmid}/resize-disk.           *)

\* The size before comes from the hypervisor's configuration.  A build has
\* no quota and keeps no record.
DiskAsk(v, i, again) ==
    [pc |-> IF v \in Rows THEN "check" ELSE "grow", v |-> v, by |-> i.by,
     restart |-> i.restart, again |-> again, seen |-> rows[v].disk,
     prev |-> DiskOf(v), new |-> DiskOf(v)]

\* Mutant: the record is not looked at.
NeverDone(v, by) == FALSE

\* The newest record says that its own previous size has grown by as much.
DoneBefore(v, by) == last[v] # None /\ last[v].new = last[v].prev + by

\* A client asks for what it has, or another has, just asked for.
Again(v, by) ==
    \/ v \in Rows /\ DoneBefore(v, by)
    \/ open[v] # None /\ open[v].by = by
    \/ \E q \in Threads : DiskBy(q, v) = by

Ask(p, v, by, restart) ==
    /\ req[p] = Idle /\ asks < MaxAsks
    /\ Become(p, DiskAsk(v, [by |-> by, restart |-> restart], FALSE))
    /\ asks' = asks + 1
    /\ asked' = [asked EXCEPT ![v] = @ + by]
    /\ Marked(v, Overlap(v) \cup (IF open[v] # None THEN {"passed"} ELSE {})
                            \cup (IF Again(v, by) THEN {"twice"} ELSE {}))
    /\ UNCHANGED <<rows, pve, late, last, open, owed, mishaps>>

AskDisk(p, v, by, restart) == v \in Rows /\ Ask(p, v, by, restart)

AskBuildDisk(p, v, by, restart) == v \in Builds /\ Ask(p, v, by, restart)

RepeatDisk(p, v) ==
    /\ req[p] = Idle /\ open[v] # None
    /\ Become(p, DiskAsk(v, open[v], TRUE))
    /\ open' = [open EXCEPT ![v] = None]
    /\ Marked(v, Overlap(v))
    /\ UNCHANGED <<rows, pve, late, last, asked, owed, asks, mishaps>>

\* The sum of a function's values: how many units they are in all.
Total(f) == Cardinality(UNION {{x} \X (1..f[x]) : x \in DOMAIN f})

\* get_current_usage: every row of the tenant counts.
Usage == Total([v \in Rows |-> rows[v].disk])

\* Mutant: only the usage so far is compared.
WithinQuotaSoFar(by) == Usage <= Quota + Slack

\* check_disk_resize_quota rounds the new total to tenths of a GiB.
WithinQuota(by) == Usage + by <= Quota + Slack

\* 4xx: nothing was done, at least by this request.
QuotaRefuses(p) ==
    LET r == req[p] IN
    /\ At(p, "check") /\ ~WithinQuota(r.by)
    /\ Become(p, Idle)
    /\ asked' = [asked EXCEPT ![r.v] = @ - r.by]
    /\ Marked(r.v, IF r.again THEN {"refused"} ELSE {})
    /\ UNCHANGED <<rows, pve, late, last, open, owed, asks, mishaps>>

AlreadyResized(p) ==
    LET r == req[p] IN
    /\ At(p, "check") /\ WithinQuota(r.by) /\ DoneBefore(r.v, r.by)
    /\ Goto(p, "answer")
    /\ Marked(r.v, IF ~r.again THEN {"twice"}
                    ELSE IF last[r.v].by # r.by THEN {"mistaken"} ELSE {})
    /\ UNCHANGED <<rows, pve, late, last, open, asked, owed, asks, mishaps>>

\* A request for a tenant's VM that was checked and has not committed.
Growing(q) == req[q].pc \in {"grow", "read", "save"} /\ req[q].v \in Rows

CheckDisk(p) ==
    /\ At(p, "check") /\ WithinQuota(req[p].by) /\ ~DoneBefore(req[p].v, req[p].by)
    /\ Goto(p, "grow")
    /\ Marked(req[p].v, IF \E q \in Threads : Growing(q) THEN {"rush"} ELSE {})
    /\ UNCHANGED <<rows, pve, late, last, open, asked, owed, asks, mishaps>>

\* resize_disk.  The hypervisor may show the growth in the configuration later.
GrowDisk(p) ==
    LET r == req[p] IN
    /\ At(p, "grow")
    /\ Goto(p, "read")
    /\ \/ /\ pve' = [pve EXCEPT ![r.v].cfg.disk = @ + r.by]
          /\ UNCHANGED <<late, mishaps, marks>>
       \/ /\ Mishap
          /\ late' = [late EXCEPT ![r.v] = @ + r.by]
          /\ Marked(r.v, {"late"})
          /\ UNCHANGED pve
    /\ UNCHANGED <<rows, last, open, asked, owed, asks>>

\* Mutant: a failure is logged only.
GrowFailsQuietly(p) ==
    /\ At(p, "grow") /\ Mishap
    /\ Goto(p, "read")
    /\ UNCHANGED <<rows, pve, late, last, open, asked, owed, asks, marks>>

\* The call fails, after the hypervisor grew the disk or instead of it.
GrowFails(p) ==
    LET r == req[p] IN
    /\ At(p, "grow") /\ Mishap
    /\ Become(p, Idle)
    /\ open' = [open EXCEPT ![r.v] = [by |-> r.by, restart |-> r.restart]]
    /\ \/ UNCHANGED <<pve, marks>>
       \/ pve' = [pve EXCEPT ![r.v].cfg.disk = @ + r.by] /\ Marked(r.v, {"cut"})
    /\ UNCHANGED <<rows, late, last, asked, owed, asks>>

Land(v) ==
    /\ late[v] > 0
    /\ pve' = [pve EXCEPT ![v].cfg.disk = @ + late[v]]
    /\ late' = [late EXCEPT ![v] = 0]
    /\ UNCHANGED <<rows, last, req, open, asked, owed, asks, mishaps, marks>>

\* Mutant: a size that is not read back is not known.
ReadDiskOrNothing(p) ==
    /\ At(p, "read")
    /\ \/ /\ req' = [req EXCEPT ![p].pc = "save", ![p].new = DiskOf(req[p].v)]
          /\ UNCHANGED mishaps
       \/ Mishap /\ req' = [req EXCEPT ![p].pc = "save", ![p].new = None]
    /\ UNCHANGED <<rows, pve, late, last, open, asked, owed, asks, marks>>

\* get_vm_disk_info answers with no disk when its call fails; the size is
\* then what the request expects.
ReadDisk(p) ==
    LET r == req[p] IN
    /\ At(p, "read")
    /\ \/ /\ req' = [req EXCEPT ![p].pc = "save", ![p].new = DiskOf(r.v)]
          /\ UNCHANGED <<mishaps, marks>>
       \/ /\ Mishap /\ req' = [req EXCEPT ![p].pc = "save", ![p].new = r.prev + r.by]
          /\ Marked(r.v, {"guessed"})
    /\ UNCHANGED <<rows, pve, late, last, open, asked, owed, asks>>

\* Mutant: the size before the growth is saved.
WriteDiskBefore(v, r) == rows' = [rows EXCEPT ![v].disk = IF r.seen = r.prev THEN @ ELSE r.prev]

WriteDisk(v, r) == rows' = [rows EXCEPT ![v].disk = IF r.seen = r.new THEN @ ELSE r.new]

\* created_at is the beginning of the request's transaction: the newest
\* record of overlapping requests need not be the one written last.
AddRecord(v, prev, new, by) ==
    \/ last' = [last EXCEPT ![v] = [prev |-> prev, new |-> new, by |-> by]]
    \/ last[v] # None /\ "overlap" \in marks[v] /\ UNCHANGED last

Save(p) ==
    LET r == req[p] IN
    /\ At(p, "save")
    /\ WriteDisk(r.v, r)
    /\ req' = [req EXCEPT ![p].pc = IF r.restart THEN "restart" ELSE "answer",
                          ![p].seen = r.new]
    /\ UNCHANGED <<pve, late, open, asked, owed, asks, mishaps, marks>>

SaveDisk(p) ==
    LET r == req[p] IN
    Save(p) /\ r.v \in Rows /\ AddRecord(r.v, r.prev, r.new, r.by)

\* A build keeps no record of its growth.
SaveBuildDisk(p) == Save(p) /\ req[p].v \in Builds /\ UNCHANGED last

\* stop_vm and start_vm: a failure is logged only.
PowerCycle(v) ==
    \/ pve' = [pve EXCEPT ![v].on = TRUE] /\ UNCHANGED mishaps
    \/ pve' = [pve EXCEPT ![v].on = FALSE] /\ Mishap

\* restart_vm_logic refuses a row that is not running.
RestartVm(v) ==
    \/ rows[v].status = "running" /\ PowerCycle(v)
    \/ rows[v].status # "running" /\ UNCHANGED <<pve, mishaps>>

RestartAfterDisk(p) ==
    LET v == req[p].v IN
    /\ At(p, "restart") /\ v \in Rows
    /\ RestartVm(v)
    /\ Goto(p, IF rows[v].status = "running" THEN "reread" ELSE "answer")
    /\ UNCHANGED <<rows, late, last, open, asked, owed, asks, marks>>

\* A build is restarted whatever its state, and its disk is not read again.
RestartBuild(p) ==
    /\ req[p].pc \in {"restart", "boot"} /\ req[p].v \in Builds
    /\ PowerCycle(req[p].v)
    /\ IF At(p, "restart") THEN Goto(p, "answer") ELSE Become(p, Idle)
    /\ UNCHANGED <<rows, late, last, open, asked, owed, asks, marks>>

\* The size after the restart is written, with a record of its own.
RereadDisk(p) ==
    LET r == [req[p] EXCEPT !.new = DiskOf(req[p].v)] IN
    /\ At(p, "reread")
    /\ WriteDisk(r.v, r)
    /\ AddRecord(r.v, req[p].new, r.new, 0)
    /\ Goto(p, "answer")
    /\ Marked(r.v, {"hidden"})
    /\ UNCHANGED <<pve, late, open, asked, owed, asks, mishaps>>

RereadFails(p) ==
    /\ At(p, "reread") /\ Mishap
    /\ Goto(p, "answer")
    /\ UNCHANGED <<rows, pve, late, last, open, asked, owed, asks, marks>>

AnswerDisk(p) ==
    LET r == req[p] IN
    /\ At(p, "answer")
    /\ Become(p, Idle)
    /\ \/ owed' = [owed EXCEPT ![r.v] = @ + r.by] /\ UNCHANGED <<open, mishaps>>
       \/ /\ Mishap
          /\ open' = [open EXCEPT ![r.v] = [by |-> r.by, restart |-> r.restart]]
          /\ UNCHANGED owed
    /\ UNCHANGED <<rows, pve, late, last, asked, asks, marks>>

TwoMinutes(v) ==
    /\ last[v] # None
    /\ last' = [last EXCEPT ![v] = None]
    /\ Marked(v, IF open[v] # None \/ Busy(v) THEN {"aged"} ELSE {})
    /\ UNCHANGED <<rows, pve, late, req, open, asked, owed, asks, mishaps>>

-----------------------------------------------------------------------------
(* POST /{vm_id}/resize-cpu, /resize-ram, and the same of a build.  No     *)
(* quota is looked at.                                                     *)

AskFor(p, v, size, restart) ==
    /\ req[p] = Idle /\ asks < MaxAsks
    /\ Become(p, [pc |-> "digest", v |-> v, size |-> size, restart |-> restart,
                  seen |-> rows[v].size, digest |-> None])
    /\ asks' = asks + 1
    /\ Marked(v, Overlap(v))
    /\ UNCHANGED <<rows, pve, late, last, open, asked, owed, mishaps>>

AskSize(p, v, size, restart) == v \in Rows /\ AskFor(p, v, size, restart)

AskBuildSize(p, v, size, restart) == v \in Builds /\ AskFor(p, v, size, restart)

\* The digest covers the whole configuration, sizes of disks included.
ReadDigest(p) ==
    /\ At(p, "digest")
    /\ req' = [req EXCEPT ![p].pc = "put", ![p].digest = pve[req[p].v].cfg]
    /\ UNCHANGED <<rows, pve, late, last, open, asked, owed, asks, mishaps, marks>>

PutSize(p) ==
    LET r == req[p] IN
    /\ At(p, "put")
    /\ \/ /\ r.digest = pve[r.v].cfg
          /\ pve' = [pve EXCEPT ![r.v].cfg.size = r.size]
          /\ Goto(p, "cycle")
       \/ /\ r.digest # pve[r.v].cfg
          /\ Become(p, Idle)
          /\ UNCHANGED pve
    /\ UNCHANGED <<rows, late, last, open, asked, owed, asks, mishaps, marks>>

\* update_vm_resources restarts the VM whatever the request says, and
\* whether it runs or not.
CycleAfterSize(p) ==
    LET v == req[p].v IN
    /\ At(p, "cycle")
    /\ Goto(p, "keep")
    /\ \/ rows[v].status = "running" /\ PowerCycle(v)
       \/ /\ rows[v].status = "stopped"
          /\ pve' = [pve EXCEPT ![v].on = TRUE]
          /\ UNCHANGED mishaps
    /\ UNCHANGED <<rows, late, last, open, asked, owed, asks, marks>>

Keep(p) ==
    LET r == req[p] IN
    /\ At(p, "keep")
    /\ rows' = [rows EXCEPT ![r.v].size = IF r.seen = r.size THEN @ ELSE r.size]
    /\ IF r.restart THEN Goto(p, "boot") ELSE Become(p, Idle)
    /\ UNCHANGED <<pve, late, last, open, asked, owed, asks, mishaps, marks>>

SaveSize(p) == Keep(p) /\ req[p].v \in Rows

SaveBuildSize(p) == Keep(p) /\ req[p].v \in Builds

RestartAfterSize(p) ==
    /\ At(p, "boot") /\ req[p].v \in Rows
    /\ Become(p, Idle)
    /\ RestartVm(req[p].v)
    /\ UNCHANGED <<rows, late, last, open, asked, owed, asks, marks>>

-----------------------------------------------------------------------------
(* The thread dies or its commit fails, and what is not committed is       *)
(* rolled back; a restart that fails half way is only logged.              *)
Crash(p) ==
    LET r == req[p] IN
    /\ r # Idle /\ Mishap
    /\ Become(p, Idle)
    /\ open' = IF r.pc \in DiskPc
               THEN [open EXCEPT ![r.v] = [by |-> r.by, restart |-> r.restart]] ELSE open
    /\ Marked(r.v, IF r.pc \in {"read", "save", "cycle", "keep"} THEN {"cut"} ELSE {})
    /\ UNCHANGED <<rows, pve, late, last, asked, owed, asks>>

\* The requests that start and stop a tenant's VM.
StopVm(v) ==
    /\ rows[v].status = "running"
    /\ rows' = [rows EXCEPT ![v].status = "stopped"]
    /\ pve' = [pve EXCEPT ![v].on = FALSE]
    /\ UNCHANGED <<late, last, req, open, asked, owed, asks, mishaps, marks>>

StartVm(v) ==
    /\ rows[v].status = "stopped"
    /\ rows' = [rows EXCEPT ![v].status = "running"]
    /\ pve' = [pve EXCEPT ![v].on = TRUE]
    /\ UNCHANGED <<late, last, req, open, asked, owed, asks, mishaps, marks>>

Next ==
    \/ \E p \in Threads :
        \/ \E v \in Targets, by \in Steps, restart \in BOOLEAN :
            AskDisk(p, v, by, restart) \/ AskBuildDisk(p, v, by, restart)
        \/ \E v \in Targets, size \in Sizes, restart \in BOOLEAN :
            AskSize(p, v, size, restart) \/ AskBuildSize(p, v, size, restart)
        \/ \E v \in Targets : RepeatDisk(p, v)
        \/ QuotaRefuses(p) \/ AlreadyResized(p) \/ CheckDisk(p)
        \/ GrowDisk(p) \/ GrowFails(p) \/ ReadDisk(p) \/ SaveDisk(p) \/ SaveBuildDisk(p)
        \/ RestartAfterDisk(p) \/ RestartBuild(p) \/ RereadDisk(p) \/ RereadFails(p) \/ AnswerDisk(p)
        \/ ReadDigest(p) \/ PutSize(p) \/ CycleAfterSize(p)
        \/ SaveSize(p) \/ SaveBuildSize(p) \/ RestartAfterSize(p) \/ Crash(p)
    \/ \E v \in Targets : Land(v)
    \/ \E v \in Rows : TwoMinutes(v) \/ StopVm(v) \/ StartVm(v)

Spec == Init /\ [][Next]_vars

-----------------------------------------------------------------------------
(* What resizing promises.                                                 *)

Undisturbed(v, S) == ~Busy(v) /\ marks[v] \cap S = {}

\* What a row knows: of a build that was never resized, nothing.
Knows(v, known, actual) == known = actual \/ (v \in Builds /\ known = None)

\* Row and hypervisor agree on a VM's CPU and RAM, and on the size of its
\* disk even if that was not read back, unless requests on the VM overlapped,
\* one was cut, or a disk's growth came after the read-back.  The digest
\* keeps a change from being made on a configuration that is not the one
\* read, but not two requests from writing their rows in the other order.
SizesAgree ==
    \A v \in Targets : Undisturbed(v, {"overlap", "cut"}) =>
        /\ Knows(v, rows[v].size, pve[v].cfg.size)
        /\ "late" \notin marks[v] => Knows(v, rows[v].disk, DiskOf(v))

\* A disk is never larger than its clients asked for: a request that is
\* repeated grows it once, unless its record was not written, is older than
\* two minutes, or is not the newest any more.
GrownOnce ==
    \A v \in Rows :
        marks[v] \cap {"overlap", "cut", "late", "aged", "hidden", "passed", "refused"} = {} =>
            DiskOf(v) <= asked[v]

\* What a client was told has happened: an answer of success stands for
\* growth of its own, unless the same amount was asked for twice within two
\* minutes and the second taken for a repetition, or a repetition met a record
\* that shows as much growth and is another's: with a growth that came late,
\* or of a restart.
AnsweredIsGrown ==
    \A v \in Targets :
        marks[v] \cap {"twice", "mistaken"} = {} => owed[v] <= DiskOf(v) + late[v]

\* The disks of a tenant keep to its quota, but for what rounding drops,
\* unless a request was checked between another's check and its commit, or
\* a row does not know its disk's growth.
QuotaKept ==
    (\A v \in Rows : marks[v] \cap {"rush", "cut", "late", "guessed"} = {}) => Usage <= Quota + Slack
=============================================================================
