------------------------------- MODULE Images -------------------------------
(***************************************************************************)
(* Templates and the builds they are made from: the requests of            *)
(* api/images.py, the two tasks of workers/tasks/images.py, and the VMs    *)
(* and templates they leave on Proxmox.                                    *)
(*                                                                         *)
(* The requests modelled here are coroutines that never wait, served by    *)
(* one process: they do not interleave with each other, only with tasks.   *)
(* A request is cut where a task may come between two of its calls or      *)
(* commits; the variable api holds it there.  A task works on the row it   *)
(* loaded after its last commit, as in module WireGuard.                   *)
(*                                                                         *)
(* Left out: names (they are unique, so an insertion may fail: a mishap),  *)
(* files, sizes, power of a build's VM (start_vm and stop_vm return FALSE  *)
(* and no caller looks), the tenants an image is assigned to, and the 300 s*)
(* for which a listing does not sync again: a listing may sync or not.     *)
(***************************************************************************)
EXTENDS Naturals, FiniteSets

CONSTANTS
    Builds,         \* ids of image_builds, in order: bounds the builds ever started
    Vmids,          \* Proxmox ids from 9000 on
    Retries,        \* max_retries of the tasks
    MaxMishaps,     \* bound on failing calls and crashes
    None

ASSUME ImagesAssumption ==
    /\ Builds \subseteq Nat /\ Vmids \subseteq Nat /\ Builds \cap Vmids = {}
    /\ Retries \in Nat /\ MaxMishaps \in Nat
    /\ None \notin Builds \cup Vmids \cup [kind : {"vm", "template"}, of : Builds]

VARIABLES
    build,      \* table image_builds
    download,   \* Proxmox: the download task of a build
    image,      \* table image_templates, by template_id
    pve,        \* Proxmox: the VM or template of each vmid
    make,       \* the create_build_vm message of each build
    conv,       \* the convert_build_to_template message of each build
    api,        \* the request that is half done
    mishaps,    \* mishaps so far
    marks       \* history: what has disturbed each build and vmid

tasks == <<make, conv>>
vars == <<build, download, image, pve, tasks, api, mishaps, marks>>

-----------------------------------------------------------------------------
Status == {"downloading_iso", "ready", "creating_vm", "running", "converting", "error"}
Unused == [st |-> "unused", vmid |-> None, only |-> FALSE]

\* A row that is gone keeps its vmid here: its tasks may hold it still.
Build == {Unused} \cup [st : Status \cup {"gone"}, vmid : Vmids, only : BOOLEAN]

\* of: the build it was made for; in a row of images, history.
Guest == [kind : {"vm", "template"}, of : Builds]
NoImage == [st |-> "none", of |-> None]
Image == {NoImage} \cup [st : {"active", "deleted"}, of : Builds]

MakePc == {"none", "queued", "create", "disk", "made", "done"}
ConvPc == {"none", "queued", "stop", "converted", "registered", "done"}

Idle == [op |-> "idle"]
Api == {Idle}
       \cup [op : {"send", "sent", "convert", "cancel"}, b : Builds]
       \cup [op : {"sync"}, list : SUBSET Vmids]

Marks == {"raced",      \* build and its vmid: cancelled while one of its tasks was due
          "call",       \* build: Proxmox did not destroy its VM or template
          "late",       \* vmid: a build was cancelled when it was a template already
          "overtaken",  \* build: its task was ahead of the request that sent it
          "cut",        \* build: a request died half done
          "early",      \* vmid: its image was deleted while a conversion was due
          "blind",      \* vmid: chosen without the list of Proxmox
          "twice"}      \* vmid: its image was deleted when it was deleted already

TypeOK ==
    /\ build \in [Builds -> Build]
    /\ download \in [Builds -> {"none", "busy", "ok", "failed"}]
    /\ image \in [Vmids -> Image]
    /\ pve \in [Vmids -> Guest \cup {None}]
    /\ make \in [Builds -> [pc : MakePc, left : 0..Retries]]
    /\ conv \in [Builds -> [pc : ConvPc, left : 0..Retries]]
    /\ api \in Api
    /\ mishaps \in 0..MaxMishaps
    /\ marks \in [Builds \cup Vmids -> SUBSET Marks]

-----------------------------------------------------------------------------
Live(b) == build[b].st \in Status
Templates == {v \in Vmids : pve[v] # None /\ pve[v].kind = "template"}
Busy(task, b) == task[b].pc \notin {"none", "done"}

Mishap == mishaps < MaxMishaps /\ mishaps' = mishaps + 1
MarkIf(cond, x, m) == marks' = IF cond THEN [marks EXCEPT ![x] = @ \cup {m}] ELSE marks
SetStatus(b, st) == build' = [build EXCEPT ![b].st = st]

Init ==
    /\ build = [b \in Builds |-> Unused]
    /\ download = [b \in Builds |-> "none"]
    /\ image = [v \in Vmids |-> NoImage]
    /\ pve = [v \in Vmids |-> None]
    /\ make = [b \in Builds |-> [pc |-> "none", left |-> Retries]]
    /\ conv = [b \in Builds |-> [pc |-> "none", left |-> Retries]]
    /\ api = Idle
    /\ mishaps = 0
    /\ marks = [x \in Builds \cup Vmids |-> {}]

-----------------------------------------------------------------------------
(* POST /images/build and GET /images/build/{vmid}/download-progress.      *)

Lowest(S) == CHOOSE v \in S : \A w \in S : v <= w
\* Mutant: the list of Proxmox is not looked at.
FreeVmidsUnlisted(onProxmox) ==
    Vmids \ {build[b].vmid : b \in {c \in Builds : Live(c)}}
FreeVmids(onProxmox) ==
    Vmids \ ({build[b].vmid : b \in {c \in Builds : Live(c)}} \cup onProxmox)

\* An error is answered with an empty list.
ListAllVms(fails) == IF fails THEN {} ELSE {v \in Vmids : pve[v] # None}

\* A file that is there is used; another one is downloaded first.
StartBuild(b, only, there, fails) ==
    LET free == FreeVmids(ListAllVms(fails))
        st == IF there THEN "ready" ELSE "downloading_iso"
    IN  /\ api = Idle /\ free # {}
        /\ build[b].st = "unused" /\ \A c \in Builds : c < b => build[c].st # "unused"
        /\ build' = [build EXCEPT ![b] = [st |-> st, vmid |-> Lowest(free), only |-> only]]
        /\ download' = [download EXCEPT ![b] = IF there THEN "none" ELSE "busy"]
        /\ api' = IF there /\ ~only THEN [op |-> "send", b |-> b] ELSE Idle
        /\ IF fails THEN Mishap ELSE UNCHANGED mishaps
        /\ MarkIf(fails, Lowest(free), "blind")
        /\ UNCHANGED <<image, pve, tasks>>

DownloadEnds(b, how) ==
    /\ download[b] = "busy"
    /\ download' = [download EXCEPT ![b] = how]
    /\ UNCHANGED <<build, image, pve, tasks, api, mishaps, marks>>

PollDownload(b) ==
    /\ api = Idle /\ Live(b)
    /\ \/ /\ download[b] = "ok" /\ build[b].st = "downloading_iso"
          /\ SetStatus(b, "ready")
          /\ api' = IF build[b].only THEN Idle ELSE [op |-> "send", b |-> b]
       \/ /\ download[b] = "failed"
          /\ SetStatus(b, "error")
          /\ UNCHANGED api
    /\ UNCHANGED <<download, image, pve, tasks, mishaps, marks>>

\* After the commit of "ready".
SendMake(b) ==
    /\ api = [op |-> "send", b |-> b]
    /\ make' = [make EXCEPT ![b].pc = "queued"]
    /\ api' = [op |-> "sent", b |-> b]
    /\ UNCHANGED <<build, download, image, pve, conv, mishaps, marks>>

\* Writes "creating_vm" whatever the task has done by now.
SentMake(b) ==
    /\ api = [op |-> "sent", b |-> b]
    /\ SetStatus(b, "creating_vm")
    /\ api' = Idle
    /\ MarkIf(make[b].pc = "done", b, "overtaken")
    /\ UNCHANGED <<download, image, pve, tasks, mishaps>>

\* Mutant: any build's row may go.
DeleteDownloadedAny(b) ==
    /\ api = Idle /\ Live(b)
    /\ SetStatus(b, "gone")
    /\ UNCHANGED <<download, image, pve, tasks, api, mishaps, marks>>

\* DELETE /images/downloaded takes the row of a download with its file.
DeleteDownloaded(b) ==
    /\ api = Idle /\ Live(b) /\ build[b].only
    /\ SetStatus(b, "gone")
    /\ UNCHANGED <<download, image, pve, tasks, api, mishaps, marks>>

-----------------------------------------------------------------------------
(* create_build_vm_task.                                                   *)

To(task, b, pc) == [task EXCEPT ![b].pc = pc]
Ended(task, b) == [task EXCEPT ![b] = [pc |-> "done", left |-> 0]]
\* Mutant: retries are never exhausted.
AgainAlways(task, b) == [task EXCEPT ![b] = [pc |-> "queued", left |-> @.left - 1]]
Again(task, b) == IF task[b].left > 0
                  THEN [task EXCEPT ![b] = [pc |-> "queued", left |-> @.left - 1]]
                  ELSE Ended(task, b)

MakeStart(b) ==
    /\ make[b].pc = "queued"
    /\ IF Live(b) THEN SetStatus(b, "creating_vm") /\ make' = To(make, b, "create")
                  ELSE UNCHANGED build /\ make' = Ended(make, b)
    /\ UNCHANGED <<download, image, pve, conv, api, mishaps, marks>>

\* The row was read right after the commit.  An installation medium is in the
\* VM from the start; a disk image is imported into it afterwards.
CreateBuildVm(b) ==
    /\ pve[build[b].vmid] = None
    /\ pve' = [pve EXCEPT ![build[b].vmid] = [kind |-> "vm", of |-> b]]

MakeVm(b) ==
    /\ make[b].pc = "create"
    /\ CreateBuildVm(b)
    /\ \E pc \in {"disk", "made"} : make' = To(make, b, pc)
    /\ UNCHANGED <<build, download, image, conv, api, mishaps, marks>>

\* Imports and attaches the disk, step by step, to whatever VM has the vmid.
MakeDisk(b) ==
    /\ make[b].pc = "disk" /\ pve[build[b].vmid] # None
    /\ make' = To(make, b, "made")
    /\ UNCHANGED <<build, download, image, pve, conv, api, mishaps, marks>>

\* Starts the VM.
MakeFinish(b) ==
    /\ make[b].pc = "made" /\ Live(b)
    /\ SetStatus(b, "running")
    /\ make' = Ended(make, b)
    /\ UNCHANGED <<download, image, pve, conv, api, mishaps, marks>>

\* Proxmox refuses a vmid that is taken, and a disk for a VM that is not there.
MakeStuck(b) ==
    \/ make[b].pc = "create" /\ pve[build[b].vmid] # None
    \/ make[b].pc = "disk" /\ pve[build[b].vmid] = None

\* Each failure writes "error".
MakeFail(b) ==
    /\ make[b].pc \in {"create", "disk", "made"} /\ Live(b)
    /\ \/ MakeStuck(b) /\ UNCHANGED mishaps
       \/ Mishap
    /\ SetStatus(b, "error")
    /\ make' = Again(make, b)
    /\ UNCHANGED <<download, image, pve, conv, api, marks>>

\* The row is gone: the handler fails as well, and the message is not sent again.
MakeLost(b) ==
    /\ ~Live(b)
    /\ make[b].pc = "made" \/ MakeStuck(b)
    /\ make' = Ended(make, b)
    /\ UNCHANGED <<build, download, image, pve, conv, api, mishaps, marks>>

-----------------------------------------------------------------------------
(* POST /images/build/{vmid}/convert and convert_build_to_template_task.   *)

Convert(b) ==
    /\ api = Idle /\ build[b].st = "running"
    /\ SetStatus(b, "converting")
    /\ api' = [op |-> "convert", b |-> b]
    /\ UNCHANGED <<download, image, pve, tasks, mishaps, marks>>

SendConvert(b) ==
    /\ api = [op |-> "convert", b |-> b]
    /\ conv' = To(conv, b, "queued")
    /\ api' = Idle
    /\ UNCHANGED <<build, download, image, pve, make, mishaps, marks>>

ConvStart(b) ==
    /\ conv[b].pc = "queued"
    /\ IF Live(b) THEN SetStatus(b, "converting") /\ conv' = To(conv, b, "stop")
                  ELSE UNCHANGED build /\ conv' = Ended(conv, b)
    /\ UNCHANGED <<download, image, pve, make, api, mishaps, marks>>

\* Mutant: a VM that is not there is no error.
ConvTemplateAnyway(b) ==
    LET v == build[b].vmid
    IN  /\ conv[b].pc = "stop" /\ v \notin Templates
        /\ pve' = IF pve[v] = None THEN pve ELSE [pve EXCEPT ![v].kind = "template"]
        /\ conv' = To(conv, b, "converted")
        /\ UNCHANGED <<build, download, image, make, api, mishaps, marks>>

ConvertToTemplate(v) ==
    /\ pve[v] # None /\ v \notin Templates
    /\ pve' = [pve EXCEPT ![v].kind = "template"]

\* Stops the VM, then converts whatever VM has the vmid.
ConvTemplate(b) ==
    /\ conv[b].pc = "stop"
    /\ ConvertToTemplate(build[b].vmid)
    /\ conv' = To(conv, b, "converted")
    /\ UNCHANGED <<build, download, image, make, api, mishaps, marks>>

Activated(v, b) == [image EXCEPT ![v] = [st |-> "active", of |-> b]]

\* Uses no column of the build that it has not loaded.
ConvRegister(b) ==
    /\ conv[b].pc = "converted"
    /\ image' = Activated(build[b].vmid, b)
    /\ conv' = To(conv, b, "registered")
    /\ UNCHANGED <<build, download, pve, make, api, mishaps, marks>>

ConvFinish(b) ==
    /\ conv[b].pc = "registered" /\ Live(b)
    /\ SetStatus(b, "gone")
    /\ conv' = Ended(conv, b)
    /\ UNCHANGED <<download, image, pve, make, api, mishaps, marks>>

ConvStuck(b) ==
    \/ conv[b].pc = "registered" /\ ~Live(b)
    \/ conv[b].pc = "stop" /\ (pve[build[b].vmid] = None \/ build[b].vmid \in Templates)

\* Mutant: no failure writes a status.
ConvFailSilently(b) ==
    /\ conv[b].pc \in {"stop", "converted", "registered"}
    /\ \/ ConvStuck(b) /\ UNCHANGED mishaps
       \/ Mishap
    /\ conv' = Again(conv, b)
    /\ UNCHANGED <<build, download, image, pve, make, api, marks>>

\* Only the last failure writes a status.
ConvFail(b) ==
    /\ conv[b].pc \in {"stop", "converted", "registered"}
    /\ \/ ConvStuck(b) /\ UNCHANGED mishaps
       \/ Mishap
    /\ conv' = Again(conv, b)
    /\ IF Live(b) /\ conv[b].left = 0 THEN SetStatus(b, "error") ELSE UNCHANGED build
    /\ UNCHANGED <<download, image, pve, make, api, marks>>

\* The worker dies and the message is delivered again.
WorkerCrash(b) ==
    /\ Mishap
    /\ \/ /\ make[b].pc \in {"create", "disk", "made"}
          /\ make' = To(make, b, "queued") /\ UNCHANGED conv
       \/ /\ conv[b].pc \in {"stop", "converted", "registered"}
          /\ conv' = To(conv, b, "queued") /\ UNCHANGED make
    /\ UNCHANGED <<build, download, image, pve, api, marks>>

-----------------------------------------------------------------------------
(* DELETE /images/build/{vmid}: looks at no status, and stops and destroys *)
(* whatever VM has the vmid; an error is only logged.                      *)

Destroyed(v) == [pve EXCEPT ![v] = None]

CancelVm(b, fails) ==
    LET v == build[b].vmid
    IN  /\ api = Idle /\ Live(b)
        /\ IF fails THEN Mishap /\ UNCHANGED pve ELSE pve' = Destroyed(v) /\ UNCHANGED mishaps
        /\ api' = [op |-> "cancel", b |-> b]
        /\ marks' = [x \in DOMAIN marks |-> marks[x] \cup
                        (IF x \in {b, v} /\ (Busy(make, b) \/ Busy(conv, b)) THEN {"raced"} ELSE {}) \cup
                        (IF x = b /\ fails THEN {"call"} ELSE {}) \cup
                        (IF x = v /\ ~fails /\ v \in Templates THEN {"late"} ELSE {})]
        /\ UNCHANGED <<build, download, image, tasks>>

CancelRow(b) ==
    /\ api = [op |-> "cancel", b |-> b]
    /\ SetStatus(b, "gone")
    /\ api' = Idle
    /\ UNCHANGED <<download, image, pve, tasks, mishaps, marks>>

\* The process dies between two halves of a request.
ApiCrash ==
    /\ api # Idle /\ Mishap
    /\ api' = Idle
    /\ IF api.op = "sync" THEN UNCHANGED marks ELSE MarkIf(TRUE, api.b, "cut")
    /\ UNCHANGED <<build, download, image, pve, tasks>>

-----------------------------------------------------------------------------
(* The rows of images: listings (sync_proxmox_templates), registration and *)
(* deletion.                                                               *)

SyncRead ==
    /\ api = Idle
    /\ api' = [op |-> "sync", list |-> Templates]
    /\ UNCHANGED <<build, download, image, pve, tasks, mishaps, marks>>

\* An active row is left as it is; without a template on the list none goes.
Synced(v) ==
    IF v \in api.list
    THEN IF image[v].st = "active" THEN image[v] ELSE [st |-> "active", of |-> pve[v].of]
    ELSE IF image[v].st = "active" /\ api.list # {} THEN [image[v] EXCEPT !.st = "deleted"]
    ELSE image[v]

SyncCommit ==
    /\ api.op = "sync"
    /\ image' = [v \in Vmids |-> Synced(v)]
    /\ api' = Idle
    /\ UNCHANGED <<build, download, pve, tasks, mishaps, marks>>

RegisterImage(v) ==
    /\ api = Idle
    /\ v \in Templates /\ image[v].st # "active"
    /\ image' = Activated(v, pve[v].of)
    /\ UNCHANGED <<build, download, pve, tasks, api, mishaps, marks>>

\* Destroys whatever has the vmid, also for a row deleted before.
DeleteImage(v) ==
    /\ api = Idle /\ image[v].st # "none"
    /\ \/ /\ pve' = Destroyed(v) /\ UNCHANGED mishaps
          /\ marks' = [x \in DOMAIN marks |-> marks[x] \cup
                 (IF x = v /\ image[v].st = "deleted" THEN {"twice"} ELSE {}) \cup
                 (IF x = v /\ (\E b \in Builds : build[b].vmid = v /\ Busy(conv, b))
                  THEN {"early"} ELSE {})]
       \/ Mishap /\ UNCHANGED <<pve, marks>>
    /\ image' = [image EXCEPT ![v].st = "deleted"]
    /\ UNCHANGED <<build, download, tasks, api>>

-----------------------------------------------------------------------------
MakeStep(b) ==
    \/ MakeStart(b) \/ MakeVm(b) \/ MakeDisk(b) \/ MakeFinish(b)
    \/ MakeFail(b) \/ MakeLost(b)
ConvStep(b) ==
    ConvStart(b) \/ ConvTemplate(b) \/ ConvRegister(b) \/ ConvFinish(b) \/ ConvFail(b)
ApiStep ==
    \/ \E b \in Builds : SendMake(b) \/ SentMake(b) \/ SendConvert(b) \/ CancelRow(b)
    \/ SyncCommit

BuildRequest(b) ==
    \/ \E only, there, fails \in BOOLEAN : StartBuild(b, only, there, fails)
    \/ PollDownload(b) \/ DeleteDownloaded(b) \/ Convert(b)
    \/ \E fails \in BOOLEAN : CancelVm(b, fails)

ImageRequest ==
    \/ SyncRead
    \/ \E v \in Vmids : RegisterImage(v) \/ DeleteImage(v)

Next ==
    \/ \E b \in Builds :
          \/ BuildRequest(b) \/ MakeStep(b) \/ ConvStep(b) \/ WorkerCrash(b)
          \/ \E how \in {"ok", "failed"} : DownloadEnds(b, how)
    \/ ImageRequest
    \/ ApiStep \/ ApiCrash

\* The broker delivers, workers and the API finish what they hold.
Fairness ==
    /\ \A b \in Builds : WF_vars(MakeStep(b)) /\ WF_vars(ConvStep(b))
    /\ WF_vars(ApiStep)

Spec == Init /\ [][Next]_vars /\ Fairness

-----------------------------------------------------------------------------
\* A build's VM is still the build's, or its build was cancelled while the
\* task that makes it was due (api/images.py:943, tasks/images.py:69) or
\* Proxmox did not destroy it.
NoOrphanVm ==
    \A v \in Vmids : pve[v] # None /\ v \notin Templates =>
        LET b == pve[v].of
        IN  (Live(b) /\ build[b].vmid = v) \/ marks[b] \cap {"raced", "call"} # {}

\* A build that runs has the VM of its vmid, unless that is being cancelled or
\* was cancelled by half, or an image of that vmid was or could be deleted in
\* its place (api/images.py:1495 does not look whether the image is active),
\* or a build of that vmid was cancelled while its conversion was due.  An
\* active image stands for the template it was made from, unless its build was
\* cancelled after its conversion, its image was deleted while its conversion
\* was still due, or a build of that vmid was cancelled while its task was due.
RowsHaveVms ==
    /\ \A b \in Builds : build[b].st = "running" =>
        \/ pve[build[b].vmid] = [kind |-> "vm", of |-> b]
        \/ api = [op |-> "cancel", b |-> b]
        \/ "cut" \in marks[b]
        \/ marks[build[b].vmid] \cap {"twice", "late", "early", "raced"} # {}
    /\ \A v \in Vmids : image[v].st = "active" =>
        \/ v \in Templates /\ pve[v].of = image[v].of
        \/ marks[v] \cap {"late", "early", "raced"} # {}

\* Cancelling a build destroys no VM and no template of another build, unless
\* the vmid was chosen blindly or the other one lost a race.
CancelSparesOthers ==
    [][\A b \in Builds : CancelVm(b, FALSE) =>
          LET v == build[b].vmid
          IN  \/ pve' = pve
              \/ pve[v].of = b
              \/ "blind" \in marks[v]
              \/ "raced" \in marks[pve[v].of]]_vars

\* Every build leaves the states that only a task ends, unless its message was
\* never sent or its request wrote "creating_vm" after the task had ended.
BuildsEnd ==
    <>[](\A b \in Builds :
            \/ build[b].st \notin {"creating_vm", "converting"}
            \/ marks[b] \cap {"overtaken", "cut"} # {})
=============================================================================
