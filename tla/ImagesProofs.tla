---------------------------- MODULE ImagesProofs ----------------------------
(***************************************************************************)
(* Proofs about Images, for every value of its constants: type             *)
(* correctness, that no VM of a build is left behind without a reason,     *)
(* that rows have the VMs and templates they stand for, and that           *)
(* cancelling a build destroys nothing of another.                         *)
(*                                                                         *)
(* The argument is about who may touch a vmid.  No two live builds share   *)
(* one, so that whatever another build does there is done by a task whose  *)
(* row is gone, and then the vmid is marked "raced".  A build starts its   *)
(* conversion only after its creation has ended for good.                  *)
(***************************************************************************)
EXTENDS Images, FiniteSetTheorems, TLAPS

-----------------------------------------------------------------------------
(* The parts of the inductive invariant.                                   *)

Used(b) == build[b].st # "unused"
VmOf(b) == pve[build[b].vmid]
OwnVm(b) == VmOf(b) = [kind |-> "vm", of |-> b]
Raced(x) == "raced" \in marks[x]
AnyBusy(b) == Busy(make, b) \/ Busy(conv, b)

\* A build is downloaded, then made, then converted, and never goes back.
StageOf(b) ==
    /\ build[b].st = "unused" => download[b] = "none"
    /\ build[b].st \in {"unused", "downloading_iso"} \/ build[b].only => make[b].pc = "none"
    /\ make[b].pc # "done" =>
          conv[b].pc = "none" /\ build[b].st \notin {"running", "converting"}
    /\ build[b].st = "running" => conv[b].pc = "none"

\* What a request that is half done relies on.
RequestOf(b) ==
    /\ api = [op |-> "send", b |-> b] =>
          build[b].st = "ready" /\ ~build[b].only /\ make[b].pc = "none"
    /\ api = [op |-> "sent", b |-> b] =>
          Live(b) /\ ~build[b].only /\ make[b].pc # "none" /\ conv[b].pc = "none"
    /\ api = [op |-> "convert", b |-> b] =>
          build[b].st = "converting" /\ make[b].pc = "done" /\ conv[b].pc = "none"
    /\ api = [op |-> "cancel", b |-> b] =>
          /\ Used(b)
          /\ AnyBusy(b) => Raced(b) /\ Raced(build[b].vmid)
          /\ OwnVm(b) => marks[b] \cap {"raced", "call"} # {}

\* A task whose row is gone has lost a race.
GoneRaced(b) ==
    build[b].st = "gone" /\ AnyBusy(b) => Raced(b) /\ Raced(build[b].vmid)

\* What a vmid holds that is not its live build's was there when the vmid was
\* chosen blindly, or its maker has lost a race.
Foreign(b) ==
    Live(b) /\ VmOf(b) # None /\ VmOf(b).of # b =>
        "blind" \in marks[build[b].vmid] \/ Raced(VmOf(b).of)

\* Once a build has had its VM, another can come only from a race.
HadVm(b) ==
    \/ make[b].pc \in {"disk", "made"} \/ Busy(conv, b)
    \/ build[b].st \in {"running", "converting"}
OwnOrRaced(b) ==
    Live(b) /\ HadVm(b) => VmOf(b) = None \/ VmOf(b).of = b \/ Raced(build[b].vmid)

\* A build has its VM from the creation on until it runs.
RunsOrExcused(b) ==
    build[b].st = "running" \/ (Live(b) /\ make[b].pc \in {"disk", "made"}) =>
        \/ OwnVm(b)
        \/ api = [op |-> "cancel", b |-> b]
        \/ "cut" \in marks[b]
        \/ marks[build[b].vmid] \cap {"twice", "late", "early", "raced"} # {}

\* A build has its template until the image is registered, and no VM until
\* its row goes.
ConvertedAt(b) ==
    /\ conv[b].pc = "converted" =>
        \/ VmOf(b) = [kind |-> "template", of |-> b]
        \/ marks[build[b].vmid] \cap {"early", "raced"} # {}
    /\ conv[b].pc \in {"converted", "registered"} => ~OwnVm(b)

\* What NoOrphanVm says of a build that is gone.
OrphanExcused(b) ==
    build[b].st = "gone" /\ OwnVm(b) => marks[b] \cap {"raced", "call"} # {}

BuildInv(b) ==
    /\ StageOf(b) /\ RequestOf(b) /\ GoneRaced(b) /\ OrphanExcused(b)
    /\ Foreign(b) /\ OwnOrRaced(b) /\ RunsOrExcused(b) /\ ConvertedAt(b)

\* No two live builds share a vmid.
VmidsApart ==
    \A b, c \in Builds : Live(b) /\ Live(c) /\ build[b].vmid = build[c].vmid => b = c

\* A VM has the vmid of the build it was made for, by that build's task.
VmsMade ==
    \A v \in Vmids : pve[v] # None =>
        /\ Used(pve[v].of) /\ build[pve[v].of].vmid = v
        /\ make[pve[v].of].pc # "none"

\* The templates of a listing stay until it is committed.
ListStands == api.op = "sync" => api.list \subseteq Templates

\* What RowsHaveVms says of images.
ImagesStand ==
    \A v \in Vmids : image[v].st = "active" =>
        \/ pve[v] = [kind |-> "template", of |-> image[v].of]
        \/ marks[v] \cap {"late", "early", "raced"} # {}

IInv ==
    /\ TypeOK
    /\ \A b \in Builds : BuildInv(b)
    /\ VmidsApart /\ VmsMade /\ ListStands /\ ImagesStand

-----------------------------------------------------------------------------
(* Steps, by what they do to one build, one vmid and the request at hand.  *)

\* A row that is not "unused" has a vmid; an "unused" one has nothing.
LEMMA RowShape ==
    ASSUME TypeOK, NEW b \in Builds
    PROVE  /\ Used(b) => build[b].vmid \in Vmids /\ build[b].st \in Status \cup {"gone"}
           /\ build[b].only \in BOOLEAN
           /\ Used(b) <=> Live(b) \/ build[b].st = "gone"
           /\ ~Used(b) => build[b] = Unused
<1>1. build[b] \in Build
  BY DEF TypeOK
<1>2. CASE build[b] = Unused
  BY <1>2 DEF Unused, Used, Live, Status
<1>3. CASE build[b] \in [st : Status \cup {"gone"}, vmid : Vmids, only : BOOLEAN]
  BY <1>3 DEF Used, Live, Status
<1> QED
  BY <1>1, <1>2, <1>3 DEF Build

\* Writing a status leaves everything else of the table as it is.
LEMMA StatusSet ==
    ASSUME TypeOK, NEW b \in Builds, Used(b), NEW st \in Status \cup {"gone"},
           SetStatus(b, st)
    PROVE  /\ build' \in [Builds -> Build]
           /\ build'[b].st = st
           /\ \A c \in Builds \ {b} : build'[c] = build[c]
           /\ \A c \in Builds : build'[c].vmid = build[c].vmid
           /\ \A c \in Builds : build'[c].only = build[c].only
<1>1. build \in [Builds -> Build] /\ build' = [build EXCEPT ![b].st = st]
  BY DEF TypeOK, SetStatus
<1>2. build[b] \in [st : Status \cup {"gone"}, vmid : Vmids, only : BOOLEAN]
  BY <1>1 DEF Build, Used, Unused
<1>3. [build[b] EXCEPT !.st = st] \in [st : Status \cup {"gone"}, vmid : Vmids, only : BOOLEAN]
  BY <1>2
<1>4. build' = [build EXCEPT ![b] = [build[b] EXCEPT !.st = st]]
  BY <1>1
<1> QED
  BY <1>1, <1>2, <1>3, <1>4 DEF Build

LEMMA TaskMoved ==
    ASSUME TypeOK, NEW b \in Builds, NEW pc \in MakePc
    PROVE  /\ To(make, b, pc) \in [Builds -> [pc : MakePc, left : 0..Retries]]
           /\ To(make, b, pc)[b].pc = pc
           /\ \A c \in Builds \ {b} : To(make, b, pc)[c] = make[c]
BY DEF TypeOK, To

LEMMA ConvMoved ==
    ASSUME TypeOK, NEW b \in Builds, NEW pc \in ConvPc
    PROVE  /\ To(conv, b, pc) \in [Builds -> [pc : ConvPc, left : 0..Retries]]
           /\ To(conv, b, pc)[b].pc = pc
           /\ \A c \in Builds \ {b} : To(conv, b, pc)[c] = conv[c]
BY DEF TypeOK, To

\* A task that ends, and one that fails: it is queued again, or has ended.
LEMMA TaskEnded ==
    ASSUME TypeOK, NEW b \in Builds
    PROVE  /\ Ended(make, b) \in [Builds -> [pc : MakePc, left : 0..Retries]]
           /\ Ended(make, b)[b].pc = "done"
           /\ \A c \in Builds \ {b} : Ended(make, b)[c] = make[c]
           /\ Again(make, b) \in [Builds -> [pc : MakePc, left : 0..Retries]]
           /\ Again(make, b)[b].pc \in {"queued", "done"}
           /\ \A c \in Builds \ {b} : Again(make, b)[c] = make[c]
<1> USE ImagesAssumption
<1>1. make[b] \in [pc : MakePc, left : 0..Retries]
  BY DEF TypeOK
<1>2. make[b].left > 0 => make[b].left - 1 \in 0..Retries
  BY <1>1
<1> QED
  BY <1>1, <1>2 DEF TypeOK, Ended, Again, MakePc

LEMMA ConvEnded ==
    ASSUME TypeOK, NEW b \in Builds
    PROVE  /\ Ended(conv, b) \in [Builds -> [pc : ConvPc, left : 0..Retries]]
           /\ Ended(conv, b)[b].pc = "done"
           /\ \A c \in Builds \ {b} : Ended(conv, b)[c] = conv[c]
           /\ Again(conv, b) \in [Builds -> [pc : ConvPc, left : 0..Retries]]
           /\ Again(conv, b)[b].pc \in {"queued", "done"}
           /\ \A c \in Builds \ {b} : Again(conv, b)[c] = conv[c]
<1> USE ImagesAssumption
<1>1. conv[b] \in [pc : ConvPc, left : 0..Retries]
  BY DEF TypeOK
<1>2. conv[b].left > 0 => conv[b].left - 1 \in 0..Retries
  BY <1>1
<1> QED
  BY <1>1, <1>2 DEF TypeOK, Ended, Again, ConvPc

\* Marks are only added.
MarksGrow == \A x \in Builds \cup Vmids : marks[x] \subseteq marks'[x]

LEMMA Marked ==
    ASSUME TypeOK, NEW cond \in BOOLEAN, NEW x \in Builds \cup Vmids, NEW m \in Marks,
           MarkIf(cond, x, m)
    PROVE  /\ marks' \in [Builds \cup Vmids -> SUBSET Marks]
           /\ MarksGrow
           /\ cond => m \in marks'[x]
BY DEF TypeOK, MarkIf, MarksGrow

\* A mishap is counted, up to the bound.
LEMMA Counted ==
    ASSUME TypeOK, Mishap \/ UNCHANGED mishaps
    PROVE  mishaps' \in 0..MaxMishaps
BY ImagesAssumption DEF TypeOK, Mishap

\* No request is half done on c, or it is the same before and after the step.
ApiKeptAt(c) ==
    \A o \in {"send", "sent", "convert", "cancel"} :
        api' = [op |-> o, b |-> c] <=> api = [op |-> o, b |-> c]
ApiKept(S) == \A c \in Builds \ S : ApiKeptAt(c)

\* A build whose row, tasks, VM and request stay keeps its invariant.
LEMMA BuildKept ==
    ASSUME IInv, NEW c \in Builds, MarksGrow, ApiKeptAt(c),
           build'[c] = build[c], download'[c] = download[c],
           make'[c] = make[c], conv'[c] = conv[c],
           Used(c) => pve'[build[c].vmid] = pve[build[c].vmid]
    PROVE  BuildInv(c)'
<1>1. marks[c] \subseteq marks'[c]
  BY DEF MarksGrow
<1>2. BuildInv(c)
  BY DEF IInv
<1>3. Used(c) => build[c].vmid \in Vmids /\ marks[build[c].vmid] \subseteq marks'[build[c].vmid]
  BY RowShape DEF IInv, MarksGrow
<1>4. /\ Used(c) => VmOf(c)' = VmOf(c)
      /\ Used(c) => (OwnVm(c)' <=> OwnVm(c))
      /\ Live(c)' <=> Live(c)
      /\ AnyBusy(c)' <=> AnyBusy(c)
  BY DEF VmOf, OwnVm, Live, AnyBusy, Busy
<1>5. (Live(c) \/ build[c].st \in {"gone", "running"} => Used(c)) /\ (AnyBusy(c) => Used(c))
  BY <1>2 DEF Live, Used, Status, BuildInv, StageOf, AnyBusy, Busy
<1>6. StageOf(c)'
  BY <1>2 DEF BuildInv, StageOf
<1>7. RequestOf(c)'
  BY <1>1, <1>2, <1>3, <1>4 DEF BuildInv, RequestOf, ApiKeptAt, Used, Raced
<1>8. GoneRaced(c)'
  BY <1>1, <1>2, <1>3, <1>4, <1>5 DEF BuildInv, GoneRaced, Raced
<1>9. OrphanExcused(c)'
  BY <1>1, <1>2, <1>4, <1>5 DEF BuildInv, OrphanExcused
<1>10. Foreign(c)'
  <2>1. VmOf(c) # None /\ Used(c) => VmOf(c).of \in Builds
    BY <1>3 DEF IInv, TypeOK, Guest, VmOf
  <2> QED
    BY <1>1, <1>2, <1>3, <1>4, <1>5, <2>1 DEF BuildInv, Foreign, Raced, MarksGrow
<1>11. OwnOrRaced(c)'
  BY <1>2, <1>3, <1>4, <1>5 DEF BuildInv, OwnOrRaced, HadVm, Busy, Raced
<1>12. RunsOrExcused(c)'
  BY <1>1, <1>2, <1>3, <1>4, <1>5 DEF BuildInv, RunsOrExcused, ApiKeptAt
<1>13. ConvertedAt(c)'
  BY <1>2, <1>3, <1>4, <1>5 DEF BuildInv, ConvertedAt, AnyBusy, Busy
<1> QED
  BY <1>6, <1>7, <1>8, <1>9, <1>10, <1>11, <1>12, <1>13 DEF BuildInv

\* A step that touches no VM and the rows and tasks of no build outside S has
\* only the builds of S to answer for.
LEMMA RowFrame ==
    ASSUME IInv, TypeOK', NEW S \in SUBSET Builds, pve' = pve, MarksGrow, ApiKept(S),
           \A c \in Builds \ S : /\ build'[c] = build[c] /\ download'[c] = download[c]
                                 /\ make'[c] = make[c] /\ conv'[c] = conv[c],
           \A b \in S :
              /\ BuildInv(b)'
              /\ build'[b].vmid = build[b].vmid
              /\ Live(b)' => Live(b)
              /\ Used(b) => Used(b)'
              /\ make[b].pc # "none" => make'[b].pc # "none",
           ListStands', ImagesStand'
    PROVE  IInv'
<1>1. \A c \in Builds : BuildInv(c)'
  BY BuildKept DEF ApiKept
<1>2. \A c \in Builds :
        /\ build'[c].vmid = build[c].vmid
        /\ Live(c)' => Live(c)
        /\ Used(c) => Used(c)'
        /\ make[c].pc # "none" => make'[c].pc # "none"
  BY DEF Live, Used
<1>3. VmidsApart'
  BY <1>2 DEF IInv, VmidsApart
<1>4. VmsMade'
  <2> SUFFICES ASSUME NEW v \in Vmids, pve[v] # None, NEW b \in Builds, b = pve[v].of
               PROVE  Used(b)' /\ build'[b].vmid = v /\ make'[b].pc # "none"
    BY DEF VmsMade, Used, IInv, TypeOK, Guest
  <2> QED
    BY <1>2 DEF IInv, VmsMade
<1> QED
  BY <1>1, <1>3, <1>4 DEF IInv

\* A step at one vmid, that touches no row, has only the builds with that
\* vmid to answer for.
LEMMA VmFrame ==
    ASSUME IInv, TypeOK', NEW v \in Vmids, build' = build, download' = download, MarksGrow,
           \A w \in Vmids \ {v} : pve'[w] = pve[w],
           \A c \in Builds : ~Used(c) \/ build[c].vmid # v =>
              make'[c] = make[c] /\ conv'[c] = conv[c] /\ ApiKeptAt(c),
           \A c \in Builds : make[c].pc # "none" => make'[c].pc # "none",
           \A c \in Builds : Used(c) /\ build[c].vmid = v => BuildInv(c)',
           pve'[v] # None =>
              /\ Used(pve'[v].of) /\ build[pve'[v].of].vmid = v
              /\ make'[pve'[v].of].pc # "none",
           ListStands', ImagesStand'
    PROVE  IInv'
<1>1. \A c \in Builds : BuildInv(c)'
  <2> SUFFICES ASSUME NEW c \in Builds, ~Used(c) \/ build[c].vmid # v PROVE BuildInv(c)'
    OBVIOUS
  <2>1. Used(c) => build[c].vmid \in Vmids
    BY RowShape DEF IInv
  <2> QED
    BY <2>1, BuildKept
<1>2. VmidsApart'
  BY DEF IInv, VmidsApart, Live
<1>3. VmsMade'
  <2> SUFFICES ASSUME NEW w \in Vmids, pve'[w] # None, NEW b \in Builds, b = pve'[w].of
               PROVE  Used(b) /\ build[b].vmid = w /\ make'[b].pc # "none"
    BY DEF VmsMade, Used, TypeOK, Guest
  <2> QED
    BY DEF IInv, VmsMade
<1> QED
  BY <1>1, <1>2, <1>3 DEF IInv

LEMMA OneRow ==
    ASSUME IInv, TypeOK', NEW b \in Builds, pve' = pve, MarksGrow, ApiKept({b}),
           \A c \in Builds \ {b} : /\ build'[c] = build[c] /\ download'[c] = download[c]
                                   /\ make'[c] = make[c] /\ conv'[c] = conv[c],
           BuildInv(b)',
           build'[b].vmid = build[b].vmid,
           Live(b)' => Live(b),
           Used(b)',
           make[b].pc # "none" => make'[b].pc # "none",
           ListStands', ImagesStand'
    PROVE  IInv'
BY RowFrame

\* What a step on the row and the tasks of b is proved from.
LEMMA AtRow ==
    ASSUME IInv, NEW b \in Builds, Used(b), pve' = pve, MarksGrow,
           build'[b].vmid = build[b].vmid
    PROVE  /\ BuildInv(b)
           /\ VmOf(b)' = VmOf(b)
           /\ OwnVm(b)' <=> OwnVm(b)
           /\ OwnVm(b) => VmOf(b) # None /\ make[b].pc # "none"
           /\ marks[b] \subseteq marks'[b]
           /\ marks[build[b].vmid] \subseteq marks'[build[b].vmid]
           /\ VmOf(b) # None => VmOf(b).of \in Builds /\ marks[VmOf(b).of] \subseteq marks'[VmOf(b).of]
<1>1. build[b].vmid \in Vmids
  BY RowShape DEF IInv
<1>2. VmOf(b) # None => VmOf(b).of \in Builds
  BY <1>1 DEF IInv, TypeOK, Guest, VmOf
<1>3. OwnVm(b) => VmOf(b) # None /\ make[b].pc # "none"
  <2>1. [kind |-> "vm", of |-> b] # None
    BY ImagesAssumption, [kind |-> "vm", of |-> b] \in [kind : {"vm", "template"}, of : Builds]
  <2> QED
    BY <1>1, <2>1 DEF OwnVm, VmOf, IInv, VmsMade
<1> QED
  BY <1>1, <1>2, <1>3 DEF IInv, VmOf, OwnVm, MarksGrow

\* Images and listings are not touched.
LEMMA ImagesKept ==
    ASSUME IInv, TypeOK', pve' = pve, image' = image, MarksGrow
    PROVE  /\ ImagesStand'
           /\ api' = api \/ api'.op # "sync" => ListStands'
BY DEF IInv, ImagesStand, ListStands, Templates, MarksGrow

-----------------------------------------------------------------------------
(* The steps of builds, their tasks and the requests on them: each touches  *)
(* the row and the tasks of one build.                                     *)

LEMMA PollDownloadStep ==
    ASSUME IInv, NEW b \in Builds, PollDownload(b)
    PROVE  IInv'
<1>1. BuildInv(b) /\ TypeOK /\ api = Idle /\ Live(b)
  BY DEF IInv, PollDownload
<1>2. Used(b)
  BY <1>1 DEF Live, Used, Status
<1>3. /\ build' \in [Builds -> Build]
      /\ \A c \in Builds \ {b} : build'[c] = build[c]
      /\ build'[b].vmid = build[b].vmid /\ build'[b].only = build[b].only
      /\ build'[b].st = IF download[b] = "failed" THEN "error" ELSE "ready"
      /\ download[b] = "failed" => api' = api
      /\ download[b] # "failed" => build[b].st = "downloading_iso"
      /\ download[b] # "failed" => api' = IF build[b].only THEN Idle ELSE [op |-> "send", b |-> b]
  BY <1>1, <1>2, StatusSet DEF PollDownload, Status
<1>4. UNCHANGED <<download, image, pve, make, conv, mishaps, marks>>
  BY DEF PollDownload, tasks
<1>5. TypeOK'
  BY <1>1, <1>3, <1>4 DEF TypeOK, Api, Idle
<1>6. BuildInv(b)'
  BY <1>1, <1>2, <1>3, <1>4, AtRow DEF BuildInv, StageOf, RequestOf, GoneRaced, OrphanExcused,
     Foreign, OwnOrRaced, HadVm, RunsOrExcused, ConvertedAt, Used, Live, AnyBusy, Busy, Raced, Status, MarksGrow, Idle
<1> QED
  BY <1>1, <1>2, <1>3, <1>4, <1>5, <1>6, OneRow, ImagesKept
     DEF Live, Used, Status, MarksGrow, ApiKept, ApiKeptAt, Idle

LEMMA SendMakeStep ==
    ASSUME IInv, NEW b \in Builds, SendMake(b)
    PROVE  IInv'
<1>1. BuildInv(b) /\ TypeOK /\ api = [op |-> "send", b |-> b]
  BY DEF IInv, SendMake
<1>2. Used(b)
  BY <1>1 DEF BuildInv, RequestOf, Used
<1>3. /\ make' \in [Builds -> [pc : MakePc, left : 0..Retries]]
      /\ \A c \in Builds \ {b} : make'[c] = make[c]
      /\ make'[b].pc = "queued"
      /\ api' = [op |-> "sent", b |-> b]
  BY <1>1, TaskMoved DEF SendMake, To, MakePc
<1>4. UNCHANGED <<build, download, image, pve, conv, mishaps, marks>>
  BY DEF SendMake, tasks
<1>5. TypeOK'
  BY <1>1, <1>3, <1>4 DEF TypeOK, Api, Idle
<1>6. BuildInv(b)'
  BY <1>1, <1>2, <1>3, <1>4, AtRow DEF BuildInv, StageOf, RequestOf, GoneRaced, OrphanExcused,
     Foreign, OwnOrRaced, HadVm, RunsOrExcused, ConvertedAt, Used, Live, AnyBusy, Busy, Raced, Status, MarksGrow, Idle
<1> QED
  BY <1>1, <1>2, <1>3, <1>4, <1>5, <1>6, OneRow, ImagesKept
     DEF Live, Used, Status, MarksGrow, ApiKept, ApiKeptAt, Idle

LEMMA SentMakeStep ==
    ASSUME IInv, NEW b \in Builds, SentMake(b)
    PROVE  IInv'
<1>1. BuildInv(b) /\ TypeOK /\ api = [op |-> "sent", b |-> b]
  BY DEF IInv, SentMake
<1>2. Used(b) /\ Live(b)
  BY <1>1 DEF BuildInv, RequestOf, Used, Live, Status
<1>3. /\ build' \in [Builds -> Build]
      /\ \A c \in Builds \ {b} : build'[c] = build[c]
      /\ build'[b].vmid = build[b].vmid /\ build'[b].only = build[b].only
      /\ build'[b].st = "creating_vm"
      /\ api' = Idle
      /\ marks' \in [Builds \cup Vmids -> SUBSET Marks] /\ MarksGrow
  BY <1>1, <1>2, StatusSet, Marked DEF SentMake, Status, Marks
<1>4. UNCHANGED <<download, image, pve, make, conv, mishaps>>
  BY DEF SentMake, tasks
<1>5. TypeOK'
  BY <1>1, <1>3, <1>4 DEF TypeOK, Api, Idle
<1>6. BuildInv(b)'
  BY <1>1, <1>2, <1>3, <1>4, AtRow DEF BuildInv, StageOf, RequestOf, GoneRaced, OrphanExcused,
     Foreign, OwnOrRaced, HadVm, RunsOrExcused, ConvertedAt, Used, Live, AnyBusy, Busy, Raced, Status, MarksGrow, Idle
<1> QED
  BY <1>1, <1>2, <1>3, <1>4, <1>5, <1>6, OneRow, ImagesKept
     DEF Live, Used, Status, ApiKept, ApiKeptAt, Idle

LEMMA DeleteDownloadedStep ==
    ASSUME IInv, NEW b \in Builds, DeleteDownloaded(b)
    PROVE  IInv'
<1>1. BuildInv(b) /\ TypeOK /\ api = Idle /\ Live(b) /\ build[b].only
  BY DEF IInv, DeleteDownloaded
<1>2. Used(b)
  BY <1>1 DEF Live, Used, Status
<1>3. /\ build' \in [Builds -> Build]
      /\ \A c \in Builds \ {b} : build'[c] = build[c]
      /\ build'[b].vmid = build[b].vmid /\ build'[b].only = build[b].only
      /\ build'[b].st = "gone"
  BY <1>1, <1>2, StatusSet DEF DeleteDownloaded
<1>4. UNCHANGED <<download, image, pve, make, conv, api, mishaps, marks>>
  BY DEF DeleteDownloaded, tasks
<1>5. TypeOK'
  BY <1>1, <1>3, <1>4 DEF TypeOK, Api, Idle
<1>6. BuildInv(b)'
  <2>1. make[b].pc = "none" /\ conv[b].pc = "none" /\ build'[b].st = "gone"
    BY <1>1, <1>3 DEF BuildInv, StageOf
  <2>2. ~OwnVm(b)'
    BY <1>1, <1>2, <1>3, <1>4, <2>1, AtRow DEF MarksGrow
  <2> QED
    BY <1>1, <1>3, <1>4, <2>1, <2>2 DEF BuildInv, StageOf, RequestOf, GoneRaced, OrphanExcused,
       Foreign,
       OwnOrRaced, HadVm, RunsOrExcused, ConvertedAt, Live, AnyBusy, Busy, Status, Idle
<1> QED
  BY <1>1, <1>2, <1>3, <1>4, <1>5, <1>6, OneRow, ImagesKept
     DEF Live, Used, Status, MarksGrow, ApiKept, ApiKeptAt, Idle

LEMMA MakeStartStep ==
    ASSUME IInv, NEW b \in Builds, MakeStart(b)
    PROVE  IInv'
<1>1. BuildInv(b) /\ TypeOK /\ make[b].pc = "queued"
  BY DEF IInv, MakeStart
<1>2. Used(b)
  BY <1>1 DEF BuildInv, StageOf, Used
<1>3. /\ build' \in [Builds -> Build]
      /\ \A c \in Builds \ {b} : build'[c] = build[c]
      /\ build'[b].vmid = build[b].vmid /\ build'[b].only = build[b].only
      /\ build'[b].st = IF Live(b) THEN "creating_vm" ELSE build[b].st
      /\ make' \in [Builds -> [pc : MakePc, left : 0..Retries]]
      /\ \A c \in Builds \ {b} : make'[c] = make[c]
      /\ make'[b].pc = IF Live(b) THEN "create" ELSE "done"
  <2>1. CASE Live(b)
    BY <1>1, <1>2, <2>1, StatusSet, TaskMoved DEF MakeStart, Status, MakePc
  <2>2. CASE ~Live(b)
    BY <1>1, <2>2, TaskEnded DEF MakeStart, TypeOK
  <2> QED
    BY <2>1, <2>2
<1>4. UNCHANGED <<download, image, pve, conv, api, mishaps, marks>>
  BY DEF MakeStart
<1>5. TypeOK'
  BY <1>1, <1>3, <1>4 DEF TypeOK
<1>6. BuildInv(b)'
  BY <1>1, <1>2, <1>3, <1>4, AtRow DEF BuildInv, StageOf, RequestOf, GoneRaced, OrphanExcused,
     Foreign, OwnOrRaced, HadVm, RunsOrExcused, ConvertedAt, Used, Live, AnyBusy, Busy, Raced, Status, MarksGrow
<1> QED
  BY <1>1, <1>2, <1>3, <1>4, <1>5, <1>6, OneRow, ImagesKept
     DEF Live, Used, Status, MarksGrow, ApiKept, ApiKeptAt

LEMMA MakeDiskStep ==
    ASSUME IInv, NEW b \in Builds, MakeDisk(b)
    PROVE  IInv'
<1>1. BuildInv(b) /\ TypeOK /\ make[b].pc = "disk"
  BY DEF IInv, MakeDisk
<1>2. Used(b)
  BY <1>1 DEF BuildInv, StageOf, Used
<1>3. /\ make' \in [Builds -> [pc : MakePc, left : 0..Retries]]
      /\ \A c \in Builds \ {b} : make'[c] = make[c]
      /\ make'[b].pc = "made"
  BY <1>1, TaskMoved DEF MakeDisk, MakePc
<1>4. UNCHANGED <<build, download, image, pve, conv, api, mishaps, marks>>
  BY DEF MakeDisk, tasks
<1>5. TypeOK'
  BY <1>1, <1>3, <1>4 DEF TypeOK, Api, Idle
<1>6. BuildInv(b)'
  BY <1>1, <1>2, <1>3, <1>4, AtRow DEF BuildInv, StageOf, RequestOf, GoneRaced, OrphanExcused,
     Foreign, OwnOrRaced, HadVm, RunsOrExcused, ConvertedAt, Used, Live, AnyBusy, Busy, Raced, Status, MarksGrow, Idle
<1> QED
  BY <1>1, <1>2, <1>3, <1>4, <1>5, <1>6, OneRow, ImagesKept
     DEF Live, Used, Status, MarksGrow, ApiKept, ApiKeptAt, Idle

LEMMA MakeFinishStep ==
    ASSUME IInv, NEW b \in Builds, MakeFinish(b)
    PROVE  IInv'
<1>1. BuildInv(b) /\ TypeOK /\ make[b].pc = "made" /\ Live(b)
  BY DEF IInv, MakeFinish
<1>2. Used(b)
  BY <1>1 DEF Live, Used, Status
<1>3. /\ build' \in [Builds -> Build]
      /\ \A c \in Builds \ {b} : build'[c] = build[c]
      /\ build'[b].vmid = build[b].vmid /\ build'[b].only = build[b].only
      /\ build'[b].st = "running"
      /\ make' \in [Builds -> [pc : MakePc, left : 0..Retries]]
      /\ \A c \in Builds \ {b} : make'[c] = make[c]
      /\ make'[b].pc = "done"
  BY <1>1, <1>2, StatusSet, TaskEnded DEF MakeFinish, Status
<1>4. UNCHANGED <<download, image, pve, conv, api, mishaps, marks>>
  BY DEF MakeFinish, tasks
<1>5. TypeOK'
  BY <1>1, <1>3, <1>4 DEF TypeOK, Api, Idle
<1>6. BuildInv(b)'
  BY <1>1, <1>2, <1>3, <1>4, AtRow DEF BuildInv, StageOf, RequestOf, GoneRaced, OrphanExcused,
     Foreign, OwnOrRaced, HadVm, RunsOrExcused, ConvertedAt, Used, Live, AnyBusy, Busy, Raced, Status, MarksGrow, Idle
<1> QED
  BY <1>1, <1>2, <1>3, <1>4, <1>5, <1>6, OneRow, ImagesKept
     DEF Live, Used, Status, MarksGrow, ApiKept, ApiKeptAt, Idle

LEMMA MakeFailStep ==
    ASSUME IInv, NEW b \in Builds, MakeFail(b)
    PROVE  IInv'
<1>1. BuildInv(b) /\ TypeOK /\ make[b].pc \in {"create", "disk", "made"} /\ Live(b)
  BY DEF IInv, MakeFail
<1>2. Used(b)
  BY <1>1 DEF Live, Used, Status
<1>3. /\ build' \in [Builds -> Build]
      /\ \A c \in Builds \ {b} : build'[c] = build[c]
      /\ build'[b].vmid = build[b].vmid /\ build'[b].only = build[b].only
      /\ build'[b].st = "error"
      /\ make' \in [Builds -> [pc : MakePc, left : 0..Retries]]
      /\ \A c \in Builds \ {b} : make'[c] = make[c]
      /\ make'[b].pc \in {"queued", "done"}
      /\ mishaps' \in 0..MaxMishaps
  BY <1>1, <1>2, StatusSet, TaskEnded, Counted DEF MakeFail, Status
<1>4. UNCHANGED <<download, image, pve, conv, api, marks>>
  BY DEF MakeFail, tasks
<1>5. TypeOK'
  BY <1>1, <1>3, <1>4 DEF TypeOK, Api, Idle
<1>6. BuildInv(b)'
  BY <1>1, <1>2, <1>3, <1>4, AtRow DEF BuildInv, StageOf, RequestOf, GoneRaced, OrphanExcused,
     Foreign, OwnOrRaced, HadVm, RunsOrExcused, ConvertedAt, Used, Live, AnyBusy, Busy, Raced, Status, MarksGrow, Idle
<1> QED
  BY <1>1, <1>2, <1>3, <1>4, <1>5, <1>6, OneRow, ImagesKept
     DEF Live, Used, Status, MarksGrow, ApiKept, ApiKeptAt, Idle

LEMMA MakeLostStep ==
    ASSUME IInv, NEW b \in Builds, MakeLost(b)
    PROVE  IInv'
<1>1. BuildInv(b) /\ TypeOK /\ make[b].pc \in {"create", "disk", "made"} /\ ~Live(b)
  BY DEF IInv, MakeLost, MakeStuck
<1>2. Used(b)
  BY <1>1 DEF BuildInv, StageOf, Used
<1>3. /\ make' \in [Builds -> [pc : MakePc, left : 0..Retries]]
      /\ \A c \in Builds \ {b} : make'[c] = make[c]
      /\ make'[b].pc = "done"
  BY <1>1, TaskEnded DEF MakeLost
<1>4. UNCHANGED <<build, download, image, pve, conv, api, mishaps, marks>>
  BY DEF MakeLost, tasks
<1>5. TypeOK'
  BY <1>1, <1>3, <1>4 DEF TypeOK, Api, Idle
<1>6. BuildInv(b)'
  BY <1>1, <1>2, <1>3, <1>4, AtRow DEF BuildInv, StageOf, RequestOf, GoneRaced, OrphanExcused,
     Foreign, OwnOrRaced, HadVm, RunsOrExcused, ConvertedAt, Used, Live, AnyBusy, Busy, Raced, Status, MarksGrow, Idle
<1> QED
  BY <1>1, <1>2, <1>3, <1>4, <1>5, <1>6, OneRow, ImagesKept
     DEF Live, Used, Status, MarksGrow, ApiKept, ApiKeptAt, Idle

LEMMA ConvertStep ==
    ASSUME IInv, NEW b \in Builds, Convert(b)
    PROVE  IInv'
<1>1. BuildInv(b) /\ TypeOK /\ api = Idle /\ build[b].st = "running"
  BY DEF IInv, Convert
<1>2. Used(b)
  BY <1>1 DEF Used
<1>3. /\ build' \in [Builds -> Build]
      /\ \A c \in Builds \ {b} : build'[c] = build[c]
      /\ build'[b].vmid = build[b].vmid /\ build'[b].only = build[b].only
      /\ build'[b].st = "converting"
      /\ api' = [op |-> "convert", b |-> b]
  BY <1>1, <1>2, StatusSet DEF Convert, Status
<1>4. UNCHANGED <<download, image, pve, make, conv, mishaps, marks>>
  BY DEF Convert, tasks
<1>5. TypeOK'
  BY <1>1, <1>3, <1>4 DEF TypeOK, Api, Idle
<1>6. BuildInv(b)'
  BY <1>1, <1>2, <1>3, <1>4, AtRow DEF BuildInv, StageOf, RequestOf, GoneRaced, OrphanExcused,
     Foreign, OwnOrRaced, HadVm, RunsOrExcused, ConvertedAt, Used, Live, AnyBusy, Busy, Raced, Status, MarksGrow, Idle
<1> QED
  BY <1>1, <1>2, <1>3, <1>4, <1>5, <1>6, OneRow, ImagesKept
     DEF Live, Used, Status, MarksGrow, ApiKept, ApiKeptAt, Idle

LEMMA SendConvertStep ==
    ASSUME IInv, NEW b \in Builds, SendConvert(b)
    PROVE  IInv'
<1>1. BuildInv(b) /\ TypeOK /\ api = [op |-> "convert", b |-> b]
  BY DEF IInv, SendConvert
<1>2. Used(b)
  BY <1>1 DEF BuildInv, RequestOf, Used
<1>3. /\ conv' \in [Builds -> [pc : ConvPc, left : 0..Retries]]
      /\ \A c \in Builds \ {b} : conv'[c] = conv[c]
      /\ conv'[b].pc = "queued"
      /\ api' = Idle
  BY <1>1, ConvMoved DEF SendConvert, ConvPc
<1>4. UNCHANGED <<build, download, image, pve, make, mishaps, marks>>
  BY DEF SendConvert, tasks
<1>5. TypeOK'
  BY <1>1, <1>3, <1>4 DEF TypeOK, Api, Idle
<1>6. BuildInv(b)'
  BY <1>1, <1>2, <1>3, <1>4, AtRow DEF BuildInv, StageOf, RequestOf, GoneRaced, OrphanExcused,
     Foreign, OwnOrRaced, HadVm, RunsOrExcused, ConvertedAt, Used, Live, AnyBusy, Busy, Raced, Status, MarksGrow, Idle
<1> QED
  BY <1>1, <1>2, <1>3, <1>4, <1>5, <1>6, OneRow, ImagesKept
     DEF Live, Used, Status, MarksGrow, ApiKept, ApiKeptAt, Idle

LEMMA ConvStartStep ==
    ASSUME IInv, NEW b \in Builds, ConvStart(b)
    PROVE  IInv'
<1>1. BuildInv(b) /\ TypeOK /\ conv[b].pc = "queued"
  BY DEF IInv, ConvStart
<1>2. Used(b)
  BY <1>1 DEF BuildInv, StageOf, Used
<1>3. /\ build' \in [Builds -> Build]
      /\ \A c \in Builds \ {b} : build'[c] = build[c]
      /\ build'[b].vmid = build[b].vmid /\ build'[b].only = build[b].only
      /\ build'[b].st = IF Live(b) THEN "converting" ELSE build[b].st
      /\ conv' \in [Builds -> [pc : ConvPc, left : 0..Retries]]
      /\ \A c \in Builds \ {b} : conv'[c] = conv[c]
      /\ conv'[b].pc = IF Live(b) THEN "stop" ELSE "done"
  <2>1. CASE Live(b)
    BY <1>1, <1>2, <2>1, StatusSet, ConvMoved DEF ConvStart, Status, ConvPc
  <2>2. CASE ~Live(b)
    BY <1>1, <2>2, ConvEnded DEF ConvStart, TypeOK
  <2> QED
    BY <2>1, <2>2
<1>4. UNCHANGED <<download, image, pve, make, api, mishaps, marks>>
  BY DEF ConvStart
<1>5. TypeOK'
  BY <1>1, <1>3, <1>4 DEF TypeOK
<1>6. BuildInv(b)'
  BY <1>1, <1>2, <1>3, <1>4, AtRow DEF BuildInv, StageOf, RequestOf, GoneRaced, OrphanExcused,
     Foreign, OwnOrRaced, HadVm, RunsOrExcused, ConvertedAt, Used, Live, AnyBusy, Busy, Raced, Status, MarksGrow
<1> QED
  BY <1>1, <1>2, <1>3, <1>4, <1>5, <1>6, OneRow, ImagesKept
     DEF Live, Used, Status, MarksGrow, ApiKept, ApiKeptAt

LEMMA ConvFinishStep ==
    ASSUME IInv, NEW b \in Builds, ConvFinish(b)
    PROVE  IInv'
<1>1. BuildInv(b) /\ TypeOK /\ conv[b].pc = "registered" /\ Live(b)
  BY DEF IInv, ConvFinish
<1>2. Used(b)
  BY <1>1 DEF Live, Used, Status
<1>3. /\ build' \in [Builds -> Build]
      /\ \A c \in Builds \ {b} : build'[c] = build[c]
      /\ build'[b].vmid = build[b].vmid /\ build'[b].only = build[b].only
      /\ build'[b].st = "gone"
      /\ conv' \in [Builds -> [pc : ConvPc, left : 0..Retries]]
      /\ \A c \in Builds \ {b} : conv'[c] = conv[c]
      /\ conv'[b].pc = "done"
  BY <1>1, <1>2, StatusSet, ConvEnded DEF ConvFinish, Status
<1>4. UNCHANGED <<download, image, pve, make, api, mishaps, marks>>
  BY DEF ConvFinish, tasks
<1>5. TypeOK'
  BY <1>1, <1>3, <1>4 DEF TypeOK, Api, Idle
<1>6. BuildInv(b)'
  BY <1>1, <1>2, <1>3, <1>4, AtRow DEF BuildInv, StageOf, RequestOf, GoneRaced, OrphanExcused,
     Foreign, OwnOrRaced, HadVm, RunsOrExcused, ConvertedAt, Used, Live, AnyBusy, Busy, Raced, Status, MarksGrow, Idle
<1> QED
  BY <1>1, <1>2, <1>3, <1>4, <1>5, <1>6, OneRow, ImagesKept
     DEF Live, Used, Status, MarksGrow, ApiKept, ApiKeptAt, Idle

LEMMA ConvFailStep ==
    ASSUME IInv, NEW b \in Builds, ConvFail(b)
    PROVE  IInv'
<1>1. BuildInv(b) /\ TypeOK /\ conv[b].pc \in {"stop", "converted", "registered"}
  BY DEF IInv, ConvFail
<1>2. Used(b)
  BY <1>1 DEF BuildInv, StageOf, Used
<1>3. /\ build' \in [Builds -> Build]
      /\ \A c \in Builds \ {b} : build'[c] = build[c]
      /\ build'[b].vmid = build[b].vmid /\ build'[b].only = build[b].only
      /\ build'[b].st = IF Live(b) /\ conv[b].left = 0 THEN "error" ELSE build[b].st
      /\ conv' \in [Builds -> [pc : ConvPc, left : 0..Retries]]
      /\ \A c \in Builds \ {b} : conv'[c] = conv[c]
      /\ conv'[b].pc \in {"queued", "done"}
      /\ mishaps' \in 0..MaxMishaps
  BY <1>1, <1>2, StatusSet, ConvEnded, Counted DEF ConvFail, TypeOK, Status
<1>4. UNCHANGED <<download, image, pve, make, api, marks>>
  BY DEF ConvFail, tasks
<1>5. TypeOK'
  BY <1>1, <1>3, <1>4 DEF TypeOK, Api, Idle
<1>6. BuildInv(b)'
  BY <1>1, <1>2, <1>3, <1>4, AtRow DEF BuildInv, StageOf, RequestOf, GoneRaced, OrphanExcused,
     Foreign, OwnOrRaced, HadVm, RunsOrExcused, ConvertedAt, Used, Live, AnyBusy, Busy, Raced, Status, MarksGrow, Idle
<1> QED
  BY <1>1, <1>2, <1>3, <1>4, <1>5, <1>6, OneRow, ImagesKept
     DEF Live, Used, Status, MarksGrow, ApiKept, ApiKeptAt, Idle

LEMMA CancelRowStep ==
    ASSUME IInv, NEW b \in Builds, CancelRow(b)
    PROVE  IInv'
<1>1. BuildInv(b) /\ TypeOK /\ api = [op |-> "cancel", b |-> b]
  BY DEF IInv, CancelRow
<1>2. Used(b)
  BY <1>1 DEF BuildInv, RequestOf, Used
<1>3. /\ build' \in [Builds -> Build]
      /\ \A c \in Builds \ {b} : build'[c] = build[c]
      /\ build'[b].vmid = build[b].vmid /\ build'[b].only = build[b].only
      /\ build'[b].st = "gone"
      /\ api' = Idle
  BY <1>1, <1>2, StatusSet DEF CancelRow
<1>4. UNCHANGED <<download, image, pve, make, conv, mishaps, marks>>
  BY DEF CancelRow, tasks
<1>5. TypeOK'
  BY <1>1, <1>3, <1>4 DEF TypeOK, Api, Idle
<1>6. BuildInv(b)'
  BY <1>1, <1>2, <1>3, <1>4, AtRow DEF BuildInv, StageOf, RequestOf, GoneRaced, OrphanExcused,
     Foreign, OwnOrRaced, HadVm, RunsOrExcused, ConvertedAt, Used, Live, AnyBusy, Busy, Raced, Status, MarksGrow, Idle
<1> QED
  BY <1>1, <1>2, <1>3, <1>4, <1>5, <1>6, OneRow, ImagesKept
     DEF Live, Used, Status, MarksGrow, ApiKept, ApiKeptAt, Idle

LEMMA ConvRegisterStep ==
    ASSUME IInv, NEW b \in Builds, ConvRegister(b)
    PROVE  IInv'
<1>1. BuildInv(b) /\ TypeOK /\ conv[b].pc = "converted"
  BY DEF IInv, ConvRegister
<1>2. Used(b)
  BY <1>1 DEF BuildInv, StageOf, Used
<1>3. /\ conv' \in [Builds -> [pc : ConvPc, left : 0..Retries]]
      /\ \A c \in Builds \ {b} : conv'[c] = conv[c]
      /\ conv'[b].pc = "registered"
      /\ image' = [image EXCEPT ![build[b].vmid] = [st |-> "active", of |-> b]]
  BY <1>1, ConvMoved DEF ConvRegister, Activated, ConvPc
<1>4. UNCHANGED <<build, download, pve, make, api, mishaps, marks>>
  BY DEF ConvRegister, tasks
<1>5. TypeOK'
  BY <1>1, <1>3, <1>4, <1>2, RowShape DEF TypeOK, Api, Idle, Image
<1>6. BuildInv(b)'
  BY <1>1, <1>2, <1>3, <1>4, AtRow DEF BuildInv, StageOf, RequestOf, GoneRaced, OrphanExcused,
     Foreign, OwnOrRaced, HadVm, RunsOrExcused, ConvertedAt, Used, Live, AnyBusy, Busy, Raced, Status, MarksGrow, Idle
<1>7. ImagesStand' /\ ListStands'
  BY <1>1, <1>2, <1>3, <1>4, RowShape DEF BuildInv, ConvertedAt, VmOf, IInv, ImagesStand,
     ListStands, Templates, TypeOK
<1> QED
  BY <1>1, <1>2, <1>3, <1>4, <1>5, <1>6, <1>7, OneRow
     DEF Live, Used, Status, MarksGrow, ApiKept, ApiKeptAt, Idle

LEMMA DownloadEndsStep ==
    ASSUME IInv, NEW b \in Builds, NEW how \in {"ok", "failed"}, DownloadEnds(b, how)
    PROVE  IInv'
<1>1. BuildInv(b) /\ TypeOK /\ download[b] = "busy"
  BY DEF IInv, DownloadEnds
<1>2. Used(b)
  BY <1>1 DEF BuildInv, StageOf, Used
<1>3. /\ download' \in [Builds -> {"none", "busy", "ok", "failed"}]
      /\ \A c \in Builds \ {b} : download'[c] = download[c]
  BY <1>1 DEF DownloadEnds, TypeOK
<1>4. UNCHANGED <<build, image, pve, make, conv, api, mishaps, marks>>
  BY DEF DownloadEnds, tasks
<1>5. TypeOK'
  BY <1>1, <1>3, <1>4 DEF TypeOK, Api, Idle
<1>6. BuildInv(b)'
  BY <1>1, <1>2, <1>3, <1>4, AtRow DEF BuildInv, StageOf, RequestOf, GoneRaced, OrphanExcused,
     Foreign, OwnOrRaced, HadVm, RunsOrExcused, ConvertedAt, Used, Live, AnyBusy, Busy, Raced, Status, MarksGrow, Idle
<1> QED
  BY <1>1, <1>2, <1>3, <1>4, <1>5, <1>6, OneRow, ImagesKept
     DEF Live, Used, Status, MarksGrow, ApiKept, ApiKeptAt, Idle

LEMMA WorkerCrashStep ==
    ASSUME IInv, NEW b \in Builds, WorkerCrash(b)
    PROVE  IInv'
<1>1. BuildInv(b) /\ TypeOK /\ AnyBusy(b)
  BY DEF IInv, WorkerCrash, AnyBusy, Busy
<1>2. Used(b)
  BY <1>1 DEF BuildInv, StageOf, Used, AnyBusy, Busy
<1>3. /\ make' \in [Builds -> [pc : MakePc, left : 0..Retries]]
      /\ conv' \in [Builds -> [pc : ConvPc, left : 0..Retries]]
      /\ \A c \in Builds \ {b} : make'[c] = make[c] /\ conv'[c] = conv[c]
      /\ \/ make[b].pc \in {"create", "disk", "made"} /\ make'[b].pc = "queued" /\ conv' = conv
         \/ conv[b].pc \in {"stop", "converted", "registered"} /\ conv'[b].pc = "queued" /\ make' = make
      /\ mishaps' \in 0..MaxMishaps
  <2>1. /\ To(make, b, "queued") \in [Builds -> [pc : MakePc, left : 0..Retries]]
        /\ To(make, b, "queued")[b].pc = "queued"
        /\ \A c \in Builds \ {b} : To(make, b, "queued")[c] = make[c]
    BY <1>1, TaskMoved DEF MakePc
  <2>2. /\ To(conv, b, "queued") \in [Builds -> [pc : ConvPc, left : 0..Retries]]
        /\ To(conv, b, "queued")[b].pc = "queued"
        /\ \A c \in Builds \ {b} : To(conv, b, "queued")[c] = conv[c]
    BY <1>1, ConvMoved DEF ConvPc
  <2> QED
    BY <1>1, <2>1, <2>2, Counted DEF WorkerCrash, TypeOK
<1>4. UNCHANGED <<build, download, image, pve, api, marks>>
  BY DEF WorkerCrash, tasks
<1>5. TypeOK'
  BY <1>1, <1>3, <1>4 DEF TypeOK, Api, Idle
<1>6. BuildInv(b)'
  BY <1>1, <1>2, <1>3, <1>4, AtRow DEF BuildInv, StageOf, RequestOf, GoneRaced, OrphanExcused,
     Foreign, OwnOrRaced, HadVm, RunsOrExcused, ConvertedAt, Used, Live, AnyBusy, Busy, Raced, Status, MarksGrow, Idle
<1> QED
  BY <1>1, <1>2, <1>3, <1>4, <1>5, <1>6, OneRow, ImagesKept
     DEF Live, Used, Status, MarksGrow, ApiKept, ApiKeptAt, Idle

-----------------------------------------------------------------------------
(* The steps of images.                                                    *)

\* Only the list of images, or nothing, is touched.
LEMMA NoRow ==
    ASSUME IInv, TypeOK', UNCHANGED <<build, download, pve, make, conv>>, MarksGrow, ApiKept({}),
           ListStands', ImagesStand'
    PROVE  IInv'
BY RowFrame

LEMMA SyncReadStep == IInv /\ SyncRead => IInv'
<1> SUFFICES ASSUME IInv, SyncRead PROVE IInv'
  OBVIOUS
<1>1. /\ api = Idle /\ api' = [op |-> "sync", list |-> Templates]
      /\ UNCHANGED <<build, download, image, pve, make, conv, mishaps, marks>>
  BY DEF SyncRead, tasks
<1>2. TypeOK'
  <2>1. Templates \in SUBSET Vmids
    BY DEF Templates
  <2> QED
    BY <1>1, <2>1 DEF IInv, TypeOK, Api
<1>3. ListStands' /\ MarksGrow /\ ApiKept({})
  BY <1>1 DEF ListStands, Templates, MarksGrow, ApiKept, ApiKeptAt, Idle
<1> QED
  BY <1>1, <1>2, <1>3, ImagesKept, NoRow

\* An image whose row a listing writes is that of the template it lists.
LEMMA SyncCommitStep == IInv /\ SyncCommit => IInv'
<1> SUFFICES ASSUME IInv, SyncCommit PROVE IInv'
  OBVIOUS
<1>1. /\ api.op = "sync" /\ api' = Idle
      /\ image' = [v \in Vmids |-> Synced(v)]
      /\ UNCHANGED <<build, download, pve, make, conv, mishaps, marks>>
  BY DEF SyncCommit, tasks
<1>2. TypeOK /\ api.list \subseteq Templates
  BY <1>1 DEF IInv, ListStands
<1>3. ASSUME NEW v \in Vmids
      PROVE  /\ Synced(v) \in Image
             /\ Synced(v).st = "active" =>
                   \/ Synced(v) = image[v]
                   \/ pve[v] = [kind |-> "template", of |-> Synced(v).of]
  <2>1. v \in api.list => pve[v] \in Guest /\ pve[v].kind = "template"
    BY <1>2 DEF TypeOK, Templates
  <2>2. NoImage.st = "none"
    BY DEF NoImage
  <2>3. CASE v \in api.list /\ image[v].st # "active"
    BY <2>1, <2>3 DEF Synced, Image, Guest
  <2>4. CASE v \notin api.list /\ image[v].st = "active" /\ api.list # {}
    <3>1. Synced(v) = [image[v] EXCEPT !.st = "deleted"]
      BY <2>4 DEF Synced
    <3>2. image[v] \in [st : {"active", "deleted"}, of : Builds]
      BY <1>2, <2>2, <2>4 DEF TypeOK, Image
    <3> QED
      BY <3>1, <3>2 DEF Image
  <2>5. CASE Synced(v) = image[v]
    BY <1>2, <2>5 DEF TypeOK
  <2> QED
    BY <2>3, <2>4, <2>5 DEF Synced
<1>4. TypeOK'
  BY <1>1, <1>2, <1>3 DEF TypeOK, Api
<1>5. ListStands' /\ MarksGrow /\ ApiKept({})
  BY <1>1 DEF ListStands, MarksGrow, ApiKept, ApiKeptAt, Idle
<1>6. ImagesStand'
  BY <1>1, <1>3 DEF ImagesStand, IInv
<1> QED
  BY <1>1, <1>4, <1>5, <1>6, NoRow

LEMMA RegisterImageStep ==
    ASSUME IInv, NEW v \in Vmids, RegisterImage(v)
    PROVE  IInv'
<1>1. /\ v \in Templates
      /\ image' = [image EXCEPT ![v] = [st |-> "active", of |-> pve[v].of]]
      /\ UNCHANGED <<build, download, pve, make, conv, api, mishaps, marks>>
  BY DEF RegisterImage, Activated, tasks
<1>2. pve[v] = [kind |-> "template", of |-> pve[v].of] /\ pve[v].of \in Builds
  BY <1>1 DEF IInv, TypeOK, Guest, Templates
<1>3. TypeOK'
  BY <1>1, <1>2 DEF IInv, TypeOK, Image
<1>4. ListStands' /\ MarksGrow /\ ApiKept({})
  BY <1>1 DEF IInv, ListStands, Templates, MarksGrow, ApiKept, ApiKeptAt
<1>5. ImagesStand'
  BY <1>1, <1>2 DEF ImagesStand, IInv, TypeOK
<1> QED
  BY <1>1, <1>3, <1>4, <1>5, NoRow

-----------------------------------------------------------------------------
(* The steps at a vmid.                                                    *)

\* What has a vmid is a guest of a build.
LEMMA GuestShape ==
    ASSUME TypeOK, NEW v \in Vmids, pve[v] # None
    PROVE  /\ pve[v] = [kind |-> pve[v].kind, of |-> pve[v].of]
           /\ pve[v].kind \in {"vm", "template"} /\ pve[v].of \in Builds
BY DEF TypeOK, Guest

LEMMA NoneIsNoGuest ==
    ASSUME NEW b \in Builds, NEW k \in {"vm", "template"}
    PROVE  [kind |-> k, of |-> b] # None
<1>1. [kind |-> k, of |-> b] \in [kind : {"vm", "template"}, of : Builds]
  OBVIOUS
<1> QED
  BY <1>1, ImagesAssumption

\* A build that meets a live one at its vmid, and whose task is due, has lost
\* a race.
LEMMA OthersRaced ==
    ASSUME IInv, NEW b \in Builds, NEW c \in Builds \ {b}, Live(c), Used(b), AnyBusy(b),
           build[b].vmid = build[c].vmid
    PROVE  Raced(b) /\ Raced(build[b].vmid)
<1>1. ~Live(b)
  BY DEF IInv, VmidsApart
<1>2. build[b].st = "gone"
  BY <1>1, RowShape DEF IInv
<1> QED
  BY <1>2 DEF IInv, BuildInv, GoneRaced

LEMMA MakeVmStep ==
    ASSUME IInv, NEW b \in Builds, MakeVm(b)
    PROVE  IInv'
<1> DEFINE v == build[b].vmid
<1>1. TypeOK /\ BuildInv(b) /\ make[b].pc = "create"
  BY DEF IInv, MakeVm
<1>2. Used(b) /\ v \in Vmids /\ AnyBusy(b)
  BY <1>1, RowShape DEF BuildInv, StageOf, Used, AnyBusy, Busy
<1>3. /\ pve[v] = None /\ pve' = [pve EXCEPT ![v] = [kind |-> "vm", of |-> b]]
      /\ UNCHANGED <<build, download, image, conv, api, mishaps, marks>>
  BY DEF MakeVm, CreateBuildVm
<1>4. /\ make' \in [Builds -> [pc : MakePc, left : 0..Retries]]
      /\ make'[b].pc \in {"disk", "made"}
      /\ \A c \in Builds \ {b} : make'[c] = make[c]
  BY <1>1, TaskMoved DEF MakeVm, MakePc
<1>5. /\ pve' \in [Vmids -> Guest \cup {None}]
      /\ pve'[v] = [kind |-> "vm", of |-> b]
      /\ \A w \in Vmids \ {v} : pve'[w] = pve[w]
  BY <1>1, <1>2, <1>3 DEF TypeOK, Guest
<1>6. TypeOK'
  BY <1>1, <1>3, <1>4, <1>5 DEF TypeOK
<1>7. ASSUME NEW c \in Builds \ {b}, Used(c), build[c].vmid = v
      PROVE  BuildInv(c)'
  <2>1. BuildInv(c) /\ VmOf(c) = None /\ ~OwnVm(c) /\ VmOf(c) # [kind |-> "template", of |-> c]
    BY <1>3, <1>7, NoneIsNoGuest DEF IInv, VmOf, OwnVm
  <2>2. VmOf(c)' = [kind |-> "vm", of |-> b] /\ ~OwnVm(c)'
    BY <1>3, <1>5, <1>7 DEF VmOf, OwnVm
  <2>3. Live(c) => Raced(b) /\ Raced(v)
    BY <1>2, <1>7, OthersRaced
  <2> QED
    BY <1>3, <1>4, <1>7, <2>1, <2>2, <2>3
       DEF BuildInv, StageOf, RequestOf, GoneRaced, OrphanExcused,
       Foreign, OwnOrRaced, HadVm, RunsOrExcused, ConvertedAt, Used, Live, AnyBusy, Busy, Raced
<1>8. BuildInv(b)'
  <2>1. VmOf(b)' = [kind |-> "vm", of |-> b]
    BY <1>3, <1>5 DEF VmOf
  <2> QED
    BY <1>1, <1>2, <1>3, <1>4, <2>1 DEF BuildInv, StageOf, RequestOf, GoneRaced, OrphanExcused,
       Foreign,
       OwnOrRaced, HadVm, RunsOrExcused, ConvertedAt, Used, Live, Status, AnyBusy, Busy, Raced, OwnVm
<1>9. ListStands'
  <2>1. Templates \subseteq Templates'
    BY <1>2, <1>3, <1>5, NoneIsNoGuest DEF Templates
  <2> QED
    BY <1>3, <2>1 DEF IInv, ListStands
<1>10. ImagesStand'
  <2>1. \A x \in Builds : pve[v] # [kind |-> "template", of |-> x]
    BY <1>3, NoneIsNoGuest
  <2>2. \A w \in Vmids : image[w].st = "active" => image[w].of \in Builds
    BY <1>1 DEF TypeOK, Image, NoImage
  <2> QED
    BY <1>3, <1>5, <2>1, <2>2 DEF IInv, ImagesStand
<1> QED
  <2> HIDE DEF v
  <2> QED
    BY <1>2, <1>3, <1>4, <1>5, <1>6, <1>7, <1>8, <1>9, <1>10, VmFrame
       DEF MarksGrow, ApiKeptAt, v

LEMMA ConvTemplateStep ==
    ASSUME IInv, NEW b \in Builds, ConvTemplate(b)
    PROVE  IInv'
<1> DEFINE v == build[b].vmid
           d == pve[v].of
<1>1. TypeOK /\ BuildInv(b) /\ conv[b].pc = "stop"
  BY DEF IInv, ConvTemplate
<1>2. Used(b) /\ v \in Vmids /\ AnyBusy(b)
  BY <1>1, RowShape DEF BuildInv, StageOf, Used, AnyBusy, Busy
<1>3. /\ pve[v] # None /\ pve[v].kind = "vm"
      /\ pve' = [pve EXCEPT ![v].kind = "template"]
      /\ UNCHANGED <<build, download, image, make, api, mishaps, marks>>
  BY <1>1, <1>2, GuestShape DEF ConvTemplate, ConvertToTemplate, Templates
<1>4. /\ conv' \in [Builds -> [pc : ConvPc, left : 0..Retries]]
      /\ conv'[b].pc = "converted"
      /\ \A c \in Builds \ {b} : conv'[c] = conv[c]
  BY <1>1, ConvMoved DEF ConvTemplate, ConvPc
<1>5. /\ d \in Builds /\ pve[v] = [kind |-> "vm", of |-> d]
      /\ pve' \in [Vmids -> Guest \cup {None}]
      /\ pve'[v] = [kind |-> "template", of |-> d]
      /\ \A w \in Vmids \ {v} : pve'[w] = pve[w]
  BY <1>1, <1>2, <1>3, GuestShape DEF TypeOK, Guest
<1>6. TypeOK'
  BY <1>1, <1>3, <1>4, <1>5 DEF TypeOK
<1> HIDE DEF d
<1>7. ASSUME NEW c \in Builds \ {b}, Used(c), build[c].vmid = v
      PROVE  BuildInv(c)'
  <2>1. BuildInv(c) /\ VmOf(c) # None /\ VmOf(c).of = d /\ VmOf(c) # [kind |-> "template", of |-> c]
    BY <1>3, <1>5, <1>7 DEF IInv, VmOf
  <2>2. VmOf(c)' = [kind |-> "template", of |-> d] /\ ~OwnVm(c)'
    BY <1>3, <1>5, <1>7 DEF VmOf, OwnVm
  <2>3. Live(c) => Raced(b) /\ Raced(v)
    BY <1>2, <1>7, OthersRaced
  <2>4. build[c].st = "running" => Live(c)
    BY DEF Live, Status
  <2> QED
    BY <1>3, <1>4, <1>7, <2>1, <2>2, <2>3, <2>4 DEF BuildInv, StageOf, RequestOf, GoneRaced,
       OrphanExcused, Foreign, OwnOrRaced, HadVm, RunsOrExcused, ConvertedAt, Used, Live, AnyBusy, Busy, Raced
<1>8. BuildInv(b)'
  <2>1. VmOf(b) # None /\ VmOf(b).of = d
    BY <1>3 DEF VmOf, d
  <2>2. VmOf(b)' = [kind |-> "template", of |-> d] /\ ~OwnVm(b)'
    BY <1>3, <1>5 DEF VmOf, OwnVm
  <2>3. make[b].pc = "done" /\ build[b].st # "running"
    BY <1>1 DEF BuildInv, StageOf
  <2>4. d = b \/ Raced(v)
    BY <1>1, <1>2, <2>1, RowShape DEF BuildInv, OwnOrRaced, GoneRaced, HadVm, Busy
  <2> QED
    BY <1>1, <1>2, <1>3, <1>4, <2>1, <2>2, <2>3, <2>4 DEF BuildInv, StageOf, RequestOf, GoneRaced,
       OrphanExcused, Foreign, OwnOrRaced, HadVm, RunsOrExcused, ConvertedAt, Used, Live, AnyBusy, Busy, Raced
<1>9. ListStands'
  <2>1. Templates \subseteq Templates'
    BY <1>2, <1>3, <1>5, NoneIsNoGuest DEF Templates
  <2> QED
    BY <1>3, <2>1 DEF IInv, ListStands
<1>10. ImagesStand'
  BY <1>3, <1>5 DEF IInv, ImagesStand
<1>11. pve'[v] # None => Used(d) /\ build[d].vmid = v /\ make[d].pc # "none"
  BY <1>2, <1>3 DEF IInv, VmsMade, d
<1> QED
  <2> HIDE DEF v
  <2> QED
    BY <1>2, <1>3, <1>4, <1>5, <1>6, <1>7, <1>8, <1>9, <1>10, <1>11, VmFrame
       DEF MarksGrow, ApiKeptAt, v

LEMMA CancelVmStep ==
    ASSUME IInv, NEW b \in Builds, NEW fails \in BOOLEAN, CancelVm(b, fails)
    PROVE  IInv'
<1> DEFINE v == build[b].vmid
<1>1. TypeOK /\ BuildInv(b) /\ api = Idle /\ Live(b)
  BY DEF IInv, CancelVm
<1>2. Used(b) /\ v \in Vmids
  BY <1>1, RowShape
<1>3. /\ IF fails THEN pve' = pve ELSE pve' = [pve EXCEPT ![v] = None]
      /\ api' = [op |-> "cancel", b |-> b]
      /\ mishaps' \in 0..MaxMishaps
      /\ UNCHANGED <<build, download, image, make, conv>>
  BY <1>1, Counted DEF CancelVm, Destroyed, tasks
<1>4. /\ marks' \in [Builds \cup Vmids -> SUBSET Marks] /\ MarksGrow
      /\ AnyBusy(b) => Raced(b)' /\ "raced" \in marks'[v]
      /\ fails => "call" \in marks'[b]
      /\ ~fails /\ v \in Templates => "late" \in marks'[v]
  BY <1>1, <1>2 DEF CancelVm, TypeOK, Marks, MarksGrow, AnyBusy, Raced
<1>5. TypeOK'
  BY <1>1, <1>3, <1>4 DEF TypeOK, Api
<1>6. \A c \in Builds \ {b} : ApiKeptAt(c)
  BY <1>1, <1>3 DEF ApiKeptAt, Idle
<1>7. ListStands'
  BY <1>3 DEF ListStands
<1>8. ~fails => VmOf(b)' = None /\ ~OwnVm(b)'
  BY <1>1, <1>2, <1>3, NoneIsNoGuest DEF VmOf, OwnVm, TypeOK
<1>9. fails => VmOf(b)' = VmOf(b) /\ (OwnVm(b)' <=> OwnVm(b))
  BY <1>3 DEF VmOf, OwnVm
<1>10. BuildInv(b)'
  <2>1. marks[b] \subseteq marks'[b] /\ marks[v] \subseteq marks'[v]
    BY <1>2, <1>4 DEF MarksGrow
  <2>2. VmOf(b) # None => VmOf(b).of \in Builds /\ marks[VmOf(b).of] \subseteq marks'[VmOf(b).of]
    BY <1>1, <1>2, <1>4, GuestShape DEF VmOf, MarksGrow
  <2> QED
    BY <1>1, <1>2, <1>3, <1>4, <1>8, <1>9, <2>1, <2>2 DEF BuildInv, StageOf, RequestOf, GoneRaced,
       OrphanExcused, Foreign, OwnOrRaced, HadVm, RunsOrExcused, ConvertedAt, Used, Live, Status,
       AnyBusy, Busy, Raced
<1>11. CASE fails
  <2>1. ImagesStand'
    BY <1>3, <1>4, <1>5, <1>11, ImagesKept
  <2> QED
    BY <1>1, <1>2, <1>3, <1>4, <1>5, <1>6, <1>7, <1>10, <1>11, <2>1, OneRow DEF ApiKept, Live, Used
<1>12. CASE ~fails
  <2>1. pve'[v] = None /\ \A w \in Vmids \ {v} : pve'[w] = pve[w]
    BY <1>1, <1>2, <1>3, <1>12 DEF TypeOK
  <2>2. ASSUME NEW c \in Builds \ {b}, Used(c), build[c].vmid = v
        PROVE  BuildInv(c)'
    <3>1. BuildInv(c) /\ ~Live(c) /\ build[c].st = "gone"
      BY <1>1, <2>2, RowShape DEF IInv, VmidsApart
    <3>2. VmOf(c)' = None /\ ~OwnVm(c)'
      BY <1>3, <2>1, <2>2, NoneIsNoGuest DEF VmOf, OwnVm
    <3>3. marks[c] \subseteq marks'[c] /\ marks[v] \subseteq marks'[v]
      BY <1>2, <1>4 DEF MarksGrow
    <3> QED
      BY <1>1, <1>3, <2>2, <3>1, <3>2, <3>3 DEF BuildInv, StageOf, RequestOf, GoneRaced,
         OrphanExcused, Foreign, OwnOrRaced, HadVm, RunsOrExcused, ConvertedAt, Used, Live, Status,
         AnyBusy, Busy, Raced
  <2>3. ImagesStand'
    <3> SUFFICES ASSUME NEW w \in Vmids, image[w].st = "active"
                 PROVE  \/ pve'[w] = [kind |-> "template", of |-> image[w].of]
                        \/ marks'[w] \cap {"late", "early", "raced"} # {}
      BY <1>3 DEF ImagesStand
    <3>1. marks[w] \subseteq marks'[w]
      BY <1>4 DEF MarksGrow
    <3>2. image[w].of \in Builds
      BY <1>1 DEF TypeOK, Image, NoImage
    <3>3. CASE w = v /\ pve[w] = [kind |-> "template", of |-> image[w].of]
      BY <1>4, <1>12, <3>2, <3>3, NoneIsNoGuest DEF Templates
    <3> QED
      BY <2>1, <3>1, <3>3 DEF IInv, ImagesStand
  <2> QED
    <3> HIDE DEF v
    <3> QED
      BY <1>2, <1>3, <1>4, <1>5, <1>6, <1>7, <1>10, <2>1, <2>2, <2>3, VmFrame DEF v
<1> QED
  BY <1>11, <1>12

LEMMA DeleteImageStep ==
    ASSUME IInv, NEW v \in Vmids, DeleteImage(v)
    PROVE  IInv'
<1>1. /\ TypeOK /\ image[v].st # "none"
      /\ image' = [image EXCEPT ![v].st = "deleted"]
      /\ UNCHANGED <<build, download, make, conv, api>>
  BY DEF IInv, DeleteImage, tasks
<1>2. image[v] \in [st : {"active", "deleted"}, of : Builds]
  BY <1>1 DEF TypeOK, Image, NoImage
<1>3. /\ image' \in [Vmids -> Image]
      /\ \A w \in Vmids : image'[w].st = "active" => w # v /\ image'[w] = image[w]
  BY <1>1, <1>2 DEF TypeOK, Image
<1>4. CASE UNCHANGED <<pve, marks>> /\ Mishap
  <2>1. TypeOK'
    BY <1>1, <1>3, <1>4, Counted DEF TypeOK
  <2>2. ListStands' /\ ImagesStand' /\ MarksGrow /\ ApiKept({})
    BY <1>1, <1>3, <1>4 DEF IInv, ListStands, Templates, ImagesStand, MarksGrow, ApiKept, ApiKeptAt
  <2> QED
    BY <1>1, <1>4, <2>1, <2>2, NoRow
<1>5. CASE pve' = [pve EXCEPT ![v] = None] /\ ~(UNCHANGED <<pve, marks>> /\ Mishap)
  <2>1. /\ api = Idle /\ UNCHANGED mishaps
        /\ marks' = [x \in DOMAIN marks |-> marks[x] \cup
               (IF x = v /\ image[v].st = "deleted" THEN {"twice"} ELSE {}) \cup
               (IF x = v /\ (\E b \in Builds : build[b].vmid = v /\ Busy(conv, b))
                THEN {"early"} ELSE {})]
    BY <1>5 DEF DeleteImage
  <2>2. /\ marks' \in [Builds \cup Vmids -> SUBSET Marks] /\ MarksGrow
        /\ image[v].st = "deleted" => "twice" \in marks'[v]
        /\ \A b \in Builds : build[b].vmid = v /\ Busy(conv, b) => "early" \in marks'[v]
    BY <1>1, <2>1 DEF TypeOK, Marks, MarksGrow
  <2>3. /\ pve' \in [Vmids -> Guest \cup {None}]
        /\ pve'[v] = None /\ \A w \in Vmids \ {v} : pve'[w] = pve[w]
    BY <1>1, <1>5 DEF TypeOK
  <2>4. TypeOK'
    BY <1>1, <1>3, <2>1, <2>2, <2>3 DEF TypeOK
  <2>5. ASSUME NEW c \in Builds, Used(c), build[c].vmid = v
        PROVE  BuildInv(c)'
    <3>1. BuildInv(c) /\ VmOf(c)' = None /\ ~OwnVm(c)'
      BY <1>1, <2>3, <2>5, NoneIsNoGuest DEF IInv, VmOf, OwnVm
    <3>2. marks[c] \subseteq marks'[c] /\ marks[v] \subseteq marks'[v]
      BY <2>2 DEF MarksGrow
    <3>3. OwnVm(c) => marks'[v] \cap {"twice", "late", "early", "raced"} # {}
      <4>1. OwnVm(c) => pve[v] # [kind |-> "template", of |-> image[v].of]
        BY <2>5 DEF OwnVm, VmOf
      <4> QED
        BY <1>2, <2>2, <3>2, <4>1 DEF IInv, ImagesStand
    <3>4. Busy(conv, c) => "early" \in marks'[v]
      BY <2>2, <2>5
    <3>5. RunsOrExcused(c)'
      BY <1>1, <2>1, <2>5, <3>1, <3>2, <3>3 DEF BuildInv, RunsOrExcused, Live
    <3> QED
      BY <1>1, <2>1, <2>5, <3>1, <3>2, <3>4, <3>5 DEF BuildInv, StageOf, RequestOf, GoneRaced,
         OrphanExcused, Foreign, OwnOrRaced, HadVm, ConvertedAt, Used, Live, AnyBusy, Busy, Raced, Idle
  <2>6. ListStands'
    BY <1>1, <2>1 DEF ListStands, Idle
  <2>7. ImagesStand'
    BY <1>1, <1>3, <2>2, <2>3 DEF IInv, ImagesStand, MarksGrow
  <2> QED
    BY <1>1, <2>2, <2>3, <2>4, <2>5, <2>6, <2>7, VmFrame DEF ApiKeptAt
<1> QED
  BY <1>4, <1>5 DEF DeleteImage, Destroyed

LEMMA ApiCrashStep == IInv /\ ApiCrash => IInv'
<1> SUFFICES ASSUME IInv, ApiCrash PROVE IInv'
  OBVIOUS
<1>1. /\ TypeOK /\ api # Idle /\ api' = Idle /\ mishaps' \in 0..MaxMishaps
      /\ UNCHANGED <<build, download, image, pve, make, conv>>
  BY Counted DEF IInv, ApiCrash, tasks
<1>2. ListStands'
  BY <1>1 DEF ListStands, Idle
<1>3. CASE api.op = "sync"
  <2>1. marks' = marks
    BY <1>3 DEF ApiCrash
  <2>2. TypeOK' /\ MarksGrow
    BY <1>1, <2>1 DEF TypeOK, Api, MarksGrow
  <2>3. ApiKept({})
    BY <1>1, <1>3 DEF ApiKept, ApiKeptAt, Idle
  <2> QED
    BY <1>1, <1>2, <2>2, <2>3, NoRow, ImagesKept
<1>4. CASE api.op # "sync"
  <2>1. /\ api \in [op : {"send", "sent", "convert", "cancel"}, b : Builds]
    BY <1>1, <1>4 DEF TypeOK, Api
  <2>2. PICK b \in Builds : b = api.b
    BY <2>1
  <2>3. \A c \in Builds \ {b} : \A o \in {"send", "sent", "convert", "cancel"} : api # [op |-> o, b |-> c]
    BY <2>2
  <2>4. /\ marks' \in [Builds \cup Vmids -> SUBSET Marks] /\ MarksGrow
        /\ "cut" \in marks'[b]
    BY <1>1, <1>4, <2>2, Marked DEF ApiCrash, Marks
  <2>5. TypeOK' /\ ApiKept({b})
    BY <1>1, <2>3, <2>4 DEF TypeOK, Api, ApiKept, ApiKeptAt, Idle
  <2>6. Used(b) /\ BuildInv(b)
    BY <2>1, <2>2 DEF IInv, BuildInv, RequestOf, Used, Live, Status
  <2>7. BuildInv(b)'
    BY <1>1, <2>4, <2>6, AtRow DEF BuildInv, StageOf, RequestOf, GoneRaced, OrphanExcused, Foreign,
       OwnOrRaced, HadVm, RunsOrExcused, ConvertedAt, Used, Live, AnyBusy, Busy, Raced, Idle
  <2> QED
    BY <1>1, <1>2, <2>4, <2>5, <2>6, <2>7, OneRow, ImagesKept DEF Live, Used
<1> QED
  BY <1>3, <1>4

\* A non-empty set of numbers has a least one: the order of the intervals
\* 0..d by inclusion is well-founded.
LEMMA LowestIsOne ==
    ASSUME NEW D, D \subseteq Nat, D # {}
    PROVE  Lowest(D) \in D
<1> DEFINE T == {0..d : d \in D}
<1>1. T \subseteq FiniteSubsetsOf(Nat) /\ T # {}
  <2>1. ASSUME NEW d \in D PROVE IsFiniteSet(0..d) /\ 0..d \subseteq Nat
    BY FS_Interval
  <2> QED
    BY <2>1 DEF FiniteSubsetsOf
<1>2. PICK x \in T : \A y \in T : ~(<<y, x>> \in StrictSubsetOrdering(Nat))
  <2> HIDE DEF T
  <2> QED
    BY <1>1, FS_StrictSubsetOrderingWellFounded, WFMin
<1>3. PICK d \in D : x = 0..d
  BY <1>2
<1>4. ASSUME NEW e \in D, e < d PROVE FALSE
  <2>1. 0..e \in T /\ 0..e \subseteq 0..d /\ 0..e # 0..d
    BY <1>3, <1>4
  <2>2. <<0..e, 0..d>> \in StrictSubsetOrdering(Nat)
    BY <2>1, 0..e \in SUBSET Nat, 0..d \in SUBSET Nat DEF StrictSubsetOrdering
  <2> QED
    BY <1>2, <1>3, <2>1, <2>2
<1>5. \A e \in D : d <= e
  BY <1>4
<1> QED
  BY <1>5 DEF Lowest

LEMMA StartBuildStep ==
    ASSUME IInv, NEW b \in Builds, NEW only \in BOOLEAN, NEW there \in BOOLEAN, NEW fails \in BOOLEAN,
           StartBuild(b, only, there, fails)
    PROVE  IInv'
<1> DEFINE free == FreeVmids(ListAllVms(fails))
           v == Lowest(free)
           st == IF there THEN "ready" ELSE "downloading_iso"
<1>1. TypeOK /\ BuildInv(b) /\ api = Idle /\ build[b].st = "unused" /\ free # {}
  BY DEF IInv, StartBuild
<1>2. v \in free /\ v \in Vmids
  <2>1. free \subseteq Vmids /\ Vmids \subseteq Nat
    BY ImagesAssumption DEF FreeVmids
  <2> QED
    <3> HIDE DEF free
    <3> QED
      BY <1>1, <2>1, LowestIsOne
<1>3. /\ \A c \in Builds : Live(c) => build[c].vmid # v
      /\ ~fails => pve[v] = None
  BY <1>2 DEF FreeVmids, ListAllVms
<1> HIDE DEF v, free
<1>4. /\ build' = [build EXCEPT ![b] = [st |-> st, vmid |-> v, only |-> only]]
      /\ download' = [download EXCEPT ![b] = IF there THEN "none" ELSE "busy"]
      /\ api' = IF there /\ ~only THEN [op |-> "send", b |-> b] ELSE Idle
      /\ MarkIf(fails, v, "blind") /\ mishaps' \in 0..MaxMishaps
      /\ UNCHANGED <<image, pve, make, conv>>
  BY <1>1, Counted DEF StartBuild, v, free, tasks
<1>5. /\ build' \in [Builds -> Build] /\ build'[b] = [st |-> st, vmid |-> v, only |-> only]
      /\ \A c \in Builds \ {b} : build'[c] = build[c]
  BY <1>1, <1>2, <1>4 DEF TypeOK, Build, Status
<1>6. /\ marks' \in [Builds \cup Vmids -> SUBSET Marks] /\ MarksGrow
      /\ fails => "blind" \in marks'[v]
  BY <1>1, <1>2, <1>4, Marked DEF Marks
<1>7. TypeOK'
  BY <1>1, <1>4, <1>5, <1>6 DEF TypeOK, Api, Idle
<1>8. make[b].pc = "none" /\ conv[b].pc = "none"
  BY <1>1 DEF BuildInv, StageOf
<1>9. \A w \in Vmids : pve[w] # None => pve[w].of \in Builds /\ pve[w].of # b
  BY <1>1, GuestShape DEF IInv, VmsMade, Used
<1>10. ASSUME NEW c \in Builds PROVE BuildInv(c)'
  <2>1. CASE c # b
    <3>1. download'[c] = download[c] /\ ApiKeptAt(c)
      BY <1>1, <1>4, <2>1 DEF TypeOK, ApiKeptAt, Idle
    <3> QED
      BY <1>4, <1>5, <1>6, <2>1, <3>1, BuildKept
  <2>2. CASE c = b
    <3>1. VmOf(b)' = pve[v] /\ ~OwnVm(b)'
      BY <1>2, <1>4, <1>5, <1>9, NoneIsNoGuest DEF VmOf, OwnVm
    <3>2. Foreign(b)'
      BY <1>3, <1>5, <1>6, <3>1 DEF Foreign
    <3> QED
      BY <1>4, <1>5, <1>8, <2>2, <3>1, <3>2
         DEF BuildInv, StageOf, RequestOf, GoneRaced, OrphanExcused,
         OwnOrRaced, HadVm, RunsOrExcused, ConvertedAt, Used, Live, Status, AnyBusy, Busy, Idle
  <2> QED
    BY <2>1, <2>2
<1>11. VmidsApart'
  BY <1>3, <1>5 DEF IInv, VmidsApart, Live
<1>12. VmsMade'
  <2> SUFFICES ASSUME NEW w \in Vmids, pve[w] # None, NEW d \in Builds \ {b}, d = pve[w].of
               PROVE  Used(d)' /\ build'[d].vmid = w /\ make[d].pc # "none"
    BY <1>4, <1>9 DEF VmsMade, Used
  <2> QED
    BY <1>5 DEF IInv, VmsMade, Used
<1>13. ListStands' /\ ImagesStand'
  BY <1>4, <1>6, <1>7, ImagesKept DEF Idle
<1> QED
  BY <1>7, <1>10, <1>11, <1>12, <1>13 DEF IInv

-----------------------------------------------------------------------------
(* The theorems.                                                           *)

LEMMA Initial == Init => IInv
<1> SUFFICES ASSUME Init PROVE IInv
  OBVIOUS
<1>1. TypeOK
  BY ImagesAssumption DEF Init, TypeOK, Build, Image, Guest, MakePc, ConvPc, Api
<1>2. ASSUME NEW b \in Builds PROVE BuildInv(b)
  BY DEF Init, Unused, BuildInv, StageOf, RequestOf, GoneRaced, OrphanExcused, Foreign, OwnOrRaced, HadVm, RunsOrExcused, ConvertedAt, Used, Live, Status, AnyBusy, Busy, Idle
<1>3. VmidsApart /\ VmsMade /\ ListStands /\ ImagesStand
  BY DEF Init, Unused, NoImage, VmidsApart, VmsMade, ListStands, ImagesStand, Live, Status, Idle
<1> QED
  BY <1>1, <1>2, <1>3 DEF IInv

LEMMA Inductive == IInv /\ [Next]_vars => IInv'
<1> SUFFICES ASSUME IInv, [Next]_vars PROVE IInv'
  OBVIOUS
<1>1. CASE UNCHANGED vars
  <2>1. UNCHANGED <<build, download, image, pve, make, conv, api, mishaps, marks>>
    BY <1>1 DEF vars, tasks
  <2>2. TypeOK' /\ MarksGrow /\ ApiKept({})
    BY <2>1 DEF IInv, TypeOK, MarksGrow, ApiKept, ApiKeptAt
  <2> QED
    BY <2>1, <2>2, NoRow, ImagesKept
<1>2. ASSUME NEW b \in Builds, BuildRequest(b) PROVE IInv'
  BY <1>2, StartBuildStep, PollDownloadStep, DeleteDownloadedStep, ConvertStep, CancelVmStep
     DEF BuildRequest
<1>3. ASSUME NEW b \in Builds, MakeStep(b) PROVE IInv'
  BY <1>3, MakeStartStep, MakeVmStep, MakeDiskStep, MakeFinishStep, MakeFailStep, MakeLostStep
     DEF MakeStep
<1>4. ASSUME NEW b \in Builds, ConvStep(b) PROVE IInv'
  BY <1>4, ConvStartStep, ConvTemplateStep, ConvRegisterStep, ConvFinishStep, ConvFailStep
     DEF ConvStep
<1>5. ASSUME NEW b \in Builds, WorkerCrash(b) PROVE IInv'
  BY <1>5, WorkerCrashStep
<1>6. ASSUME NEW b \in Builds, NEW how \in {"ok", "failed"}, DownloadEnds(b, how) PROVE IInv'
  BY <1>6, DownloadEndsStep
<1>7. CASE ImageRequest
  BY <1>7, SyncReadStep, RegisterImageStep, DeleteImageStep DEF ImageRequest
<1>8. CASE ApiStep
  BY <1>8, SendMakeStep, SentMakeStep, SendConvertStep, CancelRowStep, SyncCommitStep DEF ApiStep
<1>9. CASE ApiCrash
  BY <1>9, ApiCrashStep
<1> QED
  BY <1>1, <1>2, <1>3, <1>4, <1>5, <1>6, <1>7, <1>8, <1>9 DEF Next

LEMMA Invariance == Spec => []IInv
BY Initial, Inductive, PTL DEF Spec

\* Every reachable state is well typed: no task, request or VM names a build
\* without a row.
THEOREM TypeCorrect == Spec => []TypeOK
<1>1. IInv => TypeOK
  BY DEF IInv
<1> QED
  BY <1>1, Invariance, PTL

\* A VM stays behind without its build only if that was cancelled while its
\* task was due, or Proxmox did not destroy it (api/images.py:943).
THEOREM NoOrphanVmCorrect == Spec => []NoOrphanVm
<1>1. IInv => NoOrphanVm
  <2> SUFFICES ASSUME IInv, NEW v \in Vmids, pve[v] # None, v \notin Templates, NEW b \in Builds,
                      b = pve[v].of
               PROVE  (Live(b) /\ build[b].vmid = v) \/ marks[b] \cap {"raced", "call"} # {}
    BY GuestShape DEF IInv, NoOrphanVm
  <2>1. pve[v] = [kind |-> "vm", of |-> b]
    BY GuestShape DEF IInv, Templates
  <2>2. Used(b) /\ build[b].vmid = v
    BY DEF IInv, VmsMade
  <2>3. build[b].st = "gone" => marks[b] \cap {"raced", "call"} # {}
    BY <2>1, <2>2 DEF IInv, BuildInv, OrphanExcused, OwnVm, VmOf
  <2> QED
    BY <2>2, <2>3, RowShape DEF IInv
<1> QED
  BY <1>1, Invariance, PTL

\* Builds that run have their VM and active images their template, but for the
\* disturbances the property names (api/images.py:1495).
THEOREM RowsHaveVmsCorrect == Spec => []RowsHaveVms
<1>1. IInv => RowsHaveVms
  <2> SUFFICES ASSUME IInv PROVE RowsHaveVms
    OBVIOUS
  <2>1. ASSUME NEW b \in Builds, build[b].st = "running"
        PROVE  \/ pve[build[b].vmid] = [kind |-> "vm", of |-> b]
               \/ api = [op |-> "cancel", b |-> b]
               \/ "cut" \in marks[b]
               \/ marks[build[b].vmid] \cap {"twice", "late", "early", "raced"} # {}
    BY <2>1 DEF IInv, BuildInv, RunsOrExcused, OwnVm, VmOf
  <2>2. ASSUME NEW v \in Vmids, image[v].st = "active"
        PROVE  \/ v \in Templates /\ pve[v].of = image[v].of
               \/ marks[v] \cap {"late", "early", "raced"} # {}
    <3>1. image[v].of \in Builds
      BY <2>2 DEF IInv, TypeOK, Image, NoImage
    <3>2. CASE pve[v] = [kind |-> "template", of |-> image[v].of]
      BY <3>1, <3>2, NoneIsNoGuest DEF Templates
    <3> QED
      BY <2>2, <3>2 DEF IInv, ImagesStand
  <2> QED
    BY <2>1, <2>2 DEF RowsHaveVms
<1> QED
  BY <1>1, Invariance, PTL

\* Cancelling a build destroys its own VM or template, one at a vmid that was
\* chosen blindly, or one whose build lost a race.
LEMMA CancelSpares ==
    ASSUME IInv, NEW b \in Builds, CancelVm(b, FALSE)
    PROVE  LET v == build[b].vmid
           IN  \/ pve' = pve
               \/ pve[v].of = b
               \/ "blind" \in marks[v]
               \/ "raced" \in marks[pve[v].of]
<1>1. Live(b) /\ pve' = [pve EXCEPT ![build[b].vmid] = None]
  BY DEF CancelVm, Destroyed
<1>2. VmOf(b) = None => pve' = pve
  BY <1>1 DEF IInv, TypeOK, VmOf
<1> QED
  BY <1>1, <1>2 DEF IInv, BuildInv, Foreign, VmOf, Raced

THEOREM CancelSparesOthersCorrect == Spec => CancelSparesOthers
<1>1. IInv /\ [Next]_vars =>
        [\A b \in Builds : CancelVm(b, FALSE) =>
          LET v == build[b].vmid
          IN  \/ pve' = pve
              \/ pve[v].of = b
              \/ "blind" \in marks[v]
              \/ "raced" \in marks[pve[v].of]]_vars
  BY CancelSpares
<1> QED
  BY <1>1, Invariance, PTL DEF Spec, CancelSparesOthers
=============================================================================
