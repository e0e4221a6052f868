-------------------------------- MODULE Vlans --------------------------------
(***************************************************************************)
(* What create_opnsense_vlan does inside the OPNsense VM, step by step     *)
(* (workers/tasks/vlan.py, workers/modules/opnsense_config_invm.py), in    *)
(* place of the one step TaskConfigure of module Networks.                 *)
(*                                                                         *)
(* The task reads the VLAN devices and the interfaces of config.xml, picks *)
(* names no one has, and writes.  Each write takes a lock inside the VM    *)
(* and is verified; the reads take none, and the lock is not held from     *)
(* read to write.  Kea's list of interfaces is read and written back whole.*)
(*                                                                         *)
(* Every task works on the default OPNsense VM; the tenant's API key is    *)
(* accepted there if that is its own VM, and refused without an error      *)
(* otherwise.  No task removes a VLAN: nothing sends remove_opnsense_vlan. *)
(*                                                                         *)
(* Left out: what reload_config does to interfaces that run, and the DHCP  *)
(* subnets, which are added once more by every task.                       *)
(***************************************************************************)
EXTENDS Networks, Sequences

VARIABLES
    device,     \* <vlans>: the number of the device of each tag, 0 for none
    opts,       \* <interfaces>: opt1, opt2, ..., with their device and address
    running,    \* the interfaces that run, pairs of a device and a tag
    kea,        \* the interfaces Kea serves, by number
    work,       \* what each task has read and chosen
    overlap,    \* history: tags on which a task worked beside another one, or
                \* for a network that was deleted
    cut,        \* history: tags of which a task left its work half done
    lost        \* history: numbers of the devices a tag had until a task gave
                \* it another one

configVars == <<device, opts, running, kea>>
vlanVars == <<device, opts, running, kea, work, overlap, cut, lost>>

NoWork == [pc |-> "idle", device |-> 0, opt |-> 0, kea |-> {}]

VlanInit ==
    /\ Init
    /\ device = [v \in VlanTags |-> 0]
    /\ opts = <<>>
    /\ running = {}
    /\ kea = {}
    /\ work = [n \in NetIds |-> NoWork]
    /\ overlap = {} /\ cut = {} /\ lost = {}

Working(n) == work[n].pc # "idle"
Reset(n) == work' = [work EXCEPT ![n] = NoWork]

-----------------------------------------------------------------------------
\* Mutant: the pattern matches no name.
NextDeviceUnmatched == 1

\* One more than the largest number there is.
Devices == {device[v] : v \in VlanTags}
NextDevice == 1 + CHOOSE d \in Devices : \A e \in Devices : e <= d
Opts == DOMAIN opts
NextOpt == Len(opts) + 1

\* The interfaces of a device; the first of them is the one that is used.
OptsOf(d) == {o \in Opts : opts[o].device = d}

\* The listing of the VLANs: a tag that is there keeps its device.
ReadDevices(n) ==
    LET v == nets[n].vlan
        others == {m \in NetIds \ {n} : Working(m)}
    IN  /\ task[n] = "marked" /\ ~Working(n)
        /\ work' = [work EXCEPT ![n] =
               IF device[v] # 0 THEN [NoWork EXCEPT !.pc = "known", !.device = device[v]]
                                ELSE [NoWork EXCEPT !.pc = "fresh", !.device = NextDevice]]
        /\ overlap' = overlap \cup (IF Live(n) THEN {} ELSE {v})
                              \cup (IF others = {} THEN {}
                                    ELSE {nets[m].vlan : m \in others \cup {n}})
        /\ UNCHANGED <<vars, configVars, cut, lost>>

\* The listing of the interfaces, by a call of its own.
ReadNames(n) ==
    /\ work[n].pc \in {"known", "fresh"}
    /\ work' = [work EXCEPT ![n].pc = IF @ = "known" THEN "found" ELSE "new",
                            ![n].opt = NextOpt]
    /\ UNCHANGED <<vars, configVars, overlap, cut, lost>>

\* The VLAN is there already: its interface is asked for.  If it has none, the
\* name that was free before stands in.
FindOpt(n) ==
    LET mine == OptsOf(work[n].device) IN
    /\ work[n].pc = "found"
    /\ work' = [work EXCEPT ![n].pc = "opted",
                            ![n].opt = IF mine = {} THEN @
                                       ELSE CHOOSE o \in mine : \A q \in mine : o <= q]
    /\ UNCHANGED <<vars, configVars, overlap, cut, lost>>

\* The interface is given the address.  If there is none of that name, the
\* script reports that and changes nothing, and its verification fails.
SetAddress(n) ==
    /\ work[n].pc = "opted"
    /\ work[n].opt \in Opts
    /\ opts' = [opts EXCEPT ![work[n].opt].ip = nets[n].subnet]
    /\ work' = [work EXCEPT ![n].pc = "set"]
    /\ UNCHANGED <<vars, device, running, kea, overlap, cut, lost>>

\* An entry of that tag, which a task added meanwhile, is overwritten.
AddDevice(n) ==
    LET v == nets[n].vlan IN
    /\ work[n].pc = "new"
    /\ device' = [device EXCEPT ![v] = work[n].device]
    /\ lost' = IF device[v] \in {0, work[n].device} THEN lost ELSE lost \cup {device[v]}
    /\ work' = [work EXCEPT ![n].pc = "device"]
    /\ UNCHANGED <<vars, opts, running, kea, overlap, cut>>

\* An interface of that name is overwritten.
AddOpt(n) ==
    LET o == work[n].opt
        new == [device |-> work[n].device, ip |-> nets[n].subnet]
    IN  /\ work[n].pc = "device"
        /\ opts' = IF o \in Opts THEN [opts EXCEPT ![o] = new] ELSE Append(opts, new)
        /\ work' = [work EXCEPT ![n].pc = "opt"]
        /\ UNCHANGED <<vars, device, running, kea, overlap, cut, lost>>

\* A running interface of that name is destroyed first.
MakeInterface(n) ==
    LET d == work[n].device IN
    /\ work[n].pc = "opt"
    /\ running' = {r \in running : r[1] # d} \cup {<<d, nets[n].vlan>>}
    /\ work' = [work EXCEPT ![n].pc = "set"]
    /\ UNCHANGED <<vars, device, opts, kea, overlap, cut, lost>>

-----------------------------------------------------------------------------
(* _setup_kea_dhcp.                                                        *)

KeyAccepted(n) == OpnVmOf[nets[n].tenant] = DefaultOpnVm

\* Mutant: the list Kea answers with is not understood.
KeaReadNothing(n) ==
    /\ work[n].pc = "set"
    /\ work' = [work EXCEPT ![n].pc = "kea"]
    /\ UNCHANGED <<vars, configVars, overlap, cut, lost>>

KeaRead(n) ==
    /\ work[n].pc = "set"
    /\ work' = [work EXCEPT ![n].pc = "kea", ![n].kea = IF KeyAccepted(n) THEN kea ELSE {}]
    /\ UNCHANGED <<vars, configVars, overlap, cut, lost>>

KeaSet(n) ==
    /\ work[n].pc = "kea"
    /\ kea' = IF KeyAccepted(n) THEN work[n].kea \cup {work[n].opt} ELSE kea
    /\ TaskConfigure(n)
    /\ Reset(n)
    /\ UNCHANGED <<device, opts, running, overlap, cut, lost>>

\* The task fails or its worker dies.
Break(n) ==
    /\ TaskFail(n) \/ WorkerCrash(n)
    /\ Reset(n)
    /\ cut' = IF work[n].pc \in {"device", "opt"} THEN cut \cup {nets[n].vlan} ELSE cut
    /\ UNCHANGED <<configVars, overlap, lost>>

VlanStep(n) ==
    \/ (TaskLookup(n) \/ TaskMark(n) \/ TaskFinish(n)) /\ UNCHANGED vlanVars
    \/ ReadDevices(n) \/ ReadNames(n) \/ FindOpt(n) \/ SetAddress(n)
    \/ AddDevice(n) \/ AddOpt(n) \/ MakeInterface(n)
    \/ KeaRead(n) \/ KeaSet(n) \/ Break(n)

VlanNext ==
    \/ \E p \in Workers : ApiStep(p) /\ UNCHANGED vlanVars
    \/ \E n \in NetIds : VlanStep(n)

VlanSpec == VlanInit /\ [][VlanNext]_<<vars, vlanVars>>

-----------------------------------------------------------------------------
\* Two tags never share a VLAN device, nor two interfaces a device, unless two
\* tasks worked at once: the lock inside the VM covers each write, not the
\* choice of a name (workers/tasks/vlan.py:291-334).  A number a tag once lost
\* is free again and may still have an interface, whoever gets it next.
NamesApart ==
    /\ \A v, w \in VlanTags \ overlap :
          v # w /\ device[v] # 0 => device[v] # device[w]
    /\ \A v \in VlanTags \ overlap :
          device[v] \notin {0} \cup lost => Cardinality(OptsOf(device[v])) <= 1

\* A network whose task ended well can be used: its tag has a device, an
\* interface with the network's gateway that runs, and DHCP on it if the VM
\* takes the tenant's key, unless tasks worked at once or for a deleted
\* network, a network of the tag came back from its deletion, or a task of the
\* tag was interrupted between its writes (workers/tasks/vlan.py:303-364).
\* The gateway may be that of another pod's network: tags are given out by
\* pod, and the one OPNsense VM has one device for each.
DoneIsWired ==
    \A n \in NetIds :
        LET v == nets[n].vlan
            d == device[v]
            again == {nets[k].vlan : k \in reopened}
            elsewhere == \E m \in NetIds :
                             Exists(m) /\ nets[m].vlan = v /\ nets[m].pod # nets[n].pod
        IN  task[n] = "done" /\ Live(n) /\ v \notin overlap \cup cut \cup again =>
                /\ d # 0 /\ <<d, v>> \in running
                /\ \E o \in OptsOf(d) :
                      /\ opts[o].ip = nets[n].subnet \/ elsewhere
                      /\ KeyAccepted(n) => o \in kea
=============================================================================
