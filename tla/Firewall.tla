------------------------------ MODULE Firewall ------------------------------
(***************************************************************************)
(* The firewall rules of one tenant: rows of opnsense_firewall_rules,      *)
(* edited by api/firewall_manager.py, pushed to OPNsense by                *)
(* apply_all_pending_rules_task and pulled back by sync_firewall_rules_task *)
(* (workers/tasks/firewall_manager.py).                                    *)
(*                                                                         *)
(* A call to OPNsense runs through the hypervisor's guest agent and takes  *)
(* seconds, so every such call is a step; database work between two calls  *)
(* is one step.  The apply task keeps the rows it read at its start until  *)
(* its only commit, and writes back only the attributes it changed.        *)
(*                                                                         *)
(* A rule's content is one value: everything set_rule sends but its        *)
(* position.  The order of the rules is not modelled.                      *)
(***************************************************************************)
EXTENDS Naturals, FiniteSets

CONSTANTS
    Rows,           \* primary keys, numbered from 1
    Uuids,          \* rule ids OPNsense hands out, numbered from 1
    Values,         \* contents of a rule
    Applies,        \* apply_all_pending_rules messages: bounds the clicks
    Syncs,          \* sync_firewall_rules tasks that can run side by side
    MaxRequests,    \* bound on rule changes through the API
    MaxMishaps,     \* bound on failing OPNsense calls, worker crashes and
                    \* changes made in OPNsense by somebody else
    MaxRetries,     \* max_retries of apply_all_pending_rules
    None            \* absent

ASSUME FirewallAssumption ==
    /\ Rows \subseteq Nat \ {0}
    /\ Uuids \subseteq Nat \ {0}
    /\ {MaxRequests, MaxMishaps, MaxRetries} \subseteq Nat
    /\ None \notin Values

VARIABLES
    status,     \* apply_status of a row, None where there is no row
    uuid,       \* its OPNsense id, Local while it has none ("pending-...")
    val,        \* its content
    opnsense,   \* the content of each rule inside OPNsense
    issued,     \* how many ids OPNsense has handed out
    apply,      \* the apply tasks
    listing,    \* what each running sync got from list_rules
    requests,   \* changes requested so far
    mishaps,    \* mishaps so far
    racedRow,   \* history: rows changed while an apply task held a copy
    racedRule   \* history: OPNsense rules changed behind a sync, or from outside

rowVars == <<status, uuid, val>>
budget == <<requests, mishaps>>
history == <<racedRow, racedRule>>
vars == <<status, uuid, val, opnsense, issued, apply, listing, requests, mishaps,
          racedRow, racedRule>>

-----------------------------------------------------------------------------
Local == 0

\* A row of the batch as the task read it, and what became of its push.
Copy == [status : {"pending", "pending_delete"}, uuid : Uuids \cup {Local}, val : Values]
Result == [state : {"todo", "ok", "failed"}, uuid : Uuids \cup {Local}]

NotSent == [pc |-> "none", retries |-> 0]
Waiting(r) == [pc |-> "queued", retries |-> r]
Ended == [pc |-> "done", retries |-> 0]
Idle == [u \in {} |-> None]

TypeOK ==
    /\ status \in [Rows -> {None, "pending", "pending_delete", "synced", "failed"}]
    /\ uuid \in [Rows -> Uuids \cup {Local}]
    /\ val \in [Rows -> Values \cup {None}]
    /\ opnsense \in [Uuids -> Values \cup {None}]
    /\ issued \in 0..Cardinality(Uuids)
    /\ \A a \in Applies :
          \/ apply[a] \in {NotSent, Ended} \cup {Waiting(r) : r \in 0..MaxRetries}
          \/ /\ apply[a].pc = "push" /\ apply[a].retries \in 0..MaxRetries
             /\ DOMAIN apply[a].copy \subseteq Rows
             /\ DOMAIN apply[a].result = DOMAIN apply[a].copy
             /\ \A r \in DOMAIN apply[a].copy :
                   apply[a].copy[r] \in Copy /\ apply[a].result[r] \in Result
    /\ \A s \in Syncs : listing[s] \in {Idle} \cup [Uuids -> Values \cup {None}]
    /\ requests \in 0..MaxRequests
    /\ mishaps \in 0..MaxMishaps
    /\ racedRow \subseteq Rows
    /\ racedRule \subseteq Uuids
    /\ \A r, q \in Rows : uuid[r] = uuid[q] /\ r # q => uuid[r] = Local
    /\ \A r \in Rows : status[r] = None => uuid[r] = Local /\ val[r] = None

-----------------------------------------------------------------------------
Exists(r) == status[r] # None
Holds(a, r) == apply[a].pc = "push" /\ r \in DOMAIN apply[a].copy
Listed(s) == listing[s] # Idle

\* Keys are not used again while a task holds the row they belonged to.
Unused == {r \in Rows : ~Exists(r) /\ \A a \in Applies : ~Holds(a, r)}
Least(S) == CHOOSE n \in S : \A m \in S : n <= m
Before(S, n) == Cardinality({m \in S : m < n})

Asked == requests < MaxRequests /\ requests' = requests + 1
Mishap == mishaps < MaxMishaps /\ mishaps' = mishaps + 1

\* Notes that the content of rule u changes while a sync holds a listing.
NoteRule(u) ==
    racedRule' = IF \E s \in Syncs : Listed(s) THEN racedRule \cup {u} ELSE racedRule
NoteRow(R) ==
    racedRow' = racedRow \cup {r \in R : \E a \in Applies : Holds(a, r)}

-----------------------------------------------------------------------------
Init ==
    /\ status = [r \in Rows |-> IF r = 1 THEN "synced" ELSE None]
    /\ uuid = [r \in Rows |-> IF r = 1 THEN 1 ELSE Local]
    /\ \E v \in Values :
          /\ val = [r \in Rows |-> IF r = 1 THEN v ELSE None]
          /\ opnsense = [u \in Uuids |-> IF u = 1 THEN v ELSE None]
    /\ issued = 1
    /\ apply = [a \in Applies |-> NotSent]
    /\ listing = [s \in Syncs |-> Idle]
    /\ requests = 0
    /\ mishaps = 0
    /\ racedRow = {}
    /\ racedRule = {}

-----------------------------------------------------------------------------
(* The API.  Every change is local and waits for Apply.                    *)

CreateRule(v) ==
    /\ Asked
    /\ Unused # {}   \* bound: Rows
    /\ LET r == Least(Unused) IN
          /\ status' = [status EXCEPT ![r] = "pending"]
          /\ val' = [val EXCEPT ![r] = v]
    /\ UNCHANGED <<uuid, opnsense, issued, apply, listing, mishaps, history>>

\* update_rule and toggle_rule, whatever the status of the rule.
UpdateRule(r, v) ==
    /\ Asked
    /\ Exists(r)
    /\ status' = [status EXCEPT ![r] = "pending"]
    /\ val' = [val EXCEPT ![r] = v]
    /\ NoteRow({r})
    /\ UNCHANGED <<uuid, opnsense, issued, apply, listing, mishaps, racedRule>>

DeleteRule(r) ==
    /\ Asked
    /\ Exists(r)
    /\ status' = [status EXCEPT ![r] = "pending_delete"]
    /\ NoteRow({r})
    /\ UNCHANGED <<uuid, val, opnsense, issued, apply, listing, mishaps, racedRule>>

\* move_rule_up and move_rule_down: two neighbours swap their positions.
MoveRule(r, q) ==
    /\ Asked
    /\ Exists(r) /\ Exists(q) /\ r # q
    /\ status' = [status EXCEPT ![r] = "pending", ![q] = "pending"]
    /\ NoteRow({r, q})
    /\ UNCHANGED <<uuid, val, opnsense, issued, apply, listing, mishaps, racedRule>>

\* POST /apply dispatches the task.
Apply(a) ==
    /\ apply[a] = NotSent
    /\ apply' = [apply EXCEPT ![a] = Waiting(0)]
    /\ UNCHANGED <<rowVars, opnsense, issued, listing, budget, history>>

-----------------------------------------------------------------------------
(* apply_all_pending_rules_task.                                           *)

Class(c) ==
    CASE c.status = "pending_delete"              -> 1
      [] c.status = "pending" /\ c.uuid # Local   -> 2
      [] c.status = "pending" /\ c.uuid = Local   -> 3

\* Rules that failed before are not selected.
ApplyRead(a) ==
    /\ apply[a].pc = "queued"
    /\ LET Batch == {r \in Rows : status[r] \in {"pending", "pending_delete"}} IN
       apply' = [apply EXCEPT ![a] =
                    IF Batch = {} THEN Ended
                    ELSE [pc |-> "push", retries |-> @.retries,
                          copy |-> [r \in Batch |-> [status |-> status[r], uuid |-> uuid[r],
                                                     val |-> val[r]]],
                          result |-> [r \in Batch |-> [state |-> "todo", uuid |-> uuid[r]]]]]
    /\ UNCHANGED <<rowVars, opnsense, issued, listing, budget, history>>

Todo(a) == {r \in DOMAIN apply[a].copy : apply[a].result[r].state = "todo"}

Next3(a) == {r \in Todo(a) : \A q \in Todo(a) :
                Class(apply[a].copy[r]) <= Class(apply[a].copy[q])}

Record(a, r, state, u) ==
    apply' = [apply EXCEPT ![a] =
                 [pc |-> "push", retries |-> @.retries, copy |-> @.copy,
                  result |-> [@.result EXCEPT ![r] = [state |-> state, uuid |-> u]]]]

\* One call: del_rule, then set_rule, then add_rule, as the copies say.  A
\* failing call may have taken effect, when it was the answer that was lost.
\* A rule that never reached OPNsense is deleted without a call.
ApplyPush(a) ==
    /\ apply[a].pc = "push"
    /\ \E r \in Next3(a) :
          LET c == apply[a].copy[r]
              fresh == issued + 1
              gone == c.uuid # Local /\ opnsense[c.uuid] = None
              Delete == Class(c) = 1
              Create == Class(c) = 3
              u == IF Create THEN fresh ELSE c.uuid
              Effect == /\ opnsense' = [opnsense EXCEPT ![u] = IF Delete THEN None ELSE c.val]
                        /\ issued' = IF Create THEN fresh ELSE issued
                        /\ NoteRule(u)
              NoEffect == UNCHANGED <<opnsense, issued, racedRule>>
          IN  \/ /\ Delete /\ c.uuid = Local
                 /\ Record(a, r, "ok", Local)
                 /\ NoEffect /\ UNCHANGED mishaps
              \/ /\ ~(Delete /\ c.uuid = Local)
                 /\ gone
                 /\ Record(a, r, "failed", c.uuid)
                 /\ NoEffect /\ UNCHANGED mishaps
              \/ /\ ~(Delete /\ c.uuid = Local)
                 /\ ~gone
                 /\ u \in Uuids
                 /\ Record(a, r, "ok", u)
                 /\ Effect /\ UNCHANGED mishaps
              \/ /\ ~(Delete /\ c.uuid = Local)
                 /\ u \in Uuids
                 /\ Mishap
                 /\ Record(a, r, "failed", c.uuid)
                 /\ NoEffect \/ (~gone /\ Effect)
    /\ UNCHANGED <<rowVars, listing, requests, racedRow>>

Retry(a) ==
    IF apply[a].retries < MaxRetries THEN Waiting(apply[a].retries + 1) ELSE Ended

\* Mutant: the column uuid has no unique constraint.
ClashNoUnique(a, Kept) == \E r \in Kept : ~Exists(r)

\* An UPDATE of a row that is gone, or an id that another row has by now.
Clash(a, Kept) ==
    \/ \E r \in Kept : ~Exists(r)
    \/ \E r \in Kept, q \in Rows :
          /\ r # q
          /\ apply[a].result[r].uuid # apply[a].copy[r].uuid
          /\ uuid[q] = apply[a].result[r].uuid

\* Mutant: a rejected call is logged and the rule marked all the same.
PushedAnyway(state, reloaded) == IF reloaded THEN "synced" ELSE "failed"

Pushed(state, reloaded) == IF reloaded /\ state = "ok" THEN "synced" ELSE "failed"

\* Reloads the firewall if anything was applied, then commits every change
\* at once.  A clash makes the commit fail and the task start over.
ApplyCommit(a) ==
    /\ apply[a].pc = "push"
    /\ Todo(a) = {}
    /\ LET copy == apply[a].copy
           result == apply[a].result
           Batch == DOMAIN copy
           Removed == {r \in Batch : copy[r].status = "pending_delete" /\ result[r].state = "ok"}
           Kept == Batch \ Removed
       IN  \/ /\ Clash(a, Kept)
              /\ apply' = [apply EXCEPT ![a] = Retry(a)]
              /\ UNCHANGED <<rowVars, mishaps, racedRow>>
           \/ \E reloaded \in BOOLEAN :
              /\ ~Clash(a, Kept)
              /\ IF reloaded THEN UNCHANGED mishaps
                 ELSE Mishap /\ \E r \in Batch : result[r].state = "ok"
              /\ status' = [r \in Rows |->
                               IF r \in Removed THEN None
                               ELSE IF r \in Kept
                               THEN Pushed(result[r].state, reloaded)
                               ELSE status[r]]
              /\ uuid' = [r \in Rows |->
                             IF r \in Removed THEN Local
                             ELSE IF r \in Kept /\ result[r].uuid # copy[r].uuid
                             THEN result[r].uuid ELSE uuid[r]]
              /\ val' = [r \in Rows |-> IF r \in Removed THEN None ELSE val[r]]
              /\ apply' = [apply EXCEPT ![a] = Ended]
              /\ racedRow' = racedRow \cup
                    {r \in Batch : \E b \in Applies \ {a} : Holds(b, r)}
    /\ UNCHANGED <<opnsense, issued, listing, requests, racedRule>>

\* The worker dies before the commit; the broker delivers the message again.
ApplyCrash(a) ==
    /\ apply[a].pc = "push"
    /\ Mishap
    /\ apply' = [apply EXCEPT ![a] = Waiting(@.retries)]
    /\ UNCHANGED <<rowVars, opnsense, issued, listing, requests, history>>

-----------------------------------------------------------------------------
(* sync_firewall_rules_task, from celery beat or POST /sync.               *)

SyncList(s) ==
    /\ ~Listed(s)
    /\ listing' = [listing EXCEPT ![s] = opnsense]
    /\ UNCHANGED <<rowVars, opnsense, issued, apply, budget, history>>

\* Mutant: a rule with the content of some row counts as known.
UnknownByContent(L) ==
    {u \in Uuids : /\ L[u] # None
                   /\ \A r \in Rows : uuid[r] # u /\ val[r] # L[u]}

\* The listed rules without a row.
Unknown(L) == {u \in Uuids : L[u] # None /\ \A r \in Rows : uuid[r] # u}

\* Only synced rows follow the listing; a listed rule without a row gets one.
SyncCommit(s) ==
    /\ Listed(s)
    /\ LET L == listing[s]
           New == Unknown(listing[s])
           Free == Unused
           Dropped(r) == status[r] = "synced" /\ L[uuid[r]] = None
           Adopts(r, u) == /\ r \in Free /\ u \in New
                           /\ Before(Free, r) = Before(New, u)
       IN  /\ Cardinality(New) <= Cardinality(Free)   \* bound: Rows
           /\ status' = [r \in Rows |->
                            IF \E u \in New : Adopts(r, u) THEN "synced"
                            ELSE IF Dropped(r) THEN None ELSE status[r]]
           /\ uuid' = [r \in Rows |->
                          IF \E u \in New : Adopts(r, u) THEN CHOOSE u \in New : Adopts(r, u)
                          ELSE IF Dropped(r) THEN Local ELSE uuid[r]]
           /\ val' = [r \in Rows |->
                         IF \E u \in New : Adopts(r, u) THEN L[CHOOSE u \in New : Adopts(r, u)]
                         ELSE IF status[r] = "synced" THEN L[uuid[r]] ELSE val[r]]
           /\ NoteRow({r \in Rows : status[r] = "synced" /\ val[r] # L[uuid[r]]})
    /\ listing' = [listing EXCEPT ![s] = Idle]
    /\ UNCHANGED <<opnsense, issued, apply, budget, racedRule>>

\* Fails or dies after the listing; nothing is committed.
SyncAbort(s) ==
    /\ Listed(s)
    /\ Mishap
    /\ listing' = [listing EXCEPT ![s] = Idle]
    /\ UNCHANGED <<rowVars, opnsense, issued, apply, requests, history>>

-----------------------------------------------------------------------------
\* Somebody changes a rule in OPNsense itself.
Drift(u, v) ==
    /\ opnsense[u] # None /\ opnsense[u] # v
    /\ Mishap
    /\ opnsense' = [opnsense EXCEPT ![u] = v]
    /\ racedRule' = racedRule \cup {u}
    /\ UNCHANGED <<rowVars, issued, apply, listing, requests, racedRow>>

-----------------------------------------------------------------------------
ApplyStep(a) == ApplyRead(a) \/ ApplyPush(a) \/ ApplyCommit(a)
SyncStep(s) == SyncList(s) \/ SyncCommit(s)

Request ==
    \/ \E v \in Values : CreateRule(v)
    \/ \E r \in Rows, v \in Values : UpdateRule(r, v)
    \/ \E r \in Rows : DeleteRule(r)
    \/ \E r, q \in Rows : MoveRule(r, q)
    \/ \E a \in Applies : Apply(a)

Next ==
    \/ Request
    \/ \E a \in Applies : ApplyStep(a) \/ ApplyCrash(a)
    \/ \E s \in Syncs : SyncStep(s) \/ SyncAbort(s)
    \/ \E u \in Uuids, v \in Values \cup {None} : Drift(u, v)

\* Workers keep running the tasks they are given and celery beat keeps
\* sending syncs; users, crashes and failures owe nothing.
Fairness ==
    /\ \A a \in Applies : WF_vars(ApplyStep(a))
    /\ \A s \in Syncs : WF_vars(SyncStep(s))

Spec == Init /\ [][Next]_vars /\ Fairness

-----------------------------------------------------------------------------
(* Properties.                                                             *)

InSync(r) == uuid[r] # Local /\ opnsense[uuid[r]] = val[r]

\* A synced rule has the content OPNsense has, unless a user changed it
\* while an apply task was pushing it, or the rule in OPNsense changed
\* behind a sync task's listing or from outside: the task's late writes of
\* "synced" (firewall_manager.py:414-442) are wrong in no other way, whatever
\* crashes, retries, failing calls and parallel tasks do.
SyncedUnlessRaced ==
    \A r \in Rows :
        status[r] = "synced" /\ r \notin racedRow /\ uuid[r] \notin racedRule => InSync(r)

\* Once users and failures pause, the periodic sync brings the table and
\* OPNsense together for good: every rule in OPNsense has a row and every
\* synced row has the content of its rule, whatever races came before.
Agree ==
    /\ \A u \in Uuids : opnsense[u] # None => \E r \in Rows : uuid[r] = u
    /\ \A r \in Rows : status[r] = "synced" => InSync(r)
Heals == <>[]Agree
=============================================================================
