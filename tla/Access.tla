------------------------------- MODULE Access -------------------------------
(***************************************************************************)
(* Who belongs to which tenant, with which roles: registration             *)
(* (api/auth.py), invitations (api/iam.py, api/invitations.py), custom     *)
(* roles and the roles of users (api/iam.py), and the preset roles         *)
(* (core/iam/seed.py).                                                     *)
(*                                                                         *)
(* A request reads first and writes in one or more transactions later; no  *)
(* row it has read is locked.  What two requests must not do both is left  *)
(* to the constraints of the tables: a person's email and a user's role in *)
(* a tenant are unique, and a role that is granted or offered must exist.  *)
(* A transaction that violates one fails as a whole and the request ends.  *)
(*                                                                         *)
(* A super administrator may make every administrative request, so that    *)
(* the model does not ask who makes one.  Names of users, tenants and      *)
(* roles only ever make a request end: they are left out.                  *)
(***************************************************************************)
EXTENDS Naturals, FiniteSets

CONSTANTS
    People,         \* by email
    Tenants,
    Custom,         \* ids of custom roles
    Invitations,    \* ids of invitations
    Threads,        \* API threads
    MaxMishaps,     \* bound on crashes and on the administrator's acts on roles
    None            \* the SQL NULL

Admin == "tenant_admin"
Viewer == "viewer"
Roles == {Admin, Viewer} \cup Custom

ASSUME AccessAssumption ==
    /\ MaxMishaps \in Nat
    /\ {Admin, Viewer, None} \cap Custom = {}
    /\ None \notin Tenants \cup {Admin, Viewer}

VARIABLES
    tenants,    \* the tenants there are
    home,       \* table users: users.tenant_id, for those who have an account
    roles,      \* table iam_roles: the custom ones
    grants,     \* table user_roles
    inv,        \* table invitations
    req,        \* the request each API thread is serving
    mishaps,    \* crashes and acts so far
    given,      \* history: how often an invitation has given access
    late,       \* history: roles granted while they were being deleted
    marks       \* history: what has disturbed a person's access to a tenant

vars == <<tenants, home, roles, grants, inv, req, mishaps, given, late, marks>>

-----------------------------------------------------------------------------
Grant(u, t, r) == [u |-> u, t |-> t, r |-> r]
Grants == [u : People, t : Tenants, r : Roles]

Unused == [st |-> "unused"]
Gone == [st |-> "gone"]
Invitation ==
    {Unused, Gone} \cup [st : {"pending", "used"}, u : People, t : Tenants,
                         r : Roles \cup {None}, expired : BOOLEAN]

\* An acceptance holds the invitation as it read it.
Idle == [pc |-> "idle"]
Request ==
    {Idle} \cup [pc : {"found", "admin"}, u : People, t : Tenants]
           \cup [pc : {"invite"}, u : People, t : Tenants, r : Roles \cup {None}]
           \cup [pc : {"accept", "close"}, i : Invitations, u : People, t : Tenants,
                 r : Roles \cup {None}, new : BOOLEAN]
           \cup [pc : {"assign"}, u : People, t : Tenants, r : Roles]
           \cup [pc : {"load", "delete"}, r : Custom]

Marks == {"overlap",    \* two requests invited the person at the same time
          "cut",        \* a crash between two transactions of one request
          "removed",    \* a role, or the person, was removed
          "other"}      \* access came from elsewhere than the invitation

TypeOK ==
    /\ tenants \subseteq Tenants
    /\ home \in [People -> Tenants \cup {None}]
    /\ roles \in [Custom -> {"unused", "live", "gone"}]
    /\ grants \subseteq Grants
    /\ inv \in [Invitations -> Invitation]
    /\ req \in [Threads -> Request]
    /\ mishaps \in 0..MaxMishaps
    /\ given \in [Invitations -> Nat]
    /\ late \subseteq Grants
    /\ marks \in [People \X Tenants -> SUBSET Marks]

-----------------------------------------------------------------------------
Known(u) == home[u] # None
GrantsOf(u, t) == {g \in grants : g.u = u /\ g.t = t}
Holders(r) == {g \in grants : g.r = r}
Exists(r) == r \in {Admin, Viewer} \/ (r \in Custom /\ roles[r] = "live")
IsInv(i) == inv[i].st \in {"pending", "used"}
Pending(i) == inv[i].st = "pending"
PendingOf(u, t) == {i \in Invitations : Pending(i) /\ inv[i].u = u /\ inv[i].t = t}

At(p, pc) == req[p].pc = pc
Become(p, r) == req' = [req EXCEPT ![p] = r]
Mishap == mishaps < MaxMishaps /\ mishaps' = mishaps + 1
Mark(u, t, S) == marks' = [marks EXCEPT ![<<u, t>>] = @ \cup S]

\* A grant that reaches a person by another way than an invitation of theirs.
Other(u, t) == IF PendingOf(u, t) # {} THEN {"other"} ELSE {}

\* A role that a request has begun to delete.
Deleting(r) == \E p \in Threads : req[p].pc \in {"load", "delete"} /\ req[p].r = r

\* Mutant: user_roles without its unique constraint.
InsertAgain(g) ==
    /\ Exists(g.r)
    /\ grants' = grants \cup {g}
    /\ late' = IF Deleting(g.r) THEN late \cup {g} ELSE late

Insert(g) ==
    /\ g \notin grants /\ Exists(g.r)
    /\ grants' = grants \cup {g}
    /\ late' = IF Deleting(g.r) THEN late \cup {g} ELSE late

Init ==
    /\ tenants = {}
    /\ home = [u \in People |-> None]
    /\ roles = [c \in Custom |-> "unused"]
    /\ grants = {} /\ late = {}
    /\ inv = [i \in Invitations |-> Unused]
    /\ req = [p \in Threads |-> Idle]
    /\ mishaps = 0
    /\ given = [i \in Invitations |-> 0]
    /\ marks = [x \in People \X Tenants |-> {}]

-----------------------------------------------------------------------------
(* POST /auth/register.                                                    *)

Register(p, u, t) ==
    /\ req[p] = Idle /\ ~Known(u) /\ t \notin tenants
    /\ Become(p, [pc |-> "found", u |-> u, t |-> t])
    /\ UNCHANGED <<tenants, home, roles, grants, inv, mishaps, given, late, marks>>

\* seed_permissions updates the preset roles and commits: the tenant and its
\* first user are there from now on.
RegisterFound(p) ==
    LET r == req[p] IN
    /\ At(p, "found")
    /\ IF Known(r.u) \/ r.t \in tenants
       THEN Become(p, Idle) /\ UNCHANGED <<tenants, home, marks>>
       ELSE /\ tenants' = tenants \cup {r.t}
            /\ home' = [home EXCEPT ![r.u] = r.t]
            /\ Become(p, [r EXCEPT !.pc = "admin"])
            /\ Mark(r.u, r.t, Other(r.u, r.t))
    /\ UNCHANGED <<roles, grants, inv, mishaps, given, late>>

\* Mutant: any administrator will do.
RegisterAdminOnce(p) ==
    LET r == req[p] IN
    /\ At(p, "admin")
    /\ Become(p, Idle)
    /\ \/ Holders(Admin) = {} /\ Insert(Grant(r.u, r.t, Admin))
       \/ Holders(Admin) # {} /\ UNCHANGED <<grants, late>>
    /\ UNCHANGED <<tenants, home, roles, inv, mishaps, given, marks>>

\* assign_tenant_admin_role gives the role to a user who has none.
RegisterAdmin(p) ==
    LET r == req[p] IN
    /\ At(p, "admin")
    /\ Become(p, Idle)
    /\ \/ GrantsOf(r.u, r.t) = {} /\ Insert(Grant(r.u, r.t, Admin))
       \/ GrantsOf(r.u, r.t) # {} /\ UNCHANGED <<grants, late>>
    /\ UNCHANGED <<tenants, home, roles, inv, mishaps, given, marks>>

-----------------------------------------------------------------------------
(* Invitations.                                                            *)

\* Mutant: an invitation that has expired is not in the way.
InviteAfterExpiry(p, u, t, r) ==
    /\ req[p] = Idle /\ t \in tenants
    /\ home[u] # t
    /\ r = None \/ Exists(r)
    /\ \A i \in PendingOf(u, t) : inv[i].expired
    /\ Become(p, [pc |-> "invite", u |-> u, t |-> t, r |-> r])
    /\ UNCHANGED <<tenants, home, roles, grants, inv, mishaps, given, late, marks>>

\* A pending invitation stands in the way even when it has expired.
Invite(p, u, t, r) ==
    /\ req[p] = Idle /\ t \in tenants
    /\ home[u] # t
    /\ r = None \/ Exists(r)
    /\ PendingOf(u, t) = {}
    /\ Become(p, [pc |-> "invite", u |-> u, t |-> t, r |-> r])
    /\ Mark(u, t, (IF \E q \in Threads : At(q, "invite") /\ req[q].u = u /\ req[q].t = t
                   THEN {"overlap"} ELSE {}))
    /\ UNCHANGED <<tenants, home, roles, grants, inv, mishaps, given, late>>

InviteCommit(p, i) ==
    LET r == req[p] IN
    /\ At(p, "invite") /\ inv[i] = Unused
    /\ Become(p, Idle)
    /\ \/ /\ r.r = None \/ Exists(r.r)
          /\ inv' = [inv EXCEPT ![i] = [st |-> "pending", u |-> r.u, t |-> r.t, r |-> r.r,
                                        expired |-> FALSE]]
          /\ Mark(r.u, r.t, IF GrantsOf(r.u, r.t) # {} \/ home[r.u] = r.t THEN {"other"} ELSE {})
       \/ r.r # None /\ ~Exists(r.r) /\ UNCHANGED <<inv, marks>>
    /\ UNCHANGED <<tenants, home, roles, grants, mishaps, given, late>>

\* Seven days pass.
Expire(i) ==
    /\ Pending(i) /\ ~inv[i].expired
    /\ inv' = [inv EXCEPT ![i].expired = TRUE]
    /\ UNCHANGED <<tenants, home, roles, grants, req, mishaps, given, late, marks>>

DeleteInvitation(i) ==
    /\ IsInv(i)
    /\ inv' = [inv EXCEPT ![i] = Gone]
    /\ UNCHANGED <<tenants, home, roles, grants, req, mishaps, given, late, marks>>

\* validate_invitation asks the same.
Valid(i) == Pending(i) /\ ~inv[i].expired

\* A person who has a role in the tenant is told so and the invitation left.
Accept(p, i) ==
    /\ req[p] = Idle /\ Valid(i)
    /\ Known(inv[i].u) => GrantsOf(inv[i].u, inv[i].t) = {}
    /\ Become(p, [pc |-> "accept", i |-> i, u |-> inv[i].u, t |-> inv[i].t, r |-> inv[i].r,
                  new |-> ~Known(inv[i].u)])
    /\ UNCHANGED <<tenants, home, roles, grants, inv, mishaps, given, late, marks>>

\* The account, if there was none, is written with the first grant.
Account(r) == IF r.new THEN ~Known(r.u) /\ home' = [home EXCEPT ![r.u] = r.t]
              ELSE UNCHANGED home

\* Access by an invitation leaves other invitations to the tenant without use.
Given(r) ==
    /\ given' = [given EXCEPT ![r.i] = @ + 1]
    /\ Mark(r.u, r.t, IF PendingOf(r.u, r.t) \ {r.i} # {} THEN {"other"} ELSE {})

\* Mutant: the invitation is not marked as used.
AcceptRoleUnused(p) ==
    LET r == req[p] IN
    /\ At(p, "accept") /\ r.r # None
    /\ IsInv(r.i)
    /\ Insert(Grant(r.u, r.t, r.r)) /\ Account(r)
    /\ Given(r)
    /\ Become(p, Idle)
    /\ UNCHANGED <<tenants, roles, inv, mishaps>>

\* With a role: the grant and the invitation's use are one transaction.
AcceptRole(p) ==
    LET r == req[p] IN
    /\ At(p, "accept") /\ r.r # None
    /\ IsInv(r.i)
    /\ Insert(Grant(r.u, r.t, r.r)) /\ Account(r)
    /\ inv' = [inv EXCEPT ![r.i].st = "used"]
    /\ Given(r)
    /\ Become(p, Idle)
    /\ UNCHANGED <<tenants, roles, mishaps>>

\* Without one: assign_viewer_role commits before the invitation is used.
AcceptViewer(p) ==
    LET r == req[p] IN
    /\ At(p, "accept") /\ r.r = None
    /\ Insert(Grant(r.u, r.t, Viewer)) /\ Account(r)
    /\ Given(r)
    /\ Become(p, [r EXCEPT !.pc = "close"])
    /\ UNCHANGED <<tenants, roles, inv, mishaps>>

\* The person, the role or the invitation is not what it was: 500.
AcceptFails(p) ==
    LET r == req[p] IN
    /\ At(p, "accept")
    /\ \/ r.r # None /\ (~IsInv(r.i) \/ ~Exists(r.r) \/ Grant(r.u, r.t, r.r) \in grants)
       \/ r.r = None /\ Grant(r.u, r.t, Viewer) \in grants
       \/ r.new /\ Known(r.u)
    /\ Become(p, Idle)
    /\ UNCHANGED <<tenants, home, roles, grants, inv, mishaps, given, late, marks>>

AcceptClose(p) ==
    LET r == req[p] IN
    /\ At(p, "close")
    /\ Become(p, Idle)
    /\ inv' = IF IsInv(r.i) THEN [inv EXCEPT ![r.i].st = "used"] ELSE inv
    /\ UNCHANGED <<tenants, home, roles, grants, mishaps, given, late, marks>>

-----------------------------------------------------------------------------
(* Roles.                                                                  *)

CreateRole(c) ==
    /\ roles[c] = "unused"
    /\ roles' = [roles EXCEPT ![c] = "live"]
    /\ UNCHANGED <<tenants, home, grants, inv, req, mishaps, given, late, marks>>

\* Mutant: roles in use are not looked for.
DeleteRoleUnasked(p, c) ==
    /\ req[p] = Idle /\ roles[c] = "live" /\ Mishap
    /\ Become(p, [pc |-> "delete", r |-> c])
    /\ UNCHANGED <<tenants, home, roles, grants, inv, given, late, marks>>

DeleteRole(p, c) ==
    /\ req[p] = Idle /\ roles[c] = "live" /\ Holders(c) = {} /\ Mishap
    /\ Become(p, [pc |-> "load", r |-> c])
    /\ UNCHANGED <<tenants, home, roles, grants, inv, given, late, marks>>

\* SQLAlchemy reads the role's user_roles to clear their role_id, which the
\* table does not allow: a role that has been granted meanwhile stays.
DeleteRoleLoad(p) ==
    /\ At(p, "load")
    /\ Become(p, IF Holders(req[p].r) = {} THEN [req[p] EXCEPT !.pc = "delete"] ELSE Idle)
    /\ UNCHANGED <<tenants, home, roles, grants, inv, mishaps, given, late, marks>>

\* Deleting the row takes the grants with it and the role out of invitations.
DeleteRoleCommit(p) ==
    LET c == req[p].r IN
    /\ At(p, "delete")
    /\ Become(p, Idle)
    /\ IF roles[c] = "live"
       THEN /\ roles' = [roles EXCEPT ![c] = "gone"]
            /\ grants' = grants \ Holders(c)
            /\ inv' = [i \in Invitations |->
                          IF IsInv(i) /\ inv[i].r = c THEN [inv[i] EXCEPT !.r = None] ELSE inv[i]]
       ELSE UNCHANGED <<roles, grants, inv>>
    /\ UNCHANGED <<tenants, home, mishaps, given, late, marks>>

\* The role need not be one of the tenant's.
AssignRole(p, u, t, r) ==
    /\ req[p] = Idle /\ t \in tenants /\ Known(u) /\ Exists(r) /\ Mishap
    /\ Grant(u, t, r) \notin grants
    /\ Become(p, [pc |-> "assign", u |-> u, t |-> t, r |-> r])
    /\ UNCHANGED <<tenants, home, roles, grants, inv, given, late, marks>>

AssignCommit(p) ==
    LET r == req[p] IN
    /\ At(p, "assign")
    /\ Become(p, Idle)
    /\ \/ Insert(Grant(r.u, r.t, r.r)) /\ Mark(r.u, r.t, Other(r.u, r.t))
       \/ /\ Grant(r.u, r.t, r.r) \in grants \/ ~Exists(r.r)
          /\ UNCHANGED <<grants, late, marks>>
    /\ UNCHANGED <<tenants, home, roles, inv, mishaps, given>>

RemoveRole(g) ==
    /\ g \in grants /\ Mishap
    /\ grants' = grants \ {g}
    /\ Mark(g.u, g.t, {"removed"})
    /\ UNCHANGED <<tenants, home, roles, inv, req, given, late>>

\* The user loses every role in the tenant and keeps it as home.
DeleteTenantUser(u, t) ==
    /\ Known(u) /\ t \in tenants /\ Mishap
    /\ grants' = grants \ GrantsOf(u, t)
    /\ Mark(u, t, {"removed"})
    /\ UNCHANGED <<tenants, home, roles, inv, req, given, late>>

-----------------------------------------------------------------------------
\* The thread dies: what it has not committed is rolled back.
Crash(p) ==
    LET r == req[p] IN
    /\ req[p] # Idle
    /\ Mishap
    /\ Become(p, Idle)
    /\ IF r.pc \in {"admin", "close"} THEN Mark(r.u, r.t, {"cut"}) ELSE UNCHANGED marks
    /\ UNCHANGED <<tenants, home, roles, grants, inv, given, late>>

Next ==
    \/ \E p \in Threads :
        \/ \E u \in People, t \in Tenants :
            \/ Register(p, u, t)
            \/ \E r \in Roles \cup {None} : Invite(p, u, t, r)
            \/ \E r \in Roles : AssignRole(p, u, t, r)
        \/ \E i \in Invitations : InviteCommit(p, i) \/ Accept(p, i)
        \/ \E c \in Custom : DeleteRole(p, c)
        \/ RegisterFound(p) \/ RegisterAdmin(p)
        \/ AcceptRole(p) \/ AcceptViewer(p) \/ AcceptFails(p) \/ AcceptClose(p)
        \/ DeleteRoleLoad(p) \/ DeleteRoleCommit(p) \/ AssignCommit(p) \/ Crash(p)
    \/ \E i \in Invitations : Expire(i) \/ DeleteInvitation(i)
    \/ \E c \in Custom : CreateRole(c)
    \/ \E g \in grants : RemoveRole(g)
    \/ \E u \in People, t \in Tenants : DeleteTenantUser(u, t)

Spec == Init /\ [][Next]_vars

-----------------------------------------------------------------------------
(* What the access of users promises.                                      *)

MarksOf(i) == marks[<<inv[i].u, inv[i].t>>]

\* A role went with its grant: it was given while it was being deleted.
TakenAway(u, t) == \E g \in late : g.u = u /\ g.t = t /\ ~Exists(g.r)

\* A person has one pending invitation to a tenant at most, unless two
\* requests invited them at the same time.
OnePending ==
    \A u \in People, t \in Tenants :
        "overlap" \notin marks[<<u, t>>] => Cardinality(PendingOf(u, t)) <= 1

\* An invitation gives access once, however many requests accept it at the
\* same time, unless what it gave was removed while one of them was under way.
GivenOnce ==
    \A i \in Invitations : IsInv(i) /\ "removed" \notin MarksOf(i) => given[i] <= 1

\* An invitation that is used has given access; one that is pending has given
\* none and its addressee has none, unless an acceptance was cut between the
\* grant and the use or access came another way.
PendingMeansNoAccess ==
    \A i \in Invitations :
        /\ inv[i].st = "used" => given[i] > 0
        /\ Pending(i) =>
            \/ given[i] = 0 /\ GrantsOf(inv[i].u, inv[i].t) = {}
            \/ MarksOf(i) \cap {"cut", "other"} # {}
            \/ \E p \in Threads : At(p, "close") /\ req[p].i = i

\* Whose home is a tenant has a role there, unless the registration was cut
\* before its last transaction, or roles were removed or deleted while given.
MembersHaveRoles ==
    \A u \in People : Known(u) =>
        \/ GrantsOf(u, home[u]) # {}
        \/ marks[<<u, home[u]>>] \cap {"cut", "removed"} # {} \/ TakenAway(u, home[u])
        \/ \E p \in Threads : At(p, "admin") /\ req[p].u = u

\* Deleting a role takes it from no one, except from a person to whom it is
\* given while it is being deleted.
RoleDeletedUnused ==
    [][\A g \in grants : g.r \in Custom /\ roles[g.r] = "live" /\ roles'[g.r] = "gone"
            => g \in late]_vars
=============================================================================
