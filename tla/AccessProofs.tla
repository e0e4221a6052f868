---------------------------- MODULE AccessProofs ----------------------------
(***************************************************************************)
(* Proofs about module Access, for every number of people, tenants, roles, *)
(* invitations and API threads: type correctness, that deleting a role     *)
(* takes it from no one but those who receive it while it is being         *)
(* deleted, and what memberships and invitations promise.                  *)
(*                                                                         *)
(* The deletion follows from one fact about its two steps: a request that  *)
(* is about to delete a role has seen that nobody holds it, and whoever    *)
(* holds it since is on record in late.  The rest follows from AccessInv,  *)
(* which says what an acceptance, a registration and an invitation that    *)
(* are under way know, and that an acceptance whose invitation has given   *)
(* access already will fail.                                               *)
(***************************************************************************)
EXTENDS Access, FiniteSetTheorems, TLAPS

LateOnly == \A p \in Threads : req[p].pc = "delete" => Holders(req[p].r) \subseteq late

IInv == TypeOK /\ LateOnly

\* A role received while it was being deleted has been created.
LateMade == \A g \in late : g.r \in Custom => roles[g.r] # "unused"

\* A registration that has yet to give the role of administrator has made its
\* tenant the home of the person.
AdminsHome == \A p \in Threads : At(p, "admin") => home[req[p].u] = req[p].t

\* An acceptance under way is of an invitation that has been sent, addressed
\* as it read it and, unless the role was deleted, with the role it read.
AsRead ==
    \A p \in Threads : req[p].pc \in {"accept", "close"} =>
        /\ inv[req[p].i].st # "unused"
        /\ IsInv(req[p].i) => inv[req[p].i].u = req[p].u /\ inv[req[p].i].t = req[p].t
RoleAsRead ==
    \A p \in Threads : At(p, "accept") /\ IsInv(req[p].i) =>
        \/ req[p].r = inv[req[p].i].r
        \/ inv[req[p].i].r = None /\ req[p].r \in Custom /\ roles[req[p].r] = "gone"
NewOrKnown == \A p \in Threads : At(p, "accept") => req[p].new \/ Known(req[p].u)
CloseGiven == \A p \in Threads : At(p, "close") => given[req[p].i] > 0
UnsentUngiven == \A i \in Invitations : inv[i].st = "unused" => given[i] = 0

\* The grant that an acceptance is about to make, and why it will fail.
Offer(r) == Grant(r.u, r.t, IF r.r = None THEN Viewer ELSE r.r)
Blocked(r) == Offer(r) \in grants \/ (r.r \in Custom /\ roles[r.r] = "gone")

\* Once an invitation has given access, no other acceptance of it succeeds.
OthersBlocked ==
    \A i \in Invitations : IsInv(i) /\ "removed" \notin MarksOf(i) /\ given[i] > 0 =>
        /\ given[i] = 1
        /\ \A p \in Threads : At(p, "accept") /\ req[p].i = i => Blocked(req[p])
        /\ Pending(i) => Known(inv[i].u) /\ Grant(inv[i].u, inv[i].t, Viewer) \in grants

UsedGave == \A i \in Invitations : inv[i].st = "used" => given[i] > 0
PendingGaveNone ==
    \A i \in Invitations : Pending(i) =>
        \/ given[i] = 0 /\ GrantsOf(inv[i].u, inv[i].t) = {} /\ home[inv[i].u] # inv[i].t
        \/ MarksOf(i) \cap {"cut", "other"} # {}
        \/ \E p \in Threads : At(p, "close") /\ req[p].i = i

Inviting(p, u, t) == At(p, "invite") /\ req[p].u = u /\ req[p].t = t
InvitedAlone ==
    \A u \in People, t \in Tenants : "overlap" \notin marks[<<u, t>>] =>
        /\ \A i \in PendingOf(u, t), j \in PendingOf(u, t) : i = j
        /\ \A p \in Threads : Inviting(p, u, t) =>
            /\ PendingOf(u, t) = {}
            /\ \A q \in Threads : Inviting(q, u, t) => q = p

\* What a request carries at each of its steps.
LEMMA RequestFields ==
  ASSUME TypeOK, NEW p \in Threads
  PROVE  /\ req[p].pc \in {"found", "admin", "invite", "accept", "close", "assign"} =>
                req[p].u \in People /\ req[p].t \in Tenants
         /\ req[p].pc \in {"invite", "accept", "close"} => req[p].r \in Roles \cup {None}
         /\ req[p].pc \in {"accept", "close"} => req[p].i \in Invitations /\ req[p].new \in BOOLEAN
         /\ req[p].pc = "assign" => req[p].r \in Roles
         /\ req[p].pc \in {"load", "delete"} => req[p].r \in Custom
         /\ req[p] \in Request
  BY DEF TypeOK, Request, Idle

LEMMA GrantType == ASSUME NEW u \in People, NEW t \in Tenants, NEW r \in Roles
                   PROVE  Grant(u, t, r) \in Grants
  BY DEF Grant, Grants

\* A grant that is inserted keeps both tables of grants well typed.
LEMMA InsertType == ASSUME TypeOK, NEW g \in Grants, Insert(g)
                    PROVE  grants' \subseteq Grants /\ late' \subseteq Grants
  BY DEF Insert, TypeOK

LEMMA BecomeType == ASSUME TypeOK, NEW p \in Threads, NEW r \in Request, Become(p, r)
                    PROVE  req' \in [Threads -> Request]
  BY DEF Become, TypeOK

LEMMA MarkType == ASSUME TypeOK, NEW u \in People, NEW t \in Tenants, NEW S \in SUBSET Marks,
                         Mark(u, t, S)
                  PROVE  marks' \in [People \X Tenants -> SUBSET Marks]
  BY DEF Mark, TypeOK

LEMMA MishapType == ASSUME TypeOK, Mishap PROVE mishaps' \in 0..MaxMishaps
  BY AccessAssumption DEF Mishap, TypeOK

LEMMA OtherType == ASSUME NEW u, NEW t PROVE Other(u, t) \in SUBSET Marks
  BY DEF Other, Marks

\* An invitation changes its state or its role and stays an invitation.
LEMMA InvitationType ==
  ASSUME TypeOK, NEW i \in Invitations, IsInv(i)
  PROVE  /\ inv[i].u \in People /\ inv[i].t \in Tenants /\ inv[i].r \in Roles \cup {None}
         /\ inv[i].expired \in BOOLEAN
         /\ [inv[i] EXCEPT !.st = "used"] \in Invitation
         /\ [inv[i] EXCEPT !.expired = TRUE] \in Invitation
         /\ [inv[i] EXCEPT !.r = None] \in Invitation
<1>1. inv[i] \in [st : {"pending", "used"}, u : People, t : Tenants,
                  r : Roles \cup {None}, expired : BOOLEAN]
  BY DEF TypeOK, Invitation, IsInv, Unused, Gone
<1> QED
  BY <1>1 DEF Invitation

LEMMA InitIInv == Init => IInv
<1> SUFFICES ASSUME Init PROVE IInv
  OBVIOUS
<1>1. TypeOK
  BY AccessAssumption DEF Init, TypeOK, Invitation, Unused, Request, Idle
<1>2. LateOnly
  BY DEF Init, LateOnly, Idle
<1> QED
  BY <1>1, <1>2 DEF IInv

LEMMA TypeStep == TypeOK /\ [Next]_vars => TypeOK'
<1> SUFFICES ASSUME TypeOK, [Next]_vars PROVE TypeOK'
  OBVIOUS
<1> USE DEF At
<1>1. ASSUME NEW p \in Threads, NEW u \in People, NEW t \in Tenants, Register(p, u, t)
      PROVE  TypeOK'
  <2>1. [pc |-> "found", u |-> u, t |-> t] \in Request
    BY DEF Request
  <2> QED
    BY <1>1, <2>1, BecomeType DEF Register, TypeOK
<1>2. ASSUME NEW p \in Threads, NEW u \in People, NEW t \in Tenants,
             NEW r \in Roles \cup {None}, Invite(p, u, t, r)
      PROVE  TypeOK'
  <2>1. [pc |-> "invite", u |-> u, t |-> t, r |-> r] \in Request
    BY DEF Request
  <2>2. req' \in [Threads -> Request]
    BY <1>2, <2>1, BecomeType DEF Invite
  <2>3. marks' \in [People \X Tenants -> SUBSET Marks]
    <3> DEFINE S == IF \E q \in Threads : At(q, "invite") /\ req[q].u = u /\ req[q].t = t
                    THEN {"overlap"} ELSE {}
    <3>1. S \in SUBSET Marks
      BY DEF Marks
    <3>2. Mark(u, t, S)
      BY <1>2 DEF Invite
    <3> QED
      BY <3>1, <3>2, MarkType
  <2> QED
    BY <1>2, <2>2, <2>3 DEF Invite, TypeOK
<1>3. ASSUME NEW p \in Threads, NEW u \in People, NEW t \in Tenants, NEW r \in Roles,
             AssignRole(p, u, t, r)
      PROVE  TypeOK'
  <2>1. [pc |-> "assign", u |-> u, t |-> t, r |-> r] \in Request
    BY DEF Request
  <2> QED
    BY <1>3, <2>1, BecomeType, MishapType DEF AssignRole, TypeOK
<1>4. ASSUME NEW p \in Threads, NEW i \in Invitations, InviteCommit(p, i)
      PROVE  TypeOK'
  <2> DEFINE r == req[p]
  <2>1. r.u \in People /\ r.t \in Tenants /\ r.r \in Roles \cup {None}
    BY <1>4, RequestFields DEF InviteCommit
  <2>2. req' \in [Threads -> Request]
    BY <1>4, BecomeType DEF InviteCommit, Request
  <2>3. CASE /\ inv' = [inv EXCEPT ![i] = [st |-> "pending", u |-> r.u, t |-> r.t, r |-> r.r,
                                           expired |-> FALSE]]
             /\ Mark(r.u, r.t, IF GrantsOf(r.u, r.t) # {} \/ home[r.u] = r.t
                               THEN {"other"} ELSE {})
    <3>1. inv' \in [Invitations -> Invitation]
      BY <2>1, <2>3 DEF TypeOK, Invitation
    <3>2. marks' \in [People \X Tenants -> SUBSET Marks]
      BY <2>1, <2>3, MarkType DEF Marks
    <3> QED
      BY <1>4, <2>2, <3>1, <3>2 DEF InviteCommit, TypeOK
  <2>4. CASE UNCHANGED <<inv, marks>>
    BY <1>4, <2>2, <2>4 DEF InviteCommit, TypeOK
  <2> QED
    BY <1>4, <2>3, <2>4 DEF InviteCommit
<1>5. ASSUME NEW p \in Threads, NEW i \in Invitations, Accept(p, i)
      PROVE  TypeOK'
  <2>1. inv[i].u \in People /\ inv[i].t \in Tenants /\ inv[i].r \in Roles \cup {None}
    BY <1>5, InvitationType DEF Accept, Valid, Pending, IsInv
  <2>2. [pc |-> "accept", i |-> i, u |-> inv[i].u, t |-> inv[i].t, r |-> inv[i].r,
         new |-> ~Known(inv[i].u)] \in Request
    BY <2>1 DEF Request
  <2> QED
    BY <1>5, <2>2, BecomeType DEF Accept, TypeOK
<1>6. ASSUME NEW p \in Threads, NEW c \in Custom, DeleteRole(p, c)
      PROVE  TypeOK'
  <2>1. [pc |-> "load", r |-> c] \in Request
    BY DEF Request
  <2> QED
    BY <1>6, <2>1, BecomeType, MishapType DEF DeleteRole, TypeOK
<1>7. ASSUME NEW p \in Threads, RegisterFound(p)
      PROVE  TypeOK'
  <2> DEFINE r == req[p]
  <2>1. r \in [pc : {"found", "admin"}, u : People, t : Tenants]
    BY <1>7 DEF RegisterFound, TypeOK, Request, Idle
  <2>2. Idle \in Request /\ [r EXCEPT !.pc = "admin"] \in Request
    BY <2>1 DEF Request
  <2>3. CASE Known(r.u) \/ r.t \in tenants
    BY <1>7, <2>2, <2>3, BecomeType DEF RegisterFound, TypeOK
  <2>4. CASE ~(Known(r.u) \/ r.t \in tenants)
    <3>1. req' \in [Threads -> Request]
      BY <1>7, <2>2, <2>4, BecomeType DEF RegisterFound
    <3>2. marks' \in [People \X Tenants -> SUBSET Marks]
      BY <1>7, <2>1, <2>4, MarkType, OtherType DEF RegisterFound
    <3> QED
      BY <1>7, <2>1, <2>4, <3>1, <3>2 DEF RegisterFound, TypeOK
  <2> QED
    BY <2>3, <2>4
<1>8. ASSUME NEW p \in Threads, RegisterAdmin(p)
      PROVE  TypeOK'
  <2> DEFINE g == Grant(req[p].u, req[p].t, Admin)
  <2>1. g \in Grants
    BY <1>8, RequestFields, GrantType DEF RegisterAdmin, Roles
  <2>2. grants' \subseteq Grants /\ late' \subseteq Grants
    <3>1. CASE Insert(g)
      BY <2>1, <3>1, InsertType
    <3>2. CASE UNCHANGED <<grants, late>>
      BY <3>2 DEF TypeOK
    <3> QED
      BY <1>8, <3>1, <3>2 DEF RegisterAdmin
  <2> QED
    BY <1>8, <2>2, BecomeType DEF RegisterAdmin, TypeOK, Request
<1>9. ASSUME NEW p \in Threads, AcceptRole(p) \/ AcceptViewer(p)
      PROVE  TypeOK'
  <2> DEFINE r == req[p]
             role == IF r.r = None THEN Viewer ELSE r.r
  <2>1. /\ r.u \in People /\ r.t \in Tenants /\ r.r \in Roles \cup {None}
        /\ r.i \in Invitations
    BY <1>9, RequestFields DEF AcceptRole, AcceptViewer
  <2>2. Grant(r.u, r.t, role) \in Grants
    BY <2>1, GrantType DEF Roles
  <2>3. grants' \subseteq Grants /\ late' \subseteq Grants
    BY <1>9, <2>2, InsertType DEF AcceptRole, AcceptViewer
  <2>4. home' \in [People -> Tenants \cup {None}]
    BY <1>9, <2>1 DEF AcceptRole, AcceptViewer, Account, TypeOK
  <2>5. given' \in [Invitations -> Nat]
    BY <1>9, <2>1 DEF AcceptRole, AcceptViewer, Given, TypeOK
  <2>6. marks' \in [People \X Tenants -> SUBSET Marks]
    <3> DEFINE S == IF PendingOf(r.u, r.t) \ {r.i} # {} THEN {"other"} ELSE {}
    <3>1. Mark(r.u, r.t, S)
      BY <1>9 DEF AcceptRole, AcceptViewer, Given
    <3>2. S \in SUBSET Marks
      BY DEF Marks
    <3> QED
      BY <2>1, <3>1, <3>2, MarkType
  <2>7. req' \in [Threads -> Request]
    <3>1. CASE AcceptRole(p)
      BY <3>1, BecomeType DEF AcceptRole, Request
    <3>2. CASE AcceptViewer(p)
      <4>1. r \in [pc : {"accept", "close"}, i : Invitations, u : People, t : Tenants,
                    r : Roles \cup {None}, new : BOOLEAN]
        BY <3>2 DEF AcceptViewer, TypeOK, Request, Idle
      <4>2. [r EXCEPT !.pc = "close"] \in Request
        BY <4>1 DEF Request
      <4> QED
        BY <3>2, <4>2, BecomeType DEF AcceptViewer
    <3> QED
      BY <1>9, <3>1, <3>2
  <2>8. inv' \in [Invitations -> Invitation]
    BY <1>9, <2>1, InvitationType DEF AcceptRole, AcceptViewer, TypeOK
  <2> QED
    BY <1>9, <2>3, <2>4, <2>5, <2>6, <2>7, <2>8 DEF AcceptRole, AcceptViewer, TypeOK
<1>10. ASSUME NEW p \in Threads, AcceptFails(p)
       PROVE  TypeOK'
  BY <1>10, BecomeType DEF AcceptFails, TypeOK, Request
<1>11. ASSUME NEW p \in Threads, AcceptClose(p)
       PROVE  TypeOK'
  <2>1. req[p].i \in Invitations
    BY <1>11, RequestFields DEF AcceptClose
  <2>2. inv' \in [Invitations -> Invitation]
    BY <1>11, <2>1, InvitationType DEF AcceptClose, TypeOK
  <2> QED
    BY <1>11, <2>2, BecomeType DEF AcceptClose, TypeOK, Request
<1>12. ASSUME NEW p \in Threads, DeleteRoleLoad(p)
       PROVE  TypeOK'
  <2>1. req[p] \in [pc : {"load", "delete"}, r : Custom]
    BY <1>12 DEF DeleteRoleLoad, TypeOK, Request, Idle
  <2>2. Idle \in Request /\ [req[p] EXCEPT !.pc = "delete"] \in Request
    BY <2>1 DEF Request
  <2>3. req' \in [Threads -> Request]
    BY <1>12, <2>2, BecomeType DEF DeleteRoleLoad
  <2> QED
    BY <1>12, <2>3 DEF DeleteRoleLoad, TypeOK
<1>13. ASSUME NEW p \in Threads, DeleteRoleCommit(p)
       PROVE  TypeOK'
  <2> DEFINE c == req[p].r
  <2>1. c \in Custom
    BY <1>13, RequestFields DEF DeleteRoleCommit
  <2>2. req' \in [Threads -> Request]
    BY <1>13, BecomeType DEF DeleteRoleCommit, Request
  <2>3. CASE roles[c] = "live"
    <3>1. inv' \in [Invitations -> Invitation]
      <4>1. ASSUME NEW i \in Invitations
            PROVE  (IF IsInv(i) /\ inv[i].r = c THEN [inv[i] EXCEPT !.r = None] ELSE inv[i])
                      \in Invitation
        BY InvitationType DEF TypeOK
      <4> QED
        BY <1>13, <2>3, <4>1 DEF DeleteRoleCommit
    <3> QED
      BY <1>13, <2>1, <2>2, <2>3, <3>1 DEF DeleteRoleCommit, TypeOK
  <2>4. CASE roles[c] # "live"
    BY <1>13, <2>2, <2>4 DEF DeleteRoleCommit, TypeOK
  <2> QED
    BY <2>3, <2>4
<1>14. ASSUME NEW p \in Threads, AssignCommit(p)
       PROVE  TypeOK'
  <2> DEFINE r == req[p]
             g == Grant(r.u, r.t, r.r)
  <2>1. r.u \in People /\ r.t \in Tenants /\ r.r \in Roles
    BY <1>14, RequestFields DEF AssignCommit
  <2>2. req' \in [Threads -> Request]
    BY <1>14, BecomeType DEF AssignCommit, Request
  <2>3. CASE Insert(g) /\ Mark(r.u, r.t, Other(r.u, r.t))
    BY <1>14, <2>1, <2>2, <2>3, GrantType, InsertType, MarkType, OtherType
       DEF AssignCommit, TypeOK
  <2>4. CASE UNCHANGED <<grants, late, marks>>
    BY <1>14, <2>2, <2>4 DEF AssignCommit, TypeOK
  <2> QED
    BY <1>14, <2>3, <2>4 DEF AssignCommit
<1>15. ASSUME NEW p \in Threads, Crash(p)
       PROVE  TypeOK'
  <2> DEFINE r == req[p]
  <2>1. req' \in [Threads -> Request] /\ mishaps' \in 0..MaxMishaps
    BY <1>15, BecomeType, MishapType DEF Crash, Request
  <2>2. marks' \in [People \X Tenants -> SUBSET Marks]
    <3>1. CASE r.pc \in {"admin", "close"}
      BY <1>15, <3>1, RequestFields, MarkType DEF Crash, Marks
    <3>2. CASE r.pc \notin {"admin", "close"}
      BY <1>15, <3>2 DEF Crash, TypeOK
    <3> QED
      BY <3>1, <3>2
  <2> QED
    BY <1>15, <2>1, <2>2 DEF Crash, TypeOK
<1>16. ASSUME NEW i \in Invitations, Expire(i) \/ DeleteInvitation(i)
       PROVE  TypeOK'
  <2>1. inv' \in [Invitations -> Invitation]
    BY <1>16, InvitationType DEF Expire, DeleteInvitation, Pending, IsInv, TypeOK, Invitation
  <2> QED
    BY <1>16, <2>1 DEF Expire, DeleteInvitation, TypeOK
<1>17. ASSUME NEW c \in Custom, CreateRole(c)
       PROVE  TypeOK'
  BY <1>17 DEF CreateRole, TypeOK
<1>18. ASSUME NEW g \in grants, RemoveRole(g)
       PROVE  TypeOK'
  <2>1. g.u \in People /\ g.t \in Tenants
    BY DEF TypeOK, Grants
  <2>2. marks' \in [People \X Tenants -> SUBSET Marks]
    BY <1>18, <2>1, MarkType DEF RemoveRole, Marks
  <2> QED
    BY <1>18, <2>2, MishapType DEF RemoveRole, TypeOK
<1>19. ASSUME NEW u \in People, NEW t \in Tenants, DeleteTenantUser(u, t)
       PROVE  TypeOK'
  <2>1. marks' \in [People \X Tenants -> SUBSET Marks]
    BY <1>19, MarkType DEF DeleteTenantUser, Marks
  <2> QED
    BY <1>19, <2>1, MishapType DEF DeleteTenantUser, TypeOK
<1>20. CASE UNCHANGED vars
  BY <1>20 DEF vars, TypeOK
<1> QED
  BY <1>1, <1>2, <1>3, <1>4, <1>5, <1>6, <1>7, <1>8, <1>9, <1>10, <1>11, <1>12, <1>13, <1>14,
     <1>15, <1>16, <1>17, <1>18, <1>19, <1>20 DEF Next

\* A step keeps LateOnly if it sends no request to the deletion and changes
\* the grants by an insertion, which the record of late grants sees, or by
\* taking some away.
LEMMA LateKept ==
  ASSUME TypeOK, LateOnly,
         \A p \in Threads : req'[p].pc = "delete" => req'[p] = req[p],
         (\E g : Insert(g)) \/ (grants' \subseteq grants /\ late' = late)
  PROVE  LateOnly'
<1> SUFFICES ASSUME NEW p \in Threads, req'[p].pc = "delete", NEW h \in grants', h.r = req'[p].r
             PROVE  h \in late'
  BY DEF LateOnly, Holders
<1>1. req'[p] = req[p] /\ (h \in grants => h \in late)
  BY DEF LateOnly, Holders
<1>2. CASE grants' \subseteq grants /\ late' = late
  BY <1>1, <1>2
<1>3. CASE \E g : Insert(g)
  <2>1. PICK g : Insert(g)
    BY <1>3
  <2>2. late \subseteq late'
    BY <2>1 DEF Insert
  <2>3. CASE h \in grants
    BY <1>1, <2>2, <2>3
  <2>4. CASE h \notin grants
    <3>1. h = g
      BY <2>1, <2>4 DEF Insert
    <3>2. Deleting(g.r)
      BY <1>1, <3>1 DEF Deleting
    <3> QED
      BY <2>1, <3>1, <3>2 DEF Insert
  <2> QED
    BY <2>3, <2>4
<1> QED
  BY <1>2, <1>3

\* A request that becomes something else than a deletion.
LEMMA BecomeOther ==
  ASSUME TypeOK, NEW p \in Threads, NEW r \in Request, r.pc # "delete", Become(p, r)
  PROVE  \A q \in Threads : req'[q].pc = "delete" => req'[q] = req[q]
  BY DEF TypeOK, Become

LEMMA LateStep == IInv /\ [Next]_vars => LateOnly'
<1> SUFFICES ASSUME TypeOK, LateOnly, [Next]_vars PROVE LateOnly'
  BY DEF IInv
<1> DEFINE Quiet == \A q \in Threads : req'[q].pc = "delete" => req'[q] = req[q]
           Recorded == (\E g : Insert(g)) \/ (grants' \subseteq grants /\ late' = late)
<1> USE DEF At
<1> HIDE DEF Quiet, Recorded
<1>0. Quiet /\ Recorded => LateOnly'
  BY LateKept DEF Quiet, Recorded
<1>1. ASSUME NEW p \in Threads, NEW u \in People, NEW t \in Tenants, Register(p, u, t)
      PROVE  Quiet /\ Recorded
  <2>1. [pc |-> "found", u |-> u, t |-> t] \in Request
    BY DEF Request
  <2> QED
    BY <1>1, <2>1, BecomeOther DEF Register, Quiet, Recorded
<1>2. ASSUME NEW p \in Threads, NEW u \in People, NEW t \in Tenants,
             NEW r \in Roles \cup {None}, Invite(p, u, t, r)
      PROVE  Quiet /\ Recorded
  <2>1. [pc |-> "invite", u |-> u, t |-> t, r |-> r] \in Request
    BY DEF Request
  <2> QED
    BY <1>2, <2>1, BecomeOther DEF Invite, Quiet, Recorded
<1>3. ASSUME NEW p \in Threads, NEW u \in People, NEW t \in Tenants, NEW r \in Roles,
             AssignRole(p, u, t, r)
      PROVE  Quiet /\ Recorded
  <2>1. [pc |-> "assign", u |-> u, t |-> t, r |-> r] \in Request
    BY DEF Request
  <2> QED
    BY <1>3, <2>1, BecomeOther DEF AssignRole, Quiet, Recorded
<1>4. ASSUME NEW p \in Threads, NEW i \in Invitations, InviteCommit(p, i) \/ Accept(p, i)
      PROVE  Quiet /\ Recorded
  <2>1. CASE InviteCommit(p, i)
    BY <2>1, BecomeOther DEF InviteCommit, Request, Idle, Quiet, Recorded
  <2>2. CASE Accept(p, i)
    <3>1. inv[i].u \in People /\ inv[i].t \in Tenants /\ inv[i].r \in Roles \cup {None}
      BY <2>2, InvitationType DEF Accept, Valid, Pending, IsInv
    <3>2. [pc |-> "accept", i |-> i, u |-> inv[i].u, t |-> inv[i].t, r |-> inv[i].r,
           new |-> ~Known(inv[i].u)] \in Request
      BY <3>1 DEF Request
    <3> QED
      BY <2>2, <3>2, BecomeOther DEF Accept, Quiet, Recorded
  <2> QED
    BY <1>4, <2>1, <2>2
<1>5. ASSUME NEW p \in Threads, NEW c \in Custom, DeleteRole(p, c)
      PROVE  Quiet /\ Recorded
  <2>1. [pc |-> "load", r |-> c] \in Request
    BY DEF Request
  <2> QED
    BY <1>5, <2>1, BecomeOther DEF DeleteRole, Quiet, Recorded
<1>6. ASSUME NEW p \in Threads, RegisterFound(p)
      PROVE  Quiet /\ Recorded
  <2> DEFINE r == req[p]
  <2>1. r \in [pc : {"found", "admin"}, u : People, t : Tenants]
    BY <1>6 DEF RegisterFound, TypeOK, Request, Idle
  <2>2. Idle \in Request /\ [r EXCEPT !.pc = "admin"] \in Request
    BY <2>1 DEF Request
  <2>3. Become(p, Idle) \/ Become(p, [r EXCEPT !.pc = "admin"])
    BY <1>6 DEF RegisterFound
  <2>4. Idle.pc # "delete" /\ [r EXCEPT !.pc = "admin"].pc # "delete"
    BY <2>1 DEF Idle
  <2> QED
    BY <1>6, <2>2, <2>3, <2>4, BecomeOther DEF RegisterFound, Quiet, Recorded
<1>7. ASSUME NEW p \in Threads, RegisterAdmin(p) \/ AssignCommit(p)
      PROVE  Quiet /\ Recorded
  BY <1>7, BecomeOther DEF RegisterAdmin, AssignCommit, Request, Idle, Quiet, Recorded
<1>8. ASSUME NEW p \in Threads, AcceptRole(p) \/ AcceptViewer(p)
      PROVE  Quiet /\ Recorded
  <2> DEFINE r == req[p]
  <2>1. r \in [pc : {"accept", "close"}, i : Invitations, u : People, t : Tenants,
               r : Roles \cup {None}, new : BOOLEAN]
    BY <1>8 DEF AcceptRole, AcceptViewer, TypeOK, Request, Idle
  <2>2. Idle \in Request /\ [r EXCEPT !.pc = "close"] \in Request
    BY <2>1 DEF Request
  <2>3. Become(p, Idle) \/ Become(p, [r EXCEPT !.pc = "close"])
    BY <1>8 DEF AcceptRole, AcceptViewer
  <2>4. Idle.pc # "delete" /\ [r EXCEPT !.pc = "close"].pc # "delete"
    BY <2>1 DEF Idle
  <2>5. Recorded
    BY <1>8 DEF AcceptRole, AcceptViewer, Recorded
  <2> QED
    BY <2>2, <2>3, <2>4, <2>5, BecomeOther DEF Quiet
<1>9. ASSUME NEW p \in Threads, AcceptFails(p) \/ AcceptClose(p) \/ Crash(p)
      PROVE  Quiet /\ Recorded
  BY <1>9, BecomeOther DEF AcceptFails, AcceptClose, Crash, Request, Idle, Quiet, Recorded
<1>10. ASSUME NEW p \in Threads, DeleteRoleLoad(p)
       PROVE  LateOnly'
  <2>1. req[p] \in [pc : {"load", "delete"}, r : Custom]
    BY <1>10 DEF DeleteRoleLoad, TypeOK, Request, Idle
  <2>2. UNCHANGED <<grants, late>>
    BY <1>10 DEF DeleteRoleLoad
  <2>3. CASE Holders(req[p].r) = {}
    <3> DEFINE d == [req[p] EXCEPT !.pc = "delete"]
    <3>1. req' = [req EXCEPT ![p] = d] /\ d.r = req[p].r
      BY <1>10, <2>1, <2>3 DEF DeleteRoleLoad, Become
    <3>2. ASSUME NEW q \in Threads, req'[q].pc = "delete"
          PROVE  \/ req'[q] = req[q]
                 \/ req'[q].r = req[p].r
      BY <3>1 DEF TypeOK
    <3> HIDE DEF d
    <3>3. ASSUME NEW q \in Threads, req'[q].pc = "delete", NEW h \in grants, h.r = req'[q].r
          PROVE  h \in late
      <4>1. CASE req'[q] = req[q]
        BY <3>3, <4>1 DEF LateOnly, Holders
      <4>2. CASE req'[q].r = req[p].r
        BY <2>3, <3>3, <4>2 DEF Holders
      <4> QED
        BY <3>2, <3>3, <4>1, <4>2
    <3> QED
      BY <2>2, <3>3 DEF LateOnly, Holders
  <2>4. CASE Holders(req[p].r) # {}
    BY <1>0, <1>10, <2>2, <2>4, BecomeOther DEF DeleteRoleLoad, Request, Idle, Quiet, Recorded
  <2> QED
    BY <2>3, <2>4
<1>11. ASSUME NEW p \in Threads, DeleteRoleCommit(p)
       PROVE  Quiet /\ Recorded
  <2>1. grants' \subseteq grants /\ late' = late
    BY <1>11 DEF DeleteRoleCommit
  <2> QED
    BY <1>11, <2>1, BecomeOther DEF DeleteRoleCommit, Request, Idle, Quiet, Recorded
<1>12. ASSUME NEW i \in Invitations, Expire(i) \/ DeleteInvitation(i)
       PROVE  Quiet /\ Recorded
  BY <1>12 DEF Expire, DeleteInvitation, Quiet, Recorded
<1>13. ASSUME NEW c \in Custom, CreateRole(c)
       PROVE  Quiet /\ Recorded
  BY <1>13 DEF CreateRole, Quiet, Recorded
<1>14. ASSUME NEW g \in grants, RemoveRole(g)
       PROVE  Quiet /\ Recorded
  BY <1>14 DEF RemoveRole, Quiet, Recorded
<1>15. ASSUME NEW u \in People, NEW t \in Tenants, DeleteTenantUser(u, t)
       PROVE  Quiet /\ Recorded
  BY <1>15 DEF DeleteTenantUser, Quiet, Recorded
<1>16. CASE UNCHANGED vars
  BY <1>0, <1>16 DEF vars, Quiet, Recorded
<1> QED
  BY <1>0, <1>1, <1>2, <1>3, <1>4, <1>5, <1>6, <1>7, <1>8, <1>9, <1>10, <1>11, <1>12, <1>13,
     <1>14, <1>15, <1>16 DEF Next

\* Every reachable state is well typed, and who holds a role that is about to
\* be deleted is on record as having received it meanwhile.
THEOREM TypeCorrect == Spec => [](TypeOK /\ LateOnly)
<1>1. IInv /\ [Next]_vars => IInv'
  BY TypeStep, LateStep DEF IInv
<1> QED
  BY InitIInv, <1>1, PTL DEF Spec, IInv

\* The commit of a deletion is the only step that takes a role out of the
\* table, and it is taken by a request to which LateOnly applies.
LEMMA DeleteTakesLate ==
  ASSUME IInv, [Next]_vars, NEW g \in grants,
         g.r \in Custom, roles[g.r] = "live", roles'[g.r] = "gone"
  PROVE  g \in late
<1> USE DEF At
<1>1. ASSUME NEW p \in Threads, DeleteRoleCommit(p)
      PROVE  g \in late
  <2>1. g.r = req[p].r
    BY <1>1 DEF DeleteRoleCommit, IInv, TypeOK
  <2> QED
    BY <1>1, <2>1 DEF DeleteRoleCommit, IInv, LateOnly, Holders
<1>2. ASSUME NEW c \in Custom, CreateRole(c)
      PROVE  FALSE
  BY <1>2 DEF CreateRole, IInv, TypeOK
<1>3. ASSUME NEW p \in Threads, NEW u \in People, NEW t \in Tenants, Register(p, u, t)
      PROVE  UNCHANGED roles
  BY <1>3 DEF Register
<1>4. ASSUME NEW p \in Threads, NEW u \in People, NEW t \in Tenants, NEW r,
             Invite(p, u, t, r) \/ AssignRole(p, u, t, r)
      PROVE  UNCHANGED roles
  BY <1>4 DEF Invite, AssignRole
<1>5. ASSUME NEW p \in Threads, NEW i \in Invitations, InviteCommit(p, i) \/ Accept(p, i)
      PROVE  UNCHANGED roles
  BY <1>5 DEF InviteCommit, Accept
<1>6. ASSUME NEW p \in Threads, NEW c \in Custom, DeleteRole(p, c)
      PROVE  UNCHANGED roles
  BY <1>6 DEF DeleteRole
<1>7. ASSUME NEW p \in Threads,
             \/ RegisterFound(p) \/ RegisterAdmin(p) \/ AcceptRole(p) \/ AcceptViewer(p)
             \/ AcceptFails(p) \/ AcceptClose(p) \/ DeleteRoleLoad(p) \/ AssignCommit(p)
             \/ Crash(p)
      PROVE  UNCHANGED roles
  BY <1>7 DEF RegisterFound, RegisterAdmin, AcceptRole, AcceptViewer, AcceptFails, AcceptClose,
              DeleteRoleLoad, AssignCommit, Crash
<1>8. ASSUME NEW i \in Invitations, Expire(i) \/ DeleteInvitation(i)
      PROVE  UNCHANGED roles
  BY <1>8 DEF Expire, DeleteInvitation
<1>9. ASSUME NEW h \in grants, RemoveRole(h)
      PROVE  UNCHANGED roles
  BY <1>9 DEF RemoveRole
<1>10. ASSUME NEW u \in People, NEW t \in Tenants, DeleteTenantUser(u, t)
       PROVE  UNCHANGED roles
  BY <1>10 DEF DeleteTenantUser
<1>11. CASE UNCHANGED vars
  BY <1>11 DEF vars
<1> QED
  BY <1>1, <1>2, <1>3, <1>4, <1>5, <1>6, <1>7, <1>8, <1>9, <1>10, <1>11 DEF Next

\* Deleting a role takes it from no one but those who received it while it
\* was being deleted.
THEOREM DeletionTakesLateOnly == Spec => RoleDeletedUnused
<1> DEFINE Taken == \A g \in grants :
                       g.r \in Custom /\ roles[g.r] = "live" /\ roles'[g.r] = "gone" => g \in late
<1>1. IInv /\ [Next]_vars => [Taken]_vars
  BY DeleteTakesLate
<1>2. Spec => []IInv
  BY TypeCorrect, PTL DEF IInv
<1> QED
  BY <1>1, <1>2, PTL DEF Spec, RoleDeletedUnused

-----------------------------------------------------------------------------
(* What can change each variable, and how.                                 *)

HomeCause ==
    \/ UNCHANGED home
    \/ \E p \in Threads : RegisterFound(p) \/ AcceptRole(p) \/ AcceptViewer(p)
GainCause ==
    \/ grants' \subseteq grants
    \/ \E p \in Threads : RegisterAdmin(p) \/ AcceptRole(p) \/ AcceptViewer(p) \/ AssignCommit(p)
LossCause ==
    \/ grants \subseteq grants'
    \/ \E p \in Threads : DeleteRoleCommit(p)
    \/ \E g \in grants : RemoveRole(g)
    \/ \E u \in People, t \in Tenants : DeleteTenantUser(u, t)
RolesCause ==
    \/ UNCHANGED roles
    \/ \E p \in Threads : DeleteRoleCommit(p)
    \/ \E c \in Custom : CreateRole(c)
InvCause ==
    \/ UNCHANGED inv
    \/ \E p \in Threads, i \in Invitations : InviteCommit(p, i)
    \/ \E p \in Threads : AcceptRole(p) \/ AcceptClose(p) \/ DeleteRoleCommit(p)
    \/ \E i \in Invitations : Expire(i) \/ DeleteInvitation(i)
GivenCause ==
    \/ UNCHANGED given
    \/ \E p \in Threads : AcceptRole(p) \/ AcceptViewer(p)
LateCause == UNCHANGED late \/ \E g \in Grants : Insert(g)
MarksCause ==
    \/ UNCHANGED marks
    \/ \E u \in People, t \in Tenants, S \in SUBSET Marks : Mark(u, t, S)

\* The steps of a request, by what it is about to do.
Starts(p) ==
    \/ \E u \in People, t \in Tenants :
        \/ Register(p, u, t)
        \/ \E r \in Roles \cup {None} : Invite(p, u, t, r)
        \/ \E r \in Roles : AssignRole(p, u, t, r)
    \/ \E i \in Invitations : Accept(p, i)
    \/ \E c \in Custom : DeleteRole(p, c)
Finishes(p) ==
    \/ \E i \in Invitations : InviteCommit(p, i)
    \/ RegisterAdmin(p) \/ AcceptRole(p) \/ AcceptFails(p) \/ AcceptClose(p)
    \/ DeleteRoleCommit(p) \/ AssignCommit(p) \/ Crash(p)
ReqCause ==
    \/ UNCHANGED req
    \/ \E p \in Threads : Starts(p) \/ Finishes(p) \/ RegisterFound(p) \/ AcceptViewer(p)
                            \/ DeleteRoleLoad(p)

Causes == /\ HomeCause /\ GainCause /\ LossCause /\ RolesCause
          /\ InvCause /\ GivenCause /\ LateCause /\ MarksCause /\ ReqCause

LEMMA StepCauses == TypeOK /\ [Next]_vars => Causes
<1> SUFFICES ASSUME TypeOK, [Next]_vars PROVE Causes
  OBVIOUS
<1> USE DEF At, Causes, HomeCause, GainCause, LossCause, RolesCause, InvCause, GivenCause, LateCause
<1>1. ASSUME NEW p \in Threads, Starts(p)
      PROVE  Causes
  <2>1. ReqCause
    BY <1>1 DEF ReqCause
  <2>2. CASE \E u \in People, t \in Tenants, r \in Roles \cup {None} : Invite(p, u, t, r)
    <3>1. PICK u \in People, t \in Tenants, r \in Roles \cup {None} : Invite(p, u, t, r)
      BY <2>2
    <3>2. MarksCause
      <4> DEFINE S == IF \E q \in Threads : At(q, "invite") /\ req[q].u = u /\ req[q].t = t
                      THEN {"overlap"} ELSE {}
      <4>1. S \in SUBSET Marks
        BY DEF Marks
      <4>2. Mark(u, t, S)
        BY <3>1 DEF Invite
      <4> QED
        BY <4>1, <4>2 DEF MarksCause
    <3>3. UNCHANGED <<home, roles, grants, inv, given, late>>
      BY <3>1 DEF Invite
    <3> QED
      BY <2>1, <3>2, <3>3
  <2>3. ASSUME NEW u \in People, NEW t \in Tenants, Register(p, u, t)
        PROVE  UNCHANGED <<home, roles, grants, inv, given, late, marks>>
    BY <2>3 DEF Register
  <2>4. ASSUME NEW u \in People, NEW t \in Tenants, NEW r \in Roles, AssignRole(p, u, t, r)
        PROVE  UNCHANGED <<home, roles, grants, inv, given, late, marks>>
    BY <2>4 DEF AssignRole
  <2>5. ASSUME NEW i \in Invitations, Accept(p, i)
        PROVE  UNCHANGED <<home, roles, grants, inv, given, late, marks>>
    BY <2>5 DEF Accept
  <2>6. ASSUME NEW c \in Custom, DeleteRole(p, c)
        PROVE  UNCHANGED <<home, roles, grants, inv, given, late, marks>>
    BY <2>6 DEF DeleteRole
  <2>7. CASE UNCHANGED <<home, roles, grants, inv, given, late, marks>>
    BY <2>1, <2>7 DEF MarksCause
  <2> QED
    BY <1>1, <2>2, <2>3, <2>4, <2>5, <2>6, <2>7 DEF Starts
<1>2. ASSUME NEW p \in Threads, NEW i \in Invitations, InviteCommit(p, i)
      PROVE  Causes
  <2>1. req[p].u \in People /\ req[p].t \in Tenants
    BY <1>2, RequestFields DEF InviteCommit
  <2>2. MarksCause
    <3> DEFINE S == IF GrantsOf(req[p].u, req[p].t) # {} \/ home[req[p].u] = req[p].t
                    THEN {"other"} ELSE {}
    <3>1. S \in SUBSET Marks
      BY DEF Marks
    <3>2. Mark(req[p].u, req[p].t, S) \/ UNCHANGED marks
      BY <1>2 DEF InviteCommit
    <3> HIDE DEF S
    <3> QED
      BY <2>1, <3>1, <3>2 DEF MarksCause
  <2>3. UNCHANGED <<home, roles, grants, given, late>>
    BY <1>2 DEF InviteCommit
  <2>4. ReqCause
    BY <1>2 DEF ReqCause, Finishes
  <2> QED
    BY <1>2, <2>2, <2>3, <2>4
<1>3. ASSUME NEW p \in Threads, RegisterFound(p)
      PROVE  Causes
  <2>1. req[p].u \in People /\ req[p].t \in Tenants
    BY <1>3, RequestFields DEF RegisterFound
  <2>2. MarksCause
    <3>1. Mark(req[p].u, req[p].t, Other(req[p].u, req[p].t)) \/ UNCHANGED marks
      BY <1>3 DEF RegisterFound
    <3> QED
      BY <2>1, <3>1, OtherType DEF MarksCause
  <2>3. UNCHANGED <<roles, grants, inv, given, late>>
    BY <1>3 DEF RegisterFound
  <2> QED
    BY <1>3, <2>2, <2>3 DEF ReqCause
<1>4. ASSUME NEW p \in Threads, RegisterAdmin(p)
      PROVE  Causes
  <2>1. Grant(req[p].u, req[p].t, Admin) \in Grants
    BY <1>4, RequestFields, GrantType DEF RegisterAdmin, Roles
  <2>2. LossCause /\ LateCause
    BY <1>4, <2>1 DEF RegisterAdmin, Insert
  <2>3. UNCHANGED <<home, roles, inv, given, marks>>
    BY <1>4 DEF RegisterAdmin
  <2> QED
    BY <1>4, <2>2, <2>3 DEF MarksCause, ReqCause, Finishes
<1>5. ASSUME NEW p \in Threads, AcceptRole(p) \/ AcceptViewer(p)
      PROVE  Causes
  <2> DEFINE r == req[p]
             role == IF r.r = None THEN Viewer ELSE r.r
             S == IF PendingOf(r.u, r.t) \ {r.i} # {} THEN {"other"} ELSE {}
  <2>1. r.u \in People /\ r.t \in Tenants /\ r.r \in Roles \cup {None}
    BY <1>5, RequestFields DEF AcceptRole, AcceptViewer
  <2>2. Grant(r.u, r.t, role) \in Grants
    BY <2>1, GrantType DEF Roles
  <2>3. Insert(Grant(r.u, r.t, role))
    BY <1>5 DEF AcceptRole, AcceptViewer
  <2>4. LossCause /\ LateCause
    BY <2>2, <2>3 DEF Insert
  <2>5. MarksCause
    <3>1. S \in SUBSET Marks
      BY DEF Marks
    <3>2. Mark(r.u, r.t, S)
      BY <1>5 DEF AcceptRole, AcceptViewer, Given
    <3> QED
      BY <2>1, <3>1, <3>2 DEF MarksCause
  <2>6. InvCause /\ UNCHANGED roles
    BY <1>5 DEF AcceptRole, AcceptViewer
  <2>7. ReqCause
    BY <1>5 DEF ReqCause, Finishes
  <2> QED
    BY <1>5, <2>4, <2>5, <2>6, <2>7
<1>6. ASSUME NEW p \in Threads, AcceptFails(p) \/ DeleteRoleLoad(p)
      PROVE  Causes
  <2>1. UNCHANGED <<home, roles, grants, inv, given, late, marks>>
    BY <1>6 DEF AcceptFails, DeleteRoleLoad
  <2> QED
    BY <1>6, <2>1 DEF MarksCause, ReqCause, Finishes
<1>7. ASSUME NEW p \in Threads, AcceptClose(p) \/ DeleteRoleCommit(p)
      PROVE  Causes
  <2>1. UNCHANGED <<home, given, late, marks>> /\ grants' \subseteq grants
    BY <1>7 DEF AcceptClose, DeleteRoleCommit
  <2>2. LossCause /\ RolesCause
    BY <1>7 DEF AcceptClose
  <2> QED
    BY <1>7, <2>1, <2>2 DEF MarksCause, ReqCause, Finishes
<1>8. ASSUME NEW p \in Threads, AssignCommit(p)
      PROVE  Causes
  <2> DEFINE r == req[p]
             g == Grant(r.u, r.t, r.r)
  <2>1. r.u \in People /\ r.t \in Tenants /\ g \in Grants
    BY <1>8, RequestFields, GrantType DEF AssignCommit
  <2>2. CASE Insert(g) /\ Mark(r.u, r.t, Other(r.u, r.t))
    <3>1. LossCause /\ LateCause
      BY <2>1, <2>2 DEF Insert
    <3>2. MarksCause
      BY <2>1, <2>2, OtherType DEF MarksCause
    <3>3. UNCHANGED <<home, roles, inv, given>>
      BY <1>8 DEF AssignCommit
    <3> QED
      BY <1>8, <3>1, <3>2, <3>3 DEF ReqCause, Finishes
  <2>3. CASE UNCHANGED <<grants, late, marks>>
    <3>1. UNCHANGED <<home, roles, inv, given>>
      BY <1>8 DEF AssignCommit
    <3> QED
      BY <1>8, <2>3, <3>1 DEF MarksCause, ReqCause, Finishes
  <2> QED
    BY <1>8, <2>2, <2>3 DEF AssignCommit
<1>9. ASSUME NEW p \in Threads, Crash(p)
      PROVE  Causes
  <2>1. MarksCause
    <3>1. CASE req[p].pc \in {"admin", "close"}
      BY <1>9, <3>1, RequestFields DEF Crash, MarksCause, Marks
    <3>2. CASE req[p].pc \notin {"admin", "close"}
      BY <1>9, <3>2 DEF Crash, MarksCause
    <3> QED
      BY <3>1, <3>2
  <2>2. UNCHANGED <<home, roles, grants, inv, given, late>>
    BY <1>9 DEF Crash
  <2> QED
    BY <1>9, <2>1, <2>2 DEF ReqCause, Finishes
<1>10. ASSUME NEW i \in Invitations, Expire(i) \/ DeleteInvitation(i)
       PROVE  Causes
  <2>1. UNCHANGED <<home, roles, grants, req, given, late, marks>>
    BY <1>10 DEF Expire, DeleteInvitation
  <2> QED
    BY <1>10, <2>1 DEF MarksCause, ReqCause
<1>11. ASSUME NEW c \in Custom, CreateRole(c)
       PROVE  Causes
  <2>1. UNCHANGED <<home, grants, inv, req, given, late, marks>>
    BY <1>11 DEF CreateRole
  <2> QED
    BY <1>11, <2>1 DEF MarksCause, ReqCause
<1>12. ASSUME NEW g \in grants, RemoveRole(g)
       PROVE  Causes
  <2>1. g.u \in People /\ g.t \in Tenants
    BY DEF TypeOK, Grants
  <2>2. MarksCause
    BY <1>12, <2>1 DEF RemoveRole, MarksCause, Marks
  <2>3. UNCHANGED <<home, roles, inv, req, given, late>> /\ grants' \subseteq grants
    BY <1>12 DEF RemoveRole
  <2> QED
    BY <1>12, <2>2, <2>3 DEF ReqCause
<1>13. ASSUME NEW u \in People, NEW t \in Tenants, DeleteTenantUser(u, t)
       PROVE  Causes
  <2>1. MarksCause
    BY <1>13 DEF DeleteTenantUser, MarksCause, Marks
  <2>2. UNCHANGED <<home, roles, inv, req, given, late>> /\ grants' \subseteq grants
    BY <1>13 DEF DeleteTenantUser
  <2> QED
    BY <1>13, <2>1, <2>2 DEF ReqCause
<1>14. CASE UNCHANGED vars
  BY <1>14 DEF vars, MarksCause, ReqCause
<1> QED
  BY <1>1, <1>2, <1>3, <1>4, <1>5, <1>6, <1>7, <1>8, <1>9, <1>10, <1>11, <1>12, <1>13, <1>14
     DEF Next, Starts

\* An account keeps its home; a home is given by the request that makes the
\* account.
LEMMA HomeStep ==
  ASSUME TypeOK, [Next]_vars, NEW u \in People
  PROVE  \/ home'[u] = home[u]
         \/ /\ home[u] = None
            /\ \E p \in Threads :
                /\ req[p].u = u /\ home'[u] = req[p].t /\ req[p].t \in Tenants
                /\ RegisterFound(p) \/ AcceptRole(p) \/ AcceptViewer(p)
<1>1. HomeCause
  BY StepCauses DEF Causes
<1>2. ASSUME NEW p \in Threads, RegisterFound(p) \/ AcceptRole(p) \/ AcceptViewer(p)
      PROVE  /\ req[p].u \in People /\ req[p].t \in Tenants
             /\ \/ UNCHANGED home
                \/ ~Known(req[p].u) /\ home' = [home EXCEPT ![req[p].u] = req[p].t]
  BY <1>2, RequestFields DEF RegisterFound, AcceptRole, AcceptViewer, Account, At
<1>3. ASSUME NEW p \in Threads, RegisterFound(p) \/ AcceptRole(p) \/ AcceptViewer(p),
             home'[u] # home[u]
      PROVE  home[u] = None /\ req[p].u = u /\ home'[u] = req[p].t /\ req[p].t \in Tenants
  BY <1>2, <1>3 DEF TypeOK, Known
<1> QED
  BY <1>1, <1>3 DEF HomeCause

LEMMA HomeKept == ASSUME TypeOK, [Next]_vars, NEW u \in People, Known(u)
                  PROVE  home'[u] = home[u]
  BY HomeStep DEF Known

\* Marks are never taken back.
LEMMA MarksKept == ASSUME TypeOK, [Next]_vars, NEW u \in People, NEW t \in Tenants
                   PROVE  marks[<<u, t>>] \subseteq marks'[<<u, t>>]
  BY StepCauses DEF Causes, MarksCause, Mark, TypeOK

LEMMA MarkAdds == ASSUME TypeOK, NEW u \in People, NEW t \in Tenants, NEW S, Mark(u, t, S)
                  PROVE  S \subseteq marks'[<<u, t>>]
  BY DEF Mark, TypeOK

LEMMA LateKeeps == ASSUME TypeOK, [Next]_vars PROVE late \subseteq late'
  BY StepCauses DEF Causes, LateCause, Insert

\* A role that has been created stays so, and one that is deleted is not
\* created again.
LEMMA RolesStep ==
  ASSUME TypeOK, [Next]_vars, NEW c \in Custom
  PROVE  /\ roles[c] # "unused" => roles'[c] # "unused"
         /\ roles[c] = "gone" => roles'[c] = "gone"
<1>1. RolesCause
  BY StepCauses DEF Causes
<1>2. ASSUME NEW p \in Threads, DeleteRoleCommit(p)
      PROVE  UNCHANGED roles \/ \E d \in Custom : roles' = [roles EXCEPT ![d] = "gone"]
  BY <1>2, RequestFields DEF DeleteRoleCommit, At
<1> QED
  BY <1>1, <1>2 DEF RolesCause, CreateRole, TypeOK

\* A grant is taken away with a mark, or with its role.
LEMMA GrantsLost ==
  ASSUME TypeOK, [Next]_vars, NEW g \in grants, g \notin grants'
  PROVE  \/ "removed" \in marks'[<<g.u, g.t>>]
         \/ g.r \in Custom /\ roles[g.r] = "live" /\ roles'[g.r] = "gone"
<1>1. LossCause
  BY StepCauses DEF Causes
<1>2. g.u \in People /\ g.t \in Tenants
  BY DEF TypeOK, Grants
<1>3. ASSUME NEW p \in Threads, DeleteRoleCommit(p)
      PROVE  g.r \in Custom /\ roles[g.r] = "live" /\ roles'[g.r] = "gone"
  BY <1>3, RequestFields DEF DeleteRoleCommit, At, Holders, TypeOK
<1>4. ASSUME NEW h \in grants, RemoveRole(h)
      PROVE  "removed" \in marks'[<<g.u, g.t>>]
  <2>1. h = g
    BY <1>4 DEF RemoveRole
  <2> QED
    BY <1>2, <1>4, <2>1, MarkAdds DEF RemoveRole
<1>5. ASSUME NEW u \in People, NEW t \in Tenants, DeleteTenantUser(u, t)
      PROVE  "removed" \in marks'[<<g.u, g.t>>]
  <2>1. g.u = u /\ g.t = t
    BY <1>5 DEF DeleteTenantUser, GrantsOf
  <2> QED
    BY <1>5, <2>1, MarkAdds DEF DeleteTenantUser
<1> QED
  BY <1>1, <1>3, <1>4, <1>5 DEF LossCause

\* A grant is made by a request, to the person and in the tenant it is about.
LEMMA GrantsGained ==
  ASSUME TypeOK, [Next]_vars, NEW g \in grants', g \notin grants
  PROVE  \E p \in Threads :
            /\ req[p].u = g.u /\ req[p].t = g.t
            /\ \/ RegisterAdmin(p)
               \/ AcceptRole(p) \/ AcceptViewer(p)
               \/ AssignCommit(p) /\ Mark(g.u, g.t, Other(g.u, g.t))
<1>1. PICK p \in Threads : \/ RegisterAdmin(p)
                           \/ AcceptRole(p) \/ AcceptViewer(p) \/ AssignCommit(p)
  BY StepCauses DEF Causes, GainCause
<1>2. CASE RegisterAdmin(p)
  <2>1. g = Grant(req[p].u, req[p].t, Admin)
    BY <1>2 DEF RegisterAdmin, Insert
  <2> QED
    BY <1>2, <2>1 DEF Grant
<1>3. CASE AcceptRole(p) \/ AcceptViewer(p)
  <2>1. g = Offer(req[p])
    BY <1>3 DEF AcceptRole, AcceptViewer, Insert, Offer
  <2> QED
    BY <1>3, <2>1 DEF Grant, Offer
<1>4. CASE AssignCommit(p)
  <2>1. /\ g = Grant(req[p].u, req[p].t, req[p].r)
        /\ Mark(req[p].u, req[p].t, Other(req[p].u, req[p].t))
    BY <1>4 DEF AssignCommit, Insert
  <2>2. g.u = req[p].u /\ g.t = req[p].t
    BY <2>1 DEF Grant
  <2>3. Mark(g.u, g.t, Other(g.u, g.t))
    BY <2>1, <2>2
  <2> QED
    BY <1>4, <2>2, <2>3
<1> QED
  BY <1>1, <1>2, <1>3, <1>4

\* What an acceptance does to the tables.
LEMMA AcceptDoes ==
  ASSUME TypeOK, NEW p \in Threads, AcceptRole(p) \/ AcceptViewer(p)
  PROVE  LET r == req[p] IN
         /\ At(p, "accept")
         /\ r.u \in People /\ r.t \in Tenants /\ r.i \in Invitations /\ r.new \in BOOLEAN
         /\ r.r \in Roles \cup {None}
         /\ Offer(r) \notin grants /\ Offer(r) \in grants'
         /\ r.r # None => Exists(r.r)
         /\ roles' = roles
         /\ given' = [given EXCEPT ![r.i] = @ + 1]
         /\ Mark(r.u, r.t, IF PendingOf(r.u, r.t) \ {r.i} # {} THEN {"other"} ELSE {})
         /\ r.new => home'[r.u] = r.t
<1> DEFINE r == req[p]
<1>1. /\ At(p, "accept")
      /\ r.u \in People /\ r.t \in Tenants /\ r.i \in Invitations /\ r.new \in BOOLEAN
      /\ r.r \in Roles \cup {None}
  BY RequestFields DEF AcceptRole, AcceptViewer, At
<1>2. Insert(Offer(r)) /\ Given(r) /\ Account(r) /\ roles' = roles
  BY DEF AcceptRole, AcceptViewer, Offer
<1>3. Offer(r) \notin grants /\ Offer(r) \in grants'
  BY <1>2 DEF Insert
<1>4. r.r # None => Exists(r.r)
  BY DEF AcceptRole, AcceptViewer, Insert, Grant
<1>5. /\ given' = [given EXCEPT ![r.i] = @ + 1]
      /\ Mark(r.u, r.t, IF PendingOf(r.u, r.t) \ {r.i} # {} THEN {"other"} ELSE {})
  BY <1>2 DEF Given
<1>6. r.new => home'[r.u] = r.t
  BY <1>1, <1>2 DEF Account, TypeOK
<1> QED
  BY <1>1, <1>2, <1>3, <1>4, <1>5, <1>6

\* An invitation that has been sent keeps its addressee as long as it is
\* there, and its role unless that is deleted.
Keeps(i) ==
    /\ inv[i].st # "unused" => inv'[i].st # "unused"
    /\ IsInv(i)' => /\ IsInv(i)
                    /\ inv'[i].u = inv[i].u /\ inv'[i].t = inv[i].t
                    /\ \/ inv'[i].r = inv[i].r
                       \/ /\ inv'[i].r = None
                          /\ inv[i].r \in Custom /\ roles'[inv[i].r] = "gone"
    /\ Pending(i)' => Pending(i)
    /\ inv'[i].st = "unused" => inv[i].st = "unused"
    /\ inv'[i].st = "used" =>
          \/ inv[i].st = "used"
          \/ \E p \in Threads : req[p].i = i /\ (AcceptRole(p) \/ AcceptClose(p))

Sends(p, i) ==
    /\ InviteCommit(p, i)
    /\ inv[i].st = "unused"
    /\ req[p].u \in People /\ req[p].t \in Tenants
    /\ inv'[i] = [st |-> "pending", u |-> req[p].u, t |-> req[p].t, r |-> req[p].r,
                  expired |-> FALSE]
    /\ Mark(req[p].u, req[p].t,
            IF GrantsOf(req[p].u, req[p].t) # {} \/ home[req[p].u] = req[p].t
            THEN {"other"} ELSE {})

LEMMA InvitationStep ==
  ASSUME TypeOK, [Next]_vars, NEW i \in Invitations
  PROVE  Keeps(i) \/ \E p \in Threads : Sends(p, i)
<1>1. InvCause
  BY StepCauses DEF Causes
<1>3. inv'[i] = inv[i] => Keeps(i)
  BY DEF Keeps, IsInv, Pending
<1>4. ASSUME NEW p \in Threads, AcceptRole(p) \/ AcceptClose(p)
      PROVE  Keeps(i)
  <2>1. req[p].i \in Invitations
    BY <1>4, RequestFields DEF AcceptRole, AcceptClose, At
  <2>2. CASE inv'[i] = inv[i]
    BY <1>3, <2>2
  <2>3. CASE inv'[i] # inv[i]
    <3>1. req[p].i = i /\ IsInv(i) /\ inv'[i] = [inv[i] EXCEPT !.st = "used"]
      BY <1>4, <2>1, <2>3 DEF AcceptRole, AcceptClose, TypeOK
    <3>2. inv[i] \in [st : {"pending", "used"}, u : People, t : Tenants,
                      r : Roles \cup {None}, expired : BOOLEAN]
      BY <3>1 DEF TypeOK, Invitation, IsInv, Unused, Gone
    <3>3. /\ inv'[i].st = "used" /\ inv'[i].u = inv[i].u /\ inv'[i].t = inv[i].t
          /\ inv'[i].r = inv[i].r
      BY <3>1, <3>2
    <3> QED
      BY <1>4, <3>1, <3>3 DEF Keeps, IsInv, Pending
  <2> QED
    BY <2>2, <2>3
<1>5. ASSUME NEW p \in Threads, DeleteRoleCommit(p)
      PROVE  Keeps(i)
  <2>1. CASE inv'[i] = inv[i]
    BY <1>3, <2>1
  <2>2. CASE inv'[i] # inv[i]
    <3>1. /\ IsInv(i) /\ inv'[i] = [inv[i] EXCEPT !.r = None]
          /\ inv[i].r = req[p].r /\ roles' = [roles EXCEPT ![req[p].r] = "gone"]
      BY <1>5, <2>2 DEF DeleteRoleCommit
    <3>2. inv[i] \in [st : {"pending", "used"}, u : People, t : Tenants,
                      r : Roles \cup {None}, expired : BOOLEAN]
      BY <3>1 DEF TypeOK, Invitation, IsInv, Unused, Gone
    <3>3. /\ inv'[i].st = inv[i].st /\ inv'[i].u = inv[i].u /\ inv'[i].t = inv[i].t
          /\ inv'[i].r = None
      BY <3>1, <3>2
    <3>4. inv[i].r \in Custom /\ roles'[inv[i].r] = "gone"
      BY <1>5, <3>1, RequestFields DEF DeleteRoleCommit, At, TypeOK
    <3> QED
      BY <3>1, <3>3, <3>4 DEF Keeps, IsInv, Pending
  <2> QED
    BY <2>1, <2>2
<1>6. ASSUME NEW j \in Invitations, Expire(j) \/ DeleteInvitation(j)
      PROVE  Keeps(i)
  <2>1. CASE inv'[i] = inv[i]
    BY <1>3, <2>1
  <2>2. CASE inv'[i] # inv[i]
    <3>1. /\ j = i /\ IsInv(i)
          /\ inv'[i] = Gone \/ inv'[i] = [inv[i] EXCEPT !.expired = TRUE]
      BY <1>6, <2>2 DEF Expire, DeleteInvitation, Pending, IsInv, TypeOK
    <3>2. inv[i] \in [st : {"pending", "used"}, u : People, t : Tenants,
                      r : Roles \cup {None}, expired : BOOLEAN]
      BY <3>1 DEF TypeOK, Invitation, IsInv, Unused, Gone
    <3>3. CASE inv'[i] = Gone
      BY <3>3 DEF Keeps, Gone, IsInv, Pending
    <3>4. CASE inv'[i] = [inv[i] EXCEPT !.expired = TRUE]
      <4>1. /\ inv'[i].st = inv[i].st /\ inv'[i].u = inv[i].u /\ inv'[i].t = inv[i].t
            /\ inv'[i].r = inv[i].r
        BY <3>2, <3>4
      <4> QED
        BY <4>1 DEF Keeps, IsInv, Pending
    <3> QED
      BY <3>1, <3>3, <3>4
  <2> QED
    BY <2>1, <2>2
<1>7. ASSUME NEW p \in Threads, NEW j \in Invitations, InviteCommit(p, j)
      PROVE  Keeps(i) \/ Sends(p, i)
  <2>1. req[p].u \in People /\ req[p].t \in Tenants
    BY <1>7, RequestFields DEF InviteCommit, At
  <2>2. CASE inv'[i] = inv[i]
    BY <1>3, <2>2
  <2>3. CASE inv'[i] # inv[i]
    <3>1. j = i
      BY <1>7, <2>3 DEF InviteCommit, TypeOK
    <3>2. inv[i].st = "unused"
      BY <1>7, <3>1 DEF InviteCommit, Unused
    <3> QED
      BY <1>7, <2>1, <2>3, <3>1, <3>2 DEF InviteCommit, Sends, TypeOK
  <2> QED
    BY <2>2, <2>3
<1> QED
  BY <1>1, <1>3, <1>4, <1>5, <1>6, <1>7 DEF InvCause

\* A request moves by its own steps.
LEMMA OwnStep ==
  ASSUME TypeOK, [Next]_vars, NEW p \in Threads, req'[p] # req[p]
  PROVE  Starts(p) \/ Finishes(p) \/ RegisterFound(p) \/ AcceptViewer(p) \/ DeleteRoleLoad(p)
<1> USE DEF At
<1>1. ASSUME NEW q \in Threads, NEW r, Become(q, r), q # p
      PROVE  FALSE
  BY <1>1 DEF Become, TypeOK
<1>2. ASSUME NEW q \in Threads, Starts(q)
      PROVE  \E r : Become(q, r)
  <2>1. ASSUME NEW u \in People, NEW t \in Tenants, NEW r,
               Register(q, u, t) \/ Invite(q, u, t, r) \/ AssignRole(q, u, t, r)
        PROVE  \E x : Become(q, x)
    BY <2>1 DEF Register, Invite, AssignRole
  <2>2. ASSUME NEW i \in Invitations, Accept(q, i)
        PROVE  \E x : Become(q, x)
    BY <2>2 DEF Accept
  <2>3. ASSUME NEW c \in Custom, DeleteRole(q, c)
        PROVE  \E x : Become(q, x)
    BY <2>3 DEF DeleteRole
  <2> QED
    BY <1>2, <2>1, <2>2, <2>3 DEF Starts
<1>3. ASSUME NEW q \in Threads, Finishes(q)
      PROVE  \E r : Become(q, r)
  BY <1>3 DEF Finishes, InviteCommit, RegisterAdmin, AcceptRole, AcceptFails, AcceptClose,
              DeleteRoleCommit, AssignCommit, Crash
<1>4. ASSUME NEW q \in Threads, RegisterFound(q) \/ AcceptViewer(q) \/ DeleteRoleLoad(q)
      PROVE  \E r : Become(q, r)
  BY <1>4 DEF RegisterFound, AcceptViewer, DeleteRoleLoad
<1> QED
  BY <1>1, <1>2, <1>3, <1>4, StepCauses DEF Causes, ReqCause

LEMMA StartIdle ==
  ASSUME NEW p \in Threads, Starts(p)
  PROVE  req[p] = Idle
<1>1. ASSUME NEW u \in People, NEW t \in Tenants, NEW r,
             Register(p, u, t) \/ Invite(p, u, t, r) \/ AssignRole(p, u, t, r)
      PROVE  req[p] = Idle
  BY <1>1 DEF Register, Invite, AssignRole
<1>2. ASSUME NEW i \in Invitations, Accept(p, i)
      PROVE  req[p] = Idle
  BY <1>2 DEF Accept
<1>3. ASSUME NEW c \in Custom, DeleteRole(p, c)
      PROVE  req[p] = Idle
  BY <1>3 DEF DeleteRole
<1> QED
  BY <1>1, <1>2, <1>3 DEF Starts

LEMMA FinishIdle ==
  ASSUME TypeOK, NEW p \in Threads, Finishes(p)
  PROVE  req'[p] = Idle
BY DEF Finishes, InviteCommit, RegisterAdmin, AcceptRole, AcceptFails, AcceptClose,
       DeleteRoleCommit, AssignCommit, Crash, Become, TypeOK

\* How a request comes to the steps that the invariants are about.
LEMMA Arrives ==
  ASSUME TypeOK, [Next]_vars, NEW p \in Threads, req'[p] # req[p]
  PROVE  /\ req'[p].pc = "admin" =>
              /\ RegisterFound(p) /\ req[p].u \in People
              /\ req'[p].u = req[p].u /\ req'[p].t = req[p].t
              /\ home'[req[p].u] = req[p].t
         /\ req'[p].pc = "invite" =>
              \E u \in People, t \in Tenants, r \in Roles \cup {None} :
                  Invite(p, u, t, r) /\ req'[p].u = u /\ req'[p].t = t
         /\ req'[p].pc = "accept" =>
              \E i \in Invitations :
                  /\ Accept(p, i)
                  /\ req'[p] = [pc |-> "accept", i |-> i, u |-> inv[i].u, t |-> inv[i].t,
                                r |-> inv[i].r, new |-> ~Known(inv[i].u)]
         /\ req'[p].pc = "close" =>
              AcceptViewer(p) /\ req'[p].i = req[p].i /\ req'[p].u = req[p].u /\ req'[p].t = req[p].t
<1> USE DEF At
<1>1. ASSUME NEW r, Become(p, r)
      PROVE  req'[p] = r
  BY <1>1 DEF Become, TypeOK
<1>2. CASE Finishes(p)
  BY <1>2, FinishIdle DEF Idle
<1>3. CASE Starts(p)
  <2>1. ASSUME NEW u \in People, NEW t \in Tenants, Register(p, u, t)
        PROVE  req'[p].pc = "found"
    BY <2>1, <1>1 DEF Register
  <2>2. ASSUME NEW u \in People, NEW t \in Tenants, NEW r \in Roles, AssignRole(p, u, t, r)
        PROVE  req'[p].pc = "assign"
    BY <2>2, <1>1 DEF AssignRole
  <2>3. ASSUME NEW u \in People, NEW t \in Tenants, NEW r \in Roles \cup {None}, Invite(p, u, t, r)
        PROVE  req'[p].pc = "invite" /\ req'[p].u = u /\ req'[p].t = t
    BY <2>3, <1>1 DEF Invite
  <2>4. ASSUME NEW i \in Invitations, Accept(p, i)
        PROVE  /\ req'[p] = [pc |-> "accept", i |-> i, u |-> inv[i].u, t |-> inv[i].t,
                             r |-> inv[i].r, new |-> ~Known(inv[i].u)]
               /\ req'[p].pc = "accept"
    BY <2>4, <1>1 DEF Accept
  <2>5. ASSUME NEW c \in Custom, DeleteRole(p, c)
        PROVE  req'[p].pc = "load"
    BY <2>5, <1>1 DEF DeleteRole
  <2> QED
    BY <1>3, <2>1, <2>2, <2>3, <2>4, <2>5 DEF Starts
<1>4. CASE RegisterFound(p)
  <2>1. req[p] \in [pc : {"found", "admin"}, u : People, t : Tenants]
    BY <1>4 DEF RegisterFound, TypeOK, Request, Idle
  <2>2. CASE Become(p, Idle)
    BY <1>1, <2>2 DEF Idle
  <2>3. CASE ~Become(p, Idle)
    <3>1. /\ req'[p] = [req[p] EXCEPT !.pc = "admin"]
          /\ home' = [home EXCEPT ![req[p].u] = req[p].t]
      BY <1>1, <1>4, <2>3 DEF RegisterFound
    <3>2. req'[p].pc = "admin" /\ req'[p].u = req[p].u /\ req'[p].t = req[p].t
      BY <2>1, <3>1
    <3> QED
      BY <1>4, <2>1, <3>1, <3>2 DEF TypeOK
  <2> QED
    BY <2>2, <2>3
<1>5. CASE AcceptViewer(p)
  <2>1. req[p] \in [pc : {"accept", "close"}, i : Invitations, u : People, t : Tenants,
                    r : Roles \cup {None}, new : BOOLEAN]
    BY <1>5 DEF AcceptViewer, TypeOK, Request, Idle
  <2>2. req'[p] = [req[p] EXCEPT !.pc = "close"]
    BY <1>1, <1>5 DEF AcceptViewer
  <2> QED
    BY <1>5, <2>1, <2>2
<1>6. CASE DeleteRoleLoad(p)
  <2>1. req[p] \in [pc : {"load", "delete"}, r : Custom]
    BY <1>6 DEF DeleteRoleLoad, TypeOK, Request, Idle
  <2>2. req'[p] = Idle \/ req'[p] = [req[p] EXCEPT !.pc = "delete"]
    BY <1>1, <1>6 DEF DeleteRoleLoad
  <2> QED
    BY <2>1, <2>2 DEF Idle
<1> QED
  BY <1>2, <1>3, <1>4, <1>5, <1>6, OwnStep

\* How a request leaves its last transaction.
LEMMA Leaves ==
  ASSUME TypeOK, [Next]_vars, NEW p \in Threads, req'[p] # req[p]
  PROVE  /\ req[p].pc = "admin" => RegisterAdmin(p) \/ Crash(p)
         /\ req[p].pc = "close" => AcceptClose(p) \/ Crash(p)
<1> USE DEF At
<1>1. req[p].pc \in {"admin", "close"} => ~Starts(p)
  BY StartIdle DEF Idle
<1>2. req[p].pc \in {"admin", "close"} /\ Finishes(p) =>
         RegisterAdmin(p) \/ AcceptClose(p) \/ Crash(p)
  BY DEF Finishes, InviteCommit, AcceptRole, AcceptFails, DeleteRoleCommit, AssignCommit
<1>3. req[p].pc \in {"admin", "close"} =>
         ~RegisterFound(p) /\ ~AcceptViewer(p) /\ ~DeleteRoleLoad(p)
  BY DEF RegisterFound, AcceptViewer, DeleteRoleLoad
<1>4. RegisterAdmin(p) => req[p].pc = "admin"
  BY DEF RegisterAdmin
<1>5. AcceptClose(p) => req[p].pc = "close"
  BY DEF AcceptClose
<1> QED
  BY <1>1, <1>2, <1>3, <1>4, <1>5, OwnStep

-----------------------------------------------------------------------------
(* The steps keep what the requests have read.                             *)

LEMMA LateMadeStep == ASSUME TypeOK, [Next]_vars, LateMade PROVE LateMade'
<1> SUFFICES ASSUME NEW g \in late', g.r \in Custom
             PROVE  roles'[g.r] # "unused"
  BY DEF LateMade
<1>1. CASE g \in late
  BY <1>1, RolesStep DEF LateMade
<1>2. CASE g \notin late
  <2>1. Insert(g)
    BY <1>2, StepCauses DEF Causes, LateCause, Insert
  <2>2. roles[g.r] = "live"
    BY <2>1, AccessAssumption DEF Insert, Exists
  <2> QED
    BY <2>2, RolesStep
<1> QED
  BY <1>1, <1>2

LEMMA AdminsHomeStep == ASSUME TypeOK, [Next]_vars, AdminsHome PROVE AdminsHome'
<1> SUFFICES ASSUME NEW p \in Threads, req'[p].pc = "admin"
             PROVE  home'[req'[p].u] = req'[p].t
  BY DEF AdminsHome, At
<1>1. CASE req'[p] = req[p]
  <2>1. req[p].u \in People /\ req[p].t \in Tenants /\ home[req[p].u] = req[p].t
    BY <1>1, RequestFields DEF AdminsHome, At
  <2>2. Known(req[p].u)
    BY <2>1, AccessAssumption DEF Known
  <2> QED
    BY <1>1, <2>1, <2>2, HomeKept
<1>2. CASE req'[p] # req[p]
  BY <1>2, Arrives
<1> QED
  BY <1>1, <1>2

LEMMA NewOrKnownStep == ASSUME TypeOK, [Next]_vars, NewOrKnown PROVE NewOrKnown'
<1> SUFFICES ASSUME NEW p \in Threads, req'[p].pc = "accept"
             PROVE  req'[p].new \/ home'[req'[p].u] # None
  BY DEF NewOrKnown, At, Known
<1>1. CASE req'[p] = req[p]
  <2>1. req[p].u \in People /\ (req[p].new \/ Known(req[p].u))
    BY <1>1, RequestFields DEF NewOrKnown, At
  <2> QED
    BY <1>1, <2>1, HomeKept DEF Known
<1>2. CASE req'[p] # req[p]
  <2>1. PICK i \in Invitations :
          /\ Accept(p, i)
          /\ req'[p] = [pc |-> "accept", i |-> i, u |-> inv[i].u, t |-> inv[i].t,
                        r |-> inv[i].r, new |-> ~Known(inv[i].u)]
    BY <1>2, Arrives
  <2>2. home' = home
    BY <2>1 DEF Accept
  <2>3. CASE Known(inv[i].u)
    BY <2>1, <2>2, <2>3 DEF Known
  <2>4. CASE ~Known(inv[i].u)
    <3>1. \A x : req'[p] = [pc |-> "accept", i |-> i, u |-> inv[i].u, t |-> inv[i].t,
                            r |-> inv[i].r, new |-> x] => req'[p].new = x
      OBVIOUS
    <3>2. req'[p].new = (~Known(inv[i].u))
      BY <2>1, <3>1, Zenon
    <3>3. req'[p].new
      BY <2>4, <3>2, Zenon
    <3> QED
      BY <3>3
  <2> QED
    BY <2>3, <2>4
<1> QED
  BY <1>1, <1>2

LEMMA AsReadStep == ASSUME TypeOK, [Next]_vars, AsRead PROVE AsRead'
<1> SUFFICES ASSUME NEW p \in Threads, req'[p].pc \in {"accept", "close"}
             PROVE  /\ inv'[req'[p].i].st # "unused"
                    /\ inv'[req'[p].i].st \in {"pending", "used"} =>
                          inv'[req'[p].i].u = req'[p].u /\ inv'[req'[p].i].t = req'[p].t
  BY DEF AsRead, IsInv
<1>1. ASSUME NEW i \in Invitations, inv[i].st # "unused"
      PROVE  /\ inv'[i].st # "unused"
             /\ inv'[i].st \in {"pending", "used"} =>
                   IsInv(i) /\ inv'[i].u = inv[i].u /\ inv'[i].t = inv[i].t
  BY <1>1, InvitationStep DEF Keeps, Sends, IsInv
<1>2. CASE req'[p] = req[p]
  <2>1. req[p].i \in Invitations
    BY <1>2, RequestFields
  <2> QED
    BY <1>1, <1>2, <2>1 DEF AsRead
<1>3. CASE req'[p] # req[p] /\ req'[p].pc = "accept"
  <2>1. PICK i \in Invitations :
          /\ Accept(p, i)
          /\ req'[p] = [pc |-> "accept", i |-> i, u |-> inv[i].u, t |-> inv[i].t,
                        r |-> inv[i].r, new |-> ~Known(inv[i].u)]
    BY <1>3, Arrives
  <2>2. inv' = inv /\ inv[i].st = "pending"
    BY <2>1 DEF Accept, Valid, Pending
  <2> QED
    BY <2>1, <2>2
<1>4. CASE req'[p] # req[p] /\ req'[p].pc = "close"
  <2>1. AcceptViewer(p) /\ req'[p].i = req[p].i /\ req'[p].u = req[p].u /\ req'[p].t = req[p].t
    BY <1>4, Arrives
  <2>2. inv' = inv /\ req[p].pc = "accept"
    BY <2>1 DEF AcceptViewer, At
  <2> QED
    BY <2>1, <2>2 DEF AsRead, IsInv
<1> QED
  BY <1>2, <1>3, <1>4

LEMMA RoleAsReadStep == ASSUME TypeOK, [Next]_vars, AsRead, RoleAsRead PROVE RoleAsRead'
<1> SUFFICES ASSUME NEW p \in Threads, req'[p].pc = "accept",
                    inv'[req'[p].i].st \in {"pending", "used"}
             PROVE  \/ req'[p].r = inv'[req'[p].i].r
                    \/ /\ inv'[req'[p].i].r = None
                       /\ req'[p].r \in Custom /\ roles'[req'[p].r] = "gone"
  BY DEF RoleAsRead, IsInv, At
<1>1. CASE req'[p] = req[p]
  <2> DEFINE i == req[p].i
  <2>1. i \in Invitations /\ inv[i].st # "unused"
    BY <1>1, RequestFields DEF AsRead
  <2>2. /\ IsInv(i)
        /\ \/ inv'[i].r = inv[i].r
           \/ /\ inv'[i].r = None
              /\ inv[i].r \in Custom /\ roles'[inv[i].r] = "gone"
    BY <1>1, <2>1, InvitationStep DEF Keeps, Sends, IsInv
  <2>3. \/ req[p].r = inv[i].r
        \/ inv[i].r = None /\ req[p].r \in Custom /\ roles[req[p].r] = "gone"
    BY <1>1, <2>2 DEF RoleAsRead, At
  <2>4. CASE req[p].r = inv[i].r
    BY <1>1, <2>2, <2>4
  <2>5. CASE inv[i].r = None /\ req[p].r \in Custom /\ roles[req[p].r] = "gone"
    BY <1>1, <2>2, <2>5, AccessAssumption, RolesStep
  <2> QED
    BY <2>3, <2>4, <2>5
<1>2. CASE req'[p] # req[p]
  <2>1. PICK i \in Invitations :
          /\ Accept(p, i)
          /\ req'[p] = [pc |-> "accept", i |-> i, u |-> inv[i].u, t |-> inv[i].t,
                        r |-> inv[i].r, new |-> ~Known(inv[i].u)]
    BY <1>2, Arrives
  <2>2. inv' = inv
    BY <2>1 DEF Accept
  <2> QED
    BY <2>1, <2>2
<1> QED
  BY <1>1, <1>2

\* An invitation has given access as often as acceptances have made a grant.
LEMMA GivenStep ==
  ASSUME TypeOK, [Next]_vars, NEW i \in Invitations
  PROVE  \/ given'[i] = given[i]
         \/ /\ given'[i] = given[i] + 1
            /\ \E p \in Threads : req[p].i = i /\ (AcceptRole(p) \/ AcceptViewer(p))
<1>1. ASSUME NEW p \in Threads, AcceptRole(p) \/ AcceptViewer(p)
      PROVE  \/ given'[i] = given[i]
             \/ given'[i] = given[i] + 1 /\ req[p].i = i
  BY <1>1, AcceptDoes DEF TypeOK
<1> QED
  BY <1>1, StepCauses DEF Causes, GivenCause

LEMMA GivenGrows == ASSUME TypeOK, [Next]_vars, NEW i \in Invitations
                    PROVE  /\ given[i] \in Nat /\ given'[i] \in Nat
                           /\ given[i] > 0 => given'[i] > 0
  BY GivenStep DEF TypeOK

LEMMA CloseGivenStep == ASSUME TypeOK, [Next]_vars, CloseGiven PROVE CloseGiven'
<1> SUFFICES ASSUME NEW p \in Threads, req'[p].pc = "close"
             PROVE  given'[req'[p].i] > 0
  BY DEF CloseGiven, At
<1>1. CASE req'[p] = req[p]
  <2>1. req[p].i \in Invitations /\ given[req[p].i] > 0
    BY <1>1, RequestFields DEF CloseGiven, At
  <2> QED
    BY <1>1, <2>1, GivenGrows
<1>2. CASE req'[p] # req[p]
  <2>1. AcceptViewer(p) /\ req'[p].i = req[p].i
    BY <1>2, Arrives
  <2>2. req[p].i \in Invitations /\ given' = [given EXCEPT ![req[p].i] = @ + 1]
    BY <2>1, AcceptDoes
  <2> QED
    BY <2>1, <2>2 DEF TypeOK
<1> QED
  BY <1>1, <1>2

LEMMA UnsentUngivenStep ==
  ASSUME TypeOK, [Next]_vars, AsRead, UnsentUngiven
  PROVE  UnsentUngiven'
<1> SUFFICES ASSUME NEW i \in Invitations, inv'[i].st = "unused"
             PROVE  given'[i] = 0
  BY DEF UnsentUngiven
<1>1. inv[i].st = "unused"
  BY InvitationStep DEF Keeps, Sends
<1>2. ASSUME NEW p \in Threads, AcceptRole(p) \/ AcceptViewer(p)
      PROVE  req[p].i # i
  BY <1>1, <1>2, AcceptDoes DEF AsRead, At
<1> QED
  BY <1>1, <1>2, GivenStep DEF UnsentUngiven

LEMMA UsedGaveStep ==
  ASSUME TypeOK, [Next]_vars, CloseGiven, UsedGave
  PROVE  UsedGave'
<1> SUFFICES ASSUME NEW i \in Invitations, inv'[i].st = "used"
             PROVE  given'[i] > 0
  BY DEF UsedGave
<1>1. \/ inv[i].st = "used"
      \/ \E p \in Threads : req[p].i = i /\ (AcceptRole(p) \/ AcceptClose(p))
  <2>1. ASSUME NEW p \in Threads, Sends(p, i)
        PROVE  FALSE
    BY <2>1 DEF Sends
  <2>2. Keeps(i)
    BY <2>1, InvitationStep
  <2> QED
    BY <2>2 DEF Keeps
<1>2. CASE inv[i].st = "used"
  BY <1>2, GivenGrows DEF UsedGave
<1>3. ASSUME NEW p \in Threads, req[p].i = i, AcceptRole(p)
      PROVE  given'[i] > 0
  <2>1. given' = [given EXCEPT ![i] = @ + 1]
    BY <1>3, AcceptDoes
  <2> QED
    BY <2>1 DEF TypeOK
<1>4. ASSUME NEW p \in Threads, req[p].i = i, AcceptClose(p)
      PROVE  given'[i] > 0
  <2>1. given[i] > 0
    BY <1>4 DEF AcceptClose, CloseGiven
  <2> QED
    BY <2>1, GivenGrows
<1> QED
  BY <1>1, <1>2, <1>3, <1>4

-----------------------------------------------------------------------------
(* Whose home is a tenant has a role there.                                *)

LEMMA MembersStep ==
  ASSUME IInv, TypeOK', [Next]_vars, LateMade, AdminsHome, MembersHaveRoles
  PROVE  MembersHaveRoles'
<1> USE DEF IInv
<1> SUFFICES ASSUME NEW u \in People, Known(u)'
             PROVE  \/ GrantsOf(u, home[u])' # {}
                    \/ marks'[<<u, home'[u]>>] \cap {"cut", "removed"} # {}
                    \/ TakenAway(u, home[u])'
                    \/ \E p \in Threads : req'[p].pc = "admin" /\ req'[p].u = u
  BY DEF MembersHaveRoles, At
<1>1. PICK t \in Tenants : home'[u] = t
  BY DEF TypeOK, Known
<1>2. /\ \A g \in grants' : g.u = u /\ g.t = t => GrantsOf(u, home[u])' # {}
      /\ \A g \in late' : g.u = u /\ g.t = t /\ g.r \in Custom /\ roles'[g.r] = "gone"
            => TakenAway(u, home[u])'
  BY <1>1, AccessAssumption DEF GrantsOf, TakenAway, Exists
<1> DEFINE Served == \/ GrantsOf(u, home[u])' # {}
                     \/ marks'[<<u, t>>] \cap {"cut", "removed"} # {}
                     \/ TakenAway(u, home[u])'
                     \/ \E p \in Threads : req'[p].pc = "admin" /\ req'[p].u = u
<1> SUFFICES Served
  BY <1>1
<1>3. CASE home'[u] # home[u]
  <2>1. PICK p \in Threads :
          /\ req[p].u = u /\ home'[u] = req[p].t
          /\ RegisterFound(p) \/ AcceptRole(p) \/ AcceptViewer(p)
    BY <1>3, HomeStep
  <2>2. CASE RegisterFound(p)
    <3>1. req[p] \in [pc : {"found", "admin"}, u : People, t : Tenants]
      BY <2>2 DEF RegisterFound, At, TypeOK, Request, Idle
    <3>2. req'[p] = [req[p] EXCEPT !.pc = "admin"]
      BY <1>3, <2>2 DEF RegisterFound, Become, TypeOK
    <3>3. req'[p].pc = "admin" /\ req'[p].u = u
      BY <2>1, <3>1, <3>2
    <3> QED
      BY <3>3
  <2>3. CASE AcceptRole(p) \/ AcceptViewer(p)
    <3>1. Offer(req[p]) \in grants'
      BY <2>3, AcceptDoes
    <3>2. Offer(req[p]).u = u /\ Offer(req[p]).t = t
      BY <1>1, <2>1 DEF Offer, Grant
    <3> QED
      BY <1>2, <3>1, <3>2
  <2> QED
    BY <2>1, <2>2, <2>3
<1>4. CASE home'[u] = home[u]
  <2>0. home[u] = t /\ Known(u)
    BY <1>1, <1>4 DEF Known
  <2>1. ASSUME NEW g \in grants, g.u = u, g.t = t
        PROVE  Served
    <3>1. CASE g \in grants'
      BY <1>2, <2>1, <3>1
    <3>2. CASE "removed" \in marks'[<<g.u, g.t>>]
      BY <2>1, <3>2
    <3>3. CASE g.r \in Custom /\ roles[g.r] = "live" /\ roles'[g.r] = "gone"
      <4>1. g \in late'
        BY <3>3, DeleteTakesLate, LateKeeps
      <4> QED
        BY <1>2, <2>1, <3>3, <4>1
    <3> QED
      BY <3>1, <3>2, <3>3, GrantsLost
  <2>2. CASE marks[<<u, t>>] \cap {"cut", "removed"} # {}
    BY <2>2, MarksKept
  <2>3. ASSUME NEW g \in late, g.u = u, g.t = t, ~Exists(g.r)
        PROVE  Served
    <3>1. g.r \in Custom /\ roles[g.r] = "gone"
      BY <2>3 DEF TypeOK, Grants, Roles, Exists, LateMade
    <3> QED
      BY <1>2, <2>3, <3>1, LateKeeps, RolesStep
  <2>4. ASSUME NEW p \in Threads, At(p, "admin"), req[p].u = u
        PROVE  Served
    <3>1. req[p].t = t
      BY <2>0, <2>4 DEF AdminsHome
    <3>2. CASE req'[p] = req[p]
      BY <2>4, <3>2 DEF At
    <3>3. CASE RegisterAdmin(p)
      <4>1. CASE GrantsOf(u, t) # {}
        BY <2>1, <4>1 DEF GrantsOf
      <4>2. CASE Insert(Grant(u, t, Admin))
        <5>1. Grant(u, t, Admin) \in grants'
          BY <4>2 DEF Insert
        <5> QED
          BY <1>2, <5>1 DEF Grant
      <4> QED
        BY <2>4, <3>1, <3>3, <4>1, <4>2 DEF RegisterAdmin
    <3>4. CASE Crash(p)
      <4>1. Mark(u, t, {"cut"})
        BY <2>4, <3>1, <3>4 DEF Crash, At
      <4>2. "cut" \in marks'[<<u, t>>]
        BY <4>1, MarkAdds
      <4> QED
        BY <4>2
    <3> QED
      BY <2>4, <3>2, <3>3, <3>4, Leaves DEF At
  <2> HIDE DEF Served
  <2>5. \/ GrantsOf(u, t) # {}
        \/ marks[<<u, t>>] \cap {"cut", "removed"} # {} \/ TakenAway(u, t)
        \/ \E p \in Threads : At(p, "admin") /\ req[p].u = u
    BY <2>0 DEF MembersHaveRoles
  <2>6. GrantsOf(u, t) # {} => Served
    BY <2>1 DEF GrantsOf
  <2>7. TakenAway(u, t) => Served
    BY <2>3 DEF TakenAway
  <2> QED
    BY <2>2, <2>4, <2>5, <2>6, <2>7
<1> QED
  BY <1>3, <1>4

-----------------------------------------------------------------------------
(* An invitation gives access once.                                        *)

\* A grant stays unless it is marked as removed or its role is deleted.
LEMMA BlockedKept ==
  ASSUME TypeOK, [Next]_vars, NEW r,
         r.u \in People, r.t \in Tenants, r.r \in Roles \cup {None},
         "removed" \notin marks'[<<r.u, r.t>>], Blocked(r)
  PROVE  Blocked(r)'
<1>1. CASE r.r \in Custom /\ roles[r.r] = "gone"
  BY <1>1, RolesStep DEF Blocked
<1>2. CASE Offer(r) \in grants
  <2>1. /\ Offer(r).u = r.u /\ Offer(r).t = r.t
        /\ Offer(r).r = IF r.r = None THEN Viewer ELSE r.r
    BY DEF Offer, Grant
  <2>2. CASE Offer(r) \in grants'
    BY <2>2 DEF Blocked, Offer, Grant
  <2>3. CASE Offer(r) \notin grants'
    <3>1. Offer(r).r \in Custom /\ roles'[Offer(r).r] = "gone"
      BY <1>2, <2>1, <2>3, GrantsLost
    <3> QED
      BY <2>1, <3>1, AccessAssumption DEF Blocked
  <2> QED
    BY <2>2, <2>3
<1> QED
  BY <1>1, <1>2 DEF Blocked

LEMMA ViewerKept ==
  ASSUME TypeOK, [Next]_vars, NEW u \in People, NEW t \in Tenants,
         "removed" \notin marks'[<<u, t>>], Grant(u, t, Viewer) \in grants
  PROVE  Grant(u, t, Viewer) \in grants'
<1>1. /\ Grant(u, t, Viewer).u = u /\ Grant(u, t, Viewer).t = t
      /\ Grant(u, t, Viewer).r = Viewer
  BY DEF Grant
<1> QED
  BY <1>1, GrantsLost, AccessAssumption

LEMMA OthersBlockedStep ==
  ASSUME TypeOK, TypeOK', [Next]_vars, AsRead, RoleAsRead, NewOrKnown, UnsentUngiven,
         OthersBlocked
  PROVE  OthersBlocked'
<1> SUFFICES ASSUME NEW i \in Invitations, IsInv(i)',
                    "removed" \notin marks'[<<inv'[i].u, inv'[i].t>>], given'[i] > 0
             PROVE  /\ given'[i] = 1
                    /\ \A p \in Threads : req'[p].pc = "accept" /\ req'[p].i = i
                          => Blocked(req[p])'
                    /\ Pending(i)' => /\ Known(inv[i].u)'
                                      /\ Grant(inv[i].u, inv[i].t, Viewer)' \in grants'
  BY DEF OthersBlocked, MarksOf, At
<1>1. Keeps(i)
  <2>1. ASSUME NEW p \in Threads, Sends(p, i)
        PROVE  FALSE
    <3>1. given' = given /\ given[i] = 0
      BY <2>1 DEF Sends, InviteCommit, UnsentUngiven
    <3> QED
      BY <3>1
  <2> QED
    BY <2>1, InvitationStep
<1>2. PICK u \in People, t \in Tenants : inv[i].u = u /\ inv[i].t = t
  BY <1>1, InvitationType DEF Keeps
<1>3. /\ IsInv(i) /\ inv'[i].u = u /\ inv'[i].t = t
      /\ Pending(i)' => Pending(i)
  BY <1>1, <1>2 DEF Keeps
<1>4. "removed" \notin marks'[<<u, t>>] /\ "removed" \notin marks[<<u, t>>]
  BY <1>3, MarksKept
<1>5. ASSUME NEW p \in Threads, req[p].pc = "accept", req[p].i = i
      PROVE  /\ req[p].u = u /\ req[p].t = t /\ req[p].r \in Roles \cup {None}
             /\ \/ req[p].r = inv[i].r
                \/ inv[i].r = None /\ req[p].r \in Custom /\ roles[req[p].r] = "gone"
             /\ req[p].new \/ Known(u)
  BY <1>2, <1>3, <1>5, RequestFields DEF AsRead, RoleAsRead, NewOrKnown, At
<1>6. given[i] > 0 =>
        /\ given[i] = 1
        /\ \A p \in Threads : req[p].pc = "accept" /\ req[p].i = i => Blocked(req[p])
        /\ Pending(i) => Known(u) /\ Grant(u, t, Viewer) \in grants
  BY <1>2, <1>3, <1>4 DEF OthersBlocked, MarksOf, At
<1>7. CASE given'[i] = given[i]
  <2>1. given[i] = 1
    BY <1>6, <1>7
  <2>2. Pending(i) => Known(u) /\ Grant(u, t, Viewer) \in grants
    BY <1>6, <2>1
  <2>3. ASSUME NEW p \in Threads, req'[p].pc = "accept", req'[p].i = i
        PROVE  Blocked(req[p])'
    <3>1. CASE req'[p] = req[p]
      <4>1. Blocked(req[p])
        BY <1>6, <2>1, <2>3, <3>1
      <4>2. PICK r : r = req[p]
        OBVIOUS
      <4>3. Blocked(r)'
        BY <1>4, <1>5, <2>3, <3>1, <4>1, <4>2, BlockedKept
      <4> QED
        BY <3>1, <4>2, <4>3 DEF Blocked
    <3>2. CASE req'[p] # req[p]
      <4>1. PICK j \in Invitations :
              /\ Accept(p, j)
              /\ req'[p] = [pc |-> "accept", i |-> j, u |-> inv[j].u, t |-> inv[j].t,
                            r |-> inv[j].r, new |-> ~Known(inv[j].u)]
        BY <2>3, <3>2, Arrives
      <4>2. req'[p].i = j
        BY <4>1
      <4>3. Pending(i) /\ (Known(u) => GrantsOf(u, t) = {})
        BY <1>2, <2>3, <4>1, <4>2 DEF Accept, Valid
      <4> QED
        BY <2>2, <4>3 DEF GrantsOf, Grant
    <3> QED
      BY <3>1, <3>2
  <2>4. ASSUME Pending(i)'
        PROVE  Known(inv[i].u)' /\ Grant(inv[i].u, inv[i].t, Viewer)' \in grants'
    <3>1. Known(u) /\ Grant(u, t, Viewer) \in grants
      BY <1>3, <2>2, <2>4
    <3>2. home'[u] # None
      BY <3>1, HomeKept DEF Known
    <3>3. Grant(u, t, Viewer) \in grants'
      BY <1>4, <3>1, ViewerKept
    <3> QED
      BY <1>3, <3>2, <3>3 DEF Known, Grant
  <2> QED
    BY <1>7, <2>1, <2>3, <2>4
<1>8. ASSUME NEW q \in Threads, req[q].i = i, AcceptRole(q) \/ AcceptViewer(q),
             given'[i] = given[i] + 1
      PROVE  /\ given'[i] = 1
             /\ \A p \in Threads : req'[p].pc = "accept" /\ req'[p].i = i
                   => Blocked(req[p])'
             /\ Pending(i)' => /\ Known(inv[i].u)'
                               /\ Grant(inv[i].u, inv[i].t, Viewer)' \in grants'
  <2>1. /\ req[q].pc = "accept"
        /\ Offer(req[q]) \notin grants /\ Offer(req[q]) \in grants'
        /\ req[q].r # None => Exists(req[q].r)
        /\ req[q].new => home'[req[q].u] = req[q].t
    BY <1>8, AcceptDoes DEF At
  <2>2. ~(req[q].r \in Custom /\ roles[req[q].r] = "gone")
    BY <2>1, AccessAssumption DEF Exists
  <2>3. ~Blocked(req[q])
    BY <2>1, <2>2 DEF Blocked
  <2>4. given'[i] = 1
    <3>1. given[i] \in Nat /\ ~(given[i] > 0)
      BY <1>6, <1>8, <2>1, <2>3 DEF TypeOK
    <3> QED
      BY <1>8, <3>1
  <2>5. req[q].r = inv[i].r /\ req[q].u = u /\ req[q].t = t /\ (req[q].new \/ Known(u))
    BY <1>5, <1>8, <2>1, <2>2
  <2>6. ASSUME NEW p \in Threads, req'[p].pc = "accept", req'[p].i = i
        PROVE  Blocked(req[p])'
    <3>1. req'[p] = req[p]
      <4>1. ASSUME NEW j \in Invitations, Accept(p, j)
            PROVE  FALSE
        <5>1. given' = given
          BY <4>1 DEF Accept
        <5> QED
          BY <1>8, <5>1 DEF TypeOK
      <4> QED
        BY <2>6, <4>1, Arrives
    <3>2. /\ req[p].u = u /\ req[p].t = t
          /\ \/ req[p].r = inv[i].r
             \/ inv[i].r = None /\ req[p].r \in Custom /\ roles[req[p].r] = "gone"
      BY <1>5, <2>6, <3>1
    <3>3. CASE req[p].r = inv[i].r
      <4>1. Offer(req[p]) = Offer(req[q])
        BY <2>5, <3>2, <3>3 DEF Offer
      <4>2. Offer(req[p])' = Offer(req[p])
        BY <3>1 DEF Offer, Grant
      <4> QED
        BY <2>1, <4>1, <4>2 DEF Blocked
    <3>4. CASE req[p].r \in Custom /\ roles[req[p].r] = "gone"
      <4>1. roles'[req[p].r] = "gone"
        BY <3>4, RolesStep
      <4> QED
        BY <3>1, <3>4, <4>1 DEF Blocked
    <3> QED
      BY <3>2, <3>3, <3>4
  <2>7. ASSUME Pending(i)'
        PROVE  Known(inv[i].u)' /\ Grant(inv[i].u, inv[i].t, Viewer)' \in grants'
    <3>1. ~AcceptRole(q)
      <4>1. ASSUME AcceptRole(q)
            PROVE  FALSE
        <5>1. inv' = [inv EXCEPT ![i] = [inv[i] EXCEPT !.st = "used"]]
          BY <1>8, <4>1 DEF AcceptRole
        <5>2. inv[i] \in [st : {"pending", "used"}, u : People, t : Tenants,
                          r : Roles \cup {None}, expired : BOOLEAN]
          BY <1>3 DEF TypeOK, Invitation, IsInv, Unused, Gone
        <5>3. inv'[i] = [inv[i] EXCEPT !.st = "used"]
          BY <5>1 DEF TypeOK
        <5>4. inv'[i].st = "used"
          BY <5>2, <5>3
        <5> QED
          BY <2>7, <5>4 DEF Pending
      <4> QED
        BY <4>1
    <3>2. req[q].r = None
      BY <1>8, <3>1 DEF AcceptViewer
    <3>3. Grant(u, t, Viewer) \in grants'
      BY <2>1, <2>5, <3>2 DEF Offer
    <3>4. home'[u] # None
      <4>1. CASE req[q].new
        BY <2>1, <2>5, <4>1, AccessAssumption
      <4>2. CASE Known(u)
        BY <4>2, HomeKept DEF Known
      <4> QED
        BY <2>5, <4>1, <4>2
    <3> QED
      BY <1>3, <3>3, <3>4 DEF Known, Grant
  <2> QED
    BY <2>4, <2>6, <2>7
<1> QED
  BY <1>7, <1>8, GivenStep

-----------------------------------------------------------------------------
(* An invitation that is pending has given no access.                      *)

LEMMA PendingGaveNoneStep ==
  ASSUME TypeOK, TypeOK', [Next]_vars, AdminsHome, AsRead, UnsentUngiven, PendingGaveNone
  PROVE  PendingGaveNone'
<1> SUFFICES ASSUME NEW i \in Invitations, Pending(i)'
             PROVE  \/ /\ given'[i] = 0 /\ GrantsOf(inv[i].u, inv[i].t)' = {}
                       /\ home'[inv'[i].u] # inv'[i].t
                    \/ marks'[<<inv'[i].u, inv'[i].t>>] \cap {"cut", "other"} # {}
                    \/ \E p \in Threads : req'[p].pc = "close" /\ req'[p].i = i
  BY DEF PendingGaveNone, MarksOf, At
<1>1. PICK u \in People, t \in Tenants : inv'[i].u = u /\ inv'[i].t = t
  <2>1. inv'[i] \in [st : {"pending", "used"}, u : People, t : Tenants,
                     r : Roles \cup {None}, expired : BOOLEAN]
    BY DEF TypeOK, Invitation, Pending, Unused, Gone
  <2> QED
    BY <2>1
<1> DEFINE Clean == /\ given'[i] = 0 /\ home'[u] # t
                    /\ \A g \in grants' : ~(g.u = u /\ g.t = t)
           Excused == \/ marks'[<<u, t>>] \cap {"cut", "other"} # {}
                      \/ \E p \in Threads : req'[p].pc = "close" /\ req'[p].i = i
<1> SUFFICES Clean \/ Excused
  BY <1>1 DEF GrantsOf
<1>2. ASSUME NEW p \in Threads, Sends(p, i)
      PROVE  Clean \/ Excused
  <2>1. /\ inv[i].st = "unused" /\ req[p].u = u /\ req[p].t = t
        /\ UNCHANGED <<home, grants, given>>
    BY <1>1, <1>2 DEF Sends, InviteCommit
  <2>2. CASE GrantsOf(u, t) # {} \/ home[u] = t
    <3>1. Mark(u, t, {"other"})
      BY <1>2, <2>1, <2>2 DEF Sends
    <3> QED
      BY <3>1, MarkAdds
  <2>3. CASE GrantsOf(u, t) = {} /\ home[u] # t
    <3>1. \A g \in grants' : ~(g.u = u /\ g.t = t)
      BY <2>1, <2>3 DEF GrantsOf
    <3>2. given'[i] = 0
      BY <2>1 DEF UnsentUngiven
    <3> QED
      BY <2>1, <2>3, <3>1, <3>2
  <2> QED
    BY <2>2, <2>3
<1>3. CASE Keeps(i)
  <2>1. Pending(i) /\ IsInv(i) /\ inv[i].u = u /\ inv[i].t = t /\ i \in PendingOf(u, t)
    BY <1>1, <1>3 DEF Keeps, Pending, IsInv, PendingOf
  \* Access by an acceptance of another invitation is marked; by one of this
  \* invitation, it is followed by its use.
  <2>2. ASSUME NEW q \in Threads, AcceptRole(q) \/ AcceptViewer(q), req[q].u = u, req[q].t = t
        PROVE  Excused
    <3>1. Mark(u, t, IF PendingOf(u, t) \ {req[q].i} # {} THEN {"other"} ELSE {})
      BY <2>2, AcceptDoes
    <3>2. CASE req[q].i # i
      <4>1. Mark(u, t, {"other"})
        BY <2>1, <3>1, <3>2
      <4> QED
        BY <4>1, MarkAdds
    <3>3. CASE req[q].i = i /\ AcceptRole(q)
      <4>1. inv'[i] = [inv[i] EXCEPT !.st = "used"]
        BY <3>3 DEF AcceptRole, TypeOK
      <4>2. inv[i] \in [st : {"pending", "used"}, u : People, t : Tenants,
                        r : Roles \cup {None}, expired : BOOLEAN]
        BY <2>1 DEF TypeOK, Invitation, IsInv, Unused, Gone
      <4>3. inv'[i].st = "used"
        BY <4>1, <4>2
      <4> QED
        BY <4>3 DEF Pending
    <3>4. CASE req[q].i = i /\ AcceptViewer(q)
      <4>1. req[q] \in [pc : {"accept", "close"}, i : Invitations, u : People, t : Tenants,
                        r : Roles \cup {None}, new : BOOLEAN]
        BY <3>4 DEF AcceptViewer, At, TypeOK, Request, Idle
      <4>2. req'[q] = [req[q] EXCEPT !.pc = "close"]
        BY <3>4 DEF AcceptViewer, Become, TypeOK
      <4>3. req'[q].pc = "close" /\ req'[q].i = i
        BY <3>4, <4>1, <4>2
      <4> QED
        BY <4>3
    <3> QED
      BY <2>2, <3>2, <3>3, <3>4
  <2>3. CASE marks[<<u, t>>] \cap {"cut", "other"} # {}
    BY <2>3, MarksKept
  <2>4. ASSUME NEW p \in Threads, req[p].pc = "close", req[p].i = i
        PROVE  Excused
    <3>1. CASE req'[p] = req[p]
      BY <2>4, <3>1
    <3>2. CASE AcceptClose(p)
      <4>1. inv'[i] = [inv[i] EXCEPT !.st = "used"]
        BY <2>1, <2>4, <3>2 DEF AcceptClose, TypeOK
      <4>2. inv[i] \in [st : {"pending", "used"}, u : People, t : Tenants,
                        r : Roles \cup {None}, expired : BOOLEAN]
        BY <2>1 DEF TypeOK, Invitation, IsInv, Unused, Gone
      <4>3. inv'[i].st = "used"
        BY <4>1, <4>2
      <4> QED
        BY <4>3 DEF Pending
    <3>3. CASE Crash(p)
      <4>1. req[p].u = u /\ req[p].t = t
        BY <2>1, <2>4 DEF AsRead
      <4>2. Mark(u, t, {"cut"})
        BY <2>4, <3>3, <4>1 DEF Crash
      <4> QED
        BY <4>2, MarkAdds
    <3> QED
      BY <2>4, <3>1, <3>2, <3>3, Leaves
  <2>5. CASE given[i] = 0 /\ GrantsOf(u, t) = {} /\ home[u] # t
    <3>1. CASE given'[i] # 0
      <4>1. PICK q \in Threads : req[q].i = i /\ (AcceptRole(q) \/ AcceptViewer(q))
        BY <2>5, <3>1, GivenStep
      <4>2. req[q].u = u /\ req[q].t = t
        BY <2>1, <4>1, AcceptDoes DEF AsRead, At
      <4> QED
        BY <2>2, <4>1, <4>2
    <3>2. ASSUME NEW g \in grants', g.u = u, g.t = t
          PROVE  Excused
      <4>1. g \notin grants
        BY <2>5, <3>2 DEF GrantsOf
      <4>2. PICK p \in Threads :
              /\ req[p].u = u /\ req[p].t = t
              /\ \/ RegisterAdmin(p)
                 \/ AcceptRole(p) \/ AcceptViewer(p)
                 \/ AssignCommit(p) /\ Mark(u, t, Other(u, t))
        BY <3>2, <4>1, GrantsGained
      <4>3. ~RegisterAdmin(p)
        BY <2>5, <4>2 DEF RegisterAdmin, AdminsHome
      <4>4. CASE Mark(u, t, Other(u, t))
        BY <2>1, <4>4, MarkAdds DEF Other
      <4> QED
        BY <2>2, <4>2, <4>3, <4>4
    <3>3. CASE home'[u] = t
      <4>1. PICK p \in Threads :
              /\ req[p].u = u /\ req[p].t = t
              /\ RegisterFound(p) \/ AcceptRole(p) \/ AcceptViewer(p)
        BY <2>5, <3>3, HomeStep
      <4>2. CASE RegisterFound(p)
        <5>1. Mark(u, t, Other(u, t))
          BY <2>5, <3>3, <4>1, <4>2 DEF RegisterFound
        <5> QED
          BY <2>1, <5>1, MarkAdds DEF Other
      <4> QED
        BY <2>2, <4>1, <4>2
    <3> QED
      BY <3>1, <3>2, <3>3
  <2> HIDE DEF Clean, Excused
  <2>6. Excused \/ Clean \/ ~(marks[<<u, t>>] \cap {"cut", "other"} # {})
    BY <2>3
  <2>7. \/ given[i] = 0 /\ GrantsOf(u, t) = {} /\ home[u] # t
        \/ marks[<<u, t>>] \cap {"cut", "other"} # {}
        \/ \E p \in Threads : req[p].pc = "close" /\ req[p].i = i
    BY <2>1 DEF PendingGaveNone, MarksOf, At
  <2> QED
    BY <2>4, <2>5, <2>6, <2>7
<1> QED
  BY <1>2, <1>3, InvitationStep

-----------------------------------------------------------------------------
(* A person has one pending invitation to a tenant at most.                *)

LEMMA InvitedAloneStep ==
  ASSUME TypeOK, [Next]_vars, InvitedAlone
  PROVE  InvitedAlone'
<1> SUFFICES ASSUME NEW u \in People, NEW t \in Tenants, "overlap" \notin marks'[<<u, t>>]
             PROVE  /\ \A i \in PendingOf(u, t)', j \in PendingOf(u, t)' : i = j
                    /\ \A p \in Threads : Inviting(p, u, t)' =>
                        /\ PendingOf(u, t)' = {}
                        /\ \A q \in Threads : Inviting(q, u, t)' => q = p
  BY DEF InvitedAlone
<1>1. "overlap" \notin marks[<<u, t>>]
  BY MarksKept
<1>2. /\ \A i \in PendingOf(u, t), j \in PendingOf(u, t) : i = j
      /\ \A p \in Threads : Inviting(p, u, t) =>
            /\ PendingOf(u, t) = {}
            /\ \A q \in Threads : Inviting(q, u, t) => q = p
  BY <1>1 DEF InvitedAlone
<1>3. ASSUME NEW i \in PendingOf(u, t)'
      PROVE  /\ i \in Invitations
             /\ i \in PendingOf(u, t) \/ \E p \in Threads : Sends(p, i) /\ Inviting(p, u, t)
  <2>1. i \in Invitations /\ Pending(i)' /\ inv'[i].u = u /\ inv'[i].t = t
    BY DEF PendingOf
  <2>2. CASE Keeps(i)
    <3>1. Pending(i) /\ inv[i].u = u /\ inv[i].t = t
      BY <2>1, <2>2 DEF Keeps, Pending, IsInv
    <3> QED
      BY <2>1, <3>1 DEF PendingOf
  <2>3. ASSUME NEW p \in Threads, Sends(p, i)
        PROVE  Inviting(p, u, t)
    BY <2>1, <2>3 DEF Sends, InviteCommit, Inviting
  <2> QED
    BY <2>1, <2>2, <2>3, InvitationStep
<1>4. ASSUME NEW p \in Threads, Inviting(p, u, t)'
      PROVE  \/ Inviting(p, u, t) /\ req'[p] = req[p]
             \/ \E r \in Roles \cup {None} : Invite(p, u, t, r)
  <2>1. req'[p].pc = "invite" /\ req'[p].u = u /\ req'[p].t = t
    BY <1>4 DEF Inviting, At
  <2>2. CASE req'[p] = req[p]
    BY <2>1, <2>2 DEF Inviting, At
  <2>3. CASE req'[p] # req[p]
    BY <2>1, <2>3, Arrives
  <2> QED
    BY <2>2, <2>3
<1>5. ASSUME NEW p \in Threads, NEW r, Invite(p, u, t, r)
      PROVE  /\ PendingOf(u, t)' = {}
             /\ \A q \in Threads : ~Inviting(q, u, t)
             /\ \A q \in Threads : q # p => req'[q] = req[q]
  <2>1. PendingOf(u, t) = {} /\ inv' = inv /\ PendingOf(u, t)' = PendingOf(u, t)
    BY <1>5 DEF Invite, PendingOf, Pending
  <2>2. ASSUME NEW q \in Threads, Inviting(q, u, t)
        PROVE  FALSE
    <3>1. Mark(u, t, {"overlap"})
      BY <1>5, <2>2 DEF Invite, Inviting
    <3> QED
      BY <3>1, MarkAdds
  <2>3. \A q \in Threads : q # p => req'[q] = req[q]
    BY <1>5 DEF Invite, Become, TypeOK
  <2> QED
    BY <2>1, <2>2, <2>3
<1>6. ASSUME NEW p \in Threads, NEW i \in Invitations, Sends(p, i), Inviting(p, u, t),
             NEW j \in PendingOf(u, t)'
      PROVE  j = i
  <2>1. \A k \in Invitations : k # i => inv'[k] = inv[k]
    BY <1>6 DEF Sends, InviteCommit, TypeOK
  <2>2. PendingOf(u, t) = {}
    BY <1>2, <1>6
  <2>3. j \in Invitations /\ Pending(j)' /\ inv'[j].u = u /\ inv'[j].t = t
    BY DEF PendingOf
  <2>4. inv'[j] # inv[j]
    BY <2>2, <2>3 DEF PendingOf, Pending
  <2> QED
    BY <2>1, <2>3, <2>4
<1>7. ASSUME NEW i \in PendingOf(u, t)', NEW j \in PendingOf(u, t)'
      PROVE  i = j
  <2>1. CASE i \in PendingOf(u, t) /\ j \in PendingOf(u, t)
    BY <1>2, <2>1
  <2>2. CASE \E p \in Threads : Sends(p, i) /\ Inviting(p, u, t)
    BY <1>3, <1>6, <2>2
  <2>3. CASE \E p \in Threads : Sends(p, j) /\ Inviting(p, u, t)
    BY <1>3, <1>6, <2>3
  <2> QED
    BY <1>3, <2>1, <2>2, <2>3
<1>8. ASSUME NEW p \in Threads, Inviting(p, u, t)'
      PROVE  /\ PendingOf(u, t)' = {}
             /\ \A q \in Threads : Inviting(q, u, t)' => q = p
  <2>1. CASE \E r \in Roles \cup {None} : Invite(p, u, t, r)
    <3>1. /\ PendingOf(u, t)' = {}
          /\ \A q \in Threads : ~Inviting(q, u, t)
          /\ \A q \in Threads : q # p => req'[q] = req[q]
      BY <1>5, <2>1
    <3>2. ASSUME NEW q \in Threads, Inviting(q, u, t)', q # p
          PROVE  FALSE
      BY <3>1, <3>2 DEF Inviting, At
    <3> QED
      BY <3>1, <3>2
  <2>2. CASE Inviting(p, u, t) /\ req'[p] = req[p]
    <3>1. PendingOf(u, t) = {}
      BY <1>2, <2>2
    <3>2. ASSUME NEW i \in PendingOf(u, t)'
          PROVE  FALSE
      <4>1. PICK q \in Threads : Sends(q, i) /\ Inviting(q, u, t)
        BY <1>3, <3>1
      <4>2. q = p
        BY <1>2, <2>2, <4>1
      <4>3. req'[p] = Idle /\ req[p].pc = "invite"
        BY <4>1, <4>2 DEF Sends, InviteCommit, Become, At, TypeOK
      <4> QED
        BY <2>2, <4>3 DEF Idle
    <3>3. ASSUME NEW q \in Threads, Inviting(q, u, t)'
          PROVE  q = p
      <4>1. Inviting(q, u, t)
        BY <1>4, <1>5, <2>2, <3>3
      <4> QED
        BY <1>2, <2>2, <4>1
    <3> QED
      BY <3>2, <3>3
  <2> QED
    BY <1>4, <1>8, <2>1, <2>2
<1> QED
  BY <1>7, <1>8

-----------------------------------------------------------------------------
(* What the access of users promises holds in every reachable state.       *)

AccessInv ==
    /\ IInv /\ LateMade /\ AdminsHome
    /\ AsRead /\ RoleAsRead /\ NewOrKnown /\ CloseGiven /\ UnsentUngiven
    /\ MembersHaveRoles /\ OthersBlocked /\ UsedGave /\ PendingGaveNone /\ InvitedAlone

LEMMA InitAccessInv == Init => AccessInv
<1> SUFFICES ASSUME Init PROVE AccessInv
  OBVIOUS
<1>1. \A p \in Threads : req[p].pc = "idle"
  BY DEF Init, Idle
<1>2. \A i \in Invitations : inv[i].st = "unused" /\ given[i] = 0
  BY DEF Init, Unused
<1>3. LateMade /\ AdminsHome /\ AsRead /\ RoleAsRead /\ NewOrKnown /\ CloseGiven
  BY <1>1 DEF Init, LateMade, AdminsHome, AsRead, RoleAsRead, NewOrKnown, CloseGiven, At
<1>4. UnsentUngiven /\ OthersBlocked /\ UsedGave /\ PendingGaveNone
  BY <1>2 DEF UnsentUngiven, OthersBlocked, UsedGave, PendingGaveNone, IsInv, Pending
<1>5. MembersHaveRoles
  BY DEF Init, MembersHaveRoles, Known
<1>6. InvitedAlone
  BY <1>1, <1>2 DEF InvitedAlone, PendingOf, Pending, Inviting, At
<1> QED
  BY InitIInv, <1>3, <1>4, <1>5, <1>6 DEF AccessInv

LEMMA AccessInvStep == AccessInv /\ [Next]_vars => AccessInv'
<1> SUFFICES ASSUME AccessInv, [Next]_vars PROVE AccessInv'
  OBVIOUS
<1> USE DEF AccessInv
<1>1. IInv' /\ TypeOK' /\ TypeOK
  BY TypeStep, LateStep DEF IInv
<1>2. LateMade' /\ AdminsHome'
  BY <1>1, LateMadeStep, AdminsHomeStep
<1>3. AsRead' /\ RoleAsRead' /\ NewOrKnown'
  BY <1>1, AsReadStep, RoleAsReadStep, NewOrKnownStep
<1>4. CloseGiven' /\ UnsentUngiven' /\ UsedGave'
  BY <1>1, CloseGivenStep, UnsentUngivenStep, UsedGaveStep
<1>5. MembersHaveRoles'
  BY <1>1, MembersStep
<1>6. OthersBlocked'
  BY <1>1, OthersBlockedStep
<1>7. PendingGaveNone'
  BY <1>1, PendingGaveNoneStep
<1>8. InvitedAlone'
  BY <1>1, InvitedAloneStep
<1> QED
  BY <1>1, <1>2, <1>3, <1>4, <1>5, <1>6, <1>7, <1>8

LEMMA AccessInvHolds == Spec => []AccessInv
  BY InitAccessInv, AccessInvStep, PTL DEF Spec

\* Whose home is a tenant has a role there, unless the registration was cut or
\* the roles were removed or deleted while they were given.
THEOREM MembersHaveRolesCorrect == Spec => []MembersHaveRoles
<1>1. AccessInv => MembersHaveRoles
  BY DEF AccessInv
<1> QED
  BY <1>1, AccessInvHolds, PTL

\* An invitation gives access once, however many requests accept it.
THEOREM GivenOnceCorrect == Spec => []GivenOnce
<1>1. AccessInv => GivenOnce
  <2> SUFFICES ASSUME AccessInv, NEW i \in Invitations, IsInv(i), "removed" \notin MarksOf(i)
               PROVE  given[i] <= 1
    BY DEF GivenOnce
  <2>1. given[i] \in Nat /\ (given[i] > 0 => given[i] = 1)
    BY DEF AccessInv, IInv, TypeOK, OthersBlocked
  <2> QED
    BY <2>1
<1> QED
  BY <1>1, AccessInvHolds, PTL

\* An invitation that is used has given access, and one that is pending has
\* not, nor has its addressee access, unless an acceptance was cut between the
\* grant and the use or access came another way.
THEOREM PendingMeansNoAccessCorrect == Spec => []PendingMeansNoAccess
<1>1. AccessInv => PendingMeansNoAccess
  BY DEF AccessInv, UsedGave, PendingGaveNone, PendingMeansNoAccess
<1> QED
  BY <1>1, AccessInvHolds, PTL

\* A person has one pending invitation to a tenant at most, unless two
\* requests invited them at the same time.
THEOREM OnePendingCorrect == Spec => []OnePending
<1>1. AccessInv => OnePending
  <2> SUFFICES ASSUME AccessInv, NEW u \in People, NEW t \in Tenants,
                      "overlap" \notin marks[<<u, t>>]
               PROVE  Cardinality(PendingOf(u, t)) <= 1
    BY DEF OnePending
  <2>1. \A i \in PendingOf(u, t), j \in PendingOf(u, t) : i = j
    BY DEF AccessInv, InvitedAlone
  <2>2. CASE PendingOf(u, t) = {}
    BY <2>2, FS_EmptySet
  <2>3. CASE PendingOf(u, t) # {}
    <3>1. PICK i : i \in PendingOf(u, t)
      BY <2>3
    <3>2. PendingOf(u, t) = {i}
      BY <2>1, <3>1
    <3>3. Cardinality({i}) = 1
      BY FS_Singleton
    <3> QED
      BY <3>2, <3>3
  <2> QED
    BY <2>2, <2>3
<1> QED
  BY <1>1, AccessInvHolds, PTL
=============================================================================
