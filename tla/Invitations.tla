---------------------------- MODULE Invitations ----------------------------
(***************************************************************************)
(* Invitations to organizations and the memberships they lead to: create,  *)
(* resend and revoke (routes/organizations.ts of the backend), accept      *)
(* (routes/invitations.ts), and the role changes and removals of members   *)
(* (routes/organizations.ts of security-service), which work on the same   *)
(* tables.  Requests interleave at their statements; an accept is a        *)
(* transaction, READ COMMITTED, that holds the lock of its invitation's    *)
(* row.  Portal scoping is on.  The theorems assume InvitationsAssumption. *)
(***************************************************************************)
EXTENDS Integers, FiniteSets

CONSTANTS
    Invitation,    \* ids that requests mint
    Person, Organization, Portal,
    NoPortal,      \* a null portal_id
    PersonOf, OrganizationOf, PortalOf, RoleOf,   \* of an invitation
    Requester,     \* requests in progress at once
    NewRole,       \* bound: roles that role changes give
    MaxLost        \* bound: failing calls to Permit, and crashes

Role == {"admin", "member", "viewer"}   \* ALLOWED_INVITE_ROLES
PermitRole == {"admin", "editor", "viewer"}

InvitationsAssumption ==
    /\ PersonOf \in [Invitation -> Person]
    /\ OrganizationOf \in [Invitation -> Organization]
    /\ PortalOf \in [Invitation -> Portal \cup {NoPortal}]
    /\ RoleOf \in [Invitation -> Role]
    /\ NewRole \subseteq Role
    /\ NoPortal \notin Portal
    /\ "none" \notin Invitation
    /\ MaxLost \in Nat

Seat == Person \X Organization
SeatOf(i) == <<PersonOf[i], OrganizationOf[i]>>

VARIABLES
    invitation,  \* organization_invitations.status, or "none"
    lapsed,      \* invitations whose expires_at has passed
    enrolled,    \* persons with an account
    home,        \* users.home_portal_id
    member,      \* organization_memberships: the row of a seat, or NoMember
    roles,       \* Permit: the roles of each seat
    req,         \* requests in progress
    granted,     \* how many memberships each invitation has led to
    lost

invitationVars ==
    <<invitation, lapsed, enrolled, home, member, roles, req, granted, lost>>

\* A membership is named after the invitation that created it.
NoMember == [id |-> "none", role |-> "viewer"]
Member == [id : Invitation, role : Role] \cup {NoMember}

Idle == [op |-> "idle"]

\* What a request does next, to an invitation or the member it led to.
NewRequest(op, i, step, role) == [op |-> op, inv |-> i, step |-> step, role |-> role]
Requests == [op : {"invite", "resend", "revoke", "change", "remove"},
         inv : Invitation, step : {"write", "assign"}, role : Role]
        \cup [op : {"accept"}, inv : Invitation,
              step : {"cas", "look", "insert", "keep", "assign"}, role : Role]

InvitationsInit ==
    /\ invitation = [i \in Invitation |-> "none"]
    /\ lapsed = {}
    /\ enrolled = {}
    /\ home = [p \in Person |-> NoPortal]
    /\ member = [s \in Seat |-> NoMember]
    /\ roles = [s \in Seat |-> {}]
    /\ req = [c \in Requester |-> Idle]
    /\ granted = [i \in Invitation |-> 0]
    /\ lost = 0

-----------------------------------------------------------------------------
\* The person signs up.
Enroll(p) ==
    /\ p \notin enrolled
    /\ enrolled' = enrolled \cup {p}
    /\ UNCHANGED <<invitation, lapsed, home, member, roles, req, granted, lost>>

\* Seven days pass.
Lapse(i) ==
    /\ invitation[i] = "pending"
    /\ lapsed' = lapsed \cup {i}
    /\ UNCHANGED <<invitation, enrolled, home, member, roles, req, granted, lost>>

-----------------------------------------------------------------------------
(* Requests read what they decide on, and write later.                     *)

Start(c, job) ==
    /\ req[c] = Idle
    /\ req' = [req EXCEPT ![c] = job]
    /\ UNCHANGED <<invitation, lapsed, enrolled, home, member, roles, granted, lost>>

At(c, op, step) == req[c] # Idle /\ req[c].op = op /\ req[c].step = step

Proceed(c, step) == req' = [req EXCEPT ![c].step = step]
End(c) == req' = [req EXCEPT ![c] = Idle]

\* No pending invitation of the seat, and for a portal's invitation no account
\* of another home.  The id is fresh.
Invite(c, i) ==
    /\ invitation[i] = "none"
    /\ \A q \in Requester : req[q] # Idle => req[q].inv # i
    /\ ~\E j \in Invitation : invitation[j] = "pending" /\ SeatOf(j) = SeatOf(i)
    /\ PortalOf[i] # NoPortal /\ PersonOf[i] \in enrolled
           => home[PersonOf[i]] = PortalOf[i]
    /\ Start(c, NewRequest("invite", i, "write", RoleOf[i]))

\* The session is of the invitation's portal, and so is the account, if of any.
Accept(c, i) ==
    /\ invitation[i] \in {"pending", "accepted"}
    /\ i \notin lapsed
    /\ PersonOf[i] \in enrolled
    /\ home[PersonOf[i]] \in {NoPortal, PortalOf[i]}
    /\ Start(c, NewRequest("accept", i, "cas", RoleOf[i]))

Resend(c, i) ==
    /\ invitation[i] = "pending"
    /\ Start(c, NewRequest("resend", i, "write", RoleOf[i]))

Revoke(c, i) ==
    /\ invitation[i] # "none"
    /\ Start(c, NewRequest("revoke", i, "write", RoleOf[i]))

IsMember(i) == member[SeatOf(i)].id = i

ChangeRole(c, i, role) ==
    /\ IsMember(i)
    /\ Start(c, NewRequest("change", i, "write", role))

RemoveMember(c, i) ==
    /\ IsMember(i)
    /\ Start(c, NewRequest("remove", i, "write", RoleOf[i]))

-----------------------------------------------------------------------------
\* Faulty variant: nobody waits for an accept's row lock.
IsNeverLocked(i) == FALSE

\* An accept that has changed the invitation's row has not committed.
IsLocked(i) ==
    \E q \in Requester :
        /\ req[q] # Idle
        /\ req[q].inv = i
        /\ req[q].step \in {"look", "insert", "keep"}

\* The accept's row lock makes other writers of the invitation wait.
WriteInvitation(c) ==
    LET i == req[c].inv IN
    /\ \E op \in {"invite", "resend", "revoke"} : At(c, op, "write")
    /\ ~IsLocked(i)
    /\ invitation' = [invitation EXCEPT ![i] =
           CASE req[c].op = "invite" -> "pending"
             [] req[c].op = "revoke" -> "revoked"
             [] req[c].op = "resend" -> @]
    /\ lapsed' = IF req[c].op = "resend" THEN lapsed \ {i} ELSE lapsed
    /\ End(c)
    /\ UNCHANGED <<enrolled, home, member, roles, granted, lost>>

\* UPDATE ... WHERE id = ? AND status = 'pending': no row is a 409.
CompareAndSwap(c) ==
    LET i == req[c].inv IN
    /\ At(c, "accept", "cas")
    /\ ~IsLocked(i)
    /\ IF invitation[i] = "pending" THEN Proceed(c, "look") ELSE End(c)
    /\ UNCHANGED <<invitation, lapsed, enrolled, home, member, roles, granted, lost>>

Look(c) ==
    /\ At(c, "accept", "look")
    /\ Proceed(c, IF member[SeatOf(req[c].inv)] = NoMember THEN "insert" ELSE "keep")
    /\ UNCHANGED <<invitation, lapsed, enrolled, home, member, roles, granted, lost>>

\* Faulty variant: without whereNull.
HomedAnew(i) == IF PortalOf[i] = NoPortal THEN home[PersonOf[i]] ELSE PortalOf[i]

\* A portal's invitation gives the account a home, if it still has none.
Homed(i) == IF home[PersonOf[i]] = NoPortal THEN PortalOf[i] ELSE home[PersonOf[i]]

\* The insert, unless there is a membership, the home and the commit; the
\* invitation's new status is seen from here on.
Admit(c) ==
    LET i == req[c].inv IN
    /\ \/ /\ At(c, "accept", "insert")
          /\ member[SeatOf(i)] = NoMember
          /\ member' = [member EXCEPT ![SeatOf(i)] = [id |-> i, role |-> RoleOf[i]]]
          /\ granted' = [granted EXCEPT ![i] = @ + 1]
       \/ /\ At(c, "accept", "keep")
          /\ UNCHANGED <<member, granted>>
    /\ invitation' = [invitation EXCEPT ![i] = "accepted"]
    /\ home' = [home EXCEPT ![PersonOf[i]] = Homed(i)]
    /\ Proceed(c, "assign")
    /\ UNCHANGED <<lapsed, enrolled, roles, lost>>

\* UNIQUE (user_id, organization_id): another accept was faster.  The
\* transaction is rolled back, the invitation stays pending.
Conflict(c) ==
    /\ At(c, "accept", "insert")
    /\ member[SeatOf(req[c].inv)] # NoMember
    /\ End(c)
    /\ UNCHANGED <<invitation, lapsed, enrolled, home, member, roles, granted, lost>>

\* UPDATE or DELETE ... WHERE id = memberId: no row if it is gone.
WriteRole(c) ==
    LET i == req[c].inv IN
    /\ At(c, "change", "write")
    /\ member' = IF IsMember(i) THEN [member EXCEPT ![SeatOf(i)].role = req[c].role]
                                ELSE member
    /\ Proceed(c, "assign")
    /\ UNCHANGED <<invitation, lapsed, enrolled, home, roles, granted, lost>>

DeleteMember(c) ==
    LET i == req[c].inv IN
    /\ At(c, "remove", "write")
    /\ member' = IF IsMember(i) THEN [member EXCEPT ![SeatOf(i)] = NoMember]
                                ELSE member
    /\ End(c)
    /\ UNCHANGED <<invitation, lapsed, enrolled, home, roles, granted, lost>>

-----------------------------------------------------------------------------
(* Permit, after the database: assignOrganizationRole only ever adds.      *)

\* Faulty variant: the role of the invitation, whatever the request's.
AssignedOfInvitation(job) == RoleOf[job.inv]

Assigned(job) == job.role

\* roleMapping of assignOrganizationRole.
PermitRoleOf(role) == IF role = "member" THEN "editor" ELSE role

IsAssigning(c) == At(c, "accept", "assign") \/ At(c, "change", "assign")

Assign(c) ==
    /\ IsAssigning(c)
    /\ roles' = [roles EXCEPT ![SeatOf(req[c].inv)] =
                     @ \cup {PermitRoleOf(Assigned(req[c]))}]
    /\ End(c)
    /\ UNCHANGED <<invitation, lapsed, enrolled, home, member, granted, lost>>

\* The call fails, which is logged and forgotten, or the process dies, and with
\* it what its transaction did.
Fail(c) ==
    /\ req[c] # Idle
    /\ lost < MaxLost
    /\ lost' = lost + 1
    /\ End(c)
    /\ UNCHANGED <<invitation, lapsed, enrolled, home, member, roles, granted>>

-----------------------------------------------------------------------------
Begin(c, i) ==
    \/ Invite(c, i) \/ Accept(c, i) \/ Resend(c, i) \/ Revoke(c, i)
    \/ RemoveMember(c, i)
    \/ \E role \in NewRole : ChangeRole(c, i, role)

Go(c) ==
    \/ WriteInvitation(c) \/ CompareAndSwap(c) \/ Look(c) \/ Admit(c) \/ Conflict(c)
    \/ WriteRole(c) \/ DeleteMember(c) \/ Assign(c) \/ Fail(c)

InvitationsNext ==
    \/ \E p \in Person : Enroll(p)
    \/ \E i \in Invitation : Lapse(i)
    \/ \E c \in Requester : Go(c) \/ \E i \in Invitation : Begin(c, i)

InvitationsSpec == InvitationsInit /\ [][InvitationsNext]_invitationVars

-----------------------------------------------------------------------------
InvitationsTypeOK ==
    /\ invitation \in [Invitation -> {"none", "pending", "accepted", "revoked"}]
    /\ lapsed \subseteq Invitation
    /\ enrolled \subseteq Person
    /\ home \in [Person -> Portal \cup {NoPortal}]
    /\ member \in [Seat -> Member]
    /\ roles \in [Seat -> SUBSET PermitRole]
    /\ req \in [Requester -> Requests \cup {Idle}]
    /\ granted \in [Invitation -> Nat]
    /\ lost \in Nat

\* An invitation leads to one membership at most, and only while it is pending:
\* accepts race each other and a revocation, and members are removed in between.
EntersOnceWhilePending ==
    [][\A i \in Invitation : granted'[i] # granted[i]
           => invitation[i] = "pending" /\ granted'[i] = 1]_invitationVars

\* The home an account was given stays, though accepts of two portals'
\* invitations both read that it has none.
HomeIsKept ==
    [][\A p \in Person : home[p] # NoPortal => home'[p] = home[p]]_invitationVars

IsAwaited(s) == \E c \in Requester : IsAssigning(c) /\ SeatOf(req[c].inv) = s

\* Each member has its role in Permit, or a request is about to assign it, or a
\* call failed ("the role can be reconciled later": invitations.ts).
MembersHaveRole ==
    \A s \in Seat :
        member[s] # NoMember /\ lost = 0 /\ ~IsAwaited(s)
            => PermitRoleOf(member[s].role) \in roles[s]
=============================================================================
