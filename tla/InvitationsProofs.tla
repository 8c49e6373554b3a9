------------------------- MODULE InvitationsProofs -------------------------
(***************************************************************************)
(* Proofs about Invitations for any number of invitations, people,         *)
(* organizations, portals and requests in progress.  Each theorem assumes  *)
(* InvitationsAssumption.                                                  *)
(***************************************************************************)
EXTENDS Invitations, TLAPS

\* Requests that hold the lock of an invitation's row.
Locks(c, i) == req[c] # Idle /\ req[c].inv = i /\ req[c].step \in {"look", "insert", "keep"}

\* The lock is one request's, and the invitation is pending as long as it is held.
RowLocking ==
    \A c \in Requester, i \in Invitation : Locks(c, i) =>
        /\ req[c].op = "accept"
        /\ invitation[i] = "pending"
        /\ \A q \in Requester : Locks(q, i) => q = c

\* An id is minted for one request, and nobody knows it before the row exists.
Minting ==
    /\ \A c \in Requester : req[c] # Idle /\ req[c].op = "invite" =>
          /\ invitation[req[c].inv] = "none"
          /\ \A q \in Requester : req[q] # Idle /\ req[q].inv = req[c].inv => q = c
    /\ \A s \in Seat : member[s].id # "none" => invitation[member[s].id] # "none"

\* What an invitation has led to when it is pending, and before it is.
Granting ==
    /\ \A i \in Invitation : invitation[i] \in {"none", "pending"} => granted[i] = 0
    /\ \A i \in Invitation : granted[i] \in {0, 1}

\* An accept is of the invitation's role.
Roles ==
    \A c \in Requester :
        req[c] # Idle /\ req[c].op = "accept" => req[c].role = RoleOf[req[c].inv]

\* A member's role is in Permit, or the request that is to bring it there is on
\* its way with just that role.
Backed(s) ==
    \/ PermitRoleOf(member[s].role) \in roles[s]
    \/ \E c \in Requester : /\ IsAssigning(c)
                         /\ SeatOf(req[c].inv) = s
                         /\ req[c].role = member[s].role

Backing == \A s \in Seat : member[s] # NoMember /\ lost = 0 => Backed(s)

-----------------------------------------------------------------------------
\* A request in progress is a job, and no job is idle.
LEMMA JobType ==
    ASSUME InvitationsTypeOK, NEW c \in Requester, req[c] # Idle
    PROVE  /\ req[c] \in Requests
           /\ req[c].inv \in Invitation
           /\ req[c].role \in Role
BY DEF InvitationsTypeOK, Requests

\* The seat of an invitation is a seat.
LEMMA SeatType ==
    ASSUME InvitationsAssumption, NEW i \in Invitation PROVE SeatOf(i) \in Seat
BY DEF InvitationsAssumption, SeatOf, Seat

LEMMA TypeInit == InvitationsInit => InvitationsTypeOK
BY DEF InvitationsInit, InvitationsTypeOK, Member, NoMember, Role, PermitRole

\* Requests that begin.
LEMMA BeginType ==
    ASSUME InvitationsAssumption, InvitationsTypeOK,
           NEW c \in Requester, NEW i \in Invitation, Begin(c, i)
    PROVE  InvitationsTypeOK'
<1>1. RoleOf[i] \in Role
  BY DEF InvitationsAssumption
<1>s. ASSUME NEW job \in Requests, Start(c, job) PROVE InvitationsTypeOK'
  BY <1>s DEF Start, InvitationsTypeOK
<1>2. \A op \in {"invite", "resend", "revoke", "change", "remove"}, role \in Role :
         NewRequest(op, i, "write", role) \in Requests
  BY DEF NewRequest, Requests
<1>3. CASE Invite(c, i)
  BY <1>1, <1>2, <1>3, <1>s DEF Invite
<1>4. CASE Accept(c, i)
  <2>1. NewRequest("accept", i, "cas", RoleOf[i]) \in Requests
    BY <1>1 DEF NewRequest, Requests
  <2> QED BY <1>4, <1>s, <2>1 DEF Accept
<1>5. CASE Resend(c, i)
  BY <1>1, <1>2, <1>5, <1>s DEF Resend
<1>6. CASE Revoke(c, i)
  BY <1>1, <1>2, <1>6, <1>s DEF Revoke
<1>7. CASE RemoveMember(c, i)
  BY <1>1, <1>2, <1>7, <1>s DEF RemoveMember
<1>8. ASSUME NEW role \in NewRole, ChangeRole(c, i, role) PROVE InvitationsTypeOK'
  <2>1. role \in Role
    BY DEF InvitationsAssumption
  <2> QED BY <1>2, <1>8, <1>s, <2>1 DEF ChangeRole
<1> QED BY <1>3, <1>4, <1>5, <1>6, <1>7, <1>8 DEF Begin

\* Requests that go on.
LEMMA GoType ==
    ASSUME InvitationsAssumption, InvitationsTypeOK, NEW c \in Requester, Go(c)
    PROVE  InvitationsTypeOK'
<1> DEFINE i == req[c].inv
<1>e. ASSUME End(c) PROVE req' \in [Requester -> Requests \cup {Idle}]
  BY <1>e DEF End, InvitationsTypeOK
<1>g. ASSUME NEW op, NEW from, NEW step, At(c, op, from), Proceed(c, step),
             \/ op = "accept" /\ step \in {"look", "insert", "keep", "assign"}
             \/ op = "change" /\ step = "assign"
      PROVE  req' \in [Requester -> Requests \cup {Idle}]
  <2>1. req[c] \in Requests /\ req[c].op = op
    BY <1>g, JobType DEF At
  <2>2. [req[c] EXCEPT !.step = step] \in Requests
    BY <1>g, <2>1 DEF Requests
  <2> QED BY <1>g, <2>2 DEF Proceed, InvitationsTypeOK
<1>i. req[c] # Idle
  BY DEF Go, WriteInvitation, CompareAndSwap, Look, Admit, Conflict, WriteRole,
         DeleteMember, Assign, IsAssigning, Fail, At
<1>j. i \in Invitation /\ req[c].role \in Role /\ SeatOf(i) \in Seat
  BY <1>i, JobType, SeatType
<1>1. CASE WriteInvitation(c)
  <2>1. invitation' \in [Invitation -> {"none", "pending", "accepted", "revoked"}]
    BY <1>1, <1>j DEF WriteInvitation, At, InvitationsTypeOK
  <2> QED BY <1>1, <1>e, <2>1 DEF WriteInvitation, InvitationsTypeOK
<1>2. CASE CompareAndSwap(c)
  BY <1>2, <1>e, <1>g DEF CompareAndSwap, InvitationsTypeOK
<1>3. CASE Look(c)
  BY <1>3, <1>g DEF Look, InvitationsTypeOK
<1>4. CASE Admit(c)
  <2>1. req' \in [Requester -> Requests \cup {Idle}]
    BY <1>4, <1>g DEF Admit
  <2>2. [id |-> i, role |-> RoleOf[i]] \in Member
    BY <1>j DEF InvitationsAssumption, Member
  <2>3. member' \in [Seat -> Member] /\ granted' \in [Invitation -> Nat]
    BY <1>4, <1>j, <2>2 DEF Admit, InvitationsTypeOK
  <2>4. home' \in [Person -> Portal \cup {NoPortal}]
    BY <1>4, <1>j DEF Admit, Homed, InvitationsTypeOK, InvitationsAssumption
  <2> QED BY <1>4, <2>1, <2>3, <2>4 DEF Admit, InvitationsTypeOK
<1>5. CASE Conflict(c)
  BY <1>5, <1>e DEF Conflict, InvitationsTypeOK
<1>6. CASE WriteRole(c)
  <2>1. req' \in [Requester -> Requests \cup {Idle}]
    BY <1>6, <1>g DEF WriteRole
  <2>2. member' \in [Seat -> Member]
    BY <1>6, <1>j
    DEF WriteRole, InvitationsTypeOK, IsMember, Member, NoMember, InvitationsAssumption
  <2> QED BY <1>6, <2>1, <2>2 DEF WriteRole, InvitationsTypeOK
<1>7. CASE DeleteMember(c)
  BY <1>7, <1>e, <1>j DEF DeleteMember, InvitationsTypeOK, Member
<1>8. CASE Assign(c)
  <2>1. PermitRoleOf(Assigned(req[c])) \in PermitRole
    BY <1>j DEF PermitRoleOf, Assigned, Role, PermitRole
  <2> QED BY <1>8, <1>e, <1>j, <2>1 DEF Assign, InvitationsTypeOK
<1>9. CASE Fail(c)
  BY <1>9, <1>e DEF Fail, InvitationsTypeOK
<1> QED BY <1>1, <1>2, <1>3, <1>4, <1>5, <1>6, <1>7, <1>8, <1>9 DEF Go

LEMMA InvitationsTypeStep ==
     ASSUME InvitationsAssumption, InvitationsTypeOK, [InvitationsNext]_invitationVars
     PROVE  InvitationsTypeOK'
<1>1. ASSUME NEW p \in Person, Enroll(p) PROVE InvitationsTypeOK'
  BY <1>1 DEF Enroll, InvitationsTypeOK
<1>2. ASSUME NEW i \in Invitation, Lapse(i) PROVE InvitationsTypeOK'
  BY <1>2 DEF Lapse, InvitationsTypeOK
<1>3. CASE UNCHANGED invitationVars
  BY <1>3 DEF invitationVars, InvitationsTypeOK
<1> QED BY <1>1, <1>2, <1>3, BeginType, GoType DEF InvitationsNext

-----------------------------------------------------------------------------
\* What the requests that begin have in common.
Begins(c, i, job) ==
    /\ req[c] = Idle
    /\ req' = [req EXCEPT ![c] = job]
    /\ job.inv = i
    /\ job.step \in {"write", "cas"}
    /\ job.op = "accept" => job.role = RoleOf[i]
    /\ job.op = "invite" =>
          invitation[i] = "none" /\ \A q \in Requester : req[q] # Idle => req[q].inv # i
    /\ job.op # "invite" => invitation[i] # "none"
    /\ UNCHANGED <<invitation, home, member, roles, granted, lost>>

LEMMA BeginEffect ==
    ASSUME InvitationsAssumption, InvitationsTypeOK, Minting,
           NEW c \in Requester, NEW i \in Invitation, Begin(c, i)
    PROVE  \E job : Begins(c, i, job)
<1>s. ASSUME NEW op, NEW step \in {"write", "cas"}, NEW role,
             Start(c, NewRequest(op, i, step, role)),
             op = "accept" => role = RoleOf[i],
             op = "invite" =>
                 invitation[i] = "none" /\ \A q \in Requester : req[q] # Idle => req[q].inv # i,
             op # "invite" => invitation[i] # "none"
      PROVE  \E job : Begins(c, i, job)
  <2>1. Begins(c, i, NewRequest(op, i, step, role))
    BY <1>s DEF Begins, Start, NewRequest
  <2> QED BY <2>1
<1>m. IsMember(i) => invitation[i] # "none"
  BY SeatType DEF IsMember, Minting, InvitationsAssumption
<1>1. CASE Invite(c, i)
  BY <1>1, <1>s DEF Invite
<1>2. CASE Accept(c, i)
  BY <1>2, <1>s DEF Accept
<1>3. CASE Resend(c, i)
  BY <1>3, <1>s DEF Resend
<1>4. CASE Revoke(c, i)
  BY <1>4, <1>s DEF Revoke
<1>5. CASE RemoveMember(c, i)
  BY <1>5, <1>m, <1>s DEF RemoveMember
<1>6. ASSUME NEW role \in NewRole, ChangeRole(c, i, role) PROVE \E job : Begins(c, i, job)
  BY <1>6, <1>m, <1>s DEF ChangeRole
<1> QED BY <1>1, <1>2, <1>3, <1>4, <1>5, <1>6 DEF Begin

\* A step that is nobody's request.
LEMMA Frame ==
    ASSUME [InvitationsNext]_invitationVars
    PROVE  \/ UNCHANGED <<invitation, home, member, roles, req, granted, lost>>
           \/ \E c \in Requester : Go(c) \/ \E i \in Invitation : Begin(c, i)
BY DEF InvitationsNext, Enroll, Lapse, invitationVars

\* What a request that goes on does to the requests.
LEMMA GoEffect ==
    ASSUME InvitationsAssumption, InvitationsTypeOK, NEW c \in Requester, Go(c)
    PROVE  /\ req[c] # Idle
           /\ \A q \in Requester : q # c => req'[q] = req[q]
           /\ \/ req'[c] = Idle
              \/ /\ req'[c] # Idle
                 /\ req'[c].op = req[c].op /\ req'[c].inv = req[c].inv
                 /\ req'[c].role = req[c].role
                 /\ req[c].op \in {"accept", "change"}
<1>1. req[c] # Idle
  BY DEF Go, WriteInvitation, CompareAndSwap, Look, Admit, Conflict, WriteRole,
         DeleteMember, Assign, IsAssigning, Fail, At
<1>2. req[c] \in Requests
  BY <1>1, JobType
<1>e. ASSUME End(c)
      PROVE  req'[c] = Idle /\ \A q \in Requester : q # c => req'[q] = req[q]
  BY <1>e DEF End, InvitationsTypeOK
<1>g. ASSUME NEW step, Proceed(c, step), req[c].op \in {"accept", "change"}
      PROVE  /\ \A q \in Requester : q # c => req'[q] = req[q]
             /\ req'[c].op = req[c].op /\ req'[c].inv = req[c].inv
             /\ req'[c].role = req[c].role
             /\ req'[c] # Idle
  <2>1. req' = [req EXCEPT ![c] = [req[c] EXCEPT !.step = step]]
    BY <1>g DEF Proceed
  <2>2. /\ req'[c] = [req[c] EXCEPT !.step = step]
        /\ \A q \in Requester : q # c => req'[q] = req[q]
    BY <2>1 DEF InvitationsTypeOK
  <2>3. req'[c].op = req[c].op /\ req'[c].inv = req[c].inv /\ req'[c].role = req[c].role
    BY <1>2, <2>2 DEF Requests
  <2>4. req'[c] # Idle
    BY <1>g, <2>3 DEF Idle
  <2> QED BY <2>2, <2>3, <2>4
<1>3. \/ End(c)
      \/ \E step : Proceed(c, step) /\ req[c].op \in {"accept", "change"}
  BY DEF Go, WriteInvitation, CompareAndSwap, Look, Admit, Conflict, WriteRole,
         DeleteMember, Assign, Fail, At
<1> QED BY <1>1, <1>3, <1>e, <1>g

-----------------------------------------------------------------------------
\* Locks that are kept or given up keep the invariant.
LEMMA LocksShrink ==
    ASSUME RowLocking,
           \A q \in Requester, j \in Invitation : Locks(q, j)' =>
               /\ Locks(q, j)
               /\ req'[q].op = req[q].op
               /\ invitation'[j] = invitation[j]
    PROVE  RowLocking'
BY DEF RowLocking

LEMMA RowLockingStep ==
    ASSUME InvitationsAssumption, InvitationsTypeOK,
           Minting, RowLocking, [InvitationsNext]_invitationVars
    PROVE  RowLocking'
<1>1. CASE UNCHANGED <<invitation, home, member, roles, req, granted, lost>>
  BY <1>1 DEF RowLocking, Locks
<1>2. ASSUME NEW c \in Requester, NEW i \in Invitation, Begin(c, i) PROVE RowLocking'
  <2>1. PICK job : Begins(c, i, job)
    BY <1>2, BeginEffect
  <2> QED BY <2>1, LocksShrink DEF Begins, Locks, InvitationsTypeOK
<1>3. ASSUME NEW c \in Requester, Go(c) PROVE RowLocking'
  <2> DEFINE i == req[c].inv
  <2>e. /\ req[c] # Idle
        /\ \A q \in Requester : q # c => req'[q] = req[q]
        /\ \/ req'[c] = Idle
           \/ req'[c] # Idle /\ req'[c].op = req[c].op /\ req'[c].inv = req[c].inv
    BY <1>3, GoEffect
  <2>j. i \in Invitation
    BY <2>e, JobType
  <2>k. IsLocked(i) <=> \E q \in Requester : Locks(q, i)
    BY DEF IsLocked, Locks
  <2>f. ASSUME invitation' = invitation, req'[c] = Idle PROVE RowLocking'
    BY <2>e, <2>f, LocksShrink DEF Locks
  <2>n. ASSUME invitation' = invitation, req'[c].step = "assign" PROVE RowLocking'
    BY <2>e, <2>n, LocksShrink DEF Locks
  <2>1. CASE WriteInvitation(c)
    <3>1. req'[c] = Idle /\ \A j \in Invitation : j # i => invitation'[j] = invitation[j]
      BY <2>1 DEF WriteInvitation, End, InvitationsTypeOK
    <3>2. ~IsLocked(i)
      BY <2>1 DEF WriteInvitation
    <3> QED BY <2>e, <2>k, <3>1, <3>2, LocksShrink DEF Locks
  <2>2. CASE CompareAndSwap(c)
    <3>1. CASE invitation[i] = "pending"
      <4>1. /\ req' = [req EXCEPT ![c].step = "look"] /\ invitation' = invitation
            /\ req[c].op = "accept" /\ ~IsLocked(i)
        BY <2>2, <3>1 DEF CompareAndSwap, Proceed, At
      <4>2. \A q \in Requester, j \in Invitation :
               q # c => (Locks(q, j)' <=> Locks(q, j))
        BY <2>e DEF Locks
      <4>3. req'[c] # Idle /\ req'[c].op = "accept" /\ req'[c].inv = i
        <5>1. req'[c] = [req[c] EXCEPT !.step = "look"]
          BY <4>1 DEF InvitationsTypeOK
        <5>2. req[c] \in Requests
          BY <2>e, JobType
        <5>3. req'[c].op = "accept"
          BY <4>1, <5>1, <5>2 DEF Requests
        <5>4. req'[c] # Idle
          BY <5>3 DEF Idle
        <5> QED BY <2>e, <5>3, <5>4
      <4>4. \A j \in Invitation : Locks(c, j)' => j = i
        BY <4>3 DEF Locks
      <4> QED BY <2>k, <3>1, <4>1, <4>2, <4>3, <4>4 DEF RowLocking
    <3>2. CASE invitation[i] # "pending"
      BY <2>2, <2>f, <3>2 DEF CompareAndSwap, End, InvitationsTypeOK
    <3> QED BY <3>1, <3>2
  <2>3. CASE Look(c)
    <3>1. Locks(c, i) /\ invitation' = invitation
      BY <2>3 DEF Look, At, Locks
    <3>2. req'[c].op = req[c].op /\ req'[c].inv = i
      <4>1. req'[c] # Idle
        <5>1. req'[c] = [req[c] EXCEPT !.step = IF member[SeatOf(i)] = NoMember
                                                THEN "insert" ELSE "keep"]
          BY <2>3 DEF Look, Proceed, InvitationsTypeOK
        <5>2. req[c] \in Requests
          BY <2>e, JobType
        <5>3. req'[c].op = "accept"
          BY <2>3, <5>1, <5>2 DEF Requests, Look, At
        <5> QED BY <5>3 DEF Idle
      <4> QED BY <2>e, <4>1
    <3> QED BY <2>e, <3>1, <3>2, LocksShrink DEF Locks
  <2>4. CASE Admit(c)
    <3>1. Locks(c, i)
      BY <2>4 DEF Admit, At, Locks
    <3>2. \A q \in Requester : q # c => ~Locks(q, i)
      BY <2>j, <3>1 DEF RowLocking
    <3>3. \A j \in Invitation : j # i => invitation'[j] = invitation[j]
      BY <2>4 DEF Admit, InvitationsTypeOK
    <3>4. req'[c].step = "assign"
      <4>1. req'[c] = [req[c] EXCEPT !.step = "assign"]
        BY <2>4 DEF Admit, Proceed, InvitationsTypeOK
      <4>2. req[c] \in Requests
        BY <2>e, JobType
      <4> QED BY <4>1, <4>2 DEF Requests
    <3> QED BY <2>e, <3>2, <3>3, <3>4, LocksShrink DEF Locks
  <2>5. CASE Conflict(c)
    BY <2>5, <2>f DEF Conflict, End, InvitationsTypeOK
  <2>6. CASE WriteRole(c)
    <3>1. req'[c] = [req[c] EXCEPT !.step = "assign"]
      BY <2>6 DEF WriteRole, Proceed, InvitationsTypeOK
    <3>2. req[c] \in Requests
      BY <2>e, JobType
    <3>3. req'[c].step = "assign"
      BY <3>1, <3>2 DEF Requests
    <3> QED BY <2>6, <2>n, <3>3 DEF WriteRole
  <2>7. CASE DeleteMember(c)
    BY <2>7, <2>f DEF DeleteMember, End, InvitationsTypeOK
  <2>8. CASE Assign(c)
    BY <2>8, <2>f DEF Assign, End, InvitationsTypeOK
  <2>9. CASE Fail(c)
    BY <2>9, <2>f DEF Fail, End, InvitationsTypeOK
  <2> QED BY <1>3, <2>1, <2>2, <2>3, <2>4, <2>5, <2>6, <2>7, <2>8, <2>9 DEF Go
<1> QED BY <1>1, <1>2, <1>3, Frame

\* What a request that goes on does to the rows.
LEMMA GoRows ==
    ASSUME InvitationsAssumption, InvitationsTypeOK,
           RowLocking, NEW c \in Requester, Go(c)
    PROVE  LET i == req[c].inv IN
           /\ \A j \in Invitation : j # i =>
                 invitation'[j] = invitation[j] /\ granted'[j] = granted[j]
           /\ \/ invitation'[i] = invitation[i]
              \/ invitation'[i] # "none" /\ req'[c] = Idle
              \/ Locks(c, i)
           /\ invitation'[i] = "none" => invitation[i] = "none"
           /\ invitation'[i] = "pending" =>
                 /\ granted'[i] = granted[i]
                 /\ invitation[i] = "pending" \/ (req[c].op = "invite" /\ req[c].step = "write")
           /\ granted'[i] # granted[i] =>
                 invitation[i] = "pending" /\ granted'[i] = granted[i] + 1
           /\ \A s \in Seat : member'[s].id \in {member[s].id, "none"}
                               \/ (member'[s].id = i /\ invitation'[i] = "accepted")
<1> DEFINE i == req[c].inv
<1>1. req[c] # Idle
  BY GoEffect
<1>2. i \in Invitation /\ SeatOf(i) \in Seat
  BY <1>1, JobType, SeatType
<1>3. CASE WriteInvitation(c)
  BY <1>1, <1>2, <1>3 DEF WriteInvitation, At, End, InvitationsTypeOK
<1>4. CASE Admit(c)
  <2>1. Locks(c, i)
    BY <1>4 DEF Admit, At, Locks
  <2>2. invitation[i] = "pending"
    BY <1>2, <2>1 DEF RowLocking
  <2>3. /\ invitation'[i] = "accepted"
        /\ \A j \in Invitation : j # i => invitation'[j] = invitation[j]
    BY <1>2, <1>4 DEF Admit, InvitationsTypeOK
  <2>4. /\ \A j \in Invitation : j # i => granted'[j] = granted[j]
        /\ granted'[i] \in {granted[i], granted[i] + 1}
    BY <1>2, <1>4 DEF Admit, InvitationsTypeOK
  <2>5. \A s \in Seat : member'[s] = member[s] \/ member'[s].id = i
    BY <1>2, <1>4 DEF Admit, InvitationsTypeOK
  <2> QED BY <1>2, <2>1, <2>2, <2>3, <2>4, <2>5
<1>5. CASE WriteRole(c)
  <2>1. \A s \in Seat : member'[s].id = member[s].id
    BY <1>2, <1>5 DEF WriteRole, InvitationsTypeOK, Member, NoMember
  <2> QED BY <1>5, <2>1 DEF WriteRole
<1>6. CASE DeleteMember(c)
  <2>1. \A s \in Seat : member'[s].id \in {member[s].id, "none"}
    BY <1>2, <1>6 DEF DeleteMember, InvitationsTypeOK, NoMember
  <2> QED BY <1>6, <2>1 DEF DeleteMember
<1>7. CASE CompareAndSwap(c) \/ Look(c) \/ Conflict(c) \/ Assign(c) \/ Fail(c)
  BY <1>7 DEF CompareAndSwap, Look, Conflict, Assign, Fail
<1> QED BY <1>3, <1>4, <1>5, <1>6, <1>7 DEF Go

LEMMA MintingStep ==
    ASSUME InvitationsAssumption, InvitationsTypeOK,
           Minting, RowLocking, [InvitationsNext]_invitationVars
    PROVE  Minting'
<1> DEFINE Fresh == \A c \in Requester : req[c] # Idle /\ req[c].op = "invite" =>
                       /\ invitation[req[c].inv] = "none"
                       /\ \A q \in Requester : req[q] # Idle /\ req[q].inv = req[c].inv => q = c
           Known == \A s \in Seat : member[s].id # "none" => invitation[member[s].id] # "none"
<1>1. CASE UNCHANGED <<invitation, home, member, roles, req, granted, lost>>
  BY <1>1 DEF Minting
<1>2. ASSUME NEW c \in Requester, NEW i \in Invitation, Begin(c, i) PROVE Minting'
  <2>1. PICK job : Begins(c, i, job)
    BY <1>2, BeginEffect
  <2>2. req'[c] = job /\ \A q \in Requester : q # c => req'[q] = req[q]
    BY <2>1 DEF Begins, InvitationsTypeOK
  <2>3. Fresh'
    BY <2>1, <2>2 DEF Begins, Minting
  <2> QED BY <2>1, <2>3 DEF Begins, Minting
<1>3. ASSUME NEW c \in Requester, Go(c) PROVE Minting'
  <2> DEFINE i == req[c].inv
  <2>e. /\ req[c] # Idle
        /\ \A q \in Requester : q # c => req'[q] = req[q]
        /\ \/ req'[c] = Idle
           \/ /\ req'[c] # Idle
              /\ req'[c].op = req[c].op /\ req'[c].inv = req[c].inv
              /\ req[c].op \in {"accept", "change"}
    BY <1>3, GoEffect
  <2>j. \A q \in Requester : req[q] # Idle => req[q].inv \in Invitation
    BY JobType
  <2>r. /\ \A j \in Invitation : j # i => invitation'[j] = invitation[j]
        /\ invitation'[i] = "none" => invitation[i] = "none"
        /\ \A s \in Seat : member'[s].id \in {member[s].id, "none"}
                            \/ (member'[s].id = i /\ invitation'[i] = "accepted")
    BY <1>3, GoRows
  <2>1. Fresh'
    <3> SUFFICES ASSUME NEW d \in Requester, req'[d] # Idle, req'[d].op = "invite"
                 PROVE  /\ invitation'[req'[d].inv] = "none"
                        /\ \A q \in Requester :
                              req'[q] # Idle /\ req'[q].inv = req'[d].inv => q = d
      OBVIOUS
    <3>1. d # c /\ req'[d] = req[d]
      BY <2>e
    <3>2. /\ invitation[req[d].inv] = "none"
          /\ \A q \in Requester : req[q] # Idle /\ req[q].inv = req[d].inv => q = d
      BY <3>1 DEF Minting
    <3>3. req[d].inv # i
      BY <2>e, <3>1, <3>2
    <3>4. invitation'[req[d].inv] = "none"
      BY <2>j, <2>r, <3>1, <3>2, <3>3
    <3> QED BY <2>e, <3>1, <3>2, <3>4
  <2>2. Known'
    <3> SUFFICES ASSUME NEW s \in Seat, member'[s].id # "none"
                 PROVE  invitation'[member'[s].id] # "none"
      OBVIOUS
    <3>1. CASE member'[s].id = i /\ invitation'[i] = "accepted"
      BY <3>1
    <3>2. CASE member'[s].id = member[s].id
      <4>1. invitation[member[s].id] # "none" /\ member[s].id # "none"
        BY <3>2 DEF Minting
      <4>2. member[s].id \in Invitation
        BY <4>1 DEF InvitationsTypeOK, Member, NoMember
      <4> QED BY <2>r, <3>2, <4>1, <4>2
    <3> QED BY <2>r, <3>1, <3>2
  <2> QED BY <2>1, <2>2 DEF Minting
<1> QED BY <1>1, <1>2, <1>3, Frame

LEMMA GrantingStep ==
    ASSUME InvitationsAssumption, InvitationsTypeOK,
           Minting, RowLocking, Granting, [InvitationsNext]_invitationVars
    PROVE  /\ Granting'
           /\ \A i \in Invitation : granted'[i] # granted[i]
                  => invitation[i] = "pending" /\ granted'[i] = 1
<1> DEFINE Goal == /\ Granting'
                   /\ \A i \in Invitation : granted'[i] # granted[i]
                         => invitation[i] = "pending" /\ granted'[i] = 1
<1>1. CASE UNCHANGED <<invitation, home, member, roles, req, granted, lost>>
  BY <1>1 DEF Granting
<1>2. ASSUME NEW c \in Requester, NEW i \in Invitation, Begin(c, i) PROVE Goal
  BY <1>2, BeginEffect DEF Begins, Granting
<1>3. ASSUME NEW c \in Requester, Go(c) PROVE Goal
  <2> DEFINE i == req[c].inv
  <2>1. req[c] # Idle
    BY <1>3, GoEffect
  <2>2. i \in Invitation
    BY <2>1, JobType
  <2>3. req[c].op = "invite" => invitation[i] = "none"
    BY <2>1 DEF Minting
  <2>4. /\ \A j \in Invitation : j # i =>
              invitation'[j] = invitation[j] /\ granted'[j] = granted[j]
        /\ invitation'[i] = "none" => invitation[i] = "none"
        /\ invitation'[i] = "pending" =>
              /\ granted'[i] = granted[i]
              /\ invitation[i] = "pending" \/ req[c].op = "invite"
        /\ granted'[i] # granted[i] => invitation[i] = "pending" /\ granted'[i] = granted[i] + 1
    BY <1>3, GoRows
  <2> QED BY <2>2, <2>3, <2>4 DEF Granting
<1> QED BY <1>1, <1>2, <1>3, Frame

LEMMA RolesStep ==
    ASSUME InvitationsAssumption, InvitationsTypeOK,
           Minting, Roles, [InvitationsNext]_invitationVars
    PROVE  Roles'
<1>1. CASE UNCHANGED <<invitation, home, member, roles, req, granted, lost>>
  BY <1>1 DEF Roles
<1>2. ASSUME NEW c \in Requester, NEW i \in Invitation, Begin(c, i) PROVE Roles'
  <2>1. PICK job : Begins(c, i, job)
    BY <1>2, BeginEffect
  <2>2. req'[c] = job /\ \A q \in Requester : q # c => req'[q] = req[q]
    BY <2>1 DEF Begins, InvitationsTypeOK
  <2> QED BY <2>1, <2>2 DEF Begins, Roles
<1>3. ASSUME NEW c \in Requester, Go(c) PROVE Roles'
  BY <1>3, GoEffect DEF Roles
<1> QED BY <1>1, <1>2, <1>3, Frame

\* A request other than c that brings a role still does.
LEMMA StillBacked ==
    ASSUME NEW c \in Requester, NEW s \in Seat, member'[s] = member[s],
           roles[s] \subseteq roles'[s],
           \A q \in Requester : q # c => req'[q] = req[q],
           Backed(s), IsAssigning(c) => SeatOf(req[c].inv) # s
    PROVE  Backed(s)'
BY DEF Backed, IsAssigning, At

LEMMA BackingStep ==
    ASSUME InvitationsAssumption, InvitationsTypeOK,
           Minting, Roles, Backing, [InvitationsNext]_invitationVars
    PROVE  Backing'
<1>1. CASE UNCHANGED <<invitation, home, member, roles, req, granted, lost>>
  BY <1>1 DEF Backing, Backed, IsAssigning, At
<1>2. ASSUME NEW c \in Requester, NEW i \in Invitation, Begin(c, i) PROVE Backing'
  <2>1. PICK job : Begins(c, i, job)
    BY <1>2, BeginEffect
  <2>2. \A q \in Requester : q # c => req'[q] = req[q]
    BY <2>1 DEF Begins, InvitationsTypeOK
  <2>3. ~IsAssigning(c)
    BY <2>1 DEF Begins, IsAssigning, At
  <2> QED BY <2>1, <2>2, <2>3, StillBacked DEF Begins, Backing
<1>3. ASSUME NEW c \in Requester, Go(c) PROVE Backing'
  <2> DEFINE i == req[c].inv
  <2>e. /\ req[c] # Idle
        /\ \A q \in Requester : q # c => req'[q] = req[q]
        /\ \/ req'[c] = Idle
           \/ /\ req'[c] # Idle
              /\ req'[c].op = req[c].op /\ req'[c].inv = req[c].inv
              /\ req'[c].role = req[c].role
    BY <1>3, GoEffect
  <2>j. i \in Invitation /\ SeatOf(i) \in Seat /\ req[c] \in Requests
    BY <2>e, JobType, SeatType
\* Every seat but the request's, and that one too unless it is being told Permit.
  <2>o. ASSUME NEW s \in Seat, member'[s] = member[s], roles' = roles, lost' = lost,
               ~IsAssigning(c), member'[s] # NoMember, lost' = 0
        PROVE  Backed(s)'
    BY <2>e, <2>o, StillBacked DEF Backing
  <2>1. CASE WriteInvitation(c) \/ CompareAndSwap(c) \/ Look(c) \/ Conflict(c)
    <3>1. ~IsAssigning(c)
      BY <2>1 DEF WriteInvitation, CompareAndSwap, Look, Conflict, IsAssigning, At
    <3>2. UNCHANGED <<member, roles, lost>>
      BY <2>1 DEF WriteInvitation, CompareAndSwap, Look, Conflict
    <3> QED BY <2>o, <3>1, <3>2 DEF Backing
  <2>2. CASE Admit(c)
    <3>1. ~IsAssigning(c) /\ roles' = roles /\ lost' = lost
      BY <2>2 DEF Admit, IsAssigning, At
    <3>2. req[c].op = "accept" /\ req[c].role = RoleOf[i]
      BY <2>2, <2>e DEF Admit, At, Roles
    <3>3. req'[c] = [req[c] EXCEPT !.step = "assign"]
      BY <2>2 DEF Admit, Proceed, InvitationsTypeOK
    <3>4. req'[c].op = "accept" /\ req'[c].inv = i /\ req'[c].role = RoleOf[i]
          /\ req'[c].step = "assign"
      BY <2>j, <3>2, <3>3 DEF Requests
    <3>5. IsAssigning(c)'
      BY <3>4 DEF IsAssigning, At, Idle
    <3>6. ASSUME NEW s \in Seat, member'[s] # NoMember, lost' = 0 PROVE Backed(s)'
      <4>1. CASE member'[s] = member[s]
        BY <2>o, <3>1, <3>6, <4>1
      <4>2. CASE member'[s] # member[s]
        <5>1. s = SeatOf(i) /\ member'[s].role = RoleOf[i]
          BY <2>2, <2>j, <4>2 DEF Admit, InvitationsTypeOK
        <5> QED BY <3>4, <3>5, <5>1 DEF Backed, SeatOf
      <4> QED BY <4>1, <4>2
    <3> QED BY <3>6 DEF Backing
  <2>3. CASE WriteRole(c)
    <3>1. ~IsAssigning(c) /\ roles' = roles /\ lost' = lost
      BY <2>3 DEF WriteRole, IsAssigning, At
    <3>2. req[c].op = "change"
      BY <2>3 DEF WriteRole, At
    <3>3. req'[c] = [req[c] EXCEPT !.step = "assign"]
      BY <2>3 DEF WriteRole, Proceed, InvitationsTypeOK
    <3>4. req'[c].op = "change" /\ req'[c].inv = i /\ req'[c].role = req[c].role
          /\ req'[c].step = "assign"
      BY <2>j, <3>2, <3>3 DEF Requests
    <3>5. IsAssigning(c)'
      BY <3>4 DEF IsAssigning, At, Idle
    <3>6. ASSUME NEW s \in Seat, member'[s] # NoMember, lost' = 0 PROVE Backed(s)'
      <4>1. CASE member'[s] = member[s]
        BY <2>o, <3>1, <3>6, <4>1
      <4>2. CASE member'[s] # member[s]
        <5>1. s = SeatOf(i) /\ member'[s] = [member[s] EXCEPT !.role = req[c].role]
          BY <2>3, <2>j, <4>2 DEF WriteRole, InvitationsTypeOK
        <5>2. member'[s].role = req[c].role
          BY <5>1 DEF InvitationsTypeOK, Member, NoMember
        <5> QED BY <3>4, <3>5, <5>1, <5>2 DEF Backed, SeatOf
      <4> QED BY <4>1, <4>2
    <3> QED BY <3>6 DEF Backing
  <2>4. CASE DeleteMember(c)
    <3>1. ~IsAssigning(c) /\ roles' = roles /\ lost' = lost
      BY <2>4 DEF DeleteMember, IsAssigning, At
    <3>2. \A s \in Seat : member'[s] # NoMember => member'[s] = member[s]
      BY <2>4, <2>j DEF DeleteMember, InvitationsTypeOK
    <3> QED BY <2>o, <3>1, <3>2 DEF Backing
  <2>5. CASE Assign(c)
    <3>1. member' = member /\ lost' = lost
      BY <2>5 DEF Assign
    <3>2. /\ roles'[SeatOf(i)] = roles[SeatOf(i)] \cup {PermitRoleOf(req[c].role)}
          /\ \A s \in Seat : roles[s] \subseteq roles'[s]
      BY <2>5, <2>j DEF Assign, Assigned, InvitationsTypeOK
    <3>3. ASSUME NEW s \in Seat, member'[s] # NoMember, lost' = 0 PROVE Backed(s)'
      <4>1. Backed(s)
        BY <3>1, <3>3 DEF Backing
      <4>2. CASE PermitRoleOf(member[s].role) \in roles[s]
        BY <3>1, <3>2, <4>2 DEF Backed, PermitRoleOf
      <4>3. CASE PermitRoleOf(member[s].role) \notin roles[s]
        <5>1. PICK q \in Requester : /\ IsAssigning(q)
                                 /\ SeatOf(req[q].inv) = s
                                 /\ req[q].role = member[s].role
          BY <4>1, <4>3 DEF Backed
        <5>2. CASE q = c
          BY <3>1, <3>2, <5>1, <5>2 DEF Backed, PermitRoleOf
        <5>3. CASE q # c
          <6>1. req'[q] = req[q]
            BY <2>e, <5>3
          <6>2. IsAssigning(q)'
            BY <5>1, <6>1 DEF IsAssigning, At
          <6> QED BY <3>1, <5>1, <6>1, <6>2 DEF Backed, SeatOf
        <5> QED BY <5>2, <5>3
      <4> QED BY <4>2, <4>3
    <3> QED BY <3>3 DEF Backing
  <2>6. CASE Fail(c)
    BY <2>6 DEF Fail, Backing, InvitationsTypeOK
  <2> QED BY <1>3, <2>1, <2>2, <2>3, <2>4, <2>5, <2>6 DEF Go
<1> QED BY <1>1, <1>2, <1>3, Frame

-----------------------------------------------------------------------------
InvitationsInv == InvitationsTypeOK /\ RowLocking /\ Minting /\ Granting /\ Roles /\ Backing

LEMMA InvitationsInvInit ==
     ASSUME InvitationsAssumption, InvitationsInit
     PROVE  InvitationsInv
<1>1. RowLocking /\ Minting /\ Granting /\ Roles /\ Backing
  BY DEF InvitationsInit, RowLocking, Locks, Minting, Granting, Roles, Backing, NoMember
<1> QED BY <1>1, TypeInit DEF InvitationsInv

LEMMA InvitationsInvStep ==
     ASSUME InvitationsAssumption, InvitationsInv, [InvitationsNext]_invitationVars
     PROVE  InvitationsInv'
BY InvitationsTypeStep, RowLockingStep, MintingStep, GrantingStep, RolesStep,
   BackingStep DEF InvitationsInv

\* The inductive invariant of the theorems below.
THEOREM InvitationsInvariant ==
     ASSUME InvitationsAssumption
     PROVE  InvitationsSpec => []InvitationsInv
<1>1. InvitationsInit => InvitationsInv
  BY InvitationsInvInit
<1>2. InvitationsInv /\ [InvitationsNext]_invitationVars => InvitationsInv'
  BY InvitationsInvStep
<1> QED BY <1>1, <1>2, PTL DEF InvitationsSpec

\* Every variable of the invitations model keeps its type.
THEOREM InvitationsTypeCorrect ==
     ASSUME InvitationsAssumption
     PROVE  InvitationsSpec => []InvitationsTypeOK
<1>1. InvitationsInv => InvitationsTypeOK
  BY DEF InvitationsInv
<1> QED BY <1>1, InvitationsInvariant, PTL

\* An invitation leads to one membership at most, and only while it is pending,
\* whatever accepts, revocations and removals are in progress at once.
THEOREM EntersOnce ==
     ASSUME InvitationsAssumption
     PROVE  InvitationsSpec => EntersOnceWhilePending
<1>1. InvitationsInv /\ [InvitationsNext]_invitationVars =>
        [\A i \in Invitation : granted'[i] # granted[i]
             => invitation[i] = "pending" /\ granted'[i] = 1]_invitationVars
  BY GrantingStep DEF InvitationsInv
<1> QED BY <1>1, InvitationsInvariant, PTL DEF InvitationsSpec, EntersOnceWhilePending

\* The home an account was given stays.
THEOREM HomeKept == ASSUME InvitationsAssumption PROVE InvitationsSpec => HomeIsKept
<1> DEFINE Kept == \A p \in Person : home[p] # NoPortal => home'[p] = home[p]
<1>1. InvitationsInv /\ [InvitationsNext]_invitationVars => [Kept]_invitationVars
  <2> SUFFICES ASSUME InvitationsInv, [InvitationsNext]_invitationVars PROVE Kept
    OBVIOUS
  <2>1. ASSUME NEW c \in Requester, Admit(c) PROVE Kept
    BY <2>1 DEF Admit, Homed, InvitationsInv, InvitationsTypeOK
  <2>2. ASSUME NEW c \in Requester, Go(c), ~Admit(c) PROVE Kept
    BY <2>2 DEF Go, WriteInvitation, CompareAndSwap, Look, Conflict, WriteRole,
                DeleteMember, Assign, Fail
  <2>3. ASSUME NEW c \in Requester, NEW i \in Invitation, Begin(c, i) PROVE Kept
    BY <2>3 DEF Begin, Invite, Accept, Resend, Revoke, ChangeRole, RemoveMember, Start
  <2> QED BY <2>1, <2>2, <2>3, Frame
<1> QED BY <1>1, InvitationsInvariant, PTL DEF InvitationsSpec, HomeIsKept

\* Without a failed call, each member has its role in Permit, or a request is
\* about to assign it.
THEOREM HaveRole ==
     ASSUME InvitationsAssumption
     PROVE  InvitationsSpec => []MembersHaveRole
<1>1. InvitationsInv => MembersHaveRole
  BY DEF InvitationsInv, Backing, Backed, MembersHaveRole, IsAwaited
<1> QED BY <1>1, InvitationsInvariant, PTL
=============================================================================
