------------------------- MODULE PortalProvisioning -------------------------
(***************************************************************************)
(* Provisioning of tenant portals: provisionPortal of                      *)
(* portalProvisioning.ts, which creates a portal's organization and wires  *)
(* it into Permit and Authentik step by step in one transaction under an   *)
(* advisory lock on the slug, and the suspend and resume routes of         *)
(* adminPortals.ts.                                                        *)
(*                                                                         *)
(* A failed step is recorded and committed, and a later request with the   *)
(* same slug resumes from it.  What Permit, Authentik and Kafka were told  *)
(* outlives a rollback.  The list of redirect URIs is one document that is *)
(* read and replaced as a whole, for all portals.                          *)
(***************************************************************************)
EXTENDS Integers, FiniteSets

CONSTANTS
    Slug,
    Caller,             \* POST /admin/portals requests under way at once
    None,               \* no caller, no slug
    MultiTenant,        \* fuzefront.platform.multi-tenant-portals is on
    InstanceConflicts,  \* Permit refuses to create an instance that exists
    MaxFailures,        \* bound: failed calls of Permit and Authentik
    MaxFaults           \* bound: transactions that are rolled back

Step == 1..9            \* PORTAL_PROVISIONING_STEPS, in dependency order
OrgCreate == 1
OrgInstance == 3
PortalRow == 5
RedirectRegister == 7
BrandRegister == 8
OwnerInvite == 9

Infra == 1..7           \* INFRA_STEPS: what a portal cannot do without
PermitSteps == 2..4     \* permit_tenant_create, permit_org_instance, permit_org_parent

Mark == {"pending", "done", "failed"}
Status == {"none", "provisioning", "pending_invite", "active", "suspended"}

ASSUME PortalProvisioningAssumption ==
    /\ None \notin Caller \cup Slug
    /\ MultiTenant \in BOOLEAN
    /\ InstanceConflicts \in BOOLEAN
    /\ MaxFailures \in Nat
    /\ MaxFaults \in Nat

VARIABLES
    step,       \* the committed portal_provisioning rows of a slug
    org,        \* the organization they name, 0 for none
    status,     \* the portals row and its status
    minted,     \* organization ids minted for a slug
    permit,     \* the organizations that have had a Permit step done
    uris,       \* slugs whose redirect URI Authentik has
    created,    \* sends of portal.created that stored it
    lock,       \* the holder of the slug's advisory lock
    pc,         \* where a request is
    at,         \* its slug
    view,       \* the step rows as its transaction sees them
    mine,       \* the organization as its transaction sees it
    wrote,      \* what its transaction did to the portals row
    list,       \* the redirect URIs it has read
    failures,
    faults

dbVars   == <<step, org, status>>
outside  == <<minted, permit, uris, created>>
callVars == <<pc, at, view, mine, wrote, list>>
bounds   == <<failures, faults>>
vars == <<dbVars, outside, lock, callVars, bounds>>

NoSteps == [k \in Step |-> "pending"]

Init ==
    /\ step = [s \in Slug |-> NoSteps]
    /\ org = [s \in Slug |-> 0]
    /\ status = [s \in Slug |-> "none"]
    /\ minted = [s \in Slug |-> 0]
    /\ permit = [s \in Slug |-> [k \in PermitSteps |-> {}]]
    /\ uris = {}
    /\ created = [s \in Slug |-> 0]
    /\ lock = [s \in Slug |-> None]
    /\ pc = [c \in Caller |-> "idle"]
    /\ at = [c \in Caller |-> None]
    /\ view = [c \in Caller |-> NoSteps]
    /\ mine = [c \in Caller |-> 0]
    /\ wrote = [c \in Caller |-> "nothing"]
    /\ list = [c \in Caller |-> {}]
    /\ failures = 0
    /\ faults = 0

Goto(c, l) == pc' = [pc EXCEPT ![c] = l]

-----------------------------------------------------------------------------
(* provisionPortal: the transaction begins and its steps.                   *)

\* Faulty variant: no advisory lock.
RequestUnlocked(c, s) ==
    /\ pc[c] = "idle"
    /\ status[s] \in {"none", "provisioning"}
    /\ at' = [at EXCEPT ![c] = s]
    /\ view' = [view EXCEPT ![c] = step[s]]
    /\ mine' = [mine EXCEPT ![c] = org[s]]
    /\ Goto(c, "step")
    /\ UNCHANGED <<dbVars, outside, lock, wrote, list, bounds>>

\* pg_advisory_xact_lock, the slug is free or its portal still provisioning
\* (else SlugTakenError), ensureStepRows.  A slug without rows and one whose
\* rows are all pending are the same here.
Request(c, s) ==
    /\ pc[c] = "idle" /\ lock[s] = None
    /\ status[s] \in {"none", "provisioning"}
    /\ lock' = [lock EXCEPT ![s] = c]
    /\ at' = [at EXCEPT ![c] = s]
    /\ view' = [view EXCEPT ![c] = step[s]]
    /\ mine' = [mine EXCEPT ![c] = org[s]]
    /\ Goto(c, "step")
    /\ UNCHANGED <<dbVars, outside, wrote, list, bounds>>

\* The portals row as the transaction sees it.
VisibleStatus(c) == IF wrote[c] = "row" THEN "provisioning" ELSE status[at[c]]

\* The loop runs the infra steps in order and skips those that are done.
Current(c, k) ==
    /\ pc[c] = "step" /\ k \in Infra
    /\ view[c][k] # "done"
    /\ \A j \in Infra : j < k => view[c][j] = "done"

\* markDone and markFailed.
Record(c, k, m) == view' = [view EXCEPT ![c][k] = m]

Mint(c, k) ==
    IF k = OrgCreate
    THEN /\ minted' = [minted EXCEPT ![at[c]] = @ + 1]
         /\ mine' = [mine EXCEPT ![c] = minted[at[c]] + 1]
    ELSE UNCHANGED <<minted, mine>>

InPermit(c, k) ==
    permit' = IF k \in PermitSteps
              THEN [permit EXCEPT ![at[c]][k] = @ \cup {mine[c]}] ELSE permit

Conflicts(c, k) ==
    InstanceConflicts /\ k = OrgInstance /\ mine[c] \in permit[at[c]][k]

\* A step other than the registration.  That one does nothing without the flag.
StepDone(c, k) ==
    /\ Current(c, k) /\ ~Conflicts(c, k)
    /\ k = RedirectRegister => ~MultiTenant
    /\ Mint(c, k) /\ InPermit(c, k)
    /\ wrote' = IF k = PortalRow THEN [wrote EXCEPT ![c] = "row"] ELSE wrote
    /\ Record(c, k, "done")
    /\ UNCHANGED <<dbVars, uris, created, lock, pc, at, list, bounds>>

\* register() reads the provider's list ...
ReadUris(c) ==
    /\ Current(c, RedirectRegister) /\ MultiTenant
    /\ list' = [list EXCEPT ![c] = uris]
    /\ Goto(c, "register")
    /\ UNCHANGED <<dbVars, outside, lock, at, view, mine, wrote, bounds>>

Patched(c) == IF at[c] \in list[c] THEN uris ELSE list[c] \cup {at[c]}

\* ... and writes it back with the portal's own URI.
PatchUris(c) ==
    /\ pc[c] = "register"
    /\ uris' = Patched(c)
    /\ list' = [list EXCEPT ![c] = {}]
    /\ Record(c, RedirectRegister, "done")
    /\ Goto(c, "step")
    /\ UNCHANGED <<dbVars, minted, permit, created, lock, at, mine, wrote, bounds>>

Failure == failures < MaxFailures /\ failures' = failures + 1

\* Faulty variants: the Boolean that the Permit helpers return is ignored; the
\* error escapes and rolls the transaction back; the call goes on to the
\* checkpoint.
StepFailsUnnoticed(c, k) ==
    /\ Current(c, k) /\ k \in PermitSteps
    /\ Failure
    /\ Record(c, k, "done")
    /\ UNCHANGED <<dbVars, outside, lock, pc, at, mine, wrote, list, faults>>

StepFailsAndThrows(c, k) ==
    /\ Current(c, k) /\ k \in PermitSteps
    /\ Failure
    /\ InPermit(c, k) \/ UNCHANGED permit
    /\ lock' = [lock EXCEPT ![at[c]] = None]
    /\ at' = [at EXCEPT ![c] = None]
    /\ view' = [view EXCEPT ![c] = NoSteps]
    /\ mine' = [mine EXCEPT ![c] = 0]
    /\ wrote' = [wrote EXCEPT ![c] = "nothing"]
    /\ Goto(c, "idle")
    /\ UNCHANGED <<dbVars, minted, uris, created, list, faults>>

StepFailsAndGoesOn(c, k) ==
    /\ Current(c, k) /\ k \in PermitSteps \cup {RedirectRegister}
    /\ Failure
    /\ Record(c, k, "failed")
    /\ Goto(c, IF VisibleStatus(c) = "provisioning" THEN "flip" ELSE "brand")
    /\ UNCHANGED <<dbVars, outside, lock, at, mine, wrote, list, faults>>

\* A call to Permit or the read of the list fails, before or after it took
\* effect.  The step is marked, the loop ends and the transaction commits.
StepFails(c, k) ==
    /\ Current(c, k)
    /\ Record(c, k, "failed")
    /\ Goto(c, "commit")
    /\ \/ Conflicts(c, k) /\ UNCHANGED <<permit, failures>>
       \/ /\ k \in PermitSteps /\ Failure
          /\ InPermit(c, k) \/ UNCHANGED permit
       \/ /\ k = RedirectRegister /\ MultiTenant /\ Failure
          /\ UNCHANGED permit
    /\ UNCHANGED <<dbVars, minted, uris, created, lock, at, mine, wrote, list, faults>>

\* The write of the list fails, before or after it took effect.
PatchFails(c) ==
    /\ pc[c] = "register"
    /\ Failure
    /\ uris' \in {uris, Patched(c)}
    /\ list' = [list EXCEPT ![c] = {}]
    /\ Record(c, RedirectRegister, "failed")
    /\ Goto(c, "commit")
    /\ UNCHANGED <<dbVars, minted, permit, created, lock, at, mine, wrote, faults>>

-----------------------------------------------------------------------------
(* The checkpoint and what follows it.                                     *)

\* Faulty variant: only the request that inserted the row flips its status.
CheckpointOnlyFresh(c) ==
    /\ pc[c] = "step" /\ \A k \in Infra : view[c][k] = "done"
    /\ Goto(c, IF wrote[c] = "row" THEN "flip" ELSE "brand")
    /\ UNCHANGED <<dbVars, outside, lock, at, view, mine, wrote, list, bounds>>

\* portalRowBeforeInvite: is the portal still 'provisioning'?
Checkpoint(c) ==
    /\ pc[c] = "step" /\ \A k \in Infra : view[c][k] = "done"
    /\ Goto(c, IF VisibleStatus(c) = "provisioning" THEN "flip" ELSE "brand")
    /\ UNCHANGED <<dbVars, outside, lock, at, view, mine, wrote, list, bounds>>

\* UPDATE portals ... WHERE id.
Flip(c) ==
    /\ pc[c] = "flip"
    /\ wrote' = [wrote EXCEPT ![c] = "flip"]
    /\ Goto(c, "brand")
    /\ UNCHANGED <<dbVars, outside, lock, at, view, mine, list, bounds>>

\* Faulty variant: a status of its own for an invitation nobody was sent.
OptionalSkipped(c, k, here, next) ==
    /\ pc[c] = here
    /\ \E m \in {"done", "failed", "skipped"} : Record(c, k, m)
    /\ Goto(c, next)
    /\ UNCHANGED <<dbVars, outside, lock, at, mine, wrote, list, bounds>>

Outcome(m) == IF m = "done" THEN {"done"} ELSE {"done", "failed"}

\* The brand or the owner's invitation, unless it is done: tried once, its
\* failure is recorded and the call goes on.
Optional(c, k, here, next) ==
    /\ pc[c] = here
    /\ \E m \in Outcome(view[c][k]) : Record(c, k, m)
    /\ Goto(c, next)
    /\ UNCHANGED <<dbVars, outside, lock, at, mine, wrote, list, bounds>>

\* portal.created, if the status was flipped.  The publish may be skipped or
\* fail: the error is swallowed and the outbox row written 'sent' regardless.
Announce(c) ==
    /\ pc[c] = "announce"
    /\ \/ /\ wrote[c] = "flip"
          /\ created' = [created EXCEPT ![at[c]] = @ + 1]
       \/ UNCHANGED created
    /\ Goto(c, "commit")
    /\ UNCHANGED <<dbVars, minted, permit, uris, lock, at, view, mine, wrote, list, bounds>>

\* The transaction is over, and with it the lock.
Leave(c) ==
    /\ lock' = [lock EXCEPT ![at[c]] = None]
    /\ at' = [at EXCEPT ![c] = None]
    /\ view' = [view EXCEPT ![c] = NoSteps]
    /\ mine' = [mine EXCEPT ![c] = 0]
    /\ wrote' = [wrote EXCEPT ![c] = "nothing"]
    /\ list' = [list EXCEPT ![c] = {}]
    /\ Goto(c, "idle")

Commit(c) ==
    /\ pc[c] = "commit"
    /\ step' = [step EXCEPT ![at[c]] = view[c]]
    /\ org' = [org EXCEPT ![at[c]] = mine[c]]
    /\ status' = [status EXCEPT ![at[c]] = CASE wrote[c] = "row"  -> "provisioning"
                                             [] wrote[c] = "flip" -> "pending_invite"
                                             [] OTHER -> @]
    /\ Leave(c)
    /\ UNCHANGED <<outside, bounds>>

\* The process dies or a statement fails: the transaction is rolled back.
Abort(c) ==
    /\ pc[c] # "idle"
    /\ faults < MaxFaults /\ faults' = faults + 1
    /\ Leave(c)
    /\ UNCHANGED <<dbVars, outside, failures>>

-----------------------------------------------------------------------------
(* adminPortals.ts: suspend and resume ask for no status of the portal; their  *)
(* UPDATE waits for a transaction that has written the row.                    *)

SetStatus(s, new) ==
    /\ status[s] # "none"
    /\ \A c \in Caller : at[c] = s => wrote[c] = "nothing"
    /\ status' = [status EXCEPT ![s] = new]
    /\ UNCHANGED <<step, org, outside, lock, callVars, bounds>>

Suspend(s) == SetStatus(s, "suspended")
Resume(s)  == SetStatus(s, "active")

-----------------------------------------------------------------------------
RunStep(c) == \E k \in Infra : StepDone(c, k) \/ StepFails(c, k)

Register(c) == ReadUris(c) \/ PatchUris(c) \/ PatchFails(c)

Work(c) ==
    \/ RunStep(c)
    \/ Register(c)
    \/ Checkpoint(c) \/ Flip(c)
    \/ Optional(c, BrandRegister, "brand", "invite")
    \/ Optional(c, OwnerInvite, "invite", "announce")
    \/ Announce(c)
    \/ Commit(c)

Next ==
    \/ \E c \in Caller, s \in Slug : Request(c, s)
    \/ \E c \in Caller : Work(c) \/ Abort(c)
    \/ \E s \in Slug : Suspend(s) \/ Resume(s)

Spec == Init /\ [][Next]_vars

\* A request that is under way gets on, and the operator triggers it again as
\* long as the portal is not ready.
FairSpec ==
    /\ Spec
    /\ \A c \in Caller : WF_vars(Work(c))
    /\ \A s \in Slug : SF_vars(\E c \in Caller : Request(c, s))

-----------------------------------------------------------------------------
DbTypes ==
    /\ step \in [Slug -> [Step -> Mark]]
    /\ org \in [Slug -> Nat]
    /\ status \in [Slug -> Status]

OutsideTypes ==
    /\ minted \in [Slug -> Nat]
    /\ permit \in [Slug -> [PermitSteps -> SUBSET Nat]]
    /\ uris \subseteq Slug
    /\ created \in [Slug -> Nat]

Place == {"idle", "step", "register", "flip", "brand", "invite", "announce", "commit"}

CallTypes ==
    /\ lock \in [Slug -> Caller \cup {None}]
    /\ pc \in [Caller -> Place]
    /\ at \in [Caller -> Slug \cup {None}]
    /\ view \in [Caller -> [Step -> Mark]]
    /\ mine \in [Caller -> Nat]
    /\ wrote \in [Caller -> {"nothing", "row", "flip"}]
    /\ list \in [Caller -> SUBSET Slug]

TypeOK == DbTypes /\ OutsideTypes /\ CallTypes /\ failures \in Nat /\ faults \in Nat

\* What the committed step rows say is done has been done, and for the
\* organization the rows name: a resumed request never relies on a tenant that
\* was created for an organization of a rolled-back attempt.
LedgerHappened ==
    \A s \in Slug :
        /\ step[s][OrgCreate] = "done" => org[s] # 0
        /\ \A k \in PermitSteps : step[s][k] = "done" => org[s] \in permit[s][k]
        /\ step[s][PortalRow] = "done" => status[s] # "none"

\* A portal is offered to its owner only when every infra step is done, however
\* requests, failures, rollbacks and suspensions interleave ("this step must
\* succeed before the portal is allowed to reach provisioned-pending-invite"),
\* and it exists only for an organization that Permit knows.
ReadyIsWired ==
    \A s \in Slug :
        /\ status[s] = "pending_invite" => \A k \in Infra : step[s][k] = "done"
        /\ status[s] # "none" => \A k \in 1..PortalRow : step[s][k] = "done"

\* Failed steps cost nothing: a resumed request never creates the organization
\* or its tenant again (acceptance criterion 2), and only a rolled-back
\* transaction leaves a tenant behind that no organization owns.
ResourcesAreAccounted ==
    \A s \in Slug :
        /\ minted[s] <= 1 + faults
        /\ Cardinality(permit[s][2]) <= 1 + faults

\* portal.created is sent at most once, and once more for each rolled-back
\* transaction; without one it is never about a portal that is not ready
\* ("emits portal.created exactly once": adminPortals.ts).  A send counts once,
\* whatever kafkajs stores for it when an acknowledgement is lost.
CreatedIsAccounted ==
    \A s \in Slug :
        /\ created[s] <= 1 + faults
        /\ created[s] > 0 /\ faults = 0 =>
              \/ status[s] \in {"pending_invite", "active", "suspended"}
              \/ \E c \in Caller : at[c] = s /\ wrote[c] = "flip"

\* Permit has the instance from a call that was recorded as failed.
Stuck(s) ==
    /\ InstanceConflicts
    /\ step[s][OrgInstance] = "failed" /\ org[s] \in permit[s][OrgInstance]

\* A portal that was begun is completed or taken over by an administrator if its
\* request is triggered again and again ("resumes from the failed step"), with
\* one exception: createOrganizationResourceInstance takes a conflict for a
\* failure.
Completes ==
    \A s \in Slug :
        org[s] # 0 ~> \/ status[s] \in {"pending_invite", "active", "suspended"}
                     \/ Stuck(s)

-----------------------------------------------------------------------------
(* What a comment in the code says and the code does not do.               *)

\* portalProvisioning.ts: "an unregistered redirect URI is a silently broken
\* login, which is exactly the failure mode AC4 forbids".
RegisteredIsKept ==
    MultiTenant => \A s \in Slug : step[s][RedirectRegister] = "done" => s \in uris
=============================================================================
