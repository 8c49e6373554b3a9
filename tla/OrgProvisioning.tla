--------------------------- MODULE OrgProvisioning ---------------------------
(***************************************************************************)
(* Provisioning of one owner's organizations: the organization routes and  *)
(* organizationProvisioning.ts of security-service, the internal endpoints *)
(* and provisioning-service, which calls them for every lifecycle event.   *)
(*                                                                         *)
(* The database is transactional, Permit and the mail topic are not: what  *)
(* a reconcile did there outlives its rollback.  An event stays due until  *)
(* a consumer has acknowledged it (AtLeastOnce gives no more).             *)
(***************************************************************************)
EXTENDS Integers, FiniteSets

CONSTANTS
    Org,
    Personal,         \* the owner's personal organization
    Caller,           \* requests and consumers that can be under way at once
    Free,             \* nobody holds the advisory lock
    CanRollOut,       \* the flag may be switched on
    AssignConflicts,  \* Permit may refuse to assign a role that is assigned
    HardDeletes,      \* /internal/deprovision is called with cascade 'hard'
    Changing,         \* bound: organizations that are updated or deleted
    RetryCount,       \* RETRY_COUNT of callProvision and callDeprovision
    MaxFaults         \* bound: crashes, failed transactions and failed calls

Step == 1..4          \* PROVISIONING_STEPS, in dependency order
UserSync == 1
TenantCreate == 2
RoleAssign == 3
WelcomeEmail == 4

Topic == {"created", "updated", "deleted"}
Source == {"login", "create", "operator"} \cup Topic
Status == {"none", "pending", "done", "failed"}
Name == {"first", "second"}

ASSUME OrgProvisioningAssumption ==
    /\ Personal \in Org
    /\ Free \notin Caller
    /\ CanRollOut \in BOOLEAN
    /\ AssignConflicts \in BOOLEAN
    /\ HardDeletes \in BOOLEAN
    /\ Changing \subseteq Org
    /\ RetryCount \in Nat
    /\ MaxFaults \in Nat

VARIABLES
    org,       \* the organizations row: "unborn" | "live" | "gone"
    active,    \* its is_active
    name,      \* what an update changes in it
    state,     \* its provisioning_state
    step,      \* the status of its organization_provisioning rows
    flag,      \* fuzefront.identity.root-membership is on
    lock,      \* the holder of its advisory lock
    synced,    \* Permit has the owner
    tenant,    \* the tenant Permit has, by the name it was created with
    role,      \* Permit has the owner's role in the tenant
    mails,     \* welcome mails published
    skipped,   \* organizations whose welcome was skipped, no broker being there
    due,       \* <<topic, organization>> events not yet acknowledged
    dlq,       \* events dead-lettered by provisioning-service
    pc,        \* where a caller is
    src,       \* what it is: a request or the consumer of a topic
    about,     \* the organization its request or event names
    tries,     \* HTTP attempts made for its event
    todo,      \* organizations it has yet to reconcile
    at,        \* the organization it is reconciling
    read,      \* the name it read in that row
    view,      \* the step rows as its open transaction sees them
    faults

rowVars    == <<org, active, name, state, step, flag>>
permitVars == <<synced, tenant, role, mails, skipped>>
eventVars  == <<due, dlq>>
jobVars    == <<src, about, tries>>
workVars   == <<todo, at, read, view>>
vars == <<rowVars, lock, permitVars, eventVars, pc, jobVars, workVars, faults>>

NoRows == [s \in Step |-> "none"]

Init ==
    /\ org = [o \in Org |-> "unborn"]
    /\ active = [o \in Org |-> TRUE]
    /\ name = [o \in Org |-> "first"]
    /\ state = [o \in Org |-> "pending"]
    /\ step = [o \in Org |-> NoRows]
    /\ flag = FALSE
    /\ lock = [o \in Org |-> Free]
    /\ synced = FALSE
    /\ tenant = [o \in Org |-> "none"]
    /\ role = [o \in Org |-> FALSE]
    /\ mails = [o \in Org |-> 0]
    /\ skipped = {}
    /\ due = {}
    /\ dlq = {}
    /\ pc = [c \in Caller |-> "idle"]
    /\ src = [c \in Caller |-> "login"]
    /\ about = [c \in Caller |-> Personal]
    /\ tries = [c \in Caller |-> 0]
    /\ todo = [c \in Caller |-> {}]
    /\ at = [c \in Caller |-> Personal]
    /\ read = [c \in Caller |-> "first"]
    /\ view = [c \in Caller |-> NoRows]
    /\ faults = 0

Goto(c, l) == pc' = [pc EXCEPT ![c] = l]

Begin(c, source, o, n) ==
    /\ src' = [src EXCEPT ![c] = source]
    /\ about' = [about EXCEPT ![c] = o]
    /\ tries' = [tries EXCEPT ![c] = n]

\* The caller is done and forgets what it was about.
Rest(c) == Begin(c, "login", Personal, 0) /\ Goto(c, "idle")

-----------------------------------------------------------------------------
(* The organization routes.                                                *)

\* POST: the row and its event in one transaction, then a reconcile.
CreateOrg(c, o) ==
    /\ pc[c] = "idle"
    /\ org[o] = "unborn" /\ o # Personal
    /\ org' = [org EXCEPT ![o] = "live"]
    /\ due' = due \cup {<<"created", o>>}
    /\ Begin(c, "create", o, 0)
    /\ todo' = [todo EXCEPT ![c] = {o}]
    /\ Goto(c, "pick")
    /\ UNCHANGED <<active, name, state, step, flag, lock, permitVars, dlq, at, read,
                   view, faults>>

\* PUT: the new name and its event.
UpdateOrg(o) ==
    /\ o \in Changing /\ org[o] = "live" /\ name[o] = "first"
    /\ name' = [name EXCEPT ![o] = "second"]
    /\ due' = due \cup {<<"updated", o>>}
    /\ UNCHANGED <<org, active, state, step, flag, lock, permitVars, dlq, pc, jobVars,
                   workVars, faults>>

\* DELETE: is_active = false and an event with cascade 'soft'.
DeleteOrg(o) ==
    /\ o \in Changing /\ org[o] = "live" /\ active[o]
    /\ active' = [active EXCEPT ![o] = FALSE]
    /\ due' = due \cup {<<"deleted", o>>}
    /\ UNCHANGED <<org, name, state, step, flag, lock, permitVars, dlq, pc, jobVars,
                   workVars, faults>>

-----------------------------------------------------------------------------
(* Who calls runInternalProvision and deprovisionOrganization.             *)

Entry(source) == IF source \in {"deleted", "operator"} THEN "deprovision" ELSE "list"

\* A sign-in heals in the background.
Login(c) ==
    /\ pc[c] = "idle"
    /\ Begin(c, "login", Personal, 0)
    /\ Goto(c, Entry("login"))
    /\ UNCHANGED <<rowVars, lock, permitVars, eventVars, workVars, faults>>

\* POST /internal/deprovision with cascade 'hard'.
Operate(c, o) ==
    /\ HardDeletes
    /\ pc[c] = "idle" /\ org[o] = "live"
    /\ Begin(c, "operator", o, 0)
    /\ Goto(c, Entry("operator"))
    /\ UNCHANGED <<rowVars, lock, permitVars, eventVars, workVars, faults>>

\* provisioning-service: one consumer per topic, one message at a time.
Receive(c, t, o) ==
    /\ pc[c] = "idle"
    /\ <<t, o>> \in due
    /\ \A d \in Caller : pc[d] # "idle" => src[d] # t
    /\ Begin(c, t, o, 1)
    /\ Goto(c, Entry(t))
    /\ UNCHANGED <<rowVars, lock, permitVars, eventVars, workVars, faults>>

\* A 200 acknowledges the event.
Return(c) ==
    /\ pc[c] = "ok"
    /\ due' = IF src[c] \in Topic THEN due \ {<<src[c], about[c]>>} ELSE due
    /\ Rest(c)
    /\ UNCHANGED <<rowVars, lock, permitVars, dlq, workVars, faults>>

\* withDlq: the event is dead-lettered and acknowledged.
DeadLetter(c) ==
    /\ dlq' = dlq \cup {<<src[c], about[c]>>}
    /\ due' = due \ {<<src[c], about[c]>>}
    /\ Rest(c)

\* Faulty variant: the error is logged and the event forgotten.
FailSwallowed(c) ==
    /\ pc[c] = "error"
    /\ due' = IF src[c] \in Topic THEN due \ {<<src[c], about[c]>>} ELSE due
    /\ Rest(c)
    /\ UNCHANGED <<rowVars, lock, permitVars, dlq, workVars, faults>>

\* Faulty variant: the attempts are not counted.
FailUnbounded(c) ==
    /\ pc[c] = "error"
    /\ tries' = [tries EXCEPT ![c] = @ + 1]
    /\ Goto(c, Entry(src[c]))
    /\ UNCHANGED <<rowVars, lock, permitVars, eventVars, src, about, workVars, faults>>

\* A 500 is retried RetryCount times, then dead-lettered.
Fail(c) ==
    /\ pc[c] = "error"
    /\ \/ /\ src[c] \notin Topic
          /\ Rest(c)
          /\ UNCHANGED eventVars
       \/ /\ src[c] \in Topic /\ tries[c] <= RetryCount
          /\ tries' = [tries EXCEPT ![c] = @ + 1]
          /\ Goto(c, Entry(src[c]))
          /\ UNCHANGED <<eventVars, src, about>>
       \/ /\ src[c] \in Topic /\ tries[c] > RetryCount
          /\ DeadLetter(c)
    /\ UNCHANGED <<rowVars, lock, permitVars, workVars, faults>>

-----------------------------------------------------------------------------
(* runInternalProvision.                                                   *)

\* Faulty variant: only organizations whose provisioning failed are healed.
ListFailed(c) ==
    /\ pc[c] = "list"
    /\ org' = IF org[Personal] = "unborn" THEN [org EXCEPT ![Personal] = "live"] ELSE org
    /\ todo' = [todo EXCEPT ![c] = {o \in Org : org'[o] = "live" /\ state[o] = "failed"}]
    /\ Goto(c, "pick")
    /\ UNCHANGED <<active, name, state, step, flag, lock, permitVars, eventVars,
                   jobVars, at, read, view, faults>>

\* ensurePersonalOrg, then the owner's organizations that are not 'active'.
\* With the flag on, the owner joins the root organization and that is all,
\* unless the flag cannot be read and counts as off.
List(c) ==
    /\ pc[c] = "list"
    /\ \/ /\ flag
          /\ Goto(c, "ok")
          /\ UNCHANGED <<org, todo>>
       \/ /\ org' = IF org[Personal] = "unborn" THEN [org EXCEPT ![Personal] = "live"]
                                                ELSE org
          /\ todo' = [todo EXCEPT ![c] = {o \in Org : org'[o] = "live"
                                                      /\ state[o] # "active"}]
          /\ Goto(c, "pick")
    /\ UNCHANGED <<active, name, state, step, flag, lock, permitVars, eventVars,
                   jobVars, at, read, view, faults>>

\* The loop over them is done.
Finish(c) ==
    /\ pc[c] = "pick" /\ todo[c] = {}
    /\ Goto(c, "ok")
    /\ UNCHANGED <<rowVars, lock, permitVars, eventVars, jobVars, workVars, faults>>

-----------------------------------------------------------------------------
(* reconcileOrganizationProvisioning, one transaction.                     *)

\* ensureStepRows.
WithRows(rows) == [s \in Step |-> IF rows[s] = "none" THEN "pending" ELSE rows[s]]

\* Faulty variant: no advisory lock.
LockUnguarded(c, o) ==
    /\ pc[c] = "pick" /\ o \in todo[c]
    /\ org[o] = "live"
    /\ lock' = [lock EXCEPT ![o] = c]
    /\ at' = [at EXCEPT ![c] = o]
    /\ read' = [read EXCEPT ![c] = name[o]]
    /\ view' = [view EXCEPT ![c] = WithRows(step[o])]
    /\ todo' = [todo EXCEPT ![c] = @ \ {o}]
    /\ Goto(c, "step")
    /\ UNCHANGED <<rowVars, permitVars, eventVars, jobVars, faults>>

\* pg_advisory_xact_lock, the row, the step rows.  No row: it throws.
Lock(c, o) ==
    /\ pc[c] = "pick" /\ o \in todo[c] /\ lock[o] = Free
    /\ \/ /\ org[o] = "live"
          /\ lock' = [lock EXCEPT ![o] = c]
          /\ at' = [at EXCEPT ![c] = o]
          /\ read' = [read EXCEPT ![c] = name[o]]
          /\ view' = [view EXCEPT ![c] = WithRows(step[o])]
          /\ todo' = [todo EXCEPT ![c] = @ \ {o}]
          /\ Goto(c, "step")
       \/ /\ org[o] # "live"
          /\ Goto(c, "error")
          /\ todo' = [todo EXCEPT ![c] = {}]
          /\ UNCHANGED <<lock, at, read, view>>
    /\ UNCHANGED <<rowVars, permitVars, eventVars, jobVars, faults>>

\* The transaction ends and its view with it.
Release(c) ==
    /\ lock' = [lock EXCEPT ![at[c]] = Free]
    /\ at' = [at EXCEPT ![c] = Personal]
    /\ read' = [read EXCEPT ![c] = "first"]
    /\ view' = [view EXCEPT ![c] = NoRows]

\* Permit's or Kafka's side of step s, with n records for a mail.
Effect(s, c, n) ==
    /\ synced' = (synced \/ s = UserSync)
    /\ tenant' = IF s = TenantCreate /\ tenant[at[c]] = "none"
                 THEN [tenant EXCEPT ![at[c]] = read[c]] ELSE tenant
    /\ role' = IF s = RoleAssign THEN [role EXCEPT ![at[c]] = TRUE] ELSE role
    /\ mails' = IF s = WelcomeEmail THEN [mails EXCEPT ![at[c]] = @ + n] ELSE mails
    /\ UNCHANGED skipped

\* Faulty variant: a step that failed before is skipped too.
CurrentSkipsFailed(c, s) ==
    /\ view[c][s] \notin {"done", "failed"}
    /\ \A r \in Step : r < s => view[c][r] \in {"done", "failed"}

\* Steps are run in order and a step that is done is skipped.
Current(c, s) ==
    /\ view[c][s] # "done"
    /\ \A r \in Step : r < s => view[c][r] = "done"

Conflicts(s, c) == AssignConflicts /\ s = RoleAssign /\ role[at[c]]

Record(c, s, status) == view' = [view EXCEPT ![c][s] = status]

\* Faulty variant: the Boolean that syncUserToPermit and assignOrganizationRole
\* return is ignored.
StepFailsUnnoticed(c, s) ==
    /\ pc[c] = "step" /\ Current(c, s)
    /\ Record(c, s, "done")
    /\ faults < MaxFaults /\ faults' = faults + 1
    /\ UNCHANGED <<rowVars, lock, permitVars, eventVars, pc, jobVars, todo, at, read>>

\* One send stores a record once more for each acknowledgement that is lost and
\* that kafkajs answers with a resend: a fault each.
Records(s) == IF s = WelcomeEmail THEN 1..1 + MaxFaults ELSE {1}

StepSucceeds(c, s) ==
    /\ pc[c] = "step" /\ Current(c, s)
    /\ \E n \in Records(s) :
          /\ faults' = faults + n - 1
          /\ n > 1 => faults' <= MaxFaults
          /\ Effect(s, c, n)
    /\ Record(c, s, "done")
    /\ UNCHANGED <<rowVars, lock, eventVars, pc, jobVars, todo, at, read>>

\* publishNotifyEmailRequested finds no broker (getProducer): it sends nothing
\* and returns as if it had.
StepSkipped(c, s) ==
    /\ pc[c] = "step" /\ Current(c, s)
    /\ s = WelcomeEmail
    /\ skipped' = skipped \cup {at[c]}
    /\ Record(c, s, "done")
    /\ UNCHANGED <<rowVars, lock, synced, tenant, role, mails, eventVars, pc, jobVars, todo,
                   at, read, faults>>

\* The call fails, before or after it took effect, and the loop ends.
StepFails(c, s) ==
    /\ pc[c] = "step" /\ Current(c, s)
    /\ Record(c, s, "failed")
    /\ Goto(c, "commit")
    /\ \/ Conflicts(s, c) /\ UNCHANGED <<permitVars, faults>>
       \/ \E n \in Records(s) :
             /\ faults' = faults + n /\ faults' <= MaxFaults
             /\ Effect(s, c, n) \/ (n = 1 /\ UNCHANGED permitVars)
    /\ UNCHANGED <<rowVars, lock, eventVars, jobVars, todo, at, read>>

AllDone(rows) == \A s \in Step : rows[s] = "done"

\* After a hard delete the updates match no row.
Commit(c) ==
    /\ pc[c] = "commit" \/ (pc[c] = "step" /\ AllDone(view[c]))
    /\ IF org[at[c]] = "live"
       THEN /\ step' = [step EXCEPT ![at[c]] = view[c]]
            /\ state' = [state EXCEPT ![at[c]] = IF AllDone(view[c]) THEN "active"
                                                                     ELSE "failed"]
       ELSE UNCHANGED <<step, state>>
    /\ Release(c)
    /\ Goto(c, "pick")
    /\ UNCHANGED <<org, active, name, flag, permitVars, eventVars, jobVars, todo,
                   faults>>

-----------------------------------------------------------------------------
(* deprovisionOrganization.  It takes no advisory lock; deleting rows waits  *)
(* for a transaction that has written them.                                  *)

Wrote(c, o) ==
    at[c] = o /\ (pc[c] = "commit" \/ (pc[c] = "step" /\ view[c] # step[o]))

\* 'deprovisioned' is no value of org_provisioning_state_enum: the soft update
\* fails.  Where no row is left, it answers that it is done.
DeprovisionSoft(c) ==
    /\ pc[c] = "deprovision" /\ src[c] = "deleted"
    /\ Goto(c, IF org[about[c]] = "live" THEN "error" ELSE "ok")
    /\ UNCHANGED <<rowVars, lock, permitVars, eventVars, jobVars, workVars, faults>>

DeprovisionHard(c) ==
    /\ pc[c] = "deprovision" /\ src[c] = "operator"
    /\ \A d \in Caller : ~Wrote(d, about[c])
    /\ org' = [org EXCEPT ![about[c]] = "gone"]
    /\ step' = [step EXCEPT ![about[c]] = NoRows]
    /\ view' = [d \in Caller |-> IF pc[d] = "step" /\ at[d] = about[c]
                                 THEN NoRows ELSE view[d]]
    /\ Goto(c, "ok")
    /\ UNCHANGED <<active, name, state, flag, lock, permitVars, eventVars, jobVars,
                   todo, at, read, faults>>

-----------------------------------------------------------------------------
\* The flag is switched on.
RollOut ==
    /\ CanRollOut /\ ~flag
    /\ flag' = TRUE
    /\ UNCHANGED <<org, active, name, state, step, lock, permitVars, eventVars, pc,
                   jobVars, workVars, faults>>

-----------------------------------------------------------------------------
(* Failures of the processes and of the database.                          *)

Fault(c) ==
    /\ faults < MaxFaults
    /\ faults' = faults + 1
    /\ todo' = [todo EXCEPT ![c] = {}]
    /\ IF pc[c] \in {"step", "commit"} THEN Release(c)
                                      ELSE UNCHANGED <<lock, at, read, view>>

\* A transaction fails and is rolled back; the request answers 500.
Abort(c) ==
    /\ pc[c] \in {"list", "step", "commit", "deprovision"}
    /\ Fault(c)
    /\ Goto(c, "error")
    /\ UNCHANGED <<rowVars, permitVars, eventVars, jobVars>>

\* The process dies; an event it had not acknowledged is delivered again.
Crash(c) ==
    /\ pc[c] # "idle"
    /\ Fault(c)
    /\ Rest(c)
    /\ UNCHANGED <<rowVars, permitVars, eventVars>>

\* Only provisioning-service dies: its call is finished for nobody, and the event is
\* delivered again.
Abandon(c) ==
    /\ pc[c] \in {"list", "pick", "step", "commit"} /\ src[c] \in Topic
    /\ faults < MaxFaults /\ faults' = faults + 1
    /\ Begin(c, "login", Personal, 0)
    /\ UNCHANGED <<rowVars, lock, permitVars, eventVars, pc, workVars>>

\* security-service dies under a call of provisioning-service.
Disconnect(c) ==
    /\ pc[c] # "idle" /\ src[c] \in Topic
    /\ Fault(c)
    /\ DeadLetter(c)
    /\ UNCHANGED <<rowVars, permitVars>>

-----------------------------------------------------------------------------
Routes == \E o \in Org : UpdateOrg(o) \/ DeleteOrg(o) \/ \E c \in Caller : CreateOrg(c, o)

Call(c) ==
    \/ Login(c)
    \/ \E o \in Org : Operate(c, o)
    \/ \E t \in Topic, o \in Org : Receive(c, t, o)

RunStep(c) ==
    \E s \in Step : StepSucceeds(c, s) \/ StepSkipped(c, s) \/ StepFails(c, s)

Work(c) ==
    \/ List(c) \/ Finish(c)
    \/ \E o \in Org : Lock(c, o)
    \/ RunStep(c)
    \/ Commit(c)
    \/ DeprovisionSoft(c) \/ DeprovisionHard(c)
    \/ Return(c) \/ Fail(c)

Break(c) == Abort(c) \/ Crash(c) \/ Abandon(c) \/ Disconnect(c)

Next ==
    \/ Routes \/ RollOut
    \/ \E c \in Caller : Call(c) \/ Work(c) \/ Break(c)

Spec == Init /\ [][Next]_vars

\* Requests that are under way get on, PostgreSQL grants a lock that keeps
\* coming free, and the owner signs in again and again.
FairSpec ==
    /\ Spec
    /\ \A c \in Caller : SF_vars(Work(c))
    /\ SF_vars(\E c \in Caller : Login(c))

-----------------------------------------------------------------------------
RowTypes ==
    /\ org \in [Org -> {"unborn", "live", "gone"}]
    /\ active \in [Org -> BOOLEAN]
    /\ name \in [Org -> Name]
    /\ state \in [Org -> {"pending", "active", "failed"}]
    /\ step \in [Org -> [Step -> Status]]
    /\ flag \in BOOLEAN

PermitTypes ==
    /\ synced \in BOOLEAN
    /\ tenant \in [Org -> Name \cup {"none"}]
    /\ role \in [Org -> BOOLEAN]
    /\ mails \in [Org -> Nat]
    /\ skipped \subseteq Org

EventTypes == due \subseteq Topic \X Org /\ dlq \subseteq Topic \X Org

Place == {"idle", "list", "pick", "step", "commit", "deprovision", "ok", "error"}

CallTypes ==
    /\ pc \in [Caller -> Place]
    /\ src \in [Caller -> Source]
    /\ about \in [Caller -> Org]
    /\ tries \in [Caller -> 0..RetryCount + 1]

WorkTypes ==
    /\ lock \in [Org -> Caller \cup {Free}]
    /\ todo \in [Caller -> SUBSET Org]
    /\ at \in [Caller -> Org]
    /\ read \in [Caller -> Name]
    /\ view \in [Caller -> [Step -> Status]]

TypeOK ==
    RowTypes /\ PermitTypes /\ EventTypes /\ CallTypes /\ WorkTypes /\ faults \in Nat

\* Step s of o has had its effect outside the database.
Happened(s, o) ==
    \/ s = UserSync /\ synced
    \/ s = TenantCreate /\ tenant[o] # "none"
    \/ s = RoleAssign /\ role[o]
    \/ s = WelcomeEmail /\ mails[o] > 0

\* The call of step s for o has returned: it has had its effect, or it is a
\* welcome that was skipped because no broker was there.
Answered(s, o) == Happened(s, o) \/ (s = WelcomeEmail /\ o \in skipped)

\* An organization that is 'active' is fully wired, and a step recorded as done
\* has happened and so have those it depends on, save a welcome that was skipped
\* because no broker was there: no crash, failed call or concurrent caller
\* records more than Permit and Kafka have seen.
RecordedHappened ==
    \A o \in Org :
        /\ state[o] = "active" /\ org[o] = "live" => AllDone(step[o])
        /\ \A s \in Step : step[o][s] = "done" => \A r \in 1..s : Answered(r, o)

\* Permit never holds a role in a tenant it does not have or for a user it does
\* not know, and nobody is welcomed to an organization they cannot enter
\* ("dependency-ordered": reconcileOrganizationProvisioning).
WiredInOrder ==
    \A o \in Org : \A s \in Step : s > 1 /\ Happened(s, o) => Happened(s - 1, o)

\* However many sign-ins, requests and consumers reconcile an organization at
\* once, it is welcomed at most once, and once more for each crash, failed call
\* or lost acknowledgement ("two concurrent callers never both execute the welcome_email step").
WelcomesAreAccounted ==
    \A o \in Org : org[o] = "live" => mails[o] <= 1 + faults

\* An organization's created event is acknowledged only after a reconcile of it
\* has run to its end, or the event is in the dead-letter topic: no crash,
\* rollback, retry or race with the request that created it loses it (withDlq,
\* callProvision), as long as the root-membership flag is off.
AcknowledgedIsReconciled ==
    ~flag =>
        \A o \in Org \ {Personal} :
            org[o] = "live" /\ <<"created", o>> \notin due \cup dlq
                => state[o] # "pending"

\* Permit has the role of o and no row says so: each repetition is refused.
Stranded(o) == AssignConflicts /\ role[o] /\ step[o][RoleAssign] # "done"

\* Each organization becomes 'active' as long as its owner signs in again
\* ("the org is created in pending and will self-heal": organizations.ts), unless
\* its role was assigned by a call whose transaction or answer was lost: Permit may
\* then refuse the role for ever, which assignRoleInPermit takes for a failure.
SelfHeals ==
    \A o \in Org :
        \/ org[o] = "live" ~> (state[o] = "active" \/ org[o] = "gone")
        \/ <>[]Stranded(o)

-----------------------------------------------------------------------------
(* What a comment in the code says and the code does not do.               *)

\* deprovisionOrganization: "soft: marks is_active=false", idempotent.  Without
\* faults a deletion is processed and never dead-lettered.
SoftDeletesAreProcessed ==
    faults = 0 => \A o \in Org : <<"deleted", o>> \notin dlq
=============================================================================
