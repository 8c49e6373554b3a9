----------------------- MODULE OrgProvisioningProofs -----------------------
(***************************************************************************)
(* Proofs about OrgProvisioning for any organizations, callers, retries    *)
(* and faults, and for every setting of the flag, of hard deletes and of   *)
(* Permit's answer to a repeated assignment.                               *)
(***************************************************************************)
EXTENDS OrgProvisioning, TLAPS

USE OrgProvisioningAssumption

\* What a call leaves alone keeps its type.
LEMMA Frames ==
    /\ RowTypes /\ UNCHANGED rowVars => RowTypes'
    /\ PermitTypes /\ UNCHANGED permitVars => PermitTypes'
    /\ EventTypes /\ UNCHANGED eventVars => EventTypes'
    /\ CallTypes /\ UNCHANGED <<pc, jobVars>> => CallTypes'
    /\ WorkTypes /\ UNCHANGED <<lock, workVars>> => WorkTypes'
<1>1. RowTypes /\ UNCHANGED rowVars => RowTypes'
  BY DEF RowTypes, rowVars
<1>2. PermitTypes /\ UNCHANGED permitVars => PermitTypes'
  BY DEF PermitTypes, permitVars
<1>3. EventTypes /\ UNCHANGED eventVars => EventTypes'
  BY DEF EventTypes, eventVars
<1>4. CallTypes /\ UNCHANGED <<pc, jobVars>> => CallTypes'
  BY DEF CallTypes, jobVars
<1>5. WorkTypes /\ UNCHANGED <<lock, workVars>> => WorkTypes'
  BY DEF WorkTypes, workVars
<1> QED BY <1>1, <1>2, <1>3, <1>4, <1>5

LEMMA GotoType ==
    ASSUME CallTypes, NEW c \in Caller, NEW l \in Place, Goto(c, l)
    PROVE  pc' \in [Caller -> Place]
BY DEF CallTypes, Goto

LEMMA BeginType ==
    ASSUME CallTypes, NEW c \in Caller, NEW l \in Place, NEW x \in Source,
           NEW o \in Org, NEW n \in {0, 1}, Begin(c, x, o, n), Goto(c, l)
    PROVE  CallTypes'
<1>1. pc' \in [Caller -> Place]
  BY GotoType
<1>2. src' \in [Caller -> Source] /\ about' \in [Caller -> Org]
  BY DEF CallTypes, Begin
<1>3. n \in 0..RetryCount + 1
  OBVIOUS
<1>4. tries' \in [Caller -> 0..RetryCount + 1]
  BY <1>3 DEF CallTypes, Begin
<1> QED BY <1>1, <1>2, <1>4 DEF CallTypes

LEMMA RestType ==
    ASSUME CallTypes, NEW c \in Caller, Rest(c) PROVE CallTypes'
BY BeginType DEF Rest, Source, Place

LEMMA ReleaseType ==
    ASSUME WorkTypes, NEW c \in Caller, Release(c), todo' \in [Caller -> SUBSET Org]
    PROVE  WorkTypes'
<1>1. lock' \in [Org -> Caller \cup {Free}]
  BY DEF WorkTypes, Release
<1>2. at' \in [Caller -> Org] /\ read' \in [Caller -> Name]
  BY DEF WorkTypes, Release, Name
<1>3. NoRows \in [Step -> Status]
  BY DEF NoRows, Status
<1>4. view' \in [Caller -> [Step -> Status]]
  BY <1>3 DEF WorkTypes, Release
<1> QED BY <1>1, <1>2, <1>4 DEF WorkTypes

LEMMA FaultType ==
    ASSUME WorkTypes, faults \in Nat, NEW c \in Caller, Fault(c)
    PROVE  WorkTypes' /\ faults' \in Nat
<1>1. todo' \in [Caller -> SUBSET Org] /\ faults' \in Nat
  BY DEF Fault, WorkTypes
<1>2. CASE Release(c)
  BY <1>1, <1>2, ReleaseType
<1>3. CASE UNCHANGED <<lock, at, read, view>>
  BY <1>1, <1>3 DEF WorkTypes
<1> QED BY <1>1, <1>2, <1>3 DEF Fault

LEMMA EffectType ==
    ASSUME PermitTypes, WorkTypes, NEW c \in Caller, NEW s \in Step, NEW n \in Nat,
           Effect(s, c, n)
    PROVE  PermitTypes'
<1>1. at[c] \in Org /\ read[c] \in Name
  BY DEF WorkTypes
<1>2. synced' \in BOOLEAN
  BY DEF PermitTypes, Effect
<1>3. tenant' \in [Org -> Name \cup {"none"}]
  BY <1>1 DEF PermitTypes, Effect
<1>4. role' \in [Org -> BOOLEAN]
  BY <1>1 DEF PermitTypes, Effect
<1>5. mails' \in [Org -> Nat]
  <2>1. mails[at[c]] + n \in Nat
    BY <1>1 DEF PermitTypes
  <2> QED BY <1>1, <2>1 DEF PermitTypes, Effect
<1>6. skipped' \subseteq Org
  BY DEF PermitTypes, Effect
<1> QED BY <1>2, <1>3, <1>4, <1>5, <1>6 DEF PermitTypes

LEMMA RecordsArePositive ==
    ASSUME NEW s \in Step, NEW n \in Records(s) PROVE n \in Nat /\ n > 0
BY DEF Records

LEMMA RecordType ==
    ASSUME WorkTypes, NEW c \in Caller, NEW s \in Step, NEW x \in Status,
           Record(c, s, x), UNCHANGED <<lock, todo, at, read>>
    PROVE  WorkTypes'
BY DEF WorkTypes, Record

LEMMA DeadLetterType ==
    ASSUME EventTypes, CallTypes, NEW c \in Caller, src[c] \in Topic, DeadLetter(c)
    PROVE  EventTypes' /\ CallTypes'
<1>1. <<src[c], about[c]>> \in Topic \X Org
  BY DEF CallTypes
<1> QED BY <1>1, RestType DEF DeadLetter, EventTypes

LEMMA WithRowsType ==
    ASSUME NEW rows \in [Step -> Status] PROVE WithRows(rows) \in [Step -> Status]
BY DEF WithRows, Status

-----------------------------------------------------------------------------
LEMMA TypeInit == Init => TypeOK
<1> SUFFICES ASSUME Init PROVE TypeOK
  OBVIOUS
<1>0. NoRows \in [Step -> Status]
  BY DEF NoRows, Status
<1>1. RowTypes
  BY <1>0 DEF Init, RowTypes, Name
<1>2. PermitTypes /\ EventTypes /\ faults \in Nat
  BY DEF Init, PermitTypes, EventTypes
<1>3. CallTypes
  BY DEF Init, CallTypes, Source, Place
<1>4. WorkTypes
  BY <1>0 DEF Init, WorkTypes, Name
<1> QED BY <1>1, <1>2, <1>3, <1>4 DEF TypeOK

LEMMA TypeStep == ASSUME TypeOK, [Next]_vars PROVE TypeOK'
<1> USE DEF TypeOK
<1>1. ASSUME NEW c \in Caller, NEW o \in Org, CreateOrg(c, o) PROVE TypeOK'
  <2>1. RowTypes'
    BY <1>1 DEF CreateOrg, RowTypes
  <2>2. EventTypes'
    BY <1>1 DEF CreateOrg, EventTypes, Topic
  <2>3. CallTypes'
    BY <1>1, BeginType DEF CreateOrg, Source, Place
  <2>4. WorkTypes'
    BY <1>1 DEF CreateOrg, WorkTypes
  <2>5. PermitTypes' /\ faults' \in Nat
    BY <1>1, Frames DEF CreateOrg
  <2> QED BY <2>1, <2>2, <2>3, <2>4, <2>5
<1>2. ASSUME NEW o \in Org, UpdateOrg(o) \/ DeleteOrg(o) PROVE TypeOK'
  <2>1. RowTypes'
    BY <1>2 DEF UpdateOrg, DeleteOrg, RowTypes, Name
  <2>2. EventTypes'
    BY <1>2 DEF UpdateOrg, DeleteOrg, EventTypes, Topic
  <2>3. UNCHANGED <<permitVars, pc, jobVars, lock, workVars, faults>>
    BY <1>2 DEF UpdateOrg, DeleteOrg
  <2> QED BY <2>1, <2>2, <2>3, Frames
<1>3. ASSUME NEW c \in Caller, Call(c) PROVE TypeOK'
  <2>1. PICK x \in Source, o \in Org, n \in {0, 1} :
            Begin(c, x, o, n) /\ Goto(c, Entry(x))
    <3>1. CASE Login(c)
      BY <3>1 DEF Login, Source
    <3>2. CASE \E o \in Org : Operate(c, o)
      BY <3>2 DEF Operate, Source
    <3>3. CASE \E t \in Topic, o \in Org : Receive(c, t, o)
      BY <3>3 DEF Receive, Source
    <3> QED BY <1>3, <3>1, <3>2, <3>3 DEF Call
  <2>2. CallTypes'
    BY <2>1, BeginType DEF Entry, Place
  <2>3. UNCHANGED <<rowVars, lock, permitVars, eventVars, workVars, faults>>
    BY <1>3 DEF Call, Login, Operate, Receive
  <2> QED BY <2>2, <2>3, Frames
<1>4. ASSUME NEW c \in Caller, Return(c) PROVE TypeOK'
  <2>1. EventTypes' /\ CallTypes'
    BY <1>4, RestType DEF Return, EventTypes
  <2> QED BY <1>4, <2>1, Frames DEF Return
<1>5. ASSUME NEW c \in Caller, Fail(c) PROVE TypeOK'
  <2>1. UNCHANGED <<rowVars, lock, permitVars, workVars, faults>>
    BY <1>5 DEF Fail
  <2>2. CASE Rest(c) /\ UNCHANGED eventVars
    BY <2>1, <2>2, Frames, RestType
  <2>3. CASE src[c] \in Topic /\ DeadLetter(c)
    BY <2>1, <2>3, Frames, DeadLetterType
  <2>4. CASE /\ tries[c] <= RetryCount
             /\ tries' = [tries EXCEPT ![c] = @ + 1]
             /\ Goto(c, Entry(src[c]))
             /\ UNCHANGED <<eventVars, src, about>>
    <3>1. tries[c] + 1 \in 0..RetryCount + 1
      BY <2>4 DEF CallTypes
    <3>2. tries' \in [Caller -> 0..RetryCount + 1]
      BY <2>4, <3>1 DEF CallTypes
    <3>3. pc' \in [Caller -> Place]
      BY <2>4, GotoType DEF Entry, Place
    <3>4. CallTypes'
      BY <2>4, <3>2, <3>3 DEF CallTypes
    <3> QED BY <2>1, <2>4, <3>4, Frames
  <2> QED BY <1>5, <2>2, <2>3, <2>4 DEF Fail
<1>6. ASSUME NEW c \in Caller, List(c) PROVE TypeOK'
  <2>1. CallTypes'
    BY <1>6, GotoType DEF List, CallTypes, jobVars, Place
  <2>2. RowTypes'
    BY <1>6 DEF List, RowTypes
  <2>3. WorkTypes'
    BY <1>6 DEF List, WorkTypes
  <2> QED BY <1>6, <2>1, <2>2, <2>3, Frames DEF List
<1>7. ASSUME NEW c \in Caller, Finish(c) \/ DeprovisionSoft(c) PROVE TypeOK'
  <2>1. CallTypes'
    BY <1>7, GotoType DEF Finish, DeprovisionSoft, CallTypes, jobVars, Place
  <2> QED BY <1>7, <2>1, Frames DEF Finish, DeprovisionSoft
<1>8. ASSUME NEW c \in Caller, NEW o \in Org, Lock(c, o) PROVE TypeOK'
  <2>1. CallTypes'
    BY <1>8, GotoType DEF Lock, CallTypes, jobVars, Place
  <2>2. WorkTypes'
    <3>1. WithRows(step[o]) \in [Step -> Status]
      BY WithRowsType DEF RowTypes
    <3>2. name[o] \in Name
      BY DEF RowTypes
    <3>3. CASE org[o] = "live"
      <4>1. lock' \in [Org -> Caller \cup {Free}] /\ at' \in [Caller -> Org]
        <5>1. /\ lock' = [lock EXCEPT ![o] = c] /\ lock \in [Org -> Caller \cup {Free}]
              /\ at' = [at EXCEPT ![c] = o] /\ at \in [Caller -> Org]
          BY <1>8, <3>3 DEF Lock, WorkTypes
        <5>2. lock' \in [Org -> Caller \cup {Free}]
          BY <5>1
        <5>3. at' \in [Caller -> Org]
          BY <5>1
        <5> QED BY <5>2, <5>3
      <4>2. read' \in [Caller -> Name]
        <5>1. read' = [read EXCEPT ![c] = name[o]] /\ read \in [Caller -> Name]
          BY <1>8, <3>3 DEF Lock, WorkTypes
        <5> QED BY <3>2, <5>1
      <4>3. view' \in [Caller -> [Step -> Status]]
        <5>1. /\ view' = [view EXCEPT ![c] = WithRows(step[o])]
              /\ view \in [Caller -> [Step -> Status]]
          BY <1>8, <3>3 DEF Lock, WorkTypes
        <5> QED BY <3>1, <5>1
      <4>4. todo' \in [Caller -> SUBSET Org]
        <5>1. todo' = [todo EXCEPT ![c] = @ \ {o}] /\ todo \in [Caller -> SUBSET Org]
          BY <1>8, <3>3 DEF Lock, WorkTypes
        <5> QED BY <5>1
      <4> QED BY <4>1, <4>2, <4>3, <4>4 DEF WorkTypes
    <3>4. CASE org[o] # "live"
      BY <1>8, <3>4 DEF Lock, WorkTypes
    <3> QED BY <3>3, <3>4
  <2> QED BY <1>8, <2>1, <2>2, Frames DEF Lock
<1>9. ASSUME NEW c \in Caller, NEW s \in Step, StepSucceeds(c, s) PROVE TypeOK'
  <2>1. PICK n \in Records(s) : Effect(s, c, n) /\ faults' = faults + n - 1
    BY <1>9 DEF StepSucceeds
  <2>2. PermitTypes' /\ faults' \in Nat
    BY <2>1, EffectType, RecordsArePositive
  <2>3. WorkTypes'
    BY <1>9, RecordType DEF StepSucceeds, Status
  <2> QED BY <1>9, <2>2, <2>3, Frames DEF StepSucceeds
<1>10. ASSUME NEW c \in Caller, NEW s \in Step, StepFails(c, s) PROVE TypeOK'
  <2>1. WorkTypes'
    BY <1>10, RecordType DEF StepFails, Status
  <2>2. PermitTypes' /\ faults' \in Nat
    BY <1>10, EffectType, RecordsArePositive, Frames DEF StepFails
  <2>3. CallTypes'
    BY <1>10, GotoType DEF StepFails, CallTypes, jobVars, Place
  <2> QED BY <1>10, <2>1, <2>2, <2>3, Frames DEF StepFails
<1>17. ASSUME NEW c \in Caller, NEW s \in Step, StepSkipped(c, s) PROVE TypeOK'
  <2>1. WorkTypes'
    BY <1>17, RecordType DEF StepSkipped, Status
  <2>2. at[c] \in Org
    BY DEF WorkTypes
  <2>3. PermitTypes'
    BY <1>17, <2>2 DEF StepSkipped, PermitTypes
  <2> QED BY <1>17, <2>1, <2>3, Frames DEF StepSkipped
<1>11. ASSUME NEW c \in Caller, Commit(c) PROVE TypeOK'
  <2>1. RowTypes'
    <3>1. at[c] \in Org /\ view[c] \in [Step -> Status]
      BY DEF WorkTypes
    <3>2. step' \in [Org -> [Step -> Status]]
      BY <1>11, <3>1 DEF Commit, RowTypes
    <3>3. state' \in [Org -> {"pending", "active", "failed"}]
      BY <1>11, <3>1 DEF Commit, RowTypes
    <3> QED BY <1>11, <3>2, <3>3 DEF Commit, RowTypes
  <2>2. WorkTypes'
    BY <1>11, ReleaseType DEF Commit, WorkTypes
  <2>3. CallTypes'
    BY <1>11, GotoType DEF Commit, CallTypes, jobVars, Place
  <2> QED BY <1>11, <2>1, <2>2, <2>3, Frames DEF Commit
<1>12. ASSUME NEW c \in Caller, DeprovisionHard(c) PROVE TypeOK'
  <2>0. NoRows \in [Step -> Status]
    BY DEF NoRows, Status
  <2>1. RowTypes'
    BY <1>12, <2>0 DEF DeprovisionHard, RowTypes
  <2>2. WorkTypes'
    BY <1>12, <2>0 DEF DeprovisionHard, WorkTypes
  <2>3. CallTypes'
    BY <1>12, GotoType DEF DeprovisionHard, CallTypes, jobVars, Place
  <2> QED BY <1>12, <2>1, <2>2, <2>3, Frames DEF DeprovisionHard
<1>13. ASSUME NEW c \in Caller, Abort(c) \/ Crash(c) \/ Disconnect(c) PROVE TypeOK'
  <2>1. /\ Fault(c)
        /\ UNCHANGED <<rowVars, permitVars>>
    BY <1>13 DEF Abort, Crash, Disconnect
  <2>2. CASE Abort(c)
    <3>1. CallTypes'
      BY <2>2, GotoType DEF Abort, CallTypes, jobVars, Place
    <3> QED BY <2>1, <2>2, <3>1, FaultType, Frames DEF Abort
  <2>3. CASE Crash(c)
    BY <2>1, <2>3, FaultType, Frames, RestType DEF Crash
  <2>4. CASE Disconnect(c)
    BY <2>1, <2>4, FaultType, Frames, DeadLetterType DEF Disconnect
  <2> QED BY <1>13, <2>2, <2>3, <2>4
<1>14. ASSUME NEW c \in Caller, Abandon(c) PROVE TypeOK'
  <2>1. /\ UNCHANGED <<rowVars, permitVars, eventVars, lock, workVars>>
        /\ faults' \in Nat
    BY <1>14 DEF Abandon
  <2>2. CallTypes'
    BY <1>14 DEF Abandon, Begin, CallTypes, Source
  <2> QED BY <2>1, <2>2, Frames
<1>15. CASE RollOut
  <2>1. RowTypes'
    BY <1>15 DEF RollOut, RowTypes
  <2> QED BY <1>15, <2>1, Frames DEF RollOut
<1>16. CASE UNCHANGED vars
  BY <1>16, Frames DEF vars
<1> QED
  BY <1>1, <1>2, <1>3, <1>4, <1>5, <1>6, <1>7, <1>8, <1>9, <1>10, <1>11, <1>12,
     <1>13, <1>14, <1>15, <1>16, <1>17 DEF Next, Routes, Work, RunStep, Break

\* The tables, the events and the callers keep their types.
THEOREM TypeCorrect == Spec => []TypeOK
BY TypeInit, TypeStep, PTL DEF Spec

-----------------------------------------------------------------------------
(* The inductive invariant.                                                *)

Busy(c) == pc[c] \in {"step", "commit"}

\* The advisory lock of an organization is held by the caller that reconciles it,
\* and by no other.
Holding ==
    \A c \in Caller, o \in Org : lock[o] = c <=> Busy(c) /\ at[c] = o

\* Only organizations that exist are reconciled or have left 'pending'.
Known ==
    /\ \A c \in Caller : Busy(c) => org[at[c]] # "unborn"
    /\ \A o \in Org : org[o] = "unborn" => state[o] = "pending"

\* What rows say is done has happened, and so have the steps it depends on; only
\* a welcome may have been skipped instead.
Truthful(rows, o) ==
    \A s \in Step : rows[s] = "done" => \A r \in 1..s : Answered(r, o)

RowsTruthful ==
    /\ \A o \in Org : Truthful(step[o], o)
    /\ \A c \in Caller : Busy(c) => Truthful(view[c], at[c])

\* The holder of the lock sees every step that is done.
HolderSees ==
    \A c \in Caller : Busy(c) /\ org[at[c]] = "live" =>
        \A s \in Step : step[at[c]][s] = "done" => view[c][s] = "done"

ActiveIsDone ==
    \A o \in Org : state[o] = "active" /\ org[o] = "live" => AllDone(step[o])

\* The welcome step of o is done, if only in an open transaction.
Welcomed(o) ==
    \/ step[o][WelcomeEmail] = "done"
    \/ \E c \in Caller : Busy(c) /\ at[c] = o /\ view[c][WelcomeEmail] = "done"

\* A mail whose step is not done was followed by a fault.
MailsBounded ==
    \A o \in Org : org[o] # "gone" =>
        /\ mails[o] <= faults + 1
        /\ mails[o] <= faults \/ Welcomed(o)

\* Events name organizations that exist.
EventsKnown ==
    /\ \A t \in Topic, o \in Org : <<t, o>> \in due => org[o] # "unborn"
    /\ \A c \in Caller : pc[c] # "idle" /\ src[c] \in Topic => org[about[c]] # "unborn"

\* The consumer of a created event that has listed the owner's organizations
\* still has the event's one before it unless a reconcile of it has ended.
Due(c, o) ==
    /\ pc[c] \in {"pick", "step", "commit"}
    /\ o \in todo[c] \/ (Busy(c) /\ at[c] = o)

LoopReaches ==
    ~flag =>
        \A c \in Caller, o \in Org \ {Personal} :
            /\ src[c] = "created" /\ about[c] = o
            /\ pc[c] \in {"pick", "step", "commit", "ok"}
            /\ org[o] = "live" /\ state[o] = "pending"
            => Due(c, o)

IndInv ==
    /\ TypeOK /\ Holding /\ Known /\ RowsTruthful /\ WiredInOrder
    /\ HolderSees /\ ActiveIsDone /\ MailsBounded
    /\ EventsKnown /\ LoopReaches /\ AcknowledgedIsReconciled

-----------------------------------------------------------------------------
(* What a step can do to the rows, the lock and Permit.                    *)

\* It leaves them alone: an organization may come to be, a fault may be counted.
Calm ==
    /\ UNCHANGED <<state, step, lock, permitVars, at, view>>
    /\ faults' \in Nat /\ faults <= faults'
    /\ \A c \in Caller : Busy(c)' <=> Busy(c)
    /\ \A o \in Org : org'[o] # org[o] => org[o] = "unborn" /\ org'[o] = "live"

Others(c) == \A d \in Caller \ {c} : Busy(d)' <=> Busy(d)

Acquire(c, o) ==
    /\ ~Busy(c) /\ Busy(c)' /\ Others(c)
    /\ lock[o] = Free /\ org[o] = "live"
    /\ lock' = [lock EXCEPT ![o] = c]
    /\ at' = [at EXCEPT ![c] = o]
    /\ view' = [view EXCEPT ![c] = WithRows(step[o])]
    /\ UNCHANGED <<org, state, step, permitVars, faults>>

\* c's transaction ends, with or without its writes.
Rollback(c) ==
    /\ Busy(c) /\ ~Busy(c)' /\ Others(c)
    /\ Release(c)
    /\ faults' = faults + 1
    /\ UNCHANGED <<org, state, step, permitVars>>

Runs(c, s) == StepSucceeds(c, s) \/ StepSkipped(c, s) \/ StepFails(c, s)

Kind ==
    \/ Calm
    \/ \E c \in Caller, o \in Org : Acquire(c, o)
    \/ \E c \in Caller, s \in Step : Runs(c, s)
    \/ \E c \in Caller : Rollback(c) \/ Commit(c) \/ DeprovisionHard(c)

LEMMA GotoOthers ==
    ASSUME CallTypes, NEW c \in Caller, NEW l, Goto(c, l)
    PROVE  /\ Others(c)
           /\ Busy(c)' <=> l \in {"step", "commit"}
           /\ (Busy(c) <=> l \in {"step", "commit"}) => \A d \in Caller : Busy(d)' <=> Busy(d)
BY DEF CallTypes, Goto, Others, Busy

LEMMA StepKind == ASSUME TypeOK, [Next]_vars PROVE Kind
<1> USE DEF TypeOK
<1>0. CallTypes /\ faults \in Nat
  OBVIOUS
<1>1. ASSUME NEW c \in Caller, NEW o \in Org, CreateOrg(c, o) PROVE Calm
  <2>1. \A d \in Caller : Busy(d)' <=> Busy(d)
    BY <1>0, <1>1, GotoOthers DEF CreateOrg, Busy
  <2>2. \A p \in Org : org'[p] # org[p] => org[p] = "unborn" /\ org'[p] = "live"
    BY <1>1 DEF CreateOrg, RowTypes
  <2> QED BY <1>0, <1>1, <2>1, <2>2 DEF CreateOrg, Calm, workVars
<1>2. ASSUME NEW o \in Org, UpdateOrg(o) \/ DeleteOrg(o) PROVE Calm
  BY <1>0, <1>2 DEF UpdateOrg, DeleteOrg, Calm, workVars, Busy
<1>3. ASSUME NEW c \in Caller, Call(c) PROVE Calm
  <2>1. UNCHANGED <<rowVars, lock, permitVars, workVars, faults>>
    BY <1>3 DEF Call, Login, Operate, Receive
  <2>2. \E x \in {"list", "deprovision"} : pc[c] = "idle" /\ Goto(c, x)
    BY <1>3 DEF Call, Login, Operate, Receive, Entry
  <2>3. \A d \in Caller : Busy(d)' <=> Busy(d)
    BY <1>0, <2>2, GotoOthers DEF Busy
  <2> QED BY <1>0, <2>1, <2>3 DEF Calm, rowVars, workVars
<1>4. ASSUME NEW c \in Caller, Return(c) \/ Fail(c) \/ Finish(c) \/ DeprovisionSoft(c)
      PROVE  Calm
  <2>1. UNCHANGED <<rowVars, lock, permitVars, workVars, faults>>
    BY <1>4 DEF Return, Fail, Finish, DeprovisionSoft
  <2>2. \E x \in Place \ {"step", "commit"} : ~Busy(c) /\ Goto(c, x)
    BY <1>4 DEF Return, Fail, Finish, DeprovisionSoft, Rest, DeadLetter, Entry, Busy, Place
  <2>3. \A d \in Caller : Busy(d)' <=> Busy(d)
    BY <1>0, <2>2, GotoOthers
  <2> QED BY <1>0, <2>1, <2>3 DEF Calm, rowVars, workVars
<1>5. ASSUME NEW c \in Caller, List(c) PROVE Calm
  <2>1. \A d \in Caller : Busy(d)' <=> Busy(d)
    BY <1>0, <1>5, GotoOthers DEF List, Busy
  <2>2. \A p \in Org : org'[p] # org[p] => org[p] = "unborn" /\ org'[p] = "live"
    BY <1>5 DEF List, RowTypes
  <2> QED BY <1>0, <1>5, <2>1, <2>2 DEF List, Calm
<1>6. ASSUME NEW c \in Caller, NEW o \in Org, Lock(c, o) PROVE Calm \/ Acquire(c, o)
  <2>1. CASE org[o] = "live"
    BY <1>0, <1>6, <2>1, GotoOthers DEF Lock, Acquire, Busy, rowVars
  <2>2. CASE org[o] # "live"
    <3>1. \A d \in Caller : Busy(d)' <=> Busy(d)
      BY <1>0, <1>6, <2>2, GotoOthers DEF Lock, Busy
    <3> QED BY <1>0, <1>6, <2>2, <3>1 DEF Lock, Calm, rowVars
  <2> QED BY <2>1, <2>2
<1>7. ASSUME NEW c \in Caller, Abort(c) \/ Crash(c) \/ Disconnect(c)
      PROVE  Calm \/ Rollback(c)
  <2>1. Fault(c) /\ UNCHANGED <<rowVars, permitVars>>
    BY <1>7 DEF Abort, Crash, Disconnect
  <2>2. \E x \in {"error", "idle"} : Goto(c, x)
    BY <1>7 DEF Abort, Crash, Disconnect, DeadLetter, Rest
  <2>3. Others(c) /\ ~Busy(c)'
    BY <1>0, <2>2, GotoOthers
  <2>4. CASE Busy(c)
    BY <2>1, <2>3, <2>4 DEF Fault, Rollback, Busy, rowVars
  <2>5. CASE ~Busy(c)
    <3>1. \A d \in Caller : Busy(d)' <=> Busy(d)
      BY <2>3, <2>5 DEF Others
    <3> QED BY <1>0, <2>1, <2>5, <3>1 DEF Fault, Calm, Busy, rowVars
  <2> QED BY <2>4, <2>5
<1>8. ASSUME UNCHANGED vars PROVE Calm
  BY <1>0, <1>8 DEF vars, Calm, rowVars, workVars, Busy
<1>9. ASSUME NEW c \in Caller, Work(c) PROVE Kind
  BY <1>4, <1>5, <1>6, <1>9 DEF Kind, Work, RunStep, Runs
<1>10. ASSUME NEW c \in Caller, Abandon(c) PROVE Calm
  BY <1>0, <1>10 DEF Abandon, Calm, rowVars, workVars, Busy
<1>11. ASSUME RollOut PROVE Calm
  BY <1>0, <1>11 DEF RollOut, Calm, workVars, permitVars, Busy
<1> QED BY <1>1, <1>2, <1>3, <1>7, <1>8, <1>9, <1>10, <1>11 DEF Kind, Next, Routes, Break

-----------------------------------------------------------------------------
(* What Permit and the mail topic have seen is never taken back.           *)

Grows ==
    /\ synced => synced'
    /\ \A o \in Org : /\ tenant[o] # "none" => tenant'[o] # "none"
                      /\ role[o] => role'[o]
                      /\ mails[o] <= mails'[o]
    /\ skipped \subseteq skipped'

LEMMA Stays ==
    ASSUME PermitTypes, PermitTypes', Grows, NEW o \in Org, NEW s \in Step, Happened(s, o)
    PROVE  Happened(s, o)'
<1>1. s \in {UserSync, TenantCreate, RoleAssign, WelcomeEmail}
  BY DEF Step, UserSync, TenantCreate, RoleAssign, WelcomeEmail
<1>2. mails[o] \in Nat /\ mails'[o] \in Nat
  BY DEF PermitTypes
<1> QED BY <1>1, <1>2 DEF Grows, Happened, UserSync, TenantCreate, RoleAssign, WelcomeEmail

LEMMA AnswerStays ==
    ASSUME PermitTypes, PermitTypes', Grows, NEW o \in Org, NEW s \in Step, Answered(s, o)
    PROVE  Answered(s, o)'
BY Stays DEF Answered, Grows

LEMMA EffectGrows ==
    ASSUME TypeOK, TypeOK', NEW c \in Caller, NEW s \in Step, NEW n \in Records(s),
           Effect(s, c, n), NEW p \in Org, p = at[c]
    PROVE  Grows /\ Happened(s, p)'
<1>0. n \in Nat /\ n > 0
  BY RecordsArePositive
<1>1. at[c] \in Org /\ read[c] \in Name /\ mails \in [Org -> Nat]
  BY DEF TypeOK, WorkTypes, PermitTypes
<1>2. synced => synced'
  BY DEF Effect
<1>3. ASSUME NEW o \in Org, tenant[o] # "none" PROVE tenant'[o] # "none"
  BY <1>1, <1>3 DEF Effect, TypeOK, PermitTypes, Name
<1>4. ASSUME NEW o \in Org, role[o] PROVE role'[o]
  BY <1>1, <1>4 DEF Effect, TypeOK, PermitTypes
<1>5. ASSUME NEW o \in Org PROVE mails[o] <= mails'[o]
  <2>1. mails'[o] = mails[o] \/ mails'[o] = mails[o] + n
    BY <1>1, <1>5 DEF Effect
  <2> QED BY <1>0, <1>1, <2>1
<1>6. ASSUME s = UserSync PROVE Happened(s, p)'
  BY <1>6 DEF Effect, Happened
<1>7. ASSUME s = TenantCreate PROVE Happened(s, p)'
  BY <1>1, <1>7 DEF Effect, Happened, TypeOK, PermitTypes, Name, UserSync, TenantCreate
<1>8. ASSUME s = RoleAssign PROVE Happened(s, p)'
  BY <1>1, <1>8 DEF Effect, Happened, TypeOK, PermitTypes, UserSync, TenantCreate, RoleAssign
<1>9. ASSUME s = WelcomeEmail PROVE Happened(s, p)'
  <2>1. mails'[p] = mails[p] + n
    BY <1>1, <1>9 DEF Effect
  <2>2. mails'[p] > 0
    BY <1>0, <1>1, <2>1
  <2> QED BY <1>9, <2>2 DEF Happened, UserSync, TenantCreate, RoleAssign, WelcomeEmail
<1>10. skipped \subseteq skipped'
  BY DEF Effect
<1> QED
  BY <1>2, <1>3, <1>4, <1>5, <1>6, <1>7, <1>8, <1>9, <1>10
     DEF Grows, Step, UserSync, TenantCreate, RoleAssign, WelcomeEmail

\* A step's effect is all that is new.
LEMMA EffectOnly ==
    ASSUME TypeOK, TypeOK', NEW c \in Caller, NEW s \in Step, NEW n, Effect(s, c, n),
           NEW o \in Org, NEW r \in Step, r > 1, Happened(r, o)', ~Happened(r, o)
    PROVE  r = s /\ o = at[c]
<1>1. at[c] \in Org /\ mails \in [Org -> Nat]
  BY DEF TypeOK, WorkTypes, PermitTypes
<1>2. CASE r = TenantCreate
  BY <1>1, <1>2 DEF Effect, Happened, TypeOK, PermitTypes, UserSync, TenantCreate
<1>3. CASE r = RoleAssign
  BY <1>1, <1>3 DEF Effect, Happened, TypeOK, PermitTypes, UserSync, TenantCreate, RoleAssign
<1>4. CASE r = WelcomeEmail
  BY <1>1, <1>4 DEF Effect, Happened, UserSync, TenantCreate, RoleAssign, WelcomeEmail
<1> QED BY <1>2, <1>3, <1>4 DEF Step, UserSync, TenantCreate, RoleAssign, WelcomeEmail

\* A step of a reconcile leaves Permit alone or has its own effect.
LEMMA StepGrows ==
    ASSUME TypeOK, TypeOK', NEW c \in Caller, NEW s \in Step,
           Runs(c, s)
    PROVE  Grows
<1>1. \/ UNCHANGED permitVars \/ StepSkipped(c, s)
      \/ \E n \in Records(s) : Effect(s, c, n)
  BY DEF Runs, StepSucceeds, StepFails
<1>2. \A o \in Org : mails[o] \in Nat
  BY DEF TypeOK, PermitTypes
<1>3. UNCHANGED permitVars => Grows
  BY <1>2 DEF Grows, permitVars
<1>4. StepSkipped(c, s) => Grows
  BY <1>2 DEF StepSkipped, Grows
<1>5. at[c] \in Org
  BY DEF TypeOK, WorkTypes
<1> QED BY <1>1, <1>3, <1>4, <1>5, EffectGrows

LEMMA KindGrows == ASSUME TypeOK, TypeOK', Kind PROVE Grows
<1>1. \A o \in Org : mails[o] \in Nat
  BY DEF TypeOK, PermitTypes
<1>2. UNCHANGED permitVars => Grows
  BY <1>1 DEF Grows, permitVars
<1> QED
  BY <1>2, StepGrows DEF Kind, Calm, Acquire, Rollback, Commit, DeprovisionHard

-----------------------------------------------------------------------------
(* Each part of the invariant, by the kind of the step.                    *)

\* A step of a reconcile keeps the lock, its organization and who is busy.
LEMMA StepFrame ==
    ASSUME TypeOK, NEW c \in Caller, NEW s \in Step, Runs(c, s)
    PROVE  /\ UNCHANGED <<org, state, step, lock, at>>
           /\ Busy(c) /\ \A d \in Caller : Busy(d)' <=> Busy(d)
           /\ Current(c, s)
           /\ \E x \in {"done", "failed"} : Record(c, s, x)
<1>1. UNCHANGED <<rowVars, lock, at>> /\ Busy(c) /\ Current(c, s)
  BY DEF Runs, StepSucceeds, StepSkipped, StepFails, Busy
<1>2. \E x \in {"done", "failed"} : Record(c, s, x)
  BY DEF Runs, StepSucceeds, StepSkipped, StepFails
<1>3. CASE StepSucceeds(c, s) \/ StepSkipped(c, s)
  BY <1>1, <1>2, <1>3 DEF StepSucceeds, StepSkipped, Busy, rowVars
<1>4. CASE StepFails(c, s)
  <2>1. \A d \in Caller : Busy(d)' <=> Busy(d)
    BY <1>1, <1>4, GotoOthers DEF StepFails, TypeOK
  <2> QED BY <1>1, <1>2, <2>1 DEF rowVars
<1> QED BY <1>3, <1>4 DEF Runs

\* The transaction of c is over.
Ended(c) == Busy(c) /\ ~Busy(c)' /\ Others(c) /\ Release(c)

LEMMA CommitEnds == ASSUME TypeOK, NEW c \in Caller, Commit(c) PROVE Ended(c)
BY GotoOthers DEF Commit, Ended, Busy, TypeOK

LEMMA HardFrame ==
    ASSUME TypeOK, NEW c \in Caller, DeprovisionHard(c)
    PROVE  /\ \A d \in Caller : Busy(d)' <=> Busy(d)
           /\ UNCHANGED <<lock, at, permitVars, state, faults>>
<1>1. \A d \in Caller : Busy(d)' <=> Busy(d)
  BY GotoOthers DEF DeprovisionHard, Busy, TypeOK
<1> QED BY <1>1 DEF DeprovisionHard

LEMMA HoldingStep == ASSUME TypeOK, TypeOK', Holding, Kind PROVE Holding'
<1>0. /\ lock \in [Org -> Caller \cup {Free}]
      /\ at \in [Caller -> Org]
  BY DEF TypeOK, WorkTypes
<1>1. ASSUME UNCHANGED <<lock, at>>, \A d \in Caller : Busy(d)' <=> Busy(d)
      PROVE  Holding'
  BY <1>1 DEF Holding
<1>2. ASSUME NEW c \in Caller, NEW o \in Org, Acquire(c, o) PROVE Holding'
  <2>1. ASSUME NEW d \in Caller, NEW p \in Org
        PROVE  lock'[p] = d <=> Busy(d)' /\ at'[d] = p
    <3>1. CASE d = c
      BY <1>0, <1>2, <3>1 DEF Acquire, Holding
    <3>2. CASE d # c
      BY <1>0, <1>2, <3>2 DEF Acquire, Holding, Others
    <3> QED BY <3>1, <3>2
  <2> QED BY <2>1 DEF Holding
<1>3. ASSUME NEW c \in Caller, Ended(c) PROVE Holding'
  <2>1. ASSUME NEW d \in Caller, NEW p \in Org
        PROVE  lock'[p] = d <=> Busy(d)' /\ at'[d] = p
    <3>1. lock' = [lock EXCEPT ![at[c]] = Free] /\ lock[at[c]] = c
      BY <1>0, <1>3 DEF Ended, Release, Holding
    <3>2. CASE d = c
      BY <1>0, <1>3, <3>1, <3>2 DEF Ended, Holding
    <3>3. CASE d # c
      <4>1. at'[d] = at[d] /\ (Busy(d)' <=> Busy(d))
        BY <1>0, <1>3, <3>3 DEF Ended, Release, Others
      <4> QED BY <1>0, <3>1, <3>3, <4>1 DEF Holding
    <3> QED BY <3>2, <3>3
  <2> QED BY <2>1 DEF Holding
<1> QED
  BY <1>1, <1>2, <1>3, StepFrame, CommitEnds, HardFrame
     DEF Kind, Calm, Rollback, Ended

LEMMA KnownStep == ASSUME TypeOK, TypeOK', Known, Kind PROVE Known'
<1>0. /\ at \in [Caller -> Org] /\ org \in [Org -> {"unborn", "live", "gone"}]
      /\ state \in [Org -> {"pending", "active", "failed"}]
  BY DEF TypeOK, WorkTypes, RowTypes
<1>1. CASE Calm
  BY <1>0, <1>1 DEF Calm, Known
<1>2. ASSUME NEW c \in Caller, NEW o \in Org, Acquire(c, o) PROVE Known'
  <2>1. ASSUME NEW d \in Caller, Busy(d)' PROVE org'[at'[d]] # "unborn"
    BY <1>0, <1>2, <2>1 DEF Acquire, Others, Known
  <2> QED BY <1>2, <2>1 DEF Known, Acquire
<1>3. ASSUME NEW c \in Caller, NEW s \in Step, Runs(c, s)
      PROVE  Known'
  BY <1>3, StepFrame DEF Known
<1>4. ASSUME NEW c \in Caller, Ended(c), org' = org PROVE
        \A d \in Caller : Busy(d)' => org'[at'[d]] # "unborn"
  <2>1. ASSUME NEW d \in Caller, Busy(d)' PROVE at'[d] = at[d] /\ Busy(d)
    BY <1>0, <1>4, <2>1 DEF Ended, Release, Others
  <2> QED BY <1>4, <2>1 DEF Known
<1>5. ASSUME NEW c \in Caller, Rollback(c) PROVE Known'
  BY <1>4, <1>5 DEF Rollback, Ended, Known
<1>6. ASSUME NEW c \in Caller, Commit(c) PROVE Known'
  <2>1. Ended(c) /\ org' = org
    BY <1>6, CommitEnds DEF Commit
  <2>2. \A o \in Org : org'[o] = "unborn" => state'[o] = state[o]
    BY <1>0, <1>6 DEF Commit
  <2> QED BY <1>4, <2>1, <2>2 DEF Known
<1>7. ASSUME NEW c \in Caller, DeprovisionHard(c) PROVE Known'
  <2>1. about[c] \in Org
    BY DEF TypeOK, CallTypes
  <2>2. \A o \in Org : org'[o] = "unborn" <=> org[o] = "unborn" /\ o # about[c]
    BY <1>0, <1>7, <2>1 DEF DeprovisionHard
  <2> QED BY <1>0, <1>7, <2>2, HardFrame DEF Known
<1> QED BY <1>1, <1>2, <1>3, <1>5, <1>6, <1>7 DEF Kind

LEMMA TruthStays ==
    ASSUME TypeOK, TypeOK', Grows, NEW rows, NEW o \in Org, Truthful(rows, o)
    PROVE  \A s \in Step : rows[s] = "done" => \A r \in 1..s : Answered(r, o)'
<1> SUFFICES ASSUME NEW s \in Step, rows[s] = "done", NEW r \in 1..s
             PROVE  Answered(r, o)'
  OBVIOUS
<1>1. r \in Step
  BY DEF Step
<1> QED BY <1>1, AnswerStays DEF Truthful, TypeOK

\* What a step that succeeds or fails writes into the view is true.
LEMMA RecordTruthful ==
    ASSUME TypeOK, TypeOK', RowsTruthful, NEW c \in Caller, NEW s \in Step,
           Runs(c, s)
    PROVE  Truthful(view[c], at[c])'
<1>0. /\ view \in [Caller -> [Step -> Status]] /\ at[c] \in Org
      /\ at' = at /\ Busy(c) /\ Current(c, s)
  BY StepFrame DEF TypeOK, WorkTypes
<1>1. Grows
  BY StepGrows
<1>2. Truthful(view[c], at[c])
  BY <1>0 DEF RowsTruthful
<1>3. \A t \in Step : view[c][t] = "done" => \A r \in 1..t : Answered(r, at[c])'
  <2>1. PICK p \in Org : p = at[c]
    BY <1>0
  <2>2. \A t \in Step : view[c][t] = "done" => \A r \in 1..t : Answered(r, p)'
    BY <1>1, <1>2, <2>1, TruthStays
  <2> QED BY <1>0, <2>1, <2>2
<1>4. ASSUME NEW t \in Step, t # s, view'[c][t] = "done" PROVE view[c][t] = "done"
  BY <1>0, <1>4, StepFrame DEF Record
<1>5. ASSUME view'[c][s] = "done", NEW r \in 1..s PROVE Answered(r, at[c])'
  <2>1. StepSucceeds(c, s) \/ StepSkipped(c, s)
    BY <1>0, <1>5 DEF Runs, StepFails, Record
  <2>2. CASE r = s
    <3>1. CASE StepSucceeds(c, s)
      BY <1>0, <2>2, <3>1, EffectGrows DEF StepSucceeds, Answered
    <3>2. CASE StepSkipped(c, s)
      BY <1>0, <2>2, <3>2 DEF StepSkipped, Answered
    <3> QED BY <2>1, <3>1, <3>2
  <2>3. CASE r # s
    <3>1. r \in Step /\ r < s /\ r \in 1..r
      BY <2>3 DEF Step
    <3> QED BY <1>0, <1>3, <3>1 DEF Current
  <2> QED BY <2>2, <2>3
<1> QED BY <1>0, <1>3, <1>4, <1>5 DEF Truthful

LEMMA WithRowsDone ==
    ASSUME NEW rows, NEW s \in Step
    PROVE  WithRows(rows)[s] = "done" <=> rows[s] = "done"
BY DEF WithRows

LEMMA TruthfulStep ==
    ASSUME TypeOK, TypeOK', RowsTruthful, Kind PROVE RowsTruthful'
<1>0. /\ Grows
      /\ view \in [Caller -> [Step -> Status]] /\ at \in [Caller -> Org]
      /\ step \in [Org -> [Step -> Status]]
  BY KindGrows DEF TypeOK, WorkTypes, RowTypes
<1>1. ASSUME NEW o \in Org, step'[o] = step[o] PROVE Truthful(step[o], o)'
  <2>1. Truthful(step[o], o)
    BY DEF RowsTruthful
  <2>2. \A s \in Step : step[o][s] = "done" => \A r \in 1..s : Answered(r, o)'
    BY <1>0, <2>1, TruthStays
  <2> QED BY <1>1, <2>2 DEF Truthful
<1>2. ASSUME NEW d \in Caller, Busy(d), view'[d] = view[d], at'[d] = at[d]
      PROVE  Truthful(view[d], at[d])'
  <2>1. PICK p \in Org : p = at[d]
    BY <1>0
  <2>2. Truthful(view[d], p)
    BY <1>2, <2>1 DEF RowsTruthful
  <2>3. \A s \in Step : view[d][s] = "done" => \A r \in 1..s : Answered(r, p)'
    BY <1>0, <2>2, TruthStays
  <2> QED BY <1>2, <2>1, <2>3 DEF Truthful
<1>3. ASSUME NEW d \in Caller, NEW p \in Org, at'[d] = p, step'[p] = step[p],
             view'[d] = WithRows(step[p])
      PROVE  Truthful(view[d], at[d])'
  <2>1. \A s \in Step : step[p][s] = "done" => \A r \in 1..s : Answered(r, p)'
    BY <1>1, <1>3 DEF Truthful
  <2> QED BY <1>3, <2>1, WithRowsDone DEF Truthful
<1>4. ASSUME NEW rows, rows = NoRows, NEW s \in Step PROVE rows[s] # "done"
  BY <1>4 DEF NoRows
<1>5. CASE Calm
  BY <1>1, <1>2, <1>5 DEF Calm, RowsTruthful
<1>6. ASSUME NEW c \in Caller, NEW o \in Org, Acquire(c, o) PROVE RowsTruthful'
  <2>1. Truthful(view[c], at[c])'
    BY <1>0, <1>3, <1>6 DEF Acquire
  <2>2. ASSUME NEW d \in Caller, d # c, Busy(d)' PROVE Truthful(view[d], at[d])'
    BY <1>0, <1>2, <1>6, <2>2 DEF Acquire, Others
  <2> QED BY <1>1, <1>6, <2>1, <2>2 DEF RowsTruthful, Acquire
<1>7. ASSUME NEW c \in Caller, NEW s \in Step, Runs(c, s)
      PROVE  RowsTruthful'
  <2>1. ASSUME NEW d \in Caller, d # c, Busy(d)' PROVE Truthful(view[d], at[d])'
    <3>1. view'[d] = view[d] /\ at'[d] = at[d] /\ Busy(d)
      BY <1>0, <1>7, <2>1, StepFrame DEF Record
    <3> QED BY <1>2, <3>1
  <2> QED BY <1>1, <1>7, <2>1, StepFrame, RecordTruthful DEF RowsTruthful
<1>8. ASSUME NEW c \in Caller, Ended(c), NEW d \in Caller, Busy(d)'
      PROVE  Truthful(view[d], at[d])'
  <2>1. view'[d] = view[d] /\ at'[d] = at[d] /\ Busy(d)
    BY <1>0, <1>8 DEF Ended, Release, Others
  <2> QED BY <1>2, <2>1
<1>9. ASSUME NEW c \in Caller, Rollback(c) PROVE RowsTruthful'
  BY <1>1, <1>8, <1>9 DEF Rollback, Ended, RowsTruthful
<1>10. ASSUME NEW c \in Caller, Commit(c) PROVE RowsTruthful'
  <2>1. Ended(c) /\ permitVars' = permitVars
    BY <1>10, CommitEnds DEF Commit
  <2>2. ASSUME NEW o \in Org PROVE Truthful(step[o], o)'
    <3>1. CASE step'[o] = step[o]
      BY <1>1, <3>1
    <3>2. CASE step'[o] # step[o]
      <4>1. o = at[c] /\ step'[o] = view[c]
        BY <1>0, <1>10, <3>2 DEF Commit
      <4>2. Truthful(view[c], o)
        BY <2>1, <4>1 DEF RowsTruthful, Ended
      <4>3. \A s \in Step : view[c][s] = "done" => \A r \in 1..s : Answered(r, o)'
        BY <1>0, <4>2, TruthStays
      <4> QED BY <4>1, <4>3 DEF Truthful
    <3> QED BY <3>1, <3>2
  <2> QED BY <1>8, <2>1, <2>2 DEF RowsTruthful
<1>11. ASSUME NEW c \in Caller, DeprovisionHard(c) PROVE RowsTruthful'
  <2>1. ASSUME NEW o \in Org PROVE Truthful(step[o], o)'
    <3>1. step'[o] = step[o] \/ step'[o] = NoRows
      BY <1>0, <1>11 DEF DeprovisionHard
    <3> QED BY <1>1, <1>4, <3>1 DEF Truthful
  <2>2. ASSUME NEW d \in Caller, Busy(d)' PROVE Truthful(view[d], at[d])'
    <3>1. Busy(d) /\ at' = at /\ (view'[d] = view[d] \/ view'[d] = NoRows)
      BY <1>11, <2>2, HardFrame DEF DeprovisionHard
    <3> QED BY <1>2, <1>4, <3>1 DEF Truthful
  <2> QED BY <2>1, <2>2 DEF RowsTruthful
<1> QED BY <1>5, <1>6, <1>7, <1>9, <1>10, <1>11 DEF Kind

LEMMA OrderStep ==
    ASSUME TypeOK, TypeOK', RowsTruthful, WiredInOrder, Kind PROVE WiredInOrder'
<1> SUFFICES ASSUME NEW o \in Org, NEW s \in Step, s > 1, Happened(s, o)'
             PROVE  Happened(s - 1, o)'
  BY DEF WiredInOrder
<1>0. s - 1 \in Step /\ Grows
  BY KindGrows DEF Step
<1>1. CASE Happened(s, o)
  BY <1>0, <1>1, Stays DEF WiredInOrder, TypeOK
<1>2. CASE ~Happened(s, o)
  <2>1. ~UNCHANGED <<synced, tenant, role, mails>>
    BY <1>2 DEF Happened
  <2>2. PICK c \in Caller, t \in Step :
            (\E n \in Records(t) : Effect(t, c, n)) /\ Busy(c) /\ Current(c, t)
    BY <2>1 DEF Kind, Runs, Calm, Acquire, Rollback, Commit, DeprovisionHard, StepSucceeds,
                StepSkipped, StepFails, Busy, permitVars
  <2>3. t = s /\ at[c] = o
    BY <1>2, <2>2, EffectOnly
  <2>4. view[c][s - 1] = "done"
    BY <1>0, <2>2, <2>3 DEF Current, Step
  <2>5. Happened(s - 1, o)
    <3>1. s - 1 \in 1..(s - 1) /\ s - 1 # WelcomeEmail
      BY <1>0 DEF Step, WelcomeEmail
    <3> QED BY <1>0, <2>2, <2>3, <2>4, <3>1 DEF RowsTruthful, Truthful, Answered
  <2> QED BY <1>0, <2>5, Stays DEF TypeOK
<1> QED BY <1>1, <1>2

LEMMA SeesStep ==
    ASSUME TypeOK, TypeOK', Holding, Known, HolderSees, Kind PROVE HolderSees'
<1>0. /\ view \in [Caller -> [Step -> Status]] /\ at \in [Caller -> Org]
      /\ step \in [Org -> [Step -> Status]] /\ org \in [Org -> {"unborn", "live", "gone"}]
  BY DEF TypeOK, WorkTypes, RowTypes
<1>1. ASSUME NEW d \in Caller, Busy(d), view'[d] = view[d], at'[d] = at[d],
             step'[at[d]] = step[at[d]], org'[at[d]] = "live" => org[at[d]] = "live"
      PROVE  org'[at'[d]] = "live" =>
                \A s \in Step : step'[at'[d]][s] = "done" => view'[d][s] = "done"
  BY <1>0, <1>1 DEF HolderSees
<1>2. CASE Calm
  <2>1. ASSUME NEW d \in Caller, Busy(d), org'[at[d]] = "live" PROVE org[at[d]] = "live"
    BY <1>0, <1>2, <2>1 DEF Calm, Known
  <2> QED BY <1>1, <1>2, <2>1 DEF Calm, HolderSees
<1>3. ASSUME NEW c \in Caller, NEW o \in Org, Acquire(c, o) PROVE HolderSees'
  <2>1. at'[c] = o /\ view'[c] = WithRows(step[o]) /\ step' = step /\ org' = org
    BY <1>0, <1>3 DEF Acquire
  <2>2. ASSUME NEW d \in Caller, d # c, Busy(d)'
        PROVE  view'[d] = view[d] /\ at'[d] = at[d] /\ Busy(d)
    BY <1>0, <1>3, <2>2 DEF Acquire, Others
  <2> QED BY <1>1, <2>1, <2>2, WithRowsDone DEF HolderSees
<1>4. ASSUME NEW c \in Caller, NEW s \in Step, Runs(c, s)
      PROVE  HolderSees'
  <2>1. ASSUME NEW d \in Caller, NEW t \in Step, Busy(d), view[d][t] = "done"
        PROVE  view'[d][t] = "done"
    <3>1. Current(c, s) /\ \E x \in {"done", "failed"} : Record(c, s, x)
      BY <1>4, StepFrame
    <3>2. d = c => t # s
      BY <2>1, <3>1 DEF Current
    <3> QED BY <1>0, <2>1, <3>1, <3>2 DEF Record
  <2> QED BY <1>4, <2>1, StepFrame DEF HolderSees
<1>5. ASSUME NEW c \in Caller, Ended(c), NEW d \in Caller, Busy(d)'
      PROVE  view'[d] = view[d] /\ at'[d] = at[d] /\ Busy(d) /\ d # c
  BY <1>0, <1>5 DEF Ended, Release, Others
<1>6. ASSUME NEW c \in Caller, Rollback(c) PROVE HolderSees'
  BY <1>1, <1>5, <1>6 DEF Rollback, Ended, HolderSees
<1>7. ASSUME NEW c \in Caller, Commit(c) PROVE HolderSees'
  <2>1. Ended(c) /\ org' = org
    BY <1>7, CommitEnds DEF Commit
  <2>2. ASSUME NEW d \in Caller, Busy(d)' PROVE step'[at[d]] = step[at[d]]
    <3>1. at[d] # at[c]
      BY <1>0, <1>5, <2>1, <2>2 DEF Holding, Ended
    <3> QED BY <1>0, <1>7, <3>1 DEF Commit
  <2> QED BY <1>1, <1>5, <2>1, <2>2 DEF HolderSees
<1>8. ASSUME NEW c \in Caller, DeprovisionHard(c) PROVE HolderSees'
  <2>1. ASSUME NEW d \in Caller, Busy(d)', org'[at[d]] = "live"
        PROVE  view'[d] = view[d] /\ step'[at[d]] = step[at[d]] /\ org[at[d]] = "live"
    BY <1>0, <1>8, <2>1 DEF DeprovisionHard
  <2>2. UNCHANGED at /\ \A d \in Caller : Busy(d)' <=> Busy(d)
    BY <1>8, HardFrame
  <2> QED BY <1>1, <2>1, <2>2 DEF HolderSees
<1> QED BY <1>2, <1>3, <1>4, <1>6, <1>7, <1>8 DEF Kind

LEMMA ActiveStep == ASSUME TypeOK, TypeOK', Known, ActiveIsDone, Kind PROVE ActiveIsDone'
<1>0. /\ at \in [Caller -> Org] /\ org \in [Org -> {"unborn", "live", "gone"}]
      /\ step \in [Org -> [Step -> Status]]
      /\ state \in [Org -> {"pending", "active", "failed"}]
  BY DEF TypeOK, WorkTypes, RowTypes
<1>1. CASE Calm
  BY <1>0, <1>1 DEF Calm, Known, ActiveIsDone, AllDone
<1>2. ASSUME UNCHANGED <<org, state, step>> PROVE ActiveIsDone'
  BY <1>2 DEF ActiveIsDone, AllDone
<1>3. ASSUME NEW c \in Caller, Commit(c) PROVE ActiveIsDone'
  <2>1. ASSUME NEW o \in Org, state'[o] = "active", org'[o] = "live"
        PROVE  AllDone(step'[o])
    <3>1. CASE o = at[c]
      BY <1>0, <1>3, <2>1, <3>1 DEF Commit
    <3>2. CASE o # at[c]
      BY <1>0, <1>3, <2>1, <3>2 DEF Commit, ActiveIsDone
    <3> QED BY <3>1, <3>2
  <2> QED BY <2>1 DEF ActiveIsDone, AllDone
<1>4. ASSUME NEW c \in Caller, DeprovisionHard(c) PROVE ActiveIsDone'
  <2>1. ASSUME NEW o \in Org, state'[o] = "active", org'[o] = "live"
        PROVE  AllDone(step'[o])
    BY <1>0, <1>4, <2>1 DEF DeprovisionHard, ActiveIsDone
  <2> QED BY <2>1 DEF ActiveIsDone, AllDone
<1> QED BY <1>1, <1>2, <1>3, <1>4, StepFrame DEF Kind, Acquire, Rollback

\* Before its holder's welcome step an organization is not welcomed.
LEMMA NotYet ==
    ASSUME TypeOK, Holding, Known, HolderSees,
           NEW c \in Caller, Busy(c), org[at[c]] # "gone", view[c][WelcomeEmail] # "done"
    PROVE  ~Welcomed(at[c])
<1>0. at[c] \in Org /\ org[at[c]] = "live"
  BY DEF TypeOK, WorkTypes, RowTypes, Known
<1>1. step[at[c]][WelcomeEmail] # "done"
  BY <1>0 DEF HolderSees, Step, WelcomeEmail
<1>2. ASSUME NEW d \in Caller, Busy(d), at[d] = at[c] PROVE d = c
  BY <1>0, <1>2 DEF Holding
<1> QED BY <1>1, <1>2 DEF Welcomed

LEMMA MailsStep ==
    ASSUME TypeOK, TypeOK', Holding, Known, HolderSees, MailsBounded, Kind
    PROVE  MailsBounded'
<1>0. /\ at \in [Caller -> Org] /\ org \in [Org -> {"unborn", "live", "gone"}]
      /\ view \in [Caller -> [Step -> Status]] /\ step \in [Org -> [Step -> Status]]
      /\ mails \in [Org -> Nat] /\ faults \in Nat /\ WelcomeEmail \in Step
  BY DEF TypeOK, WorkTypes, RowTypes, PermitTypes, Step, WelcomeEmail
<1>1. ASSUME NEW o \in Org, mails'[o] = mails[o], faults <= faults', faults' \in Nat,
             org[o] # "gone", Welcomed(o) => Welcomed(o)' \/ faults' = faults + 1
      PROVE  mails'[o] <= faults' + 1 /\ (mails'[o] <= faults' \/ Welcomed(o)')
  <2>1. mails[o] <= faults + 1 /\ (mails[o] <= faults \/ Welcomed(o)) /\ mails[o] \in Nat
    BY <1>0, <1>1 DEF MailsBounded
  <2> QED BY <1>0, <1>1, <2>1
<1>2. CASE Calm
  <2>1. ASSUME NEW o \in Org PROVE Welcomed(o) => Welcomed(o)'
    BY <1>2 DEF Calm, Welcomed
  <2> QED BY <1>0, <1>1, <1>2, <2>1 DEF Calm, permitVars, MailsBounded
<1>3. ASSUME NEW c \in Caller, NEW o \in Org, Acquire(c, o) PROVE MailsBounded'
  <2>1. ASSUME NEW p \in Org PROVE Welcomed(p) => Welcomed(p)'
    BY <1>0, <1>3 DEF Acquire, Others, Welcomed
  <2> QED BY <1>0, <1>1, <1>3, <2>1 DEF Acquire, permitVars, MailsBounded
<1>4. ASSUME NEW c \in Caller, NEW s \in Step, Runs(c, s)
      PROVE  MailsBounded'
  <2>0. /\ UNCHANGED <<org, state, step, lock, at>>
        /\ Busy(c) /\ \A d \in Caller : Busy(d)' <=> Busy(d)
        /\ Current(c, s)
        /\ \E x \in {"done", "failed"} : Record(c, s, x)
    BY <1>4, StepFrame
  <2>1. ASSUME NEW o \in Org, Welcomed(o) PROVE Welcomed(o)'
    <3>1. ASSUME NEW d \in Caller, view[d][WelcomeEmail] = "done"
          PROVE  view'[d][WelcomeEmail] = "done"
      <4>1. d = c => s # WelcomeEmail
        BY <2>0, <3>1 DEF Current
      <4> QED BY <1>0, <2>0, <3>1, <4>1 DEF Record
    <3> QED BY <2>0, <2>1, <3>1 DEF Welcomed
  <2>2. CASE UNCHANGED mails
    <3>1. faults' \in Nat /\ faults <= faults'
      BY <1>0, <1>4, RecordsArePositive
         DEF Runs, StepSucceeds, StepSkipped, StepFails, TypeOK
    <3> QED BY <1>1, <2>0, <2>1, <2>2, <3>1 DEF MailsBounded
  <2>3. CASE ~UNCHANGED mails
    <3>1. PICK n \in Records(s) :
              /\ Effect(s, c, n)
              /\ \/ faults' = faults + n - 1 /\ view'[c][s] = "done"
                 \/ faults' = faults + n
      BY <1>0, <1>4, <2>3
         DEF Runs, StepSucceeds, StepSkipped, StepFails, Record, permitVars
    <3>2. /\ s = WelcomeEmail /\ mails' = [mails EXCEPT ![at[c]] = @ + n]
          /\ n \in Nat /\ n > 0
      BY <2>3, <3>1, RecordsArePositive DEF Effect
    <3>3. faults' \in Nat /\ faults <= faults'
      BY <1>0, <3>1, <3>2
    <3>4. ASSUME NEW o \in Org, org'[o] # "gone"
          PROVE  mails'[o] <= faults' + 1 /\ (mails'[o] <= faults' \/ Welcomed(o)')
      <4>1. CASE o # at[c]
        BY <1>0, <1>1, <2>0, <2>1, <3>2, <3>3, <3>4, <4>1
      <4>2. CASE o = at[c]
        <5>1. ~Welcomed(o)
          BY <2>0, <3>2, <3>4, <4>2, NotYet DEF Current
        <5>2. mails[o] <= faults /\ mails'[o] = mails[o] + n
          BY <1>0, <2>0, <3>2, <3>4, <4>2, <5>1 DEF MailsBounded
        <5>3. view'[c][s] = "done" => Welcomed(o)'
          BY <1>0, <2>0, <3>2, <4>2 DEF Welcomed
        <5>4. mails[o] \in Nat
          BY <1>0
        <5> QED BY <1>0, <3>1, <3>2, <5>2, <5>3, <5>4
      <4> QED BY <4>1, <4>2
    <3> QED BY <3>4 DEF MailsBounded
  <2> QED BY <2>2, <2>3
<1>5. ASSUME NEW c \in Caller, Rollback(c) PROVE MailsBounded'
  BY <1>0, <1>1, <1>5 DEF Rollback, permitVars, MailsBounded
<1>6. ASSUME NEW c \in Caller, Commit(c) PROVE MailsBounded'
  <2>0. Ended(c) /\ UNCHANGED <<org, permitVars, faults>>
    BY <1>6, CommitEnds DEF Commit
  <2>1. ASSUME NEW o \in Org, org[o] # "gone", Welcomed(o) PROVE Welcomed(o)'
    <3>1. CASE o = at[c]
      <4>1. org[o] = "live"
        BY <1>0, <2>0, <2>1, <3>1 DEF Known, Ended
      <4>2. view[c][WelcomeEmail] = "done"
        BY <2>0, <2>1, <3>1, NotYet DEF Ended
      <4>3. step'[o] = view[c]
        BY <1>0, <1>6, <3>1, <4>1 DEF Commit
      <4> QED BY <4>2, <4>3 DEF Welcomed
    <3>2. CASE o # at[c]
      <4>1. step'[o] = step[o]
        BY <1>0, <1>6, <3>2 DEF Commit
      <4>2. ASSUME NEW d \in Caller, Busy(d), at[d] = o
            PROVE  Busy(d)' /\ at'[d] = at[d] /\ view'[d] = view[d]
        BY <1>0, <2>0, <3>2, <4>2 DEF Ended, Release, Others
      <4> QED BY <2>1, <4>1, <4>2 DEF Welcomed
    <3> QED BY <3>1, <3>2
  <2> QED BY <1>0, <1>1, <2>0, <2>1 DEF permitVars, MailsBounded
<1>7. ASSUME NEW c \in Caller, DeprovisionHard(c) PROVE MailsBounded'
  <2>0. /\ \A d \in Caller : Busy(d)' <=> Busy(d)
        /\ UNCHANGED <<lock, at, permitVars, state, faults>>
    BY <1>7, HardFrame
  <2>1. ASSUME NEW o \in Org, org'[o] # "gone"
        PROVE  org[o] # "gone" /\ (Welcomed(o) => Welcomed(o)')
    <3>1. o # about[c] /\ org'[o] = org[o] /\ step'[o] = step[o]
      BY <1>0, <1>7, <2>1 DEF DeprovisionHard
    <3>2. \A d \in Caller : at[d] = o => view'[d] = view[d]
      BY <1>7, <3>1 DEF DeprovisionHard
    <3> QED BY <2>0, <2>1, <3>1, <3>2 DEF Welcomed
  <2> QED BY <1>0, <1>1, <2>0, <2>1 DEF permitVars, MailsBounded
<1> QED BY <1>2, <1>3, <1>4, <1>5, <1>6, <1>7 DEF Kind

-----------------------------------------------------------------------------
(* The events and the callers that handle them.                            *)

Same(d) ==
    /\ pc'[d] = pc[d] /\ src'[d] = src[d] /\ about'[d] = about[d]
    /\ todo'[d] = todo[d] /\ at'[d] = at[d]

Own(d) ==
    \/ \E o \in Org : CreateOrg(d, o)
    \/ Call(d) \/ Work(d) \/ Break(d)

\* A caller does its own step or stays as it is.
LEMMA OwnStep ==
    ASSUME TypeOK, [Next]_vars, NEW d \in Caller PROVE Same(d) \/ Own(d)
<1>0. /\ pc \in [Caller -> Place] /\ src \in [Caller -> Source] /\ about \in [Caller -> Org]
      /\ todo \in [Caller -> SUBSET Org] /\ at \in [Caller -> Org]
  BY DEF TypeOK, CallTypes, WorkTypes
<1>1. CASE RollOut \/ UNCHANGED vars
  BY <1>1 DEF RollOut, vars, jobVars, workVars, Same
<1>2. CASE \E o \in Org : UpdateOrg(o) \/ DeleteOrg(o)
  BY <1>2 DEF UpdateOrg, DeleteOrg, jobVars, workVars, Same
<1>3. ASSUME NEW c \in Caller, c # d, NEW o \in Org, CreateOrg(c, o) PROVE Same(d)
  BY <1>0, <1>3 DEF CreateOrg, Begin, Goto, Same
<1>4. ASSUME NEW c \in Caller, c # d, Call(c) PROVE Same(d)
  BY <1>0, <1>4 DEF Call, Login, Operate, Receive, Begin, Goto, workVars, Same
<1>5. ASSUME NEW c \in Caller, c # d, Return(c) \/ Fail(c) PROVE Same(d)
  BY <1>0, <1>5 DEF Return, Fail, DeadLetter, Rest, Begin, Goto, workVars, Same
<1>6. ASSUME NEW c \in Caller, c # d, List(c) \/ Finish(c) PROVE Same(d)
  BY <1>0, <1>6 DEF List, Finish, Goto, jobVars, workVars, Same
<1>7. ASSUME NEW c \in Caller, c # d, NEW o \in Org, Lock(c, o) PROVE Same(d)
  BY <1>0, <1>7 DEF Lock, Goto, jobVars, Same
<1>8. ASSUME NEW c \in Caller, c # d, RunStep(c) PROVE Same(d)
  BY <1>0, <1>8 DEF RunStep, StepSucceeds, StepSkipped, StepFails, Goto, jobVars, Same
<1>9. ASSUME NEW c \in Caller, c # d, Commit(c) PROVE Same(d)
  BY <1>0, <1>9 DEF Commit, Release, Goto, jobVars, Same
<1>10. ASSUME NEW c \in Caller, c # d, DeprovisionSoft(c) \/ DeprovisionHard(c)
       PROVE  Same(d)
  BY <1>0, <1>10 DEF DeprovisionSoft, DeprovisionHard, Goto, jobVars, workVars, Same
<1>11. ASSUME NEW c \in Caller, c # d, Break(c) PROVE Same(d)
  BY <1>0, <1>11 DEF Break, Abort, Crash, Abandon, Disconnect, Fault, workVars, Release,
                     DeadLetter, Rest, Begin, Goto, jobVars, Same
<1>12. ASSUME NEW c \in Caller, c # d, Work(c) PROVE Same(d)
  BY <1>5, <1>6, <1>7, <1>8, <1>9, <1>10, <1>12 DEF Work
<1> QED BY <1>1, <1>2, <1>3, <1>4, <1>11, <1>12 DEF Next, Routes, Own

\* A consumer keeps its event until it is done with it.
LEMMA JobStep ==
    ASSUME TypeOK, [Next]_vars, NEW d \in Caller, pc'[d] # "idle", src'[d] \in Topic
    PROVE  \/ pc[d] # "idle" /\ src'[d] = src[d] /\ about'[d] = about[d]
           \/ pc'[d] \in {"list", "deprovision"} /\ <<src'[d], about'[d]>> \in due
<1>0. /\ pc \in [Caller -> Place] /\ src \in [Caller -> Source] /\ about \in [Caller -> Org]
  BY DEF TypeOK, CallTypes
<1>1. CASE Same(d)
  BY <1>1 DEF Same
<1>2. ASSUME NEW o \in Org, CreateOrg(d, o) PROVE FALSE
  BY <1>0, <1>2 DEF CreateOrg, Begin, Topic
<1>3. CASE Call(d)
  <2>1. CASE Login(d) \/ \E o \in Org : Operate(d, o)
    BY <1>0, <2>1 DEF Login, Operate, Begin, Topic
  <2>2. CASE \E t \in Topic, o \in Org : Receive(d, t, o)
    BY <1>0, <2>2 DEF Receive, Begin, Goto, Entry
  <2> QED BY <1>3, <2>1, <2>2 DEF Call
<1>4. ASSUME UNCHANGED <<src, about>>, pc[d] # "idle"
      PROVE  pc[d] # "idle" /\ src'[d] = src[d] /\ about'[d] = about[d]
  BY <1>4
<1>5. CASE Return(d) \/ Crash(d) \/ Disconnect(d)
  BY <1>0, <1>5 DEF Return, Crash, Disconnect, DeadLetter, Rest, Goto
<1>6. CASE Fail(d)
  BY <1>0, <1>4, <1>6 DEF Fail, DeadLetter, Rest, Goto
<1>7. CASE Work(d) /\ ~Return(d) /\ ~Fail(d)
  <2>1. UNCHANGED jobVars /\ pc[d] # "idle"
    BY <1>7 DEF Work, List, Finish, Lock, RunStep, StepSucceeds, StepSkipped, StepFails,
                Commit, DeprovisionSoft, DeprovisionHard
  <2> QED BY <1>4, <2>1 DEF jobVars
<1>8. CASE Abort(d)
  BY <1>4, <1>8 DEF Abort, jobVars
<1>9. ~Abandon(d)
  BY <1>0 DEF Abandon, Begin, Topic
<1> QED BY <1>1, <1>2, <1>3, <1>5, <1>6, <1>7, <1>8, <1>9, OwnStep DEF Own, Break

\* An organization that exists is not unborn again, one that is gone stays so, and
\* one that has left 'pending' does not return to it.
LEMMA RowStep ==
    ASSUME TypeOK, Kind, NEW o \in Org
    PROVE  /\ org'[o] = "unborn" => org[o] = "unborn"
           /\ org'[o] = "live" => org[o] # "gone"
           /\ state'[o] = "pending" => state[o] = "pending"
<1>0. /\ at \in [Caller -> Org] /\ org \in [Org -> {"unborn", "live", "gone"}]
      /\ state \in [Org -> {"pending", "active", "failed"}]
  BY DEF TypeOK, WorkTypes, RowTypes
<1>1. CASE Calm
  BY <1>0, <1>1 DEF Calm
<1>2. CASE UNCHANGED <<org, state>>
  BY <1>2
<1>3. ASSUME NEW c \in Caller, Commit(c)
      PROVE  org' = org /\ (state'[o] = "pending" => state[o] = "pending")
  BY <1>0, <1>3 DEF Commit
<1>4. ASSUME NEW c \in Caller, DeprovisionHard(c)
      PROVE  state' = state /\ (org'[o] = "gone" \/ org'[o] = org[o])
  BY <1>0, <1>4 DEF DeprovisionHard
<1> QED
  BY <1>1, <1>2, <1>3, <1>4, StepFrame DEF Kind, Acquire, Rollback

\* Where an event comes from.
LEMMA DueStep ==
    ASSUME TypeOK, [Next]_vars, NEW t \in Topic, NEW o \in Org, <<t, o>> \in due'
    PROVE  <<t, o>> \in due \/ org'[o] # "unborn"
<1>0. org \in [Org -> {"unborn", "live", "gone"}]
  BY DEF TypeOK, RowTypes
<1>1. ASSUME NEW c \in Caller, NEW p \in Org, CreateOrg(c, p)
      PROVE  <<t, o>> \in due \/ org'[o] # "unborn"
  BY <1>0, <1>1 DEF CreateOrg
<1>2. ASSUME NEW p \in Org, UpdateOrg(p) \/ DeleteOrg(p)
      PROVE  <<t, o>> \in due \/ org'[o] # "unborn"
  BY <1>0, <1>2 DEF UpdateOrg, DeleteOrg
<1>3. ASSUME NEW c \in Caller, Call(c) \/ Work(c) \/ Break(c)
      PROVE  due' \subseteq due
  <2>1. CASE UNCHANGED eventVars
    BY <2>1 DEF eventVars
  <2>2. CASE Return(c) \/ Fail(c) \/ Disconnect(c)
    BY <2>2 DEF Return, Fail, Disconnect, DeadLetter, eventVars
  <2> QED
    BY <1>3, <2>1, <2>2
       DEF Call, Login, Operate, Receive, Work, List, Finish, Lock, RunStep, StepSucceeds,
           StepSkipped, StepFails, Commit, DeprovisionSoft, DeprovisionHard, Break, Abort,
           Crash, Abandon, eventVars
<1> QED BY <1>1, <1>2, <1>3 DEF Next, Routes, RollOut, vars, eventVars

LEMMA EventsStep == ASSUME TypeOK, EventsKnown, [Next]_vars PROVE EventsKnown'
<1>0. Kind
  BY StepKind
<1>1. ASSUME NEW t \in Topic, NEW o \in Org, <<t, o>> \in due' PROVE org'[o] # "unborn"
  BY <1>0, <1>1, DueStep, RowStep DEF EventsKnown
<1>2. ASSUME NEW d \in Caller, pc'[d] # "idle", src'[d] \in Topic
      PROVE  org'[about'[d]] # "unborn"
  <2>1. CASE pc[d] # "idle" /\ src'[d] = src[d] /\ about'[d] = about[d]
    BY <1>0, <1>2, <2>1, RowStep DEF EventsKnown, TypeOK, CallTypes
  <2>2. CASE <<src'[d], about'[d]>> \in due
    <3>1. about'[d] \in Org
      BY <2>2 DEF TypeOK, EventTypes
    <3> QED BY <1>0, <1>2, <2>2, <3>1, RowStep DEF EventsKnown
  <2> QED BY <1>2, <2>1, <2>2, JobStep
<1> QED BY <1>1, <1>2 DEF EventsKnown

\* The flag is never switched off.
LEMMA FlagStep == ASSUME TypeOK, [Next]_vars, ~flag' PROVE ~flag
<1>1. ASSUME NEW c \in Caller, Call(c) \/ Work(c) \/ Break(c) PROVE flag' = flag
  BY <1>1 DEF Call, Login, Operate, Receive, Work, List, Finish, Lock, RunStep,
              StepSucceeds, StepSkipped, StepFails, Commit, DeprovisionSoft,
              DeprovisionHard, Return, Fail, Break, Abort, Crash, Abandon, Disconnect, rowVars
<1> QED
  BY <1>1 DEF Next, Routes, CreateOrg, UpdateOrg, DeleteOrg, RollOut, vars, rowVars

LEMMA LoopStep ==
    ASSUME TypeOK, EventsKnown, LoopReaches, [Next]_vars PROVE LoopReaches'
<1> SUFFICES ASSUME ~flag', NEW d \in Caller, NEW o \in Org \ {Personal},
                    src'[d] = "created", about'[d] = o,
                    pc'[d] \in {"pick", "step", "commit", "ok"},
                    org'[o] = "live", state'[o] = "pending"
             PROVE  Due(d, o)'
  BY DEF LoopReaches
<1>0. /\ pc \in [Caller -> Place] /\ todo \in [Caller -> SUBSET Org]
      /\ at \in [Caller -> Org] /\ org \in [Org -> {"unborn", "live", "gone"}]
      /\ state \in [Org -> {"pending", "active", "failed"}]
  BY DEF TypeOK, CallTypes, WorkTypes, RowTypes
<1>1. pc[d] # "idle" /\ src[d] = "created" /\ about[d] = o
  BY JobStep DEF Topic
<1>2. org[o] = "live" /\ state[o] = "pending"
  BY <1>0, <1>1, StepKind, RowStep DEF EventsKnown, Topic
<1>14. ~flag
  BY FlagStep
<1>3. pc[d] \in {"pick", "step", "commit", "ok"} => Due(d, o)
  BY <1>1, <1>2, <1>14 DEF LoopReaches
<1>4. CASE Same(d)
  BY <1>3, <1>4 DEF Same, Due, Busy
<1>5. CASE List(d)
  BY <1>0, <1>2, <1>5, <1>14 DEF List, Goto, Due
<1>6. CASE Finish(d)
  BY <1>3, <1>6 DEF Finish, Due, Busy
<1>7. ASSUME NEW p \in Org, Lock(d, p) PROVE Due(d, o)'
  <2>1. CASE org[p] = "live"
    <3>1. todo'[d] = todo[d] \ {p} /\ at'[d] = p /\ pc'[d] = "step" /\ o \in todo[d]
      BY <1>0, <1>3, <1>7, <2>1 DEF Lock, Goto, Due, Busy
    <3> QED BY <3>1 DEF Due, Busy
  <2>2. CASE org[p] # "live"
    BY <1>0, <1>7, <2>2 DEF Lock, Goto
  <2> QED BY <2>1, <2>2
<1>8. CASE RunStep(d)
  BY <1>0, <1>3, <1>8 DEF RunStep, StepSucceeds, StepSkipped, StepFails, Goto, Due, Busy
<1>9. CASE Commit(d)
  <2>1. at[d] # o
    BY <1>0, <1>2, <1>9 DEF Commit
  <2>2. pc'[d] = "pick" /\ todo' = todo
    BY <1>0, <1>9 DEF Commit, Goto
  <2> QED BY <1>3, <1>9, <2>1, <2>2 DEF Commit, Due
<1>10. ~DeprovisionSoft(d) /\ ~DeprovisionHard(d)
  BY <1>1 DEF DeprovisionSoft, DeprovisionHard
<1>11. ~Return(d) /\ ~Fail(d) /\ ~Abort(d) /\ ~Crash(d) /\ ~Disconnect(d)
  BY <1>0 DEF Return, Fail, Abort, Crash, Disconnect, DeadLetter, Rest, Goto, Entry
<1>12. ~Abandon(d)
  BY DEF Abandon, Begin, TypeOK, CallTypes
<1>13. ~Call(d) /\ \A p \in Org : ~CreateOrg(d, p)
  BY <1>1 DEF Call, Login, Operate, Receive, CreateOrg
<1> QED
  BY <1>4, <1>5, <1>6, <1>7, <1>8, <1>9, <1>10, <1>11, <1>12, <1>13, OwnStep
     DEF Own, Work, Break

\* Only a consumer that returns forgets an event.
LEMMA Forgotten ==
    ASSUME TypeOK, [Next]_vars, NEW e, e \in due \cup dlq, e \notin due' \cup dlq'
    PROVE  \E c \in Caller : Return(c) /\ e = <<src[c], about[c]>>
<1>1. CASE due \subseteq due' /\ dlq \subseteq dlq'
  BY <1>1
<1>2. ASSUME NEW c \in Caller, DeadLetter(c) PROVE due \cup dlq \subseteq due' \cup dlq'
  BY <1>2 DEF DeadLetter
<1>3. ASSUME NEW c \in Caller, Return(c) PROVE e = <<src[c], about[c]>>
  BY <1>3 DEF Return
<1>4. ASSUME NEW c \in Caller, Fail(c) \/ Disconnect(c) PROVE FALSE
  BY <1>2, <1>4 DEF Fail, Disconnect, eventVars
<1>5. ASSUME NEW c \in Caller,
             \/ Call(c) \/ Abort(c) \/ Crash(c) \/ Abandon(c)
             \/ Work(c) /\ ~Return(c) /\ ~Fail(c)
      PROVE  UNCHANGED eventVars
  BY <1>5 DEF Call, Login, Operate, Receive, Work, List, Finish, Lock, RunStep,
              StepSucceeds, StepSkipped, StepFails, Commit, DeprovisionSoft,
              DeprovisionHard, Abort, Crash, Abandon
<1>6. CASE Routes \/ RollOut \/ UNCHANGED vars
  BY <1>1, <1>6 DEF Routes, RollOut, UpdateOrg, DeleteOrg, CreateOrg, vars, eventVars
<1> QED BY <1>1, <1>3, <1>4, <1>5, <1>6 DEF Next, Break, eventVars

LEMMA AcknowledgedStep ==
    ASSUME TypeOK, LoopReaches, AcknowledgedIsReconciled, [Next]_vars
    PROVE  AcknowledgedIsReconciled'
<1> SUFFICES ASSUME ~flag', NEW o \in Org \ {Personal}, org'[o] = "live",
                    <<"created", o>> \notin due' \cup dlq', state'[o] = "pending"
             PROVE  FALSE
  BY DEF AcknowledgedIsReconciled
<1>0. org \in [Org -> {"unborn", "live", "gone"}]
  BY DEF TypeOK, RowTypes
<1>1. org[o] # "gone" /\ state[o] = "pending"
  BY StepKind, RowStep
<1>4. ~flag
  BY FlagStep
<1>2. CASE org[o] = "live"
  <2>1. PICK c \in Caller : Return(c) /\ <<"created", o>> = <<src[c], about[c]>>
    BY <1>1, <1>2, <1>4, Forgotten DEF AcknowledgedIsReconciled
  <2>2. Due(c, o) /\ pc[c] = "ok"
    BY <1>1, <1>2, <1>4, <2>1 DEF Return, LoopReaches
  <2> QED BY <2>2 DEF Due
<1>3. CASE org[o] = "unborn"
  <2>1. ASSUME NEW c \in Caller, NEW p \in Org, CreateOrg(c, p) PROVE FALSE
    BY <1>0, <1>3, <2>1 DEF CreateOrg
  <2>2. ASSUME NEW c \in Caller, DeprovisionHard(c) PROVE org'[o] # "live"
    BY <1>0, <1>3, <2>2 DEF DeprovisionHard
  <2>3. ASSUME NEW c \in Caller, List(c) PROVE org'[o] = org[o]
    BY <1>0, <2>3 DEF List
  <2>4. ASSUME NEW c \in Caller,
               \/ Call(c) \/ Break(c)
               \/ Work(c) /\ ~List(c) /\ ~DeprovisionHard(c)
        PROVE  org' = org
    BY <2>4 DEF Call, Login, Operate, Receive, Work, Finish, Lock, RunStep, StepSucceeds,
                StepSkipped, StepFails, Commit, DeprovisionSoft, Return, Fail, Break,
                Abort, Crash, Abandon, Disconnect, rowVars
  <2>5. ASSUME NEW p \in Org, UpdateOrg(p) \/ DeleteOrg(p) PROVE org' = org
    BY <2>5 DEF UpdateOrg, DeleteOrg
  <2> QED BY <1>3, <2>1, <2>2, <2>3, <2>4, <2>5 DEF Next, Routes, RollOut, vars, rowVars
<1> QED BY <1>0, <1>1, <1>2, <1>3

-----------------------------------------------------------------------------
LEMMA InvInit == Init => IndInv
<1> SUFFICES ASSUME Init PROVE IndInv
  OBVIOUS
<1>1. TypeOK
  BY TypeInit
<1>2. Holding /\ Known /\ HolderSees /\ EventsKnown /\ LoopReaches
  BY DEF Init, Holding, Known, HolderSees, EventsKnown, LoopReaches, Busy
<1>3. RowsTruthful /\ ActiveIsDone
  BY DEF Init, RowsTruthful, Truthful, ActiveIsDone, AllDone, NoRows, Busy
<1>4. WiredInOrder
  BY DEF Init, WiredInOrder, Happened
<1>5. MailsBounded /\ AcknowledgedIsReconciled
  BY DEF Init, MailsBounded, AcknowledgedIsReconciled
<1> QED BY <1>1, <1>2, <1>3, <1>4, <1>5 DEF IndInv

LEMMA InvStep == ASSUME IndInv, [Next]_vars PROVE IndInv'
<1>1. TypeOK' /\ Kind
  BY TypeStep, StepKind DEF IndInv
<1>2. Holding' /\ Known' /\ RowsTruthful' /\ WiredInOrder'
  BY <1>1, HoldingStep, KnownStep, TruthfulStep, OrderStep DEF IndInv
<1>3. HolderSees' /\ ActiveIsDone' /\ MailsBounded'
  BY <1>1, SeesStep, ActiveStep, MailsStep DEF IndInv
<1>4. EventsKnown' /\ LoopReaches' /\ AcknowledgedIsReconciled'
  BY EventsStep, LoopStep, AcknowledgedStep DEF IndInv
<1> QED BY <1>1, <1>2, <1>3, <1>4 DEF IndInv

\* The advisory lock, the rows and the open transactions fit together, and with them
\* what Permit and the mail topic have seen; a row that says a welcome was sent may be
\* of one that was skipped.
THEOREM IndInvariant == Spec => []IndInv
BY InvInit, InvStep, PTL DEF Spec

\* Nothing is recorded that Permit and Kafka have not seen, save a welcome that was
\* skipped because no broker was there, for any number of callers, crashes and failed
\* calls.
THEOREM Recorded == Spec => []RecordedHappened
<1>1. IndInv => RecordedHappened
  BY DEF IndInv, RecordedHappened, RowsTruthful, Truthful, ActiveIsDone
<1> QED BY <1>1, IndInvariant, PTL

\* Permit is wired in dependency order.
THEOREM Ordered == Spec => []WiredInOrder
<1>1. IndInv => WiredInOrder
  BY DEF IndInv
<1> QED BY <1>1, IndInvariant, PTL

\* One welcome, and one more for each fault.
THEOREM Welcomes == Spec => []WelcomesAreAccounted
<1>1. ASSUME IndInv PROVE WelcomesAreAccounted
  <2>1. \A o \in Org : mails[o] \in Nat /\ faults \in Nat
    BY <1>1 DEF IndInv, TypeOK, PermitTypes
  <2> QED BY <1>1, <2>1 DEF IndInv, MailsBounded, WelcomesAreAccounted
<1> QED BY <1>1, IndInvariant, PTL

\* No created event is acknowledged before a reconcile of its organization has ended.
THEOREM Acknowledged == Spec => []AcknowledgedIsReconciled
<1>1. IndInv => AcknowledgedIsReconciled
  BY DEF IndInv
<1> QED BY <1>1, IndInvariant, PTL
=============================================================================
