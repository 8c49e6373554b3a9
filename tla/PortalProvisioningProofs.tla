---------------------- MODULE PortalProvisioningProofs ----------------------
(***************************************************************************)
(* Proofs about PortalProvisioning, for every set of slugs and callers and *)
(* every number of failures and faults.  The inductive invariant says what *)
(* the advisory lock buys: a transaction that is under way is the only one *)
(* of its slug, so what it has read of the slug's rows stays true, but for *)
(* the status, which an administrator may change.                          *)
(***************************************************************************)
EXTENDS PortalProvisioning, FiniteSetTheorems, TLAPS

Ready == {"pending_invite", "active", "suspended"}

\* A request is idle or holds the lock of its slug.
Locking(c) ==
    /\ pc[c] = "idle" <=> at[c] = None
    /\ pc[c] = "idle" => wrote[c] = "nothing"
    /\ at[c] # None => lock[at[c]] = c

\* Step rows v name the organization o; m were minted and Permit has p.
Sound(v, o, m, p) ==
    /\ v[OrgCreate] = "done" <=> o # 0
    /\ o <= m
    /\ \A k \in PermitSteps : v[k] = "done" => o \in p[k]
    /\ \A j, k \in Infra : j < k /\ v[k] = "done" => v[j] = "done"

\* The committed rows of a slug.
Rows(s) ==
    /\ Sound(step[s], org[s], minted[s], permit[s])
    /\ step[s][PortalRow] = "done" <=> status[s] # "none"
    /\ status[s] = "pending_invite" => \A k \in Infra : step[s][k] = "done"
    /\ step[s][BrandRegister] # "pending" => status[s] \in Ready

\* A transaction sees its own writes on top of the committed rows.
Seen(c) ==
    /\ Sound(view[c], mine[c], minted[at[c]], permit[at[c]])
    /\ \A k \in Infra : step[at[c]][k] = "done" => view[c][k] = "done"
    /\ org[at[c]] # 0 => mine[c] = org[at[c]]
    /\ step[at[c]][BrandRegister] = "pending"

Written(c) ==
    /\ wrote[c] = "nothing" => (view[c][PortalRow] = "done" <=> status[at[c]] # "none")
    /\ wrote[c] = "row" => view[c][PortalRow] = "done" /\ status[at[c]] = "none"
    /\ wrote[c] = "flip" => \A k \in Infra : view[c][k] = "done"
    /\ view[c][BrandRegister] # "pending" => wrote[c] = "flip" \/ status[at[c]] \in Ready

\* What is known at the places of provisionPortal.
Placed(c) ==
    /\ pc[c] \in {"step", "register", "flip"} => wrote[c] # "flip"
    /\ pc[c] \in {"flip", "brand", "invite", "announce"} =>
           \A k \in Infra : view[c][k] = "done"
    /\ pc[c] = "register" =>
           /\ view[c][RedirectRegister] # "done"
           /\ \A k \in Infra : k < RedirectRegister => view[c][k] = "done"
    /\ pc[c] \in {"brand", "invite", "announce"} =>
           wrote[c] = "flip" \/ status[at[c]] \in Ready
    /\ pc[c] \in {"invite", "announce"} => view[c][BrandRegister] # "pending"
    /\ pc[c] = "commit" /\ wrote[c] = "flip" => view[c][BrandRegister] # "pending"

\* An organization that no committed or open transaction names cost a fault.
Minted(s) ==
    /\ minted[s] <= 1 + faults
    /\ minted[s] > faults => org[s] # 0 \/ \E c \in Caller : at[c] = s /\ mine[c] # 0
    /\ \A k \in PermitSteps : permit[s][k] \subseteq 1..minted[s]

\* So did an event of a transaction that was not committed.
Announced(s) ==
    /\ created[s] <= 1 + faults
    /\ created[s] > faults =>
          \/ step[s][BrandRegister] # "pending"
          \/ \E c \in Caller : at[c] = s /\ wrote[c] = "flip" /\ pc[c] = "commit"

LockInv   == \A c \in Caller : Locking(c)
RowsInv   == \A s \in Slug : Rows(s)
SeenInv   == \A c \in Caller : at[c] # None => Seen(c)
WriteInv  == \A c \in Caller : at[c] # None => Written(c)
PlaceInv  == \A c \in Caller : at[c] # None => Placed(c)
MintInv   == \A s \in Slug : Minted(s)
AnnInv    == \A s \in Slug : Announced(s)

PortalInv ==
    /\ TypeOK /\ LockInv /\ RowsInv /\ SeenInv /\ WriteInv /\ PlaceInv
    /\ MintInv /\ AnnInv

-----------------------------------------------------------------------------
(* The steps of Next, by name.                                             *)

Brand(c)  == Optional(c, BrandRegister, "brand", "invite")
InviteStep(c) == Optional(c, OwnerInvite, "invite", "announce")
Admin(s)  == SetStatus(s, "suspended") \/ SetStatus(s, "active")

\* The steps a transaction takes between its begin and its end.
Middle(c) ==
    \/ \E k \in Infra : StepDone(c, k) \/ StepFails(c, k)
    \/ ReadUris(c) \/ PatchUris(c) \/ PatchFails(c)
    \/ Checkpoint(c) \/ Flip(c) \/ Brand(c) \/ InviteStep(c) \/ Announce(c)

\* What Next is made of.
LEMMA NextSteps ==
    ASSUME Next
    PROVE  \/ \E c \in Caller, s \in Slug : Request(c, s)
           \/ \E c \in Caller : Middle(c) \/ Commit(c) \/ Abort(c)
           \/ \E s \in Slug : Admin(s)
BY DEF Next, Work, RunStep, Register, Middle, Brand, InviteStep, Admin, Suspend, Resume

-----------------------------------------------------------------------------
(* Types.                                                                  *)

\* A request that is not idle is about a slug.
LEMMA UnderWay ==
    ASSUME TypeOK, LockInv, NEW c \in Caller, pc[c] # "idle"
    PROVE  at[c] \in Slug
BY DEF TypeOK, CallTypes, LockInv, Locking

LEMMA ClearTypes ==
    ASSUME TypeOK, NEW c \in Caller, Leave(c)
    PROVE  CallTypes'
<1>1. view' \in [Caller -> [Step -> Mark]]
  BY DEF TypeOK, CallTypes, Leave, NoSteps, Step, Mark
<1> QED
  BY <1>1 DEF TypeOK, CallTypes, Leave, Goto, Place

LEMMA RecordTypes ==
    ASSUME TypeOK, NEW c \in Caller, NEW k \in Step, NEW m \in Mark, Record(c, k, m)
    PROVE  view' \in [Caller -> [Step -> Mark]]
BY DEF TypeOK, CallTypes, Record

LEMMA PermitTypes ==
    ASSUME TypeOK, NEW c \in Caller, NEW k \in Infra, at[c] \in Slug,
           InPermit(c, k) \/ UNCHANGED permit
    PROVE  permit' \in [Slug -> [PermitSteps -> SUBSET Nat]]
<1> DEFINE more == [permit[at[c]] EXCEPT ![k] = permit[at[c]][k] \cup {mine[c]}]
<1>1. CASE permit' = permit BY <1>1 DEF TypeOK, OutsideTypes
<1>2. CASE k \in PermitSteps /\ InPermit(c, k)
  <2>1. more \in [PermitSteps -> SUBSET Nat]
    BY <1>2 DEF TypeOK, OutsideTypes, CallTypes
  <2>2. permit' = [permit EXCEPT ![at[c]] = more]
    BY <1>2 DEF InPermit
  <2> HIDE DEF more
  <2> QED BY <2>1, <2>2 DEF TypeOK, OutsideTypes
<1> QED BY <1>1, <1>2 DEF InPermit

LEMMA GotoTypes ==
    ASSUME TypeOK, NEW c \in Caller, NEW l \in Place, Goto(c, l)
    PROVE  pc' \in [Caller -> Place]
BY DEF TypeOK, CallTypes, Goto

LEMMA PatchedTypes ==
    ASSUME TypeOK, LockInv, NEW c \in Caller, pc[c] = "register"
    PROVE  Patched(c) \subseteq Slug
BY UnderWay DEF TypeOK, OutsideTypes, CallTypes, Patched

\* The steps of a transaction between its begin and its end keep the types.
LEMMA MiddleTypes ==
    ASSUME TypeOK, LockInv, NEW c \in Caller, Middle(c)
    PROVE  TypeOK'
<1> USE DEF TypeOK
<1>a. Infra \subseteq Step /\ {"pending", "done", "failed"} = Mark
  BY DEF Infra, Step, Mark
<1>b. at[c] \in Slug
  BY UnderWay
  DEF Middle, StepDone, StepFails, ReadUris, PatchUris, PatchFails, Checkpoint, Flip,
      Brand, InviteStep, Optional, Announce, Current
<1>1. ASSUME NEW k \in Infra, StepDone(c, k) PROVE TypeOK'
  <2>1. view' \in [Caller -> [Step -> Mark]]
    BY <1>1, <1>a, RecordTypes DEF StepDone
  <2>2. minted' \in [Slug -> Nat] /\ mine' \in [Caller -> Nat]
    <3>1. minted[at[c]] + 1 \in Nat BY <1>b DEF OutsideTypes
    <3>2. CASE k = OrgCreate
      BY <1>1, <3>1, <3>2 DEF StepDone, Mint, OutsideTypes, CallTypes
    <3>3. CASE k # OrgCreate
      BY <1>1, <3>3 DEF StepDone, Mint, OutsideTypes, CallTypes
    <3> QED BY <3>2, <3>3
  <2>3. permit' \in [Slug -> [PermitSteps -> SUBSET Nat]]
    BY <1>1, <1>b, PermitTypes DEF StepDone
  <2>4. wrote' \in [Caller -> {"nothing", "row", "flip"}]
    BY <1>1 DEF StepDone, CallTypes
  <2> QED
    BY <1>1, <2>1, <2>2, <2>3, <2>4
    DEF StepDone, dbVars, bounds, DbTypes, OutsideTypes, CallTypes
<1>2. ASSUME NEW k \in Infra, StepFails(c, k) PROVE TypeOK'
  <2>1. view' \in [Caller -> [Step -> Mark]]
    BY <1>2, <1>a, RecordTypes DEF StepFails
  <2>2. permit' \in [Slug -> [PermitSteps -> SUBSET Nat]]
    BY <1>2, <1>b, PermitTypes DEF StepFails
  <2>3. pc' \in [Caller -> Place]
    BY <1>2, GotoTypes DEF StepFails, Place
  <2>4. failures' \in Nat
    BY <1>2 DEF StepFails, Failure
  <2> QED
    BY <1>2, <2>1, <2>2, <2>3, <2>4
    DEF StepFails, dbVars, DbTypes, OutsideTypes, CallTypes
<1>3. CASE ReadUris(c)
  <2>1. pc' \in [Caller -> Place] BY <1>3, GotoTypes DEF ReadUris, Place
  <2>2. list' \in [Caller -> SUBSET Slug]
    BY <1>3 DEF ReadUris, OutsideTypes, CallTypes
  <2> QED
    BY <1>3, <2>1, <2>2
    DEF ReadUris, dbVars, outside, bounds, DbTypes, OutsideTypes, CallTypes
<1>4. CASE PatchUris(c)
  <2>1. pc' \in [Caller -> Place] BY <1>4, GotoTypes DEF PatchUris, Place
  <2>2. view' \in [Caller -> [Step -> Mark]]
    BY <1>4, <1>a, RecordTypes DEF PatchUris, RedirectRegister, Step
  <2>3. uris' \subseteq Slug BY <1>4, PatchedTypes DEF PatchUris
  <2>4. list' \in [Caller -> SUBSET Slug] BY <1>4 DEF PatchUris, CallTypes
  <2> QED
    BY <1>4, <2>1, <2>2, <2>3, <2>4
    DEF PatchUris, dbVars, bounds, DbTypes, OutsideTypes, CallTypes
<1>5. CASE PatchFails(c)
  <2>1. pc' \in [Caller -> Place] BY <1>5, GotoTypes DEF PatchFails, Place
  <2>2. view' \in [Caller -> [Step -> Mark]]
    BY <1>5, <1>a, RecordTypes DEF PatchFails, RedirectRegister, Step
  <2>3. uris' \subseteq Slug
    BY <1>5, PatchedTypes DEF PatchFails, OutsideTypes
  <2>4. list' \in [Caller -> SUBSET Slug] BY <1>5 DEF PatchFails, CallTypes
  <2>5. failures' \in Nat BY <1>5 DEF PatchFails, Failure
  <2> QED
    BY <1>5, <2>1, <2>2, <2>3, <2>4, <2>5
    DEF PatchFails, dbVars, DbTypes, OutsideTypes, CallTypes
<1>6. CASE Checkpoint(c)
  <2>1. pc' \in [Caller -> Place] BY <1>6, GotoTypes DEF Checkpoint, Place
  <2> QED
    BY <1>6, <2>1
    DEF Checkpoint, dbVars, outside, bounds, DbTypes, OutsideTypes, CallTypes
<1>7. CASE Flip(c)
  <2>1. pc' \in [Caller -> Place] BY <1>7, GotoTypes DEF Flip, Place
  <2>2. wrote' \in [Caller -> {"nothing", "row", "flip"}]
    BY <1>7 DEF Flip, CallTypes
  <2> QED
    BY <1>7, <2>1, <2>2
    DEF Flip, dbVars, outside, bounds, DbTypes, OutsideTypes, CallTypes
<1>8. CASE Brand(c) \/ InviteStep(c)
  <2>1. pc' \in [Caller -> Place]
    BY <1>8, GotoTypes DEF Brand, InviteStep, Optional, Place
  <2>2. view' \in [Caller -> [Step -> Mark]]
    BY <1>8, <1>a, RecordTypes
    DEF Brand, InviteStep, Optional, Outcome, BrandRegister, OwnerInvite, Step
  <2> QED
    BY <1>8, <2>1, <2>2
    DEF Brand, InviteStep, Optional, dbVars, outside, bounds, DbTypes, OutsideTypes, CallTypes
<1>9. CASE Announce(c)
  <2>1. pc' \in [Caller -> Place] BY <1>9, GotoTypes DEF Announce, Place
  <2>2. created' \in [Slug -> Nat] BY <1>9 DEF Announce, OutsideTypes
  <2> QED
    BY <1>9, <2>1, <2>2
    DEF Announce, dbVars, bounds, DbTypes, OutsideTypes, CallTypes
<1> QED BY <1>1, <1>2, <1>3, <1>4, <1>5, <1>6, <1>7, <1>8, <1>9 DEF Middle

LEMMA PortalTypeStep ==
    ASSUME TypeOK, LockInv, Next
    PROVE  TypeOK'
<1>1. ASSUME NEW c \in Caller, NEW s \in Slug, Request(c, s) PROVE TypeOK'
  <2>1. view' \in [Caller -> [Step -> Mark]] /\ mine' \in [Caller -> Nat]
    BY <1>1 DEF Request, TypeOK, DbTypes, CallTypes
  <2>2. pc' \in [Caller -> Place] BY <1>1, GotoTypes DEF Request, Place
  <2>3. lock' \in [Slug -> Caller \cup {None}] /\ at' \in [Caller -> Slug \cup {None}]
    BY <1>1 DEF Request, TypeOK, CallTypes
  <2> QED
    BY <1>1, <2>1, <2>2, <2>3
    DEF Request, dbVars, outside, bounds, TypeOK, DbTypes, OutsideTypes, CallTypes
<1>2. ASSUME NEW c \in Caller, Commit(c) PROVE TypeOK'
  <2>1. CallTypes' BY <1>2, ClearTypes DEF Commit
  <2>2. step' \in [Slug -> [Step -> Mark]] /\ org' \in [Slug -> Nat]
    BY <1>2 DEF Commit, TypeOK, DbTypes, CallTypes
  <2>3. status' \in [Slug -> Status]
    BY <1>2 DEF Commit, TypeOK, DbTypes, CallTypes, Status
  <2> QED
    BY <1>2, <2>1, <2>2, <2>3 DEF Commit, outside, bounds, TypeOK, DbTypes, OutsideTypes
<1>3. ASSUME NEW c \in Caller, Abort(c) PROVE TypeOK'
  <2>1. CallTypes' BY <1>3, ClearTypes DEF Abort
  <2>2. faults' \in Nat BY <1>3 DEF Abort, TypeOK
  <2> QED
    BY <1>3, <2>1, <2>2 DEF Abort, dbVars, outside, TypeOK, DbTypes, OutsideTypes
<1>4. ASSUME NEW s \in Slug, Admin(s) PROVE TypeOK'
  <2>1. status' \in [Slug -> Status]
    BY <1>4 DEF Admin, SetStatus, TypeOK, DbTypes, Status
  <2> QED
    BY <1>4, <2>1
    DEF Admin, SetStatus, outside, callVars, bounds, TypeOK, DbTypes, OutsideTypes, CallTypes
<1> QED BY <1>1, <1>2, <1>3, <1>4, NextSteps, MiddleTypes

-----------------------------------------------------------------------------
(* The lock.                                                               *)

\* A transaction that goes on stays the holder of its lock.
LEMMA MiddleLocks ==
    ASSUME TypeOK, LockInv, NEW c \in Caller, Middle(c)
    PROVE  LockInv' /\ at' = at /\ pc[c] # "idle" /\ at[c] \in Slug
<1> USE DEF TypeOK, CallTypes, LockInv, Locking, Goto, Current
<1>0. pc[c] # "idle"
  BY DEF Middle, StepDone, StepFails, ReadUris, PatchUris, PatchFails, Checkpoint, Flip,
     Brand, InviteStep, Optional, Announce
<1>1. UNCHANGED <<at, lock>>
  BY DEF Middle, StepDone, StepFails, ReadUris, PatchUris, PatchFails, Checkpoint, Flip,
     Brand, InviteStep, Optional, Announce
<1>2. \E l \in Place : l # "idle" /\ pc' = [pc EXCEPT ![c] = l]
  <2>1. ASSUME NEW k \in Infra, StepDone(c, k) PROVE pc' = [pc EXCEPT ![c] = pc[c]]
    BY <2>1 DEF StepDone
  <2>2. ASSUME NEW k \in Infra, StepFails(c, k) PROVE pc' = [pc EXCEPT ![c] = "commit"]
    BY <2>2 DEF StepFails
  <2> QED
    BY <1>0, <2>1, <2>2
    DEF Middle, ReadUris, PatchUris, PatchFails, Checkpoint, Flip, Brand, InviteStep, Optional,
        Announce, Place
<1>3. \A d \in Caller \ {c} : wrote'[d] = wrote[d]
  BY DEF Middle, StepDone, StepFails, ReadUris, PatchUris, PatchFails, Checkpoint, Flip,
     Brand, InviteStep, Optional, Announce
<1> QED BY <1>0, <1>1, <1>2, <1>3

LEMMA LockStep ==
    ASSUME TypeOK, LockInv, Next
    PROVE  LockInv'
<1> USE DEF TypeOK, CallTypes, LockInv, Locking
<1>1. ASSUME NEW c \in Caller, NEW s \in Slug, Request(c, s) PROVE LockInv'
  BY <1>1, PortalProvisioningAssumption DEF Request, Goto
<1>2. ASSUME NEW c \in Caller, Leave(c), pc[c] # "idle" PROVE LockInv'
  BY <1>2, UnderWay, PortalProvisioningAssumption DEF Leave, Goto
<1>3. ASSUME NEW s \in Slug, Admin(s) PROVE LockInv'
  BY <1>3 DEF Admin, SetStatus, callVars
<1> QED BY <1>1, <1>2, <1>3, NextSteps, MiddleLocks DEF Commit, Abort

\* The lock is what makes a transaction the only one of its slug.
LEMMA Alone ==
    ASSUME TypeOK, LockInv, NEW c \in Caller, NEW d \in Caller,
           at[c] # None, at[d] = at[c]
    PROVE  c = d
BY DEF LockInv, Locking

-----------------------------------------------------------------------------
(* Sound rows stay sound.                                                  *)

\* More organizations and more in Permit do no harm.
LEMMA SoundGrows ==
    ASSUME NEW v, NEW o \in Nat, NEW m \in Nat, NEW n \in Nat, NEW p, NEW q,
           Sound(v, o, m, p), m <= n, \A k \in PermitSteps : p[k] \subseteq q[k]
    PROVE  Sound(v, o, n, q)
BY DEF Sound

\* A step whose predecessors are done may be marked as done.
LEMMA SoundDone ==
    ASSUME NEW v \in [Step -> Mark], NEW o \in Nat, NEW m \in Nat, NEW p,
           NEW k \in Infra \ {OrgCreate}, Sound(v, o, m, p),
           \A j \in Infra : j < k => v[j] = "done",
           k \in PermitSteps => o \in p[k]
    PROVE  Sound([v EXCEPT ![k] = "done"], o, m, p)
BY DEF Sound, Infra, Step, PermitSteps, OrgCreate

\* The first step may be marked with a new organization.
LEMMA SoundCreated ==
    ASSUME NEW v \in [Step -> Mark], NEW o \in Nat, NEW m \in Nat, NEW p,
           Sound(v, o, m, p), v[OrgCreate] # "done"
    PROVE  Sound([v EXCEPT ![OrgCreate] = "done"], m + 1, m + 1, p)
BY DEF Sound, Infra, Step, PermitSteps, OrgCreate

\* A step that is not done may be marked as failed, and an optional one as
\* anything.
LEMMA SoundMarked ==
    ASSUME NEW v \in [Step -> Mark], NEW o \in Nat, NEW m \in Nat, NEW p,
           NEW k \in Step, NEW r \in Mark, Sound(v, o, m, p),
           k \in Infra => v[k] # "done" /\ r # "done"
    PROVE  Sound([v EXCEPT ![k] = r], o, m, p)
BY DEF Sound, Infra, Step, PermitSteps, OrgCreate

-----------------------------------------------------------------------------
(* What a step leaves alone.                                               *)

\* What was minted and what Permit has only grows.
Grown(s) ==
    /\ minted[s] <= minted'[s]
    /\ \A k \in PermitSteps : permit[s][k] \subseteq permit'[s][k]

LEMMA PermitGrows ==
    ASSUME TypeOK, NEW c \in Caller, NEW k \in Infra, at[c] \in Slug,
           InPermit(c, k) \/ UNCHANGED permit
    PROVE  /\ \A s \in Slug : \A j \in PermitSteps : permit[s][j] \subseteq permit'[s][j]
           /\ \A s \in Slug : \A j \in PermitSteps :
                  permit'[s][j] \subseteq permit[s][j] \cup IF s = at[c] THEN {mine[c]} ELSE {}
           /\ k \in PermitSteps /\ InPermit(c, k) => mine[c] \in permit'[at[c]][k]
<1> DEFINE more == [permit[at[c]] EXCEPT ![k] = permit[at[c]][k] \cup {mine[c]}]
<1>1. CASE permit' = permit /\ ~(k \in PermitSteps /\ InPermit(c, k)) BY <1>1
<1>2. CASE k \in PermitSteps /\ InPermit(c, k)
  <2>1. permit' = [permit EXCEPT ![at[c]] = more]
    BY <1>2 DEF InPermit
  <2>2. permit'[at[c]] = more
    BY <2>1 DEF TypeOK, OutsideTypes
  <2>3. \A s \in Slug : s # at[c] => permit'[s] = permit[s]
    BY <2>1 DEF TypeOK, OutsideTypes
  <2>4. permit[at[c]] \in [PermitSteps -> SUBSET Nat]
    BY DEF TypeOK, OutsideTypes
  <2>5. \A j \in PermitSteps :
            more[j] = IF j = k THEN permit[at[c]][j] \cup {mine[c]} ELSE permit[at[c]][j]
    BY <2>4
  <2> HIDE DEF more
  <2> QED BY <1>2, <2>2, <2>3, <2>5
<1> QED BY <1>1, <1>2 DEF InPermit

\* A step in the middle of a transaction touches neither the committed rows nor
\* another transaction.
LEMMA MiddleFrame ==
    ASSUME TypeOK, LockInv, NEW c \in Caller, Middle(c)
    PROVE  /\ UNCHANGED <<step, org, status, faults>>
           /\ \A d \in Caller \ {c} : /\ view'[d] = view[d] /\ mine'[d] = mine[d]
                                      /\ wrote'[d] = wrote[d] /\ pc'[d] = pc[d]
           /\ \A s \in Slug : Grown(s)
           /\ \A s \in Slug \ {at[c]} : created'[s] = created[s] /\ minted'[s] = minted[s]
<1>1. at[c] \in Slug BY MiddleLocks
<1> USE DEF TypeOK, OutsideTypes, CallTypes, Grown
<1>2. ASSUME NEW k \in Infra, StepDone(c, k) \/ StepFails(c, k)
      PROVE  \A s \in Slug : Grown(s)
  <2>1. InPermit(c, k) \/ UNCHANGED permit BY <1>2 DEF StepDone, StepFails
  <2>2. minted' = minted \/ minted' = [minted EXCEPT ![at[c]] = minted[at[c]] + 1]
    BY <1>2 DEF StepDone, StepFails, Mint
  <2>3. \A s \in Slug : minted[s] <= minted'[s]
    <3>1. minted \in [Slug -> Nat] OBVIOUS
    <3>2. CASE minted' = minted BY <3>1, <3>2
    <3>3. CASE minted' = [minted EXCEPT ![at[c]] = minted[at[c]] + 1]
      BY <1>1, <3>1, <3>3
    <3> QED BY <2>2, <3>2, <3>3
  <2> QED BY <1>1, <2>1, <2>3, PermitGrows
<1>3. \A s \in Slug : Grown(s)
  BY <1>2
  DEF Middle, ReadUris, PatchUris, PatchFails, Checkpoint, Flip, Brand, InviteStep, Optional,
      Announce, outside
<1>4. UNCHANGED <<step, org, status, faults>>
  BY DEF Middle, StepDone, StepFails, ReadUris, PatchUris, PatchFails, Checkpoint, Flip,
     Brand, InviteStep, Optional, Announce, dbVars, bounds
<1>5. \A d \in Caller \ {c} : view'[d] = view[d] /\ pc'[d] = pc[d]
  BY DEF Middle, StepDone, StepFails, ReadUris, PatchUris, PatchFails, Checkpoint, Flip,
     Brand, InviteStep, Optional, Announce, Record, Goto
<1>6. \A d \in Caller \ {c} : mine'[d] = mine[d] /\ wrote'[d] = wrote[d]
  BY DEF Middle, StepDone, StepFails, ReadUris, PatchUris, PatchFails, Checkpoint, Flip,
     Brand, InviteStep, Optional, Announce, Mint
<1>7. \A s \in Slug \ {at[c]} : created'[s] = created[s] /\ minted'[s] = minted[s]
  BY DEF Middle, StepDone, StepFails, ReadUris, PatchUris, PatchFails, Checkpoint, Flip,
     Brand, InviteStep, Optional, Announce, Mint, outside
<1> QED BY <1>3, <1>4, <1>5, <1>6, <1>7

\* The end of a transaction touches no other one.
LEMMA LeaveFrame ==
    ASSUME TypeOK, NEW c \in Caller, Leave(c)
    PROVE  /\ at'[c] = None
           /\ \A d \in Caller \ {c} : /\ view'[d] = view[d] /\ mine'[d] = mine[d]
                                      /\ wrote'[d] = wrote[d] /\ pc'[d] = pc[d]
                                      /\ at'[d] = at[d]
BY DEF TypeOK, CallTypes, Leave, Goto

-----------------------------------------------------------------------------
(* What a transaction sees.                                                *)

\* The rows of the transaction that takes the step.
LEMMA MiddleSeen ==
    ASSUME TypeOK, LockInv, NEW c \in Caller, Seen(c), Placed(c), Middle(c)
    PROVE  Seen(c)'
<1>1. at[c] \in Slug /\ at'[c] = at[c] BY MiddleLocks
<1>2. UNCHANGED <<step, org>> /\ Grown(at[c]) BY <1>1, MiddleFrame
<1>3. /\ view[c] \in [Step -> Mark] /\ mine[c] \in Nat
      /\ minted[at[c]] \in Nat /\ minted'[at[c]] \in Nat
  BY <1>1, MiddleTypes DEF TypeOK, OutsideTypes, CallTypes
<1> DEFINE S == at[c]
<1>4. Sound(view[c], mine[c], minted'[S], permit'[S])
  BY <1>2, <1>3, SoundGrows DEF Seen, Grown
<1>5. ASSUME NEW k \in Step, NEW r \in Mark, Record(c, k, r), mine'[c] = mine[c],
             k \in Infra => view[c][k] # "done" /\ r # "done"
      PROVE  Seen(c)'
  <2>1. view'[c] = [view[c] EXCEPT ![k] = r]
    BY <1>5 DEF Record, TypeOK, CallTypes
  <2>2. Sound(view'[c], mine'[c], minted'[S], permit'[S])
    BY <1>3, <1>4, <1>5, <2>1, SoundMarked
  <2> QED BY <1>1, <1>2, <1>3, <1>5, <2>1, <2>2 DEF Seen, Infra, Step
<1>6. ASSUME NEW k \in Infra, Record(c, k, "done"), mine'[c] = mine[c], k # OrgCreate,
             \A j \in Infra : j < k => view[c][j] = "done",
             k \in PermitSteps => mine[c] \in permit'[S][k]
      PROVE  Seen(c)'
  <2>1. view'[c] = [view[c] EXCEPT ![k] = "done"]
    BY <1>6 DEF Record, TypeOK, CallTypes
  <2>2. Sound(view'[c], mine'[c], minted'[S], permit'[S])
    <3>1. k \in Infra \ {OrgCreate} BY <1>6
    <3>2. Sound([view[c] EXCEPT ![k] = "done"], mine[c], minted'[S], permit'[S])
      BY <1>3, <1>4, <1>6, <3>1, SoundDone
    <3> QED BY <1>6, <2>1, <3>2
  <2> QED BY <1>1, <1>2, <1>3, <1>6, <2>1, <2>2 DEF Seen, Infra, Step
<1>7. CASE UNCHANGED <<view, mine>>
  BY <1>1, <1>2, <1>4, <1>7 DEF Seen
<1>8. ASSUME NEW k \in Infra, StepDone(c, k) PROVE Seen(c)'
  <2>1. CASE k # OrgCreate
    <3>1. k \in PermitSteps => mine[c] \in permit'[S][k]
      BY <1>1, <1>8, PermitGrows DEF StepDone
    <3> QED BY <1>6, <1>8, <2>1, <3>1 DEF StepDone, Current, Mint
  <2>2. CASE k = OrgCreate
    <3>1. view'[c] = [view[c] EXCEPT ![OrgCreate] = "done"]
      BY <1>8, <2>2 DEF StepDone, Record, TypeOK, CallTypes
    <3>2. mine'[c] = minted[S] + 1 /\ minted'[S] = minted[S] + 1 /\ permit' = permit
      BY <1>1, <1>8, <2>2
      DEF StepDone, Mint, InPermit, OrgCreate, PermitSteps, TypeOK, OutsideTypes, CallTypes
    <3>3. view[c][OrgCreate] # "done" BY <1>8, <2>2 DEF StepDone, Current
    <3>4. Sound(view'[c], mine'[c], minted'[S], permit'[S])
      BY <1>3, <3>1, <3>2, <3>3, SoundCreated DEF Seen
    <3>5. org[S] = 0
      BY <1>1, <1>3, <3>3 DEF Seen, Sound, TypeOK, DbTypes
    <3> QED BY <1>1, <1>2, <1>3, <3>1, <3>4, <3>5 DEF Seen, Infra, Step, OrgCreate,
            BrandRegister
  <2> QED BY <2>1, <2>2
<1>9. ASSUME NEW k \in Infra, StepFails(c, k) PROVE Seen(c)'
  BY <1>5, <1>9 DEF StepFails, Current, Infra, Step, Mark
<1>10. CASE PatchUris(c)
  BY <1>6, <1>10 DEF PatchUris, Placed, RedirectRegister, OrgCreate, Infra, PermitSteps
<1>11. CASE PatchFails(c)
  BY <1>5, <1>11 DEF PatchFails, Placed, RedirectRegister, Infra, Step, Mark
<1>12. CASE Brand(c) \/ InviteStep(c)
  BY <1>5, <1>12
  DEF Brand, InviteStep, Optional, Outcome, BrandRegister, OwnerInvite, Infra, Step, Mark
<1> QED
  BY <1>7, <1>8, <1>9, <1>10, <1>11, <1>12
  DEF Middle, ReadUris, Checkpoint, Flip, Announce

\* A transaction that has not set the portal's status finds it unset.
LEMMA MiddleWritten ==
    ASSUME TypeOK, LockInv, NEW c \in Caller, Rows(at[c]), Seen(c), Written(c), Placed(c),
           Middle(c)
    PROVE  Written(c)'
<1>1. /\ at[c] \in Slug /\ at'[c] = at[c]
      /\ status'[at[c]] = status[at[c]]
  BY MiddleLocks, MiddleFrame
<1>2. view[c] \in [Step -> Mark] /\ wrote[c] \in {"nothing", "row", "flip"}
  BY DEF TypeOK, CallTypes
<1>3. CASE UNCHANGED <<view, wrote>> BY <1>1, <1>3 DEF Written
<1>4. ASSUME NEW k \in Step \ {PortalRow}, NEW r \in Mark, Record(c, k, r),
             k \in Infra => view[c][k] # "done",
             k = BrandRegister => wrote[c] = "flip" \/ status[at[c]] \in Ready,
             wrote' = wrote
      PROVE  Written(c)'
  <2>1. view'[c] = [view[c] EXCEPT ![k] = r]
    BY <1>4 DEF Record, TypeOK, CallTypes
  <2>2. /\ view'[c][PortalRow] = view[c][PortalRow]
        /\ k # BrandRegister => view'[c][BrandRegister] = view[c][BrandRegister]
        /\ wrote[c] = "flip" => \A j \in Infra : view'[c][j] = "done"
    BY <1>2, <1>4, <2>1 DEF Written, Infra, Step, PortalRow, BrandRegister
  <2> QED BY <1>1, <1>4, <2>2 DEF Written
<1>5. ASSUME NEW k \in Infra, StepDone(c, k) PROVE Written(c)'
  <2>1. CASE k # PortalRow
    BY <1>4, <1>5, <2>1 DEF StepDone, Current, Infra, Step, Mark, BrandRegister
  <2>2. CASE k = PortalRow
    <3>1. view'[c] = [view[c] EXCEPT ![PortalRow] = "done"]
      BY <1>5, <2>2 DEF StepDone, Record, TypeOK, CallTypes
    <3>2. view[c][PortalRow] # "done" /\ pc[c] = "step"
      BY <1>5, <2>2 DEF StepDone, Current
    <3>3. status[at[c]] = "none" BY <1>2, <3>2 DEF Written, Placed
    <3>4. wrote'[c] = "row"
      BY <1>5, <2>2 DEF StepDone, TypeOK, CallTypes
    <3>5. view[c][BrandRegister] = "pending"
      BY <1>2, <3>2, <3>3 DEF Written, Placed, Ready
    <3> QED
      BY <1>1, <1>2, <3>1, <3>3, <3>4, <3>5
      DEF Written, PortalRow, BrandRegister, Step
  <2> QED BY <2>1, <2>2
<1>6. ASSUME NEW k \in Infra, StepFails(c, k) PROVE Written(c)'
  <2>1. CASE k # PortalRow
    BY <1>4, <1>6, <2>1 DEF StepFails, Current, Infra, Step, Mark, BrandRegister
  <2>2. CASE k = PortalRow
    BY <1>6, <2>2
    DEF StepFails, Conflicts, PortalRow, OrgInstance, PermitSteps, RedirectRegister
  <2> QED BY <2>1, <2>2
<1>7. CASE PatchUris(c) \/ PatchFails(c)
  BY <1>4, <1>7
  DEF PatchUris, PatchFails, Placed, RedirectRegister, PortalRow, BrandRegister, Step, Mark
<1>8. CASE Flip(c)
  <2>1. wrote'[c] = "flip" /\ view' = view
    BY <1>8 DEF Flip, TypeOK, CallTypes
  <2> QED BY <1>1, <1>8, <2>1 DEF Flip, Written, Placed
<1>9. CASE Brand(c)
  BY <1>4, <1>9
  DEF Brand, Optional, Outcome, Placed, BrandRegister, PortalRow, Infra, Step, Mark
<1>10. CASE InviteStep(c)
  BY <1>4, <1>10
  DEF InviteStep, Optional, Outcome, BrandRegister, OwnerInvite, PortalRow, Infra, Step, Mark
<1> QED
  BY <1>3, <1>5, <1>6, <1>7, <1>8, <1>9, <1>10
  DEF Middle, ReadUris, Checkpoint, Announce

\* The checkpoint is reached with all infra steps done, and passed to the
\* announcement either with the flip or under a status an administrator set.
LEMMA MiddlePlaced ==
    ASSUME TypeOK, LockInv, NEW c \in Caller, Rows(at[c]), Seen(c), Written(c), Placed(c),
           Middle(c)
    PROVE  Placed(c)'
<1>1. /\ at[c] \in Slug /\ at'[c] = at[c]
      /\ status'[at[c]] = status[at[c]]
  BY MiddleLocks, MiddleFrame
<1>2. /\ view[c] \in [Step -> Mark] /\ wrote[c] \in {"nothing", "row", "flip"}
      /\ status[at[c]] \in Status
  BY <1>1 DEF TypeOK, DbTypes, CallTypes
<1> USE DEF TypeOK, CallTypes, Goto, Record
<1>3. ASSUME NEW k \in Infra, StepDone(c, k) PROVE Placed(c)'
  <2>1. pc'[c] = "step" BY <1>3 DEF StepDone, Current
  <2>2. wrote'[c] # "flip" BY <1>3 DEF StepDone, Current, Placed
  <2> QED BY <2>1, <2>2 DEF Placed
<1>4. ASSUME NEW k \in Infra, StepFails(c, k) PROVE Placed(c)'
  <2>1. pc'[c] = "commit" BY <1>4 DEF StepFails, Current
  <2>2. wrote'[c] # "flip" BY <1>4 DEF StepFails, Current, Placed
  <2> QED BY <2>1, <2>2 DEF Placed
<1>5. CASE ReadUris(c)
  <2>1. pc'[c] = "register" /\ view' = view /\ wrote' = wrote BY <1>5 DEF ReadUris
  <2> QED BY <1>5, <2>1 DEF ReadUris, Current, Placed
<1>6. CASE PatchUris(c)
  <2>1. pc'[c] = "step" /\ wrote' = wrote BY <1>6 DEF PatchUris
  <2> QED BY <1>6, <2>1 DEF PatchUris, Placed
<1>7. CASE PatchFails(c)
  <2>1. pc'[c] = "commit" /\ wrote' = wrote BY <1>7 DEF PatchFails
  <2> QED BY <1>7, <2>1 DEF PatchFails, Placed
<1>8. CASE Checkpoint(c)
  <2>1. UNCHANGED <<view, wrote, status>> /\ pc[c] = "step" BY <1>8 DEF Checkpoint, dbVars
  <2>2. \A k \in Infra : view[c][k] = "done" BY <1>8 DEF Checkpoint
  <2>3. CASE pc'[c] = "flip" BY <2>1, <2>2, <2>3 DEF Placed
  <2>4. CASE pc'[c] = "brand" /\ VisibleStatus(c) # "provisioning"
    <3>1. wrote[c] = "nothing" /\ status[at[c]] # "provisioning"
      BY <1>2, <2>1, <2>4 DEF VisibleStatus, Placed
    <3>2. status[at[c]] # "none"
      BY <2>2, <3>1 DEF Written, PortalRow, Infra
    <3>3. status[at[c]] \in Ready BY <1>2, <3>1, <3>2 DEF Status, Ready
    <3> QED BY <1>1, <2>1, <2>2, <2>4, <3>3 DEF Placed
  <2> QED BY <1>8, <2>3, <2>4 DEF Checkpoint
<1>9. CASE Flip(c)
  <2>1. pc'[c] = "brand" /\ view' = view /\ wrote'[c] = "flip" BY <1>9 DEF Flip
  <2> QED BY <1>9, <2>1 DEF Flip, Placed
<1>10. CASE Brand(c)
  <2>1. /\ pc'[c] = "invite" /\ wrote' = wrote
        /\ \E m \in {"done", "failed"} : view'[c] = [view[c] EXCEPT ![BrandRegister] = m]
    BY <1>10 DEF Brand, Optional, Outcome
  <2>2. view'[c][BrandRegister] # "pending" /\ \A k \in Infra : view'[c][k] = view[c][k]
    BY <1>2, <2>1 DEF BrandRegister, Infra, Step
  <2> QED BY <1>1, <1>10, <2>1, <2>2 DEF Brand, Optional, Placed
<1>11. CASE InviteStep(c)
  <2>1. /\ pc'[c] = "announce" /\ wrote' = wrote
        /\ \E m \in {"done", "failed"} : view'[c] = [view[c] EXCEPT ![OwnerInvite] = m]
    BY <1>11 DEF InviteStep, Optional, Outcome
  <2>2. /\ view'[c][BrandRegister] = view[c][BrandRegister]
        /\ \A k \in Infra : view'[c][k] = view[c][k]
    BY <1>2, <2>1 DEF BrandRegister, OwnerInvite, Infra, Step
  <2> QED BY <1>1, <1>11, <2>1, <2>2 DEF InviteStep, Optional, Placed
<1>12. CASE Announce(c)
  <2>1. pc'[c] = "commit" /\ view' = view /\ wrote' = wrote BY <1>12 DEF Announce
  <2> QED BY <1>12, <2>1 DEF Announce, Placed
<1> QED
  BY <1>3, <1>4, <1>5, <1>6, <1>7, <1>8, <1>9, <1>10, <1>11, <1>12 DEF Middle

-----------------------------------------------------------------------------
(* The invariants about rows and transactions, for a step of any kind.     *)

SlugInv == RowsInv /\ SeenInv /\ WriteInv /\ PlaceInv

LEMMA MiddleSlug ==
    ASSUME TypeOK, LockInv, SlugInv, NEW c \in Caller, Middle(c)
    PROVE  SlugInv'
<1>1. at[c] \in Slug /\ at' = at /\ LockInv' BY MiddleLocks
<1>2. TypeOK' BY MiddleTypes
<1>3. at[c] # None BY <1>1, PortalProvisioningAssumption
<1>4. Rows(at[c]) /\ Seen(c) /\ Written(c) /\ Placed(c)
  BY <1>1, <1>3 DEF SlugInv, RowsInv, SeenInv, WriteInv, PlaceInv
<1>5. UNCHANGED <<step, org, status>> BY MiddleFrame
<1>6. ASSUME NEW s \in Slug PROVE Rows(s)'
  <2>1. org[s] \in Nat /\ minted[s] \in Nat /\ minted'[s] \in Nat
    BY <1>2 DEF TypeOK, DbTypes, OutsideTypes
  <2>2. Grown(s) /\ Rows(s) BY MiddleFrame DEF SlugInv, RowsInv
  <2>3. Sound(step[s], org[s], minted'[s], permit'[s])
    BY <2>1, <2>2, SoundGrows DEF Rows, Grown
  <2> QED BY <1>5, <2>2, <2>3 DEF Rows
<1>7. ASSUME NEW d \in Caller, at[d] # None, d # c
      PROVE  Seen(d)' /\ Written(d)' /\ Placed(d)'
  <2>1. at[d] \in Slug BY <1>7 DEF TypeOK, CallTypes
  <2>2. Seen(d) /\ Written(d) /\ Placed(d)
    BY <1>7 DEF SlugInv, SeenInv, WriteInv, PlaceInv
  <2>3. mine[d] \in Nat /\ minted[at[d]] \in Nat /\ minted'[at[d]] \in Nat
    BY <1>2, <2>1 DEF TypeOK, OutsideTypes, CallTypes
  <2>4. Grown(at[d]) BY <2>1, MiddleFrame
  <2>5. Sound(view[d], mine[d], minted'[at[d]], permit'[at[d]])
    BY <2>2, <2>3, <2>4, SoundGrows DEF Seen, Grown
  <2>6. view'[d] = view[d] /\ mine'[d] = mine[d] /\ wrote'[d] = wrote[d] /\ pc'[d] = pc[d]
    BY <1>7, MiddleFrame
  <2> QED BY <1>1, <1>5, <2>2, <2>5, <2>6 DEF Seen, Written, Placed
<1>8. Seen(c)' /\ Written(c)' /\ Placed(c)'
  BY <1>4, MiddleSeen, MiddleWritten, MiddlePlaced
<1> QED
  BY <1>1, <1>6, <1>7, <1>8 DEF SlugInv, RowsInv, SeenInv, WriteInv, PlaceInv

\* The end of a transaction leaves the others what they saw.
LEMMA LeaveSlug ==
    ASSUME TypeOK, LockInv, SlugInv, NEW c \in Caller, at[c] \in Slug, Leave(c),
           UNCHANGED <<minted, permit>>,
           \A s \in Slug \ {at[c]} :
               step'[s] = step[s] /\ org'[s] = org[s] /\ status'[s] = status[s],
           RowsInv'
    PROVE  SlugInv'
<1>1. ASSUME NEW d \in Caller, at'[d] # None
      PROVE  Seen(d)' /\ Written(d)' /\ Placed(d)'
  <2>1. /\ d # c /\ at'[d] = at[d]
        /\ view'[d] = view[d] /\ mine'[d] = mine[d] /\ wrote'[d] = wrote[d] /\ pc'[d] = pc[d]
    BY <1>1, LeaveFrame
  <2>2. at[d] \in Slug BY <1>1, <2>1 DEF TypeOK, CallTypes
  <2>3. at[c] # None BY PortalProvisioningAssumption
  <2>4. at[d] # at[c] BY <2>1, <2>3, Alone
  <2>5. Seen(d) /\ Written(d) /\ Placed(d)
    BY <1>1, <2>1 DEF SlugInv, SeenInv, WriteInv, PlaceInv
  <2> QED BY <2>1, <2>2, <2>4, <2>5 DEF Seen, Written, Placed
<1> QED BY <1>1 DEF SlugInv, SeenInv, WriteInv, PlaceInv

\* What a transaction commits are rows of a slug.
LEMMA CommitRows ==
    ASSUME TypeOK, LockInv, SlugInv, NEW c \in Caller, Commit(c)
    PROVE  RowsInv'
<1> DEFINE S == at[c]
<1>1. S \in Slug /\ S # None
  BY UnderWay, PortalProvisioningAssumption DEF Commit
<1>2. Rows(S) /\ Seen(c) /\ Written(c) /\ Placed(c)
  BY <1>1 DEF SlugInv, RowsInv, SeenInv, WriteInv, PlaceInv
<1>3. /\ step'[S] = view[c] /\ org'[S] = mine[c]
      /\ status'[S] = CASE wrote[c] = "row"  -> "provisioning"
                        [] wrote[c] = "flip" -> "pending_invite"
                        [] OTHER -> status[S]
      /\ minted' = minted /\ permit' = permit
  BY <1>1 DEF Commit, outside, TypeOK, DbTypes
<1>4. /\ view[c] \in [Step -> Mark] /\ wrote[c] \in {"nothing", "row", "flip"}
      /\ status[S] \in Status
  BY <1>1 DEF TypeOK, DbTypes, CallTypes
<1>5. Sound(step'[S], org'[S], minted'[S], permit'[S])
  BY <1>2, <1>3 DEF Seen
<1>6. step'[S][PortalRow] = "done" <=> status'[S] # "none"
  BY <1>2, <1>3, <1>4 DEF Written, PortalRow, Infra
<1>7. status'[S] = "pending_invite" => \A k \in Infra : step'[S][k] = "done"
  BY <1>2, <1>3, <1>4 DEF Written, Rows, Seen
<1>8. step'[S][BrandRegister] # "pending" => status'[S] \in Ready
  BY <1>2, <1>3, <1>4 DEF Written, Ready
<1>9. ASSUME NEW s \in Slug, s # S PROVE Rows(s)'
  <2>1. step'[s] = step[s] /\ org'[s] = org[s] /\ status'[s] = status[s]
    BY <1>1, <1>9 DEF Commit, TypeOK, DbTypes
  <2> QED BY <1>3, <2>1 DEF SlugInv, RowsInv, Rows
<1>10. ASSUME NEW s \in Slug, s = S PROVE Rows(s)'
  <2> HIDE DEF S
  <2> QED BY <1>5, <1>6, <1>7, <1>8, <1>10 DEF Rows
<1> HIDE DEF S
<1> QED BY <1>9, <1>10 DEF RowsInv

LEMMA SlugStep ==
    ASSUME TypeOK, LockInv, SlugInv, Next
    PROVE  SlugInv'
<1>1. ASSUME NEW c \in Caller, NEW s \in Slug, Request(c, s) PROVE SlugInv'
  <2>1. UNCHANGED <<step, org, status, minted, permit, wrote>>
    BY <1>1 DEF Request, dbVars, outside
  <2>2. RowsInv'
    BY <2>1 DEF SlugInv, RowsInv, Rows
  <2>3. /\ at'[c] = s /\ view'[c] = step[s] /\ mine'[c] = org[s] /\ pc'[c] = "step"
        /\ \A d \in Caller \ {c} :
               at'[d] = at[d] /\ view'[d] = view[d] /\ mine'[d] = mine[d] /\ pc'[d] = pc[d]
    BY <1>1 DEF Request, Goto, TypeOK, CallTypes
  <2>4. ASSUME NEW d \in Caller, d # c, at'[d] # None
        PROVE  Seen(d)' /\ Written(d)' /\ Placed(d)'
    BY <2>1, <2>3, <2>4
    DEF SlugInv, SeenInv, WriteInv, PlaceInv, Seen, Written, Placed
  <2>5. Rows(s) /\ status[s] \in {"none", "provisioning"}
    BY <1>1 DEF Request, SlugInv, RowsInv
  <2>6. step[s][BrandRegister] = "pending" BY <2>5 DEF Rows, Ready
  <2>7. Seen(c)' BY <2>1, <2>3, <2>5, <2>6 DEF Rows, Seen
  <2>8. wrote[c] = "nothing"
    BY <1>1 DEF Request, LockInv, Locking
  <2>9. Written(c)' BY <2>1, <2>3, <2>5, <2>6, <2>8 DEF Rows, Written
  <2>10. Placed(c)' BY <2>1, <2>3, <2>8 DEF Placed
  <2> QED
    BY <2>2, <2>4, <2>7, <2>9, <2>10 DEF SlugInv, SeenInv, WriteInv, PlaceInv
<1>2. ASSUME NEW c \in Caller, Commit(c) PROVE SlugInv'
  <2>1. at[c] \in Slug BY <1>2, UnderWay DEF Commit
  <2>2. \A s \in Slug \ {at[c]} :
            step'[s] = step[s] /\ org'[s] = org[s] /\ status'[s] = status[s]
    BY <1>2, <2>1 DEF Commit, TypeOK, DbTypes
  <2> QED BY <1>2, <2>1, <2>2, CommitRows, LeaveSlug DEF Commit, outside
<1>3. ASSUME NEW c \in Caller, Abort(c) PROVE SlugInv'
  <2>1. at[c] \in Slug BY <1>3, UnderWay DEF Abort
  <2>2. RowsInv' BY <1>3 DEF Abort, dbVars, outside, SlugInv, RowsInv, Rows
  <2> QED BY <1>3, <2>1, <2>2, LeaveSlug DEF Abort, dbVars, outside
<1>4. ASSUME NEW s \in Slug, Admin(s) PROVE SlugInv'
  <2>1. UNCHANGED <<step, org, minted, permit, at, view, mine, wrote, pc>>
    BY <1>4 DEF Admin, SetStatus, outside, callVars
  <2>2. /\ status[s] # "none" /\ status'[s] \in {"suspended", "active"}
        /\ \A t \in Slug \ {s} : status'[t] = status[t]
        /\ \A c \in Caller : at[c] = s => wrote[c] = "nothing"
    BY <1>4 DEF Admin, SetStatus, TypeOK, DbTypes
  <2>3. RowsInv' BY <2>1, <2>2 DEF SlugInv, RowsInv, Rows, Ready
  <2>4. ASSUME NEW c \in Caller, at'[c] # None
        PROVE  Seen(c)' /\ Written(c)' /\ Placed(c)'
    <3>1. Seen(c) /\ Written(c) /\ Placed(c) /\ at[c] \in Slug
      BY <2>1, <2>4 DEF SlugInv, SeenInv, WriteInv, PlaceInv, TypeOK, CallTypes
    <3>2. Seen(c)' BY <2>1, <3>1 DEF Seen
    <3>3. Written(c)' BY <2>1, <2>2, <3>1 DEF Written, Ready
    <3>4. Placed(c)' BY <2>1, <2>2, <3>1 DEF Placed, Ready
    <3> QED BY <3>2, <3>3, <3>4
  <2> QED BY <2>3, <2>4 DEF SlugInv, SeenInv, WriteInv, PlaceInv
<1> QED BY <1>1, <1>2, <1>3, <1>4, NextSteps, MiddleSlug

-----------------------------------------------------------------------------
(* Accounting for organizations and events.                                *)

\* An organization that is minted belongs to the transaction that mints it, and
\* what Permit is told is about an organization that was minted.
LEMMA MiddleMinted ==
    ASSUME TypeOK, LockInv, SlugInv, MintInv, NEW c \in Caller, Middle(c)
    PROVE  MintInv'
<1>1. /\ at[c] \in Slug /\ at' = at /\ at[c] # None
      /\ UNCHANGED <<org, faults>>
      /\ \A d \in Caller \ {c} : mine'[d] = mine[d]
  BY MiddleLocks, MiddleFrame, PortalProvisioningAssumption
<1>2. Seen(c) BY <1>1 DEF SlugInv, SeenInv
<1>3. minted \in [Slug -> Nat] /\ org \in [Slug -> Nat] /\ mine \in [Caller -> Nat]
      /\ faults \in Nat
  BY DEF TypeOK, DbTypes, OutsideTypes, CallTypes
<1>4. permit \in [Slug -> [PermitSteps -> SUBSET Nat]]
  BY DEF TypeOK, OutsideTypes
<1>5. CASE UNCHANGED <<minted, mine, permit>>
  BY <1>1, <1>5 DEF MintInv, Minted
<1>6. ASSUME NEW k \in Infra, Current(c, k), UNCHANGED <<minted, mine>>,
             InPermit(c, k) \/ UNCHANGED permit
      PROVE  MintInv'
  <2>1. CASE k \in PermitSteps
    <3>1. mine[c] \in 1..minted[at[c]]
      <4>1. view[c][OrgCreate] = "done"
        BY <1>6, <2>1 DEF Current, OrgCreate, Infra, PermitSteps
      <4> QED BY <1>1, <1>2, <1>3, <4>1 DEF Seen, Sound
    <3>2. ASSUME NEW s \in Slug, NEW j \in PermitSteps
          PROVE  permit'[s][j] \subseteq 1..minted[s]
      <4>1. permit'[s][j] \subseteq permit[s][j] \cup IF s = at[c] THEN {mine[c]} ELSE {}
        BY <1>1, <1>6, PermitGrows
      <4> QED BY <3>1, <4>1 DEF MintInv, Minted
    <3> QED BY <1>1, <1>6, <3>2 DEF MintInv, Minted
  <2>2. CASE k \notin PermitSteps
    BY <1>5, <1>6, <2>2 DEF InPermit
  <2> QED BY <2>1, <2>2
<1>7. ASSUME NEW k \in Infra, StepDone(c, k) PROVE MintInv'
  <2>1. CASE k # OrgCreate
    BY <1>6, <1>7, <2>1 DEF StepDone, Mint
  <2>2. CASE k = OrgCreate
    <3>1. /\ permit' = permit
          /\ minted'[at[c]] = minted[at[c]] + 1 /\ mine'[c] = minted[at[c]] + 1
          /\ \A s \in Slug \ {at[c]} : minted'[s] = minted[s]
      BY <1>1, <1>3, <1>7, <2>2
      DEF StepDone, Mint, InPermit, OrgCreate, PermitSteps
    <3>2. view[c][OrgCreate] # "done" BY <1>7, <2>2 DEF StepDone, Current
    <3>3. mine[c] = 0 BY <1>2, <3>2 DEF Seen, Sound
    <3>4. org[at[c]] = 0 BY <1>1, <1>2, <3>3 DEF Seen
    <3>5. minted[at[c]] <= faults
      <4>1. \A d \in Caller : at[d] = at[c] => d = c BY <1>1, Alone
      <4> QED BY <1>1, <1>3, <3>3, <3>4, <4>1 DEF MintInv, Minted
    <3>6. ASSUME NEW s \in Slug, s = at[c] PROVE Minted(s)'
      <4>1. \A k1 \in PermitSteps : permit[s][k1] \subseteq 1..minted[s]
        BY DEF MintInv, Minted
      <4>2. 1..minted[s] \subseteq 1..minted'[s]
        BY <1>3, <3>1, <3>6
      <4>3. mine'[c] # 0 BY <1>1, <1>3, <3>1
      <4> QED BY <1>1, <1>3, <3>1, <3>5, <3>6, <4>1, <4>2, <4>3 DEF Minted
    <3>7. ASSUME NEW s \in Slug, s # at[c] PROVE Minted(s)'
      BY <1>1, <3>1, <3>7 DEF MintInv, Minted
    <3> QED BY <3>6, <3>7 DEF MintInv
  <2> QED BY <2>1, <2>2
<1>8. ASSUME NEW k \in Infra, StepFails(c, k) PROVE MintInv'
  BY <1>6, <1>8 DEF StepFails
<1> QED
  BY <1>5, <1>7, <1>8
  DEF Middle, ReadUris, PatchUris, PatchFails, Checkpoint, Flip, Brand, InviteStep, Optional,
      Announce, outside

LEMMA MintStep ==
    ASSUME TypeOK, LockInv, SlugInv, MintInv, Next
    PROVE  MintInv'
<1>0. minted \in [Slug -> Nat] /\ faults \in Nat
  BY DEF TypeOK, OutsideTypes
<1>1. ASSUME NEW c \in Caller, NEW s \in Slug, Request(c, s) PROVE MintInv'
  <2>1. UNCHANGED <<org, minted, permit, faults>> BY <1>1 DEF Request, dbVars, outside, bounds
  <2>2. at[c] = None /\ \A d \in Caller \ {c} : at'[d] = at[d] /\ mine'[d] = mine[d]
    BY <1>1 DEF Request, LockInv, Locking, TypeOK, CallTypes
  <2>3. ASSUME NEW t \in Slug PROVE Minted(t)'
    <3>1. Minted(t) /\ t # None BY PortalProvisioningAssumption DEF MintInv
    <3> QED BY <2>1, <2>2, <3>1 DEF Minted
  <2> QED BY <2>3 DEF MintInv
<1>2. ASSUME NEW c \in Caller, Commit(c) PROVE MintInv'
  <2>1. at[c] \in Slug /\ at[c] # None
    BY <1>2, UnderWay, PortalProvisioningAssumption DEF Commit
  <2>2. /\ UNCHANGED <<minted, permit, faults>>
        /\ org'[at[c]] = mine[c] /\ \A s \in Slug \ {at[c]} : org'[s] = org[s]
    BY <1>2, <2>1 DEF Commit, outside, bounds, TypeOK, DbTypes
  <2>3. \A d \in Caller \ {c} : at'[d] = at[d] /\ mine'[d] = mine[d]
    BY <1>2, LeaveFrame DEF Commit
  <2>4. org[at[c]] # 0 => mine[c] # 0
    BY <2>1 DEF SlugInv, SeenInv, Seen
  <2>5. \A d \in Caller : at[d] = at[c] => d = c BY <2>1, Alone
  <2>6. ASSUME NEW s \in Slug PROVE Minted(s)'
    <3>1. Minted(s) BY DEF MintInv
    <3>2. CASE s = at[c] BY <2>2, <2>4, <2>5, <3>1, <3>2 DEF Minted
    <3>3. CASE s # at[c] BY <2>2, <2>3, <3>1, <3>3 DEF Minted
    <3> QED BY <3>2, <3>3
  <2> QED BY <2>6 DEF MintInv
<1>3. ASSUME NEW c \in Caller, Abort(c) PROVE MintInv'
  <2>1. UNCHANGED <<org, minted, permit>> /\ faults' = faults + 1
    BY <1>3 DEF Abort, dbVars, outside
  <2> QED BY <1>0, <2>1 DEF MintInv, Minted
<1>4. ASSUME NEW s \in Slug, Admin(s) PROVE MintInv'
  BY <1>4 DEF Admin, SetStatus, outside, callVars, bounds, MintInv, Minted
<1> QED BY <1>1, <1>2, <1>3, <1>4, NextSteps, MiddleMinted

\* The event is published by the transaction that flips the status, and that one
\* is the first to touch the brand's step.
LEMMA MiddleAnnounced ==
    ASSUME TypeOK, LockInv, SlugInv, AnnInv, NEW c \in Caller, Middle(c)
    PROVE  AnnInv'
<1>1. /\ at[c] \in Slug /\ at' = at /\ at[c] # None
      /\ UNCHANGED <<step, faults>>
      /\ \A d \in Caller \ {c} : wrote'[d] = wrote[d] /\ pc'[d] = pc[d]
  BY MiddleLocks, MiddleFrame, PortalProvisioningAssumption
<1>2. created \in [Slug -> Nat] /\ faults \in Nat BY DEF TypeOK, OutsideTypes
<1>3. CASE pc[c] # "commit" /\ created' = created
  <2>1. ASSUME NEW s \in Slug PROVE Announced(s)'
    <3>1. Announced(s) BY DEF AnnInv
    <3> QED BY <1>1, <1>3, <3>1 DEF Announced
  <2> QED BY <2>1 DEF AnnInv
<1>4. CASE Announce(c) /\ created' # created
  <2>1. /\ wrote[c] = "flip" /\ pc[c] = "announce"
        /\ created'[at[c]] = created[at[c]] + 1
        /\ \A s \in Slug \ {at[c]} : created'[s] = created[s]
        /\ wrote'[c] = "flip" /\ pc'[c] = "commit"
    BY <1>1, <1>2, <1>4 DEF Announce, Goto, TypeOK, CallTypes
  <2>2. step[at[c]][BrandRegister] = "pending"
    BY <1>1 DEF SlugInv, SeenInv, Seen
  <2>3. created[at[c]] <= faults
    <3>1. \A d \in Caller : at[d] = at[c] => d = c BY <1>1, Alone
    <3> QED BY <1>1, <1>2, <2>1, <2>2, <3>1 DEF AnnInv, Announced
  <2>4. ASSUME NEW s \in Slug, s = at[c] PROVE Announced(s)'
    BY <1>1, <1>2, <2>1, <2>3, <2>4 DEF Announced
  <2>5. ASSUME NEW s \in Slug, s # at[c] PROVE Announced(s)'
    <3>1. Announced(s) BY DEF AnnInv
    <3> QED BY <1>1, <2>1, <2>5, <3>1 DEF Announced
  <2> QED BY <2>4, <2>5 DEF AnnInv
<1> QED
  BY <1>3, <1>4
  DEF Middle, StepDone, StepFails, Current, ReadUris, PatchUris, PatchFails, Checkpoint, Flip,
      Brand, InviteStep, Optional, Announce, outside

LEMMA AnnStep ==
    ASSUME TypeOK, LockInv, SlugInv, AnnInv, Next
    PROVE  AnnInv'
<1>0. created \in [Slug -> Nat] /\ faults \in Nat
  BY DEF TypeOK, OutsideTypes
<1>1. ASSUME NEW c \in Caller, NEW s \in Slug, Request(c, s) PROVE AnnInv'
  <2>1. UNCHANGED <<step, created, faults, wrote>> /\ pc[c] = "idle"
    BY <1>1 DEF Request, dbVars, outside, bounds
  <2>2. \A d \in Caller \ {c} : at'[d] = at[d] /\ pc'[d] = pc[d]
    BY <1>1 DEF Request, Goto, TypeOK, CallTypes
  <2>3. ASSUME NEW t \in Slug PROVE Announced(t)'
    <3>1. Announced(t) BY DEF AnnInv
    <3> QED BY <2>1, <2>2, <3>1 DEF Announced
  <2> QED BY <2>3 DEF AnnInv
<1>2. ASSUME NEW c \in Caller, Commit(c) PROVE AnnInv'
  <2>1. at[c] \in Slug /\ at[c] # None
    BY <1>2, UnderWay, PortalProvisioningAssumption DEF Commit
  <2>2. /\ UNCHANGED <<created, faults>> /\ pc[c] = "commit"
        /\ step'[at[c]] = view[c] /\ \A s \in Slug \ {at[c]} : step'[s] = step[s]
    BY <1>2, <2>1 DEF Commit, outside, bounds, TypeOK, DbTypes
  <2>3. \A d \in Caller \ {c} : at'[d] = at[d] /\ wrote'[d] = wrote[d] /\ pc'[d] = pc[d]
    BY <1>2, LeaveFrame DEF Commit
  <2>4. step[at[c]][BrandRegister] = "pending" /\
        (wrote[c] = "flip" => view[c][BrandRegister] # "pending")
    BY <2>1, <2>2 DEF SlugInv, SeenInv, PlaceInv, Seen, Placed
  <2>5. \A d \in Caller : at[d] = at[c] => d = c BY <2>1, Alone
  <2>6. ASSUME NEW s \in Slug PROVE Announced(s)'
    <3>1. Announced(s) BY DEF AnnInv
    <3>2. CASE s = at[c] BY <2>2, <2>4, <2>5, <3>1, <3>2 DEF Announced
    <3>3. CASE s # at[c] BY <2>2, <2>3, <3>1, <3>3 DEF Announced
    <3> QED BY <3>2, <3>3
  <2> QED BY <2>6 DEF AnnInv
<1>3. ASSUME NEW c \in Caller, Abort(c) PROVE AnnInv'
  <2>1. UNCHANGED <<step, created>> /\ faults' = faults + 1
    BY <1>3 DEF Abort, dbVars, outside
  <2> QED BY <1>0, <2>1 DEF AnnInv, Announced
<1>4. ASSUME NEW s \in Slug, Admin(s) PROVE AnnInv'
  BY <1>4 DEF Admin, SetStatus, outside, callVars, bounds, AnnInv, Announced
<1> QED BY <1>1, <1>2, <1>3, <1>4, NextSteps, MiddleAnnounced

-----------------------------------------------------------------------------
(* The theorems.                                                           *)

LEMMA InitInv == Init => PortalInv
<1> SUFFICES ASSUME Init PROVE PortalInv OBVIOUS
<1>1. TypeOK
  <2>1. NoSteps \in [Step -> Mark] BY DEF NoSteps, Mark
  <2> QED
    BY <2>1
    DEF Init, TypeOK, DbTypes, OutsideTypes, CallTypes, Status, Place
<1>2. LockInv BY PortalProvisioningAssumption DEF Init, LockInv, Locking
<1>3. RowsInv
  BY DEF Init, RowsInv, Rows, Sound, NoSteps, Step, OrgCreate, PermitSteps, Infra, PortalRow,
     BrandRegister
<1>4. SeenInv /\ WriteInv /\ PlaceInv BY DEF Init, SeenInv, WriteInv, PlaceInv
<1>5. MintInv
  BY DEF Init, MintInv, Minted
<1>6. AnnInv BY DEF Init, AnnInv, Announced
<1> QED BY <1>1, <1>2, <1>3, <1>4, <1>5, <1>6 DEF PortalInv

LEMMA StepInv == PortalInv /\ [Next]_vars => PortalInv'
<1> SUFFICES ASSUME PortalInv, [Next]_vars PROVE PortalInv' OBVIOUS
<1>1. CASE Next
  <2>1. SlugInv BY DEF PortalInv, SlugInv
  <2>2. TypeOK' /\ LockInv' /\ SlugInv' /\ MintInv' /\ AnnInv'
    BY <1>1, <2>1, PortalTypeStep, LockStep, SlugStep, MintStep, AnnStep DEF PortalInv
  <2> QED BY <2>2 DEF PortalInv, SlugInv
<1>2. CASE UNCHANGED vars
  <2> USE <1>2 DEF vars, dbVars, outside, callVars, bounds
  <2>1. TypeOK' BY DEF PortalInv, TypeOK, DbTypes, OutsideTypes, CallTypes
  <2>2. LockInv' BY DEF PortalInv, LockInv, Locking
  <2>3. RowsInv' BY DEF PortalInv, RowsInv, Rows
  <2>4. SeenInv' BY DEF PortalInv, SeenInv, Seen
  <2>5. WriteInv' BY DEF PortalInv, WriteInv, Written
  <2>6. PlaceInv' BY DEF PortalInv, PlaceInv, Placed
  <2>7. MintInv' /\ AnnInv' BY DEF PortalInv, MintInv, AnnInv, Minted, Announced
  <2> QED BY <2>1, <2>2, <2>3, <2>4, <2>5, <2>6, <2>7 DEF PortalInv
<1> QED BY <1>1, <1>2

\* The inductive invariant: the lock makes a transaction the only one of its
\* slug, and what it sees, what it wrote and where it is fit the committed rows,
\* Permit and the events.
THEOREM PortalInvariant == Spec => []PortalInv
BY InitInv, StepInv, PTL DEF Spec

\* The tables, Permit's side and the requests keep their types.
THEOREM PortalTypeCorrect == Spec => []TypeOK
<1>1. PortalInv => TypeOK BY DEF PortalInv
<1> QED BY <1>1, PortalInvariant, PTL

\* A step row of provisionPortal that is done names an organization for which the
\* step was done, after any rollbacks and failures of any number of requests.
THEOREM Ledger == Spec => []LedgerHappened
<1>1. PortalInv => LedgerHappened
  BY DEF PortalInv, RowsInv, Rows, Sound, LedgerHappened
<1> QED BY <1>1, PortalInvariant, PTL

\* A portal is offered to its owner only with every infra step done, and a
\* portals row exists only for an organization that Permit knows.
THEOREM Wired == Spec => []ReadyIsWired
<1>1. PortalInv => ReadyIsWired
  BY DEF PortalInv, RowsInv, Rows, Sound, ReadyIsWired, PortalRow, Infra
<1> QED BY <1>1, PortalInvariant, PTL

\* Failures cost nothing, and a rolled-back transaction at most one organization
\* and one Permit tenant.
THEOREM Accounted == Spec => []ResourcesAreAccounted
<1>1. ASSUME PortalInv, NEW s \in Slug
      PROVE  minted[s] <= 1 + faults /\ Cardinality(permit[s][2]) <= 1 + faults
  <2>1. /\ minted[s] <= 1 + faults /\ minted[s] \in Nat /\ faults \in Nat
        /\ permit[s][2] \subseteq 1..minted[s]
    BY <1>1 DEF PortalInv, MintInv, Minted, PermitSteps, TypeOK, OutsideTypes
  <2>2. IsFiniteSet(1..minted[s]) /\ Cardinality(1..minted[s]) <= minted[s]
    <3>1. ASSUME NEW n \in Nat PROVE IsFiniteSet(1..n) /\ Cardinality(1..n) <= n
      <4>1. 1 \in Int /\ n \in Int BY <3>1
      <4>2. IsFiniteSet(1..n) BY <4>1, FS_Interval
      <4>3. Cardinality(1..n) = IF 1 > n THEN 0 ELSE n - 1 + 1 BY <4>1, FS_Interval
      <4> QED BY <3>1, <4>2, <4>3
    <3> QED BY <2>1, <3>1
  <2>3. /\ Cardinality(permit[s][2]) <= Cardinality(1..minted[s])
        /\ Cardinality(permit[s][2]) \in Nat /\ Cardinality(1..minted[s]) \in Nat
    BY <2>1, <2>2, FS_Subset, FS_CardinalityType
  <2> QED BY <2>1, <2>2, <2>3
<1>2. PortalInv => ResourcesAreAccounted BY <1>1 DEF ResourcesAreAccounted
<1> QED BY <1>2, PortalInvariant, PTL

\* portal.created is published once, once more for each rolled-back transaction,
\* and without those never before the portal is ready.
THEOREM Created == Spec => []CreatedIsAccounted
<1>1. ASSUME PortalInv, NEW s \in Slug
      PROVE  /\ created[s] <= 1 + faults
             /\ created[s] > 0 /\ faults = 0 =>
                   \/ status[s] \in Ready
                   \/ \E c \in Caller : at[c] = s /\ wrote[c] = "flip"
  BY <1>1 DEF PortalInv, AnnInv, Announced, RowsInv, Rows
<1>2. PortalInv => CreatedIsAccounted BY <1>1 DEF CreatedIsAccounted, Ready
<1> QED BY <1>2, PortalInvariant, PTL

-----------------------------------------------------------------------------
(* The redirect URIs, when no two requests are registering one at a time.  *)

\* At most one request is between its read of the provider's list and its write.
OneRegistrar ==
    \A c, d \in Caller : pc[c] = "register" /\ pc[d] = "register" => c = d

\* A registration that is recorded is in the list, and a request writes back the
\* list as it is.
Registered ==
    /\ RegisteredIsKept
    /\ MultiTenant => \A c \in Caller :
          at[c] # None /\ view[c][RedirectRegister] = "done" => at[c] \in uris
    /\ \A c \in Caller : pc[c] = "register" => list[c] = uris

\* A step in the middle of a transaction only adds to the list.
LEMMA MiddleRegisters ==
    ASSUME TypeOK, LockInv, OneRegistrar, Registered, NEW c \in Caller, Middle(c)
    PROVE  Registered'
<1>1. /\ at[c] \in Slug /\ at' = at /\ step' = step
      /\ \A d \in Caller \ {c} : view'[d] = view[d] /\ pc'[d] = pc[d]
  BY MiddleLocks, MiddleFrame
<1>2. view \in [Caller -> [Step -> Mark]] /\ pc \in [Caller -> Place]
  BY DEF TypeOK, CallTypes
<1>3. ASSUME PatchUris(c) \/ PatchFails(c)
      PROVE  /\ uris' = uris \/ uris' = uris \cup {at[c]}
             /\ PatchUris(c) => at[c] \in uris'
             /\ \A d \in Caller \ {c} : pc[d] # "register"
             /\ pc'[c] # "register"
  BY <1>2, <1>3 DEF PatchUris, PatchFails, Patched, Registered, OneRegistrar, Goto
<1>4. ASSUME ~PatchUris(c), ~PatchFails(c)
      PROVE  /\ uris' = uris
             /\ list' = [list EXCEPT ![c] = uris] \/ (list' = list /\ pc'[c] # "register")
  <2>1. CASE ReadUris(c)
    BY <2>1 DEF ReadUris, outside
  <2>2. CASE \E k \in Infra : StepDone(c, k) \/ StepFails(c, k)
    BY <1>2, <2>2 DEF StepDone, StepFails, Current, Goto
  <2>3. CASE Checkpoint(c) \/ Flip(c) \/ Brand(c) \/ InviteStep(c) \/ Announce(c)
    BY <1>2, <2>3 DEF Checkpoint, Flip, Brand, InviteStep, Optional, Announce, Goto, outside
  <2> QED BY <1>4, <2>1, <2>2, <2>3 DEF Middle
<1>5. uris \subseteq uris'
  BY <1>3, <1>4
<1>6. \A d \in Caller : pc'[d] = "register" => list'[d] = uris'
  <2>1. list \in [Caller -> SUBSET Slug]
    BY DEF TypeOK, CallTypes
  <2> QED BY <1>1, <1>3, <1>4, <2>1 DEF Registered
<1>7. ASSUME MultiTenant, view'[c][RedirectRegister] = "done" PROVE at[c] \in uris'
  <2>1. CASE view[c][RedirectRegister] = "done"
    BY <1>1, <1>5, <1>7, <2>1, PortalProvisioningAssumption DEF Registered
  <2>2. CASE view[c][RedirectRegister] # "done"
    <3>1. ASSUME NEW k \in Infra, StepDone(c, k) \/ StepFails(c, k) PROVE FALSE
      BY <1>2, <1>7, <2>2, <3>1 DEF StepDone, StepFails, Record, RedirectRegister, Infra, Step
    <3>2. ~PatchFails(c)
      BY <1>2, <1>7, <2>2 DEF PatchFails, Record, RedirectRegister, Step
    <3>3. ~(Brand(c) \/ InviteStep(c))
      BY <1>2, <1>7, <2>2 DEF Brand, InviteStep, Optional, Record, RedirectRegister,
                             BrandRegister, OwnerInvite, Step
    <3>4. view' # view
      BY <1>7, <2>2
    <3>5. PatchUris(c)
      BY <3>1, <3>2, <3>3, <3>4 DEF Middle, ReadUris, Checkpoint, Flip, Announce
    <3> QED BY <1>3, <3>5
  <2> QED BY <2>1, <2>2
<1> QED BY <1>1, <1>5, <1>6, <1>7 DEF Registered, RegisteredIsKept

LEMMA RegisterStep ==
    ASSUME PortalInv, OneRegistrar, Registered, [Next]_vars PROVE Registered'
<1>t. TypeOK /\ LockInv
  BY DEF PortalInv
<1>1. ASSUME NEW c \in Caller, NEW s \in Slug, Request(c, s) PROVE Registered'
  <2>1. /\ step' = step /\ uris' = uris /\ list' = list
        /\ at'[c] = s /\ view'[c] = step[s] /\ pc'[c] = "step"
        /\ \A d \in Caller \ {c} :
              at'[d] = at[d] /\ view'[d] = view[d] /\ pc'[d] = pc[d]
    BY <1>t, <1>1 DEF Request, Goto, dbVars, outside, TypeOK, CallTypes
  <2> QED BY <2>1 DEF Registered, RegisteredIsKept
<1>2. ASSUME NEW c \in Caller, Leave(c), uris' = uris, RegisteredIsKept'
      PROVE  Registered'
  <2>1. /\ at'[c] = None /\ pc'[c] = "idle"
        /\ \A d \in Caller \ {c} :
              /\ at'[d] = at[d] /\ view'[d] = view[d] /\ pc'[d] = pc[d]
              /\ list'[d] = list[d]
    BY <1>t, <1>2 DEF Leave, Goto, TypeOK, CallTypes
  <2> QED BY <1>2, <2>1 DEF Registered
<1>3. ASSUME NEW c \in Caller, Commit(c) PROVE Registered'
  <2>1. at[c] \in Slug /\ at[c] # None
    BY <1>t, <1>3, UnderWay, PortalProvisioningAssumption DEF Commit
  <2>2. /\ uris' = uris /\ step'[at[c]] = view[c]
        /\ \A s \in Slug \ {at[c]} : step'[s] = step[s]
    BY <1>t, <1>3, <2>1 DEF Commit, outside, TypeOK, DbTypes
  <2>3. RegisteredIsKept'
    BY <2>1, <2>2 DEF Registered, RegisteredIsKept
  <2> QED BY <1>2, <1>3, <2>2, <2>3 DEF Commit
<1>4. ASSUME NEW c \in Caller, Abort(c) PROVE Registered'
  <2>1. uris' = uris /\ step' = step
    BY <1>4 DEF Abort, dbVars, outside
  <2> QED BY <1>2, <1>4, <2>1 DEF Abort, Registered, RegisteredIsKept
<1>5. ASSUME NEW s \in Slug, Admin(s) PROVE Registered'
  <2>1. UNCHANGED <<step, uris, at, view, pc, list>>
    BY <1>5 DEF Admin, SetStatus, outside, callVars
  <2> QED BY <2>1 DEF Registered, RegisteredIsKept
<1>6. CASE UNCHANGED vars
  <2>1. UNCHANGED <<step, uris, at, view, pc, list>>
    BY <1>6 DEF vars, dbVars, outside, callVars
  <2> QED BY <2>1 DEF Registered, RegisteredIsKept
<1> QED BY <1>t, <1>1, <1>3, <1>4, <1>5, <1>6, MiddleRegisters, NextSteps

\* A registered redirect URI is lost only where two registrations overlap: if
\* they were made one at a time, whatever the number of portals, "done" would
\* mean that the URI is there ("a silently broken login", which a run finds).
THEOREM KeptOneAtATime == Spec /\ []OneRegistrar => []RegisteredIsKept
<1>1. Init => Registered
  BY DEF Init, Registered, RegisteredIsKept, NoSteps, RedirectRegister, Step
<1>2. PortalInv /\ OneRegistrar /\ Registered /\ [Next]_vars => Registered'
  BY RegisterStep
<1>3. Registered => RegisteredIsKept
  BY DEF Registered
<1> QED BY <1>1, <1>2, <1>3, PortalInvariant, PTL DEF Spec

\* The lock of a slug is enough where the platform has one portal only.
THEOREM KeptAlone ==
    ASSUME \A s, t \in Slug : s = t PROVE Spec => []RegisteredIsKept
<1>1. PortalInv => OneRegistrar
  <2> SUFFICES ASSUME PortalInv, NEW c \in Caller, NEW d \in Caller,
                      pc[c] = "register", pc[d] = "register"
               PROVE  c = d
    BY DEF OneRegistrar
  <2>1. TypeOK /\ LockInv
    BY DEF PortalInv
  <2>2. at[c] \in Slug /\ at[d] \in Slug
    BY <2>1, UnderWay
  <2> QED BY <2>1, <2>2, Alone, PortalProvisioningAssumption
<1> QED BY <1>1, PortalInvariant, KeptOneAtATime, PTL
=============================================================================
