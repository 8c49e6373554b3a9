--------------------------- MODULE RefIndexProofs ---------------------------
(***************************************************************************)
(* Proofs about RefIndex for any entities, topics, tenants and requests    *)
(* and any number of crashes and losses.  Where the group had offsets from *)
(* the start and the handler lets a failed apply escape, as in             *)
(* billing-service, the projection is right about all it has passed.       *)
(***************************************************************************)
EXTENDS RefIndex, TLAPS

USE RefIndexAssumption

\* What the owner did before it announced e on topic t.
Cause(t, e) ==
    IF t \in DeletedTopics THEN life[e] = "deleted" ELSE life[e] # "unborn"

EventsHaveCauses ==
    /\ \A t \in Topic, e \in Entity : <<t, e>> \in announced => Cause(t, e)
    /\ \A t \in Topic : \A i \in DOMAIN log[t] : Cause(t, log[t][i])

\* A row is there because of an event, although events repeat and reorder.
RowsHaveCauses ==
    \A e \in Entity : /\ row[e] # "none" => life[e] # "unborn"
                      /\ row[e] = "deleted" => life[e] = "deleted"

Positions ==
    \A t \in Topic : /\ committed[t] \in 0..Len(log[t])
                     /\ next[t] \in 0..Len(log[t])
                     /\ up => committed[t] <= next[t]

\* The message in the handler's hands is already in the table.
InFlight ==
    \A t \in writing : /\ up
                       /\ next[t] < Len(log[t])
                       /\ losses = 0 => Told(t, Message(t))

TenantFits(r) ==
    \/ NoTenant \in {reader[r].tenant, TenantOf[reader[r].entity]}
    \/ reader[r].tenant = TenantOf[reader[r].entity]

\* A request that missed an entity it may see and the consumer had passed is
\* about a deleted one.
MissesAreDeletions ==
    losses = 0 => \A r \in Reader :
        reader[r].pc \in {"missed", "rejected"} /\ reader[r].seen /\ TenantFits(r)
            => life[reader[r].entity] = "deleted"

CauseInv == TypeOK /\ EventsHaveCauses /\ RowsHaveCauses

IndInv ==
    /\ CauseInv
    /\ Positions
    /\ InFlight
    /\ PassedIsReflected
    /\ MissesAreDeletions

-----------------------------------------------------------------------------
\* A topic only grows at its end, and by what the owner announced.
LEMMA PublishAppends ==
    ASSUME TypeOK, NEW t \in Topic, NEW e \in Entity, NEW again \in BOOLEAN,
           Publish(t, e, again)
    PROVE  /\ log' \in [Topic -> Seq(Entity)]
           /\ \A q \in Topic : /\ Len(log[q]) <= Len(log'[q])
                               /\ \A i \in DOMAIN log[q] :
                                    i \in DOMAIN log'[q] /\ log'[q][i] = log[q][i]
           /\ \A q \in Topic : \A i \in DOMAIN log'[q] :
                \/ i \in DOMAIN log[q]
                \/ q = t /\ log'[q][i] = e
<1>1. log \in [Topic -> Seq(Entity)] /\ log' = [log EXCEPT ![t] = Append(log[t], e)]
  BY DEF TypeOK, Publish
<1>2. Append(log[t], e) \in Seq(Entity)
  BY <1>1
<1>3. log' \in [Topic -> Seq(Entity)]
  BY <1>1, <1>2
<1>4. \A q \in Topic : q # t => log'[q] = log[q]
  BY <1>1
<1>5. log'[t] = Append(log[t], e) /\ log[t] \in Seq(Entity)
  BY <1>1
<1>6. /\ Len(log'[t]) = Len(log[t]) + 1
      /\ DOMAIN log'[t] = DOMAIN log[t] \cup {Len(log[t]) + 1}
      /\ \A i \in DOMAIN log[t] : log'[t][i] = log[t][i]
      /\ log'[t][Len(log[t]) + 1] = e
  BY <1>5
<1>7. \A q \in Topic : Len(log[q]) \in Nat
  BY <1>1
<1>8. \A q \in Topic : /\ Len(log[q]) <= Len(log'[q])
                       /\ \A i \in DOMAIN log[q] :
                            i \in DOMAIN log'[q] /\ log'[q][i] = log[q][i]
  <2>1. \A q \in Topic : Len(log[q]) <= Len(log'[q])
    BY <1>4, <1>6, <1>7
  <2> QED BY <2>1, <1>4, <1>6
<1>9. \A q \in Topic : \A i \in DOMAIN log'[q] :
        i \in DOMAIN log[q] \/ (q = t /\ log'[q][i] = e)
  BY <1>4, <1>6
<1> QED BY <1>3, <1>8, <1>9

\* Every kind of state keeps its type.
LEMMA TypeStep == ASSUME TypeOK, [Next]_vars PROVE TypeOK'
<1>0. CASE UNCHANGED vars
  BY <1>0 DEF TypeOK, vars, ownerVars, tableVars, consumerVars, boundVars
<1>1. ASSUME NEW e \in Entity, Create(e) \/ Delete(e) PROVE TypeOK'
  <2>1. life' \in [Entity -> {"unborn", "alive", "deleted"}]
    BY <1>1 DEF TypeOK, Create, Delete
  <2>2. announced' \subseteq Topic \X Entity
    BY <1>1 DEF TypeOK, Create, Delete
  <2> QED BY <1>1, <2>1, <2>2
     DEF TypeOK, Create, Delete, tableVars, consumerVars, boundVars
<1>2. ASSUME NEW t \in Topic, NEW e \in Entity, NEW again \in BOOLEAN,
             Publish(t, e, again)
      PROVE  TypeOK'
  <2>1. log' \in [Topic -> Seq(Entity)]
    BY <1>2, PublishAppends
  <2>2. announced' \subseteq Topic \X Entity
    BY <1>2 DEF TypeOK, Publish
  <2> QED BY <1>2, <2>1, <2>2 DEF TypeOK, Publish, tableVars, consumerVars, boundVars
<1>3. CASE Start
  <2>1. \A t \in Topic : StartAt(t) \in Nat
    BY DEF TypeOK, StartAt
  <2>2. next' \in [Topic -> Nat]
    BY <1>3, <2>1 DEF Start
  <2> QED BY <1>3, <2>2 DEF TypeOK, Start, ownerVars, tableVars, boundVars
<1>4. ASSUME NEW t \in Topic, Write(t) PROVE TypeOK'
  <2>1. Message(t) \in Entity
    BY <1>4 DEF TypeOK, Write, HasMessage, Message
  <2>2. row' \in [Entity -> {"none", "active", "deleted"}]
    BY <1>4, <2>1 DEF TypeOK, Write, Tombstoned, Upserted
  <2> QED BY <1>4, <2>2 DEF TypeOK, Write, ownerVars, boundVars
<1>5. ASSUME NEW t \in Topic, Stamp(t) PROVE TypeOK'
  <2>1. next' \in [Topic -> Nat] /\ resolved' \subseteq Topic
    BY <1>5 DEF TypeOK, Stamp, Advance
  <2> QED BY <1>5, <2>1 DEF TypeOK, Stamp, ownerVars, boundVars
<1>6. ASSUME NEW t \in Topic, ApplyFails(t) PROVE TypeOK'
  <2>1. next' \in [Topic -> Nat] /\ resolved' \subseteq Topic
    BY <1>6 DEF TypeOK, ApplyFails, Advance
  <2> QED BY <1>6, <2>1 DEF TypeOK, ApplyFails, ownerVars, tableVars, boundVars
<1>7. CASE CommitOffsets
  <2>1. committed' \in [Topic -> Nat \cup {NoOffset}]
    BY <1>7 DEF TypeOK, CommitOffsets
  <2>2. UNCHANGED <<ownerVars, tableVars, up, next, resolved, writing, reader, boundVars>>
    BY <1>7 DEF CommitOffsets
  <2> QED BY <2>1, <2>2 DEF TypeOK, ownerVars, tableVars, boundVars, consumerVars
<1>8. CASE Crash \/ LoseTable \/ Age
  <2>1. crashes' \in Nat /\ losses' \in Nat
    BY <1>8 DEF TypeOK, Crash, LoseTable, Age, boundVars
  <2>2. CASE Crash
    BY <2>1, <2>2 DEF TypeOK, Crash, ownerVars, tableVars
  <2>3. CASE LoseTable
    <3>1. row' \in [Entity -> {"none", "active", "deleted"}]
      BY <2>3 DEF LoseTable
    <3> QED BY <2>1, <2>3, <3>1 DEF TypeOK, LoseTable, ownerVars, consumerVars
  <2>4. CASE Age
    BY <2>4 DEF TypeOK, Age, ownerVars, consumerVars, boundVars
  <2> QED BY <1>8, <2>2, <2>3, <2>4
<1>9. ASSUME NEW r \in Reader, NEW e \in Entity, NEW tn \in Tenant \cup {NoTenant},
             Lookup(r, e, tn)
      PROVE  TypeOK'
  <2> DEFINE ask == [pc |-> IF Has(e, tn) THEN "accepted" ELSE "missed",
                     entity |-> e, tenant |-> tn, seen |-> up /\ Passed(e)]
  <2>1. ask \in Asks
    <3>1. (up /\ Passed(e)) \in BOOLEAN
      BY DEF TypeOK, Passed
    <3> QED BY <3>1 DEF Asks
  <2>2. reader' = [reader EXCEPT ![r] = ask]
    BY <1>9 DEF Lookup
  <2>3. reader' \in [Reader -> {Waiting} \cup Asks]
    BY <2>1, <2>2 DEF TypeOK
  <2>4. UNCHANGED <<ownerVars, tableVars, consumerVars, boundVars>>
    BY <1>9 DEF Lookup
  <2> HIDE DEF ask
  <2> QED BY <2>3, <2>4 DEF TypeOK, ownerVars, tableVars, consumerVars, boundVars
<1>10. ASSUME NEW r \in Reader, Judge(r) PROVE TypeOK'
  <2>1. reader[r] \in Asks
    BY <1>10 DEF TypeOK, Judge, Waiting
  <2>2. reader' = [reader EXCEPT ![r].pc = IF applied = "recent" THEN "rejected"
                                                                 ELSE "degraded"]
    BY <1>10 DEF Judge
  <2>3. reader' \in [Reader -> {Waiting} \cup Asks]
    BY <2>1, <2>2 DEF TypeOK, Asks
  <2> QED BY <1>10, <2>3 DEF TypeOK, Judge, ownerVars, tableVars, consumerVars, boundVars
<1> QED
  BY <1>0, <1>1, <1>2, <1>3, <1>4, <1>5, <1>6, <1>7, <1>8, <1>9, <1>10
     DEF Next, Owner, Consumer, Consume, Read

LEMMA TypeInit == Init => TypeOK
<1> SUFFICES ASSUME Init PROVE TypeOK
  OBVIOUS
<1>1. reader \in [Reader -> {Waiting} \cup Asks]
  BY DEF Init
<1>2. committed \in [Topic -> Nat \cup {NoOffset}] /\ next \in [Topic -> Nat]
  BY DEF Init
<1>3. log \in [Topic -> Seq(Entity)]
  BY DEF Init
<1> QED BY <1>1, <1>2, <1>3 DEF Init, TypeOK

\* The model's state has the types the code's tables and offsets have.
THEOREM TypeCorrect == Spec => []TypeOK
BY TypeInit, TypeStep, PTL DEF Spec

-----------------------------------------------------------------------------
LEMMA CauseInit == Init => CauseInv
BY TypeInit DEF Init, CauseInv, EventsHaveCauses, RowsHaveCauses

LEMMA TopicsAreDistinct ==
    \A e \in Entity : CreatedTopic[e] \notin DeletedTopics
BY DEF CreatedTopics

\* A step that adds no event and no row leaves the causes alone.
LEMMA SameEventsSameCauses ==
    ASSUME CauseInv, UNCHANGED <<life, announced, log, row>>
    PROVE  EventsHaveCauses' /\ RowsHaveCauses'
BY DEF CauseInv, EventsHaveCauses, RowsHaveCauses, Cause

LEMMA CauseStep == ASSUME CauseInv, [Next]_vars PROVE CauseInv'
<1>t. TypeOK' /\ TypeOK
  BY TypeStep DEF CauseInv
<1> SUFFICES EventsHaveCauses' /\ RowsHaveCauses'
  BY <1>t DEF CauseInv
<1>1. ASSUME NEW e \in Entity, Create(e) \/ Delete(e)
      PROVE  EventsHaveCauses' /\ RowsHaveCauses'
  <2>1. /\ life[e] # "deleted" /\ life'[e] # "unborn"
        /\ life[e] = "unborn" \/ life'[e] = "deleted"
        /\ \A f \in Entity : f # e => life'[f] = life[f]
        /\ UNCHANGED <<log, row>>
    BY <1>1, <1>t DEF TypeOK, Create, Delete, tableVars
  <2>2. \A t \in Topic, f \in Entity : Cause(t, f) => Cause(t, f)'
    BY <2>1 DEF Cause
  <2>3. \A t \in Topic, f \in Entity :
          <<t, f>> \in announced' => <<t, f>> \in announced \/ Cause(t, f)'
    <3>1. CASE Create(e)
      BY <3>1, <2>1, TopicsAreDistinct DEF Create, Cause
    <3>2. CASE Delete(e)
      BY <3>2, <1>t DEF Delete, Cause, DeletedTopics, TypeOK
    <3> QED BY <1>1, <3>1, <3>2
  <2>4. EventsHaveCauses'
    <3>1. \A t \in Topic : \A i \in DOMAIN log[t] : log[t][i] \in Entity
      BY <1>t DEF TypeOK
    <3> QED BY <2>1, <2>2, <2>3, <3>1 DEF CauseInv, EventsHaveCauses
  <2>5. RowsHaveCauses'
    BY <2>1 DEF CauseInv, RowsHaveCauses
  <2> QED BY <2>4, <2>5
<1>2. ASSUME NEW t \in Topic, NEW e \in Entity, NEW again \in BOOLEAN,
             Publish(t, e, again)
      PROVE  EventsHaveCauses' /\ RowsHaveCauses'
  <2>1. /\ <<t, e>> \in announced /\ announced' \subseteq announced
        /\ UNCHANGED <<life, row>>
    BY <1>2 DEF Publish, tableVars
  <2>2. Cause(t, e)
    BY <2>1 DEF CauseInv, EventsHaveCauses
  <2>3. \A q \in Topic : \A i \in DOMAIN log'[q] : Cause(q, log'[q][i])
    <3>1. \A q \in Topic : \A i \in DOMAIN log'[q] :
            \/ i \in DOMAIN log[q] /\ log'[q][i] = log[q][i]
            \/ q = t /\ log'[q][i] = e
      BY <1>2, <1>t, PublishAppends
    <3> QED BY <3>1, <2>2 DEF CauseInv, EventsHaveCauses
  <2> QED BY <2>1, <2>3 DEF CauseInv, EventsHaveCauses, RowsHaveCauses, Cause
<1>3. ASSUME NEW t \in Topic, Write(t) PROVE EventsHaveCauses' /\ RowsHaveCauses'
  <2> DEFINE e == Message(t)
  <2>1. e \in Entity /\ Cause(t, e)
    <3>0. next[t] \in Nat /\ log[t] \in Seq(Entity) /\ next[t] < Len(log[t])
      BY <1>3, <1>t DEF TypeOK, Write, HasMessage
    <3>1. next[t] + 1 \in 1..Len(log[t]) /\ log[t] \in Seq(Entity)
      BY <3>0
    <3>2. next[t] + 1 \in DOMAIN log[t] /\ e \in Entity
      BY <3>1 DEF Message
    <3> QED BY <3>2 DEF CauseInv, EventsHaveCauses, Message
  <2>2. /\ row'[e] = IF t \in DeletedTopics THEN "deleted" ELSE Upserted(e)
        /\ \A f \in Entity : f # e => row'[f] = row[f]
        /\ UNCHANGED <<life, announced, log>>
    BY <1>3, <1>t, <2>1 DEF TypeOK, Write, Tombstoned, ownerVars
  <2> HIDE DEF e
  <2>3. RowsHaveCauses'
    BY <2>1, <2>2 DEF CauseInv, RowsHaveCauses, Cause, Upserted
  <2> QED BY <2>2, <2>3 DEF CauseInv, EventsHaveCauses, Cause
<1>4. CASE LoseTable
  BY <1>4 DEF LoseTable, ownerVars, CauseInv, EventsHaveCauses, RowsHaveCauses, Cause
<1>5. ASSUME \/ UNCHANGED vars \/ Start \/ CommitOffsets \/ Crash \/ Age \/ Read
             \/ \E t \in Topic : Stamp(t) \/ ApplyFails(t)
      PROVE  EventsHaveCauses' /\ RowsHaveCauses'
  <2>1. UNCHANGED <<life, announced, log, row>>
    BY <1>5 DEF vars, Start, CommitOffsets, Crash, Age, Read, Stamp, ApplyFails,
                Lookup, Judge, ownerVars, tableVars
  <2> QED BY <2>1, SameEventsSameCauses
<1> QED
  BY <1>1, <1>2, <1>3, <1>4, <1>5 DEF Next, Owner, Consumer, Consume

\* A tombstone outlives every event that can still arrive.
THEOREM TombstonesLast == Spec => TombstoneIsFinal
<1>1. ASSUME TypeOK, [Next]_vars, NEW e \in Entity, row[e] = "deleted", losses' = losses
      PROVE  row'[e] = "deleted"
  <2>1. ASSUME NEW t \in Topic, Write(t) PROVE row'[e] = "deleted"
    BY <1>1, <2>1 DEF TypeOK, Write, Upserted, Tombstoned
  <2>2. CASE LoseTable
    BY <1>1, <2>2 DEF LoseTable, TypeOK
  <2>3. ASSUME ~LoseTable, ~ \E t \in Topic : Write(t) PROVE UNCHANGED row
    BY <1>1, <2>3 DEF Next, Owner, Consumer, Consume, Read, vars, Start, CommitOffsets,
       Crash, Age, Stamp, ApplyFails, Lookup, Judge, Create, Delete, Publish, tableVars
  <2> QED BY <1>1, <2>1, <2>2, <2>3
<1>2. TypeOK /\ [Next]_vars =>
        [\A e \in Entity : row[e] = "deleted" /\ losses' = losses
                             => row'[e] = "deleted"]_vars
  BY <1>1
<1> QED BY <1>2, TypeCorrect, PTL DEF Spec, TombstoneIsFinal

-----------------------------------------------------------------------------
(* A consumer whose group had offsets, and whose failures escape.           *)

LEMMA IndInit == ASSUME Established, Init PROVE IndInv
<1>1. CauseInv /\ losses = 0 /\ writing = {}
  BY CauseInit DEF Init
<1>2. \A t \in Topic : log[t] = <<>> /\ next[t] = 0 /\ committed[t] = 0
  BY DEF Init
<1>3. Positions
  BY <1>2 DEF Positions
<1>4. PassedIsReflected
  BY <1>2 DEF PassedIsReflected, Behind
<1>5. MissesAreDeletions
  BY DEF Init, MissesAreDeletions, Waiting
<1> QED BY <1>1, <1>3, <1>4, <1>5 DEF IndInv, InFlight

\* The log of every topic, with its length as a number.
LEMMA LogLengths == ASSUME TypeOK PROVE \A t \in Topic : Len(log[t]) \in Nat
BY DEF TypeOK

\* What the table tells it goes on telling, unless it is lost.
LEMMA ToldStaysTold ==
    ASSUME TypeOK, [Next]_vars, losses' = losses, NEW t \in Topic, NEW e \in Entity,
           Told(t, e)
    PROVE  Told(t, e)'
<1>1. ASSUME NEW q \in Topic, Write(q) PROVE Told(t, e)'
  BY <1>1 DEF TypeOK, Write, Told, Upserted, Tombstoned
<1>2. CASE LoseTable
  BY <1>2 DEF LoseTable, TypeOK
<1>3. CASE ~LoseTable /\ ~ \E q \in Topic : Write(q)
  <2>1. UNCHANGED row
    BY <1>3 DEF Next, Owner, Consumer, Consume, Read, vars, Start, CommitOffsets,
       Crash, Age, Stamp, ApplyFails, Lookup, Judge, Create, Delete, Publish, tableVars
  <2> QED BY <2>1 DEF Told
<1> QED BY <1>1, <1>2, <1>3

\* The message the handler wrote is told by the table.
LEMMA WriteTells ==
    ASSUME TypeOK, NEW t \in Topic, Write(t)
    PROVE  Told(t, Message(t))' /\ Message(t)' = Message(t)
<1>1. next[t] \in Nat /\ log[t] \in Seq(Entity) /\ next[t] < Len(log[t])
  BY DEF TypeOK, Write, HasMessage
<1>2. Message(t) \in Entity
  BY <1>1 DEF Message
<1>3. UNCHANGED <<log, next>>
  BY DEF Write, ownerVars
<1>4. row'[Message(t)] = IF t \in DeletedTopics THEN "deleted" ELSE Upserted(Message(t))
  BY <1>2 DEF TypeOK, Write, Tombstoned
<1>5. Message(t)' = Message(t)
  BY <1>3 DEF Message
<1>6. Told(t, Message(t))'
  BY <1>2, <1>4, <1>5 DEF Told, Upserted
<1> QED BY <1>5, <1>6

LEMMA PositionsStep ==
    ASSUME IndInv, [Next]_vars PROVE Positions'
<1>t. /\ TypeOK /\ TypeOK'
      /\ \A t \in Topic : Len(log[t]) \in Nat /\ next[t] \in Nat
  BY TypeStep, LogLengths DEF IndInv, CauseInv, TypeOK
<1>p. Positions /\ InFlight
  BY DEF IndInv
<1>1. ASSUME NEW t \in Topic, NEW e \in Entity, NEW again \in BOOLEAN,
             Publish(t, e, again)
      PROVE  Positions'
  <2>1. \A q \in Topic : Len(log[q]) <= Len(log'[q]) /\ Len(log'[q]) \in Nat
    BY <1>1, <1>t, PublishAppends
  <2>2. UNCHANGED <<up, next, committed>>
    BY <1>1 DEF Publish, consumerVars
  <2> QED BY <1>p, <1>t, <2>1, <2>2 DEF Positions
<1>2. CASE Start
  <2>1. next' = committed /\ UNCHANGED <<log, committed>>
    <3>1. \A t \in Topic : StartAt(t) = committed[t]
      BY <1>p DEF Positions, StartAt, NoOffset
    <3> QED BY <1>2, <1>t, <3>1 DEF Start, ownerVars, TypeOK
  <2> QED BY <1>p, <2>1 DEF Positions
<1>3. ASSUME NEW t \in Topic, Stamp(t) \/ ApplyFails(t) PROVE Positions'
  <2>1. /\ next[t] < Len(log[t])
        /\ next' = next \/ next' = [next EXCEPT ![t] = @ + 1]
        /\ UNCHANGED <<log, up, committed>>
    BY <1>3, <1>p DEF Stamp, ApplyFails, Advance, InFlight, HasMessage, ownerVars
  <2>2. \A q \in Topic : next'[q] = next[q] \/ (q = t /\ next'[q] = next[q] + 1)
    BY <2>1, <1>t DEF TypeOK
  <2> QED BY <1>p, <1>t, <2>1, <2>2 DEF Positions
<1>4. CASE CommitOffsets
  <2>1. \A t \in Topic : committed'[t] \in {next[t], committed[t]}
    BY <1>4 DEF CommitOffsets
  <2>2. UNCHANGED <<log, up, next>>
    BY <1>4 DEF CommitOffsets, ownerVars
  <2> QED BY <1>p, <1>t, <2>1, <2>2 DEF Positions
<1>5. CASE Crash
  BY <1>5, <1>p DEF Crash, Positions, ownerVars
<1>6. ASSUME \/ UNCHANGED vars \/ LoseTable \/ Age \/ Read
             \/ \E e \in Entity : Create(e) \/ Delete(e)
             \/ \E t \in Topic : Write(t)
      PROVE  Positions'
  <2>1. UNCHANGED <<log, up, next, committed>>
    BY <1>6 DEF vars, LoseTable, Age, Read, Lookup, Judge, Create, Delete, Write,
                ownerVars, consumerVars
  <2> QED BY <1>p, <2>1 DEF Positions
<1> QED BY <1>1, <1>2, <1>3, <1>4, <1>5, <1>6 DEF Next, Owner, Consumer, Consume

LEMMA InFlightStep ==
    ASSUME IndInv, [Next]_vars PROVE InFlight'
<1>t. /\ TypeOK /\ TypeOK'
      /\ \A t \in Topic : Len(log[t]) \in Nat /\ next[t] \in Nat
  BY TypeStep, LogLengths DEF IndInv, CauseInv, TypeOK
<1>p. InFlight
  BY DEF IndInv
<1>1. ASSUME NEW t \in Topic, NEW e \in Entity, NEW again \in BOOLEAN,
             Publish(t, e, again)
      PROVE  InFlight'
  <2>1. UNCHANGED <<up, next, writing, row, losses>>
    BY <1>1 DEF Publish, consumerVars, tableVars, boundVars
  <2>2. \A q \in writing : /\ next[q] < Len(log[q])
                           /\ next[q] + 1 \in DOMAIN log[q]
    <3> SUFFICES ASSUME NEW q \in writing
                 PROVE  next[q] < Len(log[q]) /\ next[q] + 1 \in DOMAIN log[q]
      OBVIOUS
    <3>1. q \in Topic /\ log[q] \in Seq(Entity)
      BY <1>t DEF TypeOK
    <3>2. next[q] < Len(log[q])
      BY <1>p DEF InFlight
    <3>3. next[q] \in Nat /\ Len(log[q]) \in Nat
      BY <1>t, <3>1
    <3> QED BY <3>1, <3>2, <3>3
  <2>3. \A q \in writing : /\ Len(log[q]) <= Len(log'[q])
                           /\ log'[q][next[q] + 1] = log[q][next[q] + 1]
                           /\ Len(log'[q]) \in Nat
    <3>1. writing \subseteq Topic /\ log' \in [Topic -> Seq(Entity)]
      BY <1>t DEF TypeOK
    <3>2. \A q \in writing : Len(log'[q]) \in Nat
      BY <3>1
    <3> QED BY <1>1, <1>t, <2>2, <3>1, <3>2, PublishAppends
  <2>4. \A q \in writing : next'[q] < Len(log'[q])
    BY <2>1, <2>2, <2>3, <1>t DEF TypeOK
  <2>5. \A q \in writing : Message(q)' = Message(q)
    BY <2>1, <2>3 DEF Message
  <2> QED BY <1>p, <2>1, <2>4, <2>5 DEF InFlight, Told
<1>2. ASSUME NEW t \in Topic, Write(t) PROVE InFlight'
  <2>1. /\ writing' = {t} /\ up' /\ next'[t] < Len(log'[t])
    BY <1>2 DEF Write, HasMessage, ownerVars
  <2> QED BY <1>2, <2>1, <1>t, WriteTells DEF InFlight
<1>3. ASSUME \/ Crash \/ \E t \in Topic : Stamp(t) \/ ApplyFails(t)
      PROVE  InFlight'
  BY <1>3 DEF Crash, Stamp, ApplyFails, InFlight
<1>4. CASE Start \/ LoseTable
  <2>1. writing = {}
    BY <1>4, <1>p DEF InFlight, Start, LoseTable
  <2>2. writing' = {}
    BY <1>4, <2>1 DEF Start, LoseTable, consumerVars
  <2> QED BY <2>2 DEF InFlight
<1>5. ASSUME \/ UNCHANGED vars \/ CommitOffsets \/ Age \/ Read
             \/ \E e \in Entity : Create(e) \/ Delete(e)
      PROVE  InFlight'
  <2>1. UNCHANGED <<log, up, next, writing, row, losses>>
    BY <1>5 DEF vars, CommitOffsets, Age, Read, Lookup, Judge, Create, Delete,
                ownerVars, consumerVars, tableVars, boundVars
  <2> QED BY <1>p, <2>1 DEF InFlight, Told, Message
<1> QED BY <1>1, <1>2, <1>3, <1>4, <1>5 DEF Next, Owner, Consumer, Consume

LEMMA LossesCount ==
    ASSUME TypeOK, [Next]_vars, losses' = 0 PROVE losses = 0
<1>1. CASE LoseTable
  BY <1>1 DEF LoseTable, TypeOK
<1>2. CASE ~LoseTable
  <2>1. UNCHANGED losses
    BY <1>2 DEF Next, Owner, Consumer, Consume, Read, vars, Start, CommitOffsets,
       Crash, Age, Stamp, ApplyFails, Lookup, Judge, Create, Delete, Publish, Write,
       boundVars
  <2> QED BY <2>1
<1> QED BY <1>1, <1>2

\* The heart of it: nothing the group will not read again is missing.
LEMMA PassedStep ==
    ASSUME IndInv, [Next]_vars, Positions', ~ErrorsSwallowed
    PROVE  PassedIsReflected'
<1>t. /\ TypeOK /\ TypeOK'
      /\ \A t \in Topic : Len(log[t]) \in Nat /\ next[t] \in Nat
  BY TypeStep, LogLengths DEF IndInv, CauseInv, TypeOK
<1>p. PassedIsReflected /\ InFlight /\ Positions
  BY DEF IndInv
<1> SUFFICES ASSUME losses' = 0, NEW t \in Topic, NEW i \in 1..Behind(t)',
                    i \in DOMAIN log'[t]
             PROVE  Told(t, log[t][i])'
  BY DEF PassedIsReflected
<1>l. losses = 0 /\ losses' = losses
  BY <1>t, LossesCount
<1>i. i \in Nat /\ i >= 1 /\ i <= Behind(t)'
  <2>1. Behind(t)' \in Nat
    BY <1>t DEF Behind, Positions, TypeOK
  <2> QED BY <2>1
\* It is enough that the old table tells the message, at its old place.
<1>k. ASSUME i \in 1..Behind(t) PROVE Told(t, log[t][i])'
  <2>1. i \in DOMAIN log[t] /\ log[t][i] \in Entity
    <3>1. log[t] \in Seq(Entity) /\ Behind(t) \in 0..Len(log[t])
      BY <1>t, <1>p DEF TypeOK, Positions, Behind
    <3> QED BY <1>k, <3>1, <1>t
  <2>2. Told(t, log[t][i])
    BY <1>k, <1>l, <1>p, <2>1 DEF PassedIsReflected
  <2>3. log'[t][i] = log[t][i]
    <3>1. CASE UNCHANGED log
      BY <3>1
    <3>2. ASSUME NEW q \in Topic, NEW e \in Entity, NEW again \in BOOLEAN,
                 Publish(q, e, again)
          PROVE  log'[t][i] = log[t][i]
      BY <3>2, <1>t, <2>1, PublishAppends
    <3> QED BY <3>1, <3>2 DEF Next, Owner, Consumer, Consume, Read, vars, Start,
         CommitOffsets, Crash, Age, Stamp, ApplyFails, Lookup, Judge, Create, Delete,
         Write, LoseTable, ownerVars
  <2> QED BY <1>l, <1>t, <2>1, <2>2, <2>3, ToldStaysTold
<1>1. CASE Stamp(t)
  <2>1. /\ up /\ up' /\ UNCHANGED <<log, row>>
        /\ next'[t] = next[t] + 1 /\ t \in writing
    BY <1>1, <1>p, <1>t DEF Stamp, Advance, InFlight, ownerVars, TypeOK
  <2>2. CASE i = next[t] + 1
    <3>1. Told(t, Message(t)) /\ log'[t][i] = Message(t)
      BY <1>p, <1>l, <2>1, <2>2 DEF InFlight, Message
    <3> QED BY <3>1, <2>1 DEF Told
  <2>3. CASE i # next[t] + 1
    <3>1. i \in 1..Behind(t)
      BY <2>1, <2>3, <1>i, <1>t DEF Behind
    <3> QED BY <3>1, <1>k
  <2> QED BY <2>2, <2>3
<1>2. CASE Start
  <2>1. \A q \in Topic : StartAt(q) = committed[q]
    BY <1>p DEF Positions, StartAt, NoOffset
  <2>2. Behind(t)' = Behind(t)
    BY <1>2, <2>1 DEF Start, Behind
  <2> QED BY <2>2, <1>k
<1>3. CASE Crash
  <2>1. Behind(t)' = committed[t] /\ Behind(t) = next[t] /\ committed[t] <= next[t]
    BY <1>3, <1>p DEF Crash, Behind, Positions
  <2>2. committed[t] \in Int
    BY <1>p, <1>t DEF Positions
  <2> QED BY <2>1, <2>2, <1>i, <1>t, <1>k
<1>4. ASSUME ~Stamp(t), ~Start, ~Crash PROVE Behind(t)' = Behind(t)
  <2>1. CASE \E q \in Topic : Stamp(q)
    <3>1. PICK q \in Topic : Stamp(q)
      BY <2>1
    <3>2. q # t
      BY <1>4, <3>1
    <3>3. next'[t] = next[t] /\ UNCHANGED <<up, committed>>
      BY <1>t, <3>1, <3>2 DEF Stamp, Advance, TypeOK
    <3> QED BY <3>3 DEF Behind
  <2>2. CASE CommitOffsets
    BY <2>2 DEF CommitOffsets, Behind
  <2>3. CASE \E q \in Topic : ApplyFails(q)
    BY <2>3 DEF ApplyFails, Behind
  <2>4. CASE UNCHANGED consumerVars \/ \E q \in Topic : Write(q)
    BY <2>4 DEF consumerVars, Write, Behind
  <2> QED BY <1>4, <2>1, <2>2, <2>3, <2>4 DEF Next, Owner, Consumer, Consume, Read, vars,
       LoseTable, Age, Lookup, Judge, Create, Delete, Publish, consumerVars
<1> QED BY <1>1, <1>2, <1>3, <1>4, <1>k

LEMMA MissStep ==
    ASSUME IndInv, [Next]_vars PROVE MissesAreDeletions'
<1>t. /\ TypeOK /\ TypeOK'
      /\ \A t \in Topic : Len(log[t]) \in Nat /\ next[t] \in Nat
  BY TypeStep, LogLengths DEF IndInv, CauseInv, TypeOK
<1>p. MissesAreDeletions /\ PassedIsReflected /\ RowsHaveCauses
  BY DEF IndInv, CauseInv
<1>l. losses' = 0 => losses = 0
  BY <1>t, LossesCount
<1>1. ASSUME NEW r \in Reader, NEW e \in Entity, NEW tn \in Tenant \cup {NoTenant},
             Lookup(r, e, tn)
      PROVE  MissesAreDeletions'
  <2> SUFFICES ASSUME losses' = 0, NEW q \in Reader,
                      reader'[q].pc \in {"missed", "rejected"}, reader'[q].seen,
                      TenantFits(q)'
               PROVE  life'[reader'[q].entity] = "deleted"
    BY DEF MissesAreDeletions
  <2>1. UNCHANGED <<life, row, log, next, losses>>
    BY <1>1 DEF Lookup, ownerVars, tableVars, consumerVars, boundVars
  <2>2. CASE q # r
    <3>1. reader'[q] = reader[q]
      BY <1>1, <2>2, <1>t DEF Lookup, TypeOK
    <3> QED BY <3>1, <2>1, <1>p, <1>l DEF MissesAreDeletions, TenantFits
  <2>3. CASE q = r
    <3>1. /\ reader'[q].pc = (IF Has(e, tn) THEN "accepted" ELSE "missed")
          /\ reader'[q].entity = e /\ reader'[q].tenant = tn
          /\ reader'[q].seen = (up /\ Passed(e))
      BY <1>1, <2>3, <1>t DEF Lookup, TypeOK
    <3>2. ~Has(e, tn) /\ up /\ Passed(e)
      BY <3>1
    <3>3. row[e] # "none"
      <4>1. PICK i \in 1..next[CreatedTopic[e]] :
                i \in DOMAIN log[CreatedTopic[e]] /\ log[CreatedTopic[e]][i] = e
        BY <3>2 DEF Passed
      <4>2. CreatedTopic[e] \in Topic /\ CreatedTopic[e] \in CreatedTopics
        BY DEF CreatedTopics
      <4>3. Told(CreatedTopic[e], e)
        BY <1>p, <1>l, <3>2, <4>1, <4>2 DEF PassedIsReflected, Behind
      <4> QED BY <4>2, <4>3 DEF Told
    <3>4. NoTenant \in {tn, TenantOf[e]} \/ tn = TenantOf[e]
      BY <3>1 DEF TenantFits
    <3>5. row[e] # "active"
      BY <3>2, <3>4 DEF Has
    <3>6. row[e] = "deleted"
      BY <3>3, <3>5, <1>t DEF TypeOK
    <3> QED BY <3>1, <3>6, <2>1, <1>p DEF RowsHaveCauses
  <2> QED BY <2>2, <2>3
<1>2. ASSUME NEW r \in Reader, Judge(r) PROVE MissesAreDeletions'
  <2>1. /\ reader[r].pc = "missed" /\ reader[r] \in Asks
        /\ UNCHANGED <<life, losses>>
    BY <1>2, <1>t DEF Judge, TypeOK, Waiting, ownerVars, boundVars
  <2>2. /\ reader'[r].entity = reader[r].entity
        /\ reader'[r].tenant = reader[r].tenant
        /\ reader'[r].seen = reader[r].seen
    BY <1>2, <1>t, <2>1 DEF Judge, TypeOK, Asks
  <2>3. \A q \in Reader : q # r => reader'[q] = reader[q]
    BY <1>2, <1>t DEF Judge, TypeOK
  <2> QED BY <1>p, <1>l, <2>1, <2>2, <2>3 DEF MissesAreDeletions, TenantFits
<1>3. ASSUME UNCHANGED reader PROVE MissesAreDeletions'
  <2>1. \A e \in Entity : life[e] = "deleted" => life'[e] = "deleted"
    BY <1>t DEF TypeOK, Next, Owner, Consumer, Consume, Read, vars, Start, CommitOffsets,
       Crash, Age, Stamp, ApplyFails, Lookup, Judge, Create, Delete, Publish, Write,
       LoseTable, ownerVars
  <2>2. \A r \in Reader : reader[r].pc \in {"missed", "rejected"}
                            => reader[r].entity \in Entity
    BY <1>t DEF TypeOK, Asks, Waiting
  <2> QED BY <1>3, <1>p, <1>l, <2>1, <2>2 DEF MissesAreDeletions, TenantFits
<1> QED
  BY <1>1, <1>2, <1>3 DEF Next, Owner, Consumer, Consume, Read, vars, Start,
     CommitOffsets, Crash, Age, Stamp, ApplyFails, Create, Delete, Publish, Write,
     LoseTable

\* The inductive invariant of a projection whose failures escape.
THEOREM IndInvariant ==
    ASSUME Established, ~ErrorsSwallowed PROVE Spec => []IndInv
<1>1. Init => IndInv
  BY IndInit
<1>2. ASSUME IndInv, [Next]_vars PROVE IndInv'
  <2>1. CauseInv'
    BY <1>2, CauseStep DEF IndInv
  <2>2. Positions' /\ InFlight'
    BY <1>2, PositionsStep, InFlightStep
  <2>3. PassedIsReflected'
    BY <1>2, <2>2, PassedStep
  <2>4. MissesAreDeletions'
    BY <1>2, MissStep
  <2> QED BY <2>1, <2>2, <2>3, <2>4 DEF IndInv
<1> QED BY <1>1, <1>2, PTL DEF Spec

\* What the group has passed is in the table.
THEOREM Reflection ==
    ASSUME Established, ~ErrorsSwallowed PROVE Spec => []PassedIsReflected
<1>1. IndInv => PassedIsReflected
  BY DEF IndInv
<1> QED BY <1>1, IndInvariant, PTL

\* Nobody is turned away over an entity whose creation was already consumed.
THEOREM FalseRejects ==
    ASSUME Established, ~ErrorsSwallowed PROVE Spec => []NoFalseReject
<1>1. IndInv => NoFalseReject
  BY DEF IndInv, MissesAreDeletions, TenantFits, NoFalseReject
<1> QED BY <1>1, IndInvariant, PTL

-----------------------------------------------------------------------------
\* An index that was never told anything has turned nobody away.  The stamp says
\* "never" again only with the loss of the table.
NeverInv == TypeOK /\ NeverAppliedNeverRejects

LEMMA NeverInit == Init => NeverInv
BY TypeInit DEF NeverInv, NeverAppliedNeverRejects, Init, Waiting

LEMMA NeverStep == ASSUME NeverInv, [Next]_vars PROVE NeverInv'
<1>t. TypeOK /\ TypeOK'
  BY TypeStep DEF NeverInv
<1>p. NeverAppliedNeverRejects
  BY DEF NeverInv
<1> SUFFICES NeverAppliedNeverRejects'
  BY <1>t DEF NeverInv
<1>1. ASSUME NEW r \in Reader, NEW e \in Entity, NEW tn \in Tenant \cup {NoTenant},
             Lookup(r, e, tn)
      PROVE  NeverAppliedNeverRejects'
  <2>1. reader'[r].pc # "rejected" /\ \A q \in Reader : q # r => reader'[q] = reader[q]
    BY <1>1, <1>t DEF Lookup, TypeOK
  <2>2. UNCHANGED <<applied, losses>>
    BY <1>1 DEF Lookup, tableVars, boundVars
  <2> QED BY <1>p, <2>1, <2>2 DEF NeverAppliedNeverRejects
<1>2. ASSUME NEW r \in Reader, Judge(r) PROVE NeverAppliedNeverRejects'
  <2>1. UNCHANGED <<applied, losses>> /\ reader[r].pc = "missed"
    BY <1>2 DEF Judge, tableVars, boundVars
  <2>2. reader[r] \in Asks
    BY <1>t, <2>1 DEF TypeOK, Waiting
  <2>3. /\ applied # "recent" => reader'[r].pc # "rejected"
        /\ \A q \in Reader : q # r => reader'[q] = reader[q]
    BY <1>2, <1>t, <2>2 DEF Judge, TypeOK, Asks
  <2> QED BY <1>p, <2>1, <2>3 DEF NeverAppliedNeverRejects
<1>3. CASE LoseTable
  <2>1. losses \in Nat
    BY <1>t DEF TypeOK
  <2>2. losses' = losses + 1
    BY <1>3 DEF LoseTable
  <2> QED BY <2>1, <2>2 DEF NeverAppliedNeverRejects
<1>4. ASSUME UNCHANGED <<reader, losses>>, applied' # "never" \/ applied' = applied
      PROVE  NeverAppliedNeverRejects'
  BY <1>4, <1>p DEF NeverAppliedNeverRejects
<1> QED
  BY <1>t, <1>1, <1>2, <1>3, <1>4 DEF Next, Owner, Consumer, Consume, Read,
     vars, Start, CommitOffsets, Crash, Age, Stamp, ApplyFails, Create, Delete,
     Publish, Write, tableVars, boundVars

\* A projection without any event, a fresh or an unreachable one, takes no write
\* path down, whatever the offsets are and whether or not failures escape.
THEOREM Degrades == Spec => []NeverAppliedNeverRejects
<1>1. Init => NeverInv
  BY NeverInit
<1>2. NeverInv /\ [Next]_vars => NeverInv'
  BY NeverStep
<1>3. NeverInv => NeverAppliedNeverRejects
  BY DEF NeverInv
<1> QED BY <1>1, <1>2, <1>3, PTL DEF Spec
=============================================================================
