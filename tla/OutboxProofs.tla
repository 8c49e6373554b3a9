---------------------------- MODULE OutboxProofs ----------------------------
(***************************************************************************)
(* Proofs about Outbox for any number of transactions, rows, replicas and  *)
(* partitions, any batch size and any attempt limit.                       *)
(***************************************************************************)
EXTENDS Outbox, FiniteSetTheorems, SequenceTheorems, TLAPS

\* Replicas hold disjoint rows, all of them pending, and a row leaves todo for
\* exactly one write: what FOR UPDATE SKIP LOCKED gives the drain's transaction.
ClaimInv ==
    /\ \A r, q \in Replica : r # q => Held(r) \cap Held(q) = {}
    /\ \A r \in Replica : \A e \in Held(r) : status[e] = "pending"
    /\ \A r \in Replica : \A e \in todo[r] : wrote[r][e] = "none"

\* A row exists from the moment its transaction commits.
RowInv ==
    /\ \A e \in Event : status[e] = "absent" <=> txn[TxnOf[e]] # "committed"
    /\ \A e \in Event : inline[e] \in Publishing => status[e] # "absent"
    /\ \A e \in Event : inline[e] # "none" => e \in InlineEvent

\* What an open pass wrote, and what it and the inline publishers have already
\* done to Kafka.
PassInv ==
    /\ \A e \in Event : inline[e] = "published" => e \in Delivered
    /\ \A r \in Replica, e \in Event :
          wrote[r][e] = "sent" => e \in Delivered
    /\ \A r \in Replica, e \in Event :
          wrote[r][e] = "pending" => attempts[e] + 1 < MaxAttempts
    /\ \A r \in Replica, e \in Event :
          wrote[r][e] = "failed" => attempts[e] + 1 = MaxAttempts

AttemptInv ==
    /\ \A e \in Event : status[e] = "absent" => attempts[e] = 0
    /\ \A e \in Event : status[e] = "failed" => attempts[e] = MaxAttempts
    /\ \A e \in Event : status[e] = "pending" => attempts[e] < MaxAttempts
    /\ \A e \in Relayed : e \in dlq => attempts[e] + 1 >= MaxAttempts

\* The inductive invariant: the claimed properties and what they rest on.
IndInv ==
    /\ TypeOK
    /\ ClaimInv
    /\ RowInv
    /\ PassInv
    /\ AttemptInv
    /\ NoPhantomEvent
    /\ SentIsDelivered

USE OutboxAssumption

-----------------------------------------------------------------------------
\* A store appends its records to its partition and touches no other.
LEMMA StoreAppends ==
    ASSUME TypeOK, NEW p \in Partition, NEW e \in Event, NEW n \in Nat, Store(p, e, n)
    PROVE  /\ log' \in [Partition -> Seq(Event)]
           /\ \A q \in Partition : q # p => log'[q] = log[q]
           /\ DOMAIN log'[p] = DOMAIN log[p] \cup (Len(log[p]) + 1 .. Len(log[p]) + n)
           /\ \A i \in DOMAIN log[p] : log'[p][i] = log[p][i]
           /\ \A i \in Len(log[p]) + 1 .. Len(log[p]) + n :
                 i \in Nat /\ i \notin DOMAIN log[p] /\ log'[p][i] = e
<1> DEFINE new == [i \in 1..n |-> e]
<1>1. /\ log \in [Partition -> Seq(Event)]
      /\ log' = [log EXCEPT ![p] = log[p] \o new]
  BY DEF TypeOK, Store
<1>2. new \in Seq(Event) /\ Len(new) = n /\ \A i \in 1..n : new[i] = e
  OBVIOUS
<1> HIDE DEF new
<1>3. log[p] \in Seq(Event) /\ Len(log[p]) \in Nat /\ DOMAIN log[p] = 1..Len(log[p])
  BY <1>1
<1>4. /\ log[p] \o new \in Seq(Event)
      /\ Len(log[p] \o new) = Len(log[p]) + n
      /\ \A i \in 1..Len(log[p]) + n :
            (log[p] \o new)[i] = IF i <= Len(log[p]) THEN log[p][i]
                                                   ELSE new[i - Len(log[p])]
  BY <1>2, <1>3, ConcatProperties
<1>5. log'[p] = log[p] \o new
  BY <1>1
<1>6. DOMAIN log'[p] = 1..Len(log[p]) + n
  BY <1>4, <1>5
<1>7. \A i \in Len(log[p]) + 1 .. Len(log[p]) + n :
          i \in Nat /\ i \notin DOMAIN log[p] /\ log'[p][i] = e
  BY <1>2, <1>3, <1>4, <1>5
<1>8. \A i \in DOMAIN log[p] : log'[p][i] = log[p][i]
  BY <1>3, <1>4, <1>5
<1>9. DOMAIN log'[p] = DOMAIN log[p] \cup (Len(log[p]) + 1 .. Len(log[p]) + n)
  BY <1>3, <1>6
<1>10. log' \in [Partition -> Seq(Event)]
  BY <1>1, <1>4
<1>11. \A q \in Partition : q # p => log'[q] = log[q]
  BY <1>1
<1> QED BY <1>7, <1>8, <1>9, <1>10, <1>11

\* Storing records makes exactly their row delivered.
LEMMA StoreDelivers ==
    ASSUME TypeOK, NEW p \in Partition, NEW e \in Event, NEW n \in Nat, Store(p, e, n)
    PROVE  Delivered' = IF n = 0 THEN Delivered ELSE Delivered \cup {e}
<1> DEFINE places == Len(log[p]) + 1 .. Len(log[p]) + n
<1>1. /\ \A q \in Partition : q # p => log'[q] = log[q]
      /\ DOMAIN log'[p] = DOMAIN log[p] \cup places
      /\ \A i \in DOMAIN log[p] : log'[p][i] = log[p][i]
      /\ \A i \in places : log'[p][i] = e
  BY StoreAppends
<1>2. places = {} <=> n = 0
  <2>1. Len(log[p]) \in Nat
    BY DEF TypeOK
  <2>2. CASE n = 0
    BY <2>1, <2>2
  <2>3. CASE n # 0
    <3>1. Len(log[p]) + 1 \in places
      BY <2>1, <2>3
    <3> QED BY <2>3, <3>1
  <2> QED BY <2>2, <2>3
<1> HIDE DEF places
<1>3. Delivered' \subseteq Delivered \cup {e}
  <2> SUFFICES ASSUME NEW f \in Event, NEW q \in Partition, NEW i \in DOMAIN log'[q],
                      log'[q][i] = f, f # e
               PROVE  f \in Delivered
    BY DEF Delivered
  <2>1. i \in DOMAIN log[q] /\ log[q][i] = f
    BY <1>1
  <2> QED BY <2>1 DEF Delivered
<1>4. Delivered \subseteq Delivered'
  <2> SUFFICES ASSUME NEW f \in Event, NEW q \in Partition, NEW i \in DOMAIN log[q],
                      log[q][i] = f
               PROVE  f \in Delivered'
    BY DEF Delivered
  <2>1. i \in DOMAIN log'[q] /\ log'[q][i] = f
    BY <1>1
  <2> QED BY <2>1 DEF Delivered
<1>5. CASE n = 0
  <2>1. Delivered' \subseteq Delivered
    <3> SUFFICES ASSUME NEW f \in Event, NEW q \in Partition, NEW i \in DOMAIN log'[q],
                        log'[q][i] = f
                 PROVE  f \in Delivered
      BY DEF Delivered
    <3>1. i \in DOMAIN log[q] /\ log[q][i] = f
      BY <1>1, <1>2, <1>5
    <3> QED BY <3>1 DEF Delivered
  <2> QED BY <1>4, <1>5, <2>1
<1>6. CASE n # 0
  <2>1. PICK i \in places : TRUE
    BY <1>2, <1>6
  <2>2. i \in DOMAIN log'[p] /\ log'[p][i] = e
    BY <1>1
  <2>3. e \in Delivered'
    BY <2>2 DEF Delivered
  <2> QED BY <1>3, <1>4, <1>6, <2>3
<1> QED BY <1>5, <1>6

\* A step that leaves the log alone leaves what is delivered alone.
LEMMA SameLogSameDelivered == ASSUME log' = log PROVE Delivered' = Delivered
BY DEF Delivered

\* Where a try of the relay goes: its key's partition, any number of times.
LEMMA TryStores ==
    ASSUME TypeOK, NEW r \in Replica, NEW e \in Event, Publish(r, e)
    PROVE  /\ KeyPartition[e] \in Partition
           /\ \E n \in Nat : Store(KeyPartition[e], e, n)
           /\ log' \in [Partition -> Seq(Event)]
           /\ resends' \in [Event -> Nat]
           /\ Delivered' \in {Delivered, Delivered \cup {e}}
<1>1. KeyPartition[e] \in Partition
  OBVIOUS
<1>2. PICK n \in 0..MaxResends + 1 :
         PublishOk(r, e, n) \/ \E toDlq \in BOOLEAN : PublishFail(r, e, n, toDlq)
  BY DEF Publish
<1>3. n \in Nat
  OBVIOUS
<1>4. Store(KeyPartition[e], e, n)
  BY <1>2 DEF PublishOk, PublishFail
<1>5. \E k \in Nat : Resend(e, k)
  <2>1. CASE PublishOk(r, e, n)
    <3>1. Resend(e, n - 1) /\ n - 1 \in Nat
      BY <1>3, <2>1 DEF PublishOk
    <3> QED BY <3>1
  <2>2. CASE \E toDlq \in BOOLEAN : PublishFail(r, e, n, toDlq)
    <3> DEFINE k == IF n = 0 THEN 0 ELSE n - 1
    <3>1. Resend(e, k)
      BY <2>2 DEF PublishFail
    <3>2. k \in Nat
      BY <1>3
    <3> HIDE DEF k
    <3> QED BY <3>1, <3>2
  <2> QED BY <1>2, <2>1, <2>2
<1>6. resends' \in [Event -> Nat]
  BY <1>5 DEF TypeOK, Resend
<1> QED BY <1>1, <1>3, <1>4, <1>6, StoreAppends, StoreDelivers

-----------------------------------------------------------------------------
LEMMA TypeInit == Init => TypeOK
BY DEF Init, TypeOK, NoWrites, Status, Outcome, Stage, Publishing

\* Every action keeps every variable in its type.
LEMMA TypeStep == TypeOK /\ [Next]_vars => TypeOK'
<1> SUFFICES ASSUME TypeOK, [Next]_vars PROVE TypeOK'
  OBVIOUS
<1>1. ASSUME NEW t \in Txn, Begin(t) PROVE TypeOK'
  <2>1. /\ clock' \in Nat
        /\ txn' \in [Txn -> {"idle", "open", "committed", "rolledback"}]
        /\ createdAt' \in [Txn -> Nat]
    BY <1>1 DEF TypeOK, Begin
  <2> QED BY <1>1, <2>1 DEF TypeOK, Begin, relayVars, kafkaVars
<1>2. ASSUME NEW t \in Txn, Commit(t) PROVE TypeOK'
  BY <1>2 DEF TypeOK, Commit, relayVars, kafkaVars, Status, Stage, Publishing
<1>3. ASSUME NEW t \in Txn, Rollback(t) PROVE TypeOK'
  BY <1>3 DEF TypeOK, Rollback, relayVars, kafkaVars
<1>4. ASSUME NEW r \in Replica, Claim(r) PROVE TypeOK'
  <2>1. todo' \in [Replica -> SUBSET Event]
    BY <1>4 DEF TypeOK, Claim, OldestBatch, Claimable
  <2> QED BY <1>4, <2>1 DEF TypeOK, Claim, reqVars, kafkaVars
<1>5. ASSUME NEW r \in Replica, NEW e \in Event, Publish(r, e) PROVE TypeOK'
  <2>1. log' \in [Partition -> Seq(Event)] /\ resends' \in [Event -> Nat]
    BY <1>5, TryStores
  <2>2. /\ todo' = [todo EXCEPT ![r] = @ \ {e}]
        /\ \E o \in Outcome : wrote' = [wrote EXCEPT ![r][e] = o]
        /\ dlq' \in {dlq, dlq \cup {e}}
    BY <1>5 DEF Publish, PublishOk, PublishFail, Outcome
  <2>4. /\ todo' \in [Replica -> SUBSET Event]
        /\ wrote' \in [Replica -> [Event -> Outcome]]
        /\ dlq' \in SUBSET Event
    BY <2>2 DEF TypeOK
  <2>3. UNCHANGED <<reqVars, status, attempts, inline, aborts>>
    BY <1>5 DEF Publish, PublishOk, PublishFail
  <2> QED BY <2>1, <2>4, <2>3 DEF TypeOK, reqVars
<1>7. ASSUME NEW r \in Replica, CommitPass(r) PROVE TypeOK'
  <2>1. status' \in [Event -> Status]
    BY <1>7 DEF TypeOK, CommitPass, Status, Outcome
  <2>2. attempts' \in [Event -> Nat]
    BY <1>7 DEF TypeOK, CommitPass
  <2>3. wrote' \in [Replica -> [Event -> Outcome]]
    BY <1>7 DEF TypeOK, CommitPass, NoWrites, Outcome
  <2> QED BY <1>7, <2>1, <2>2, <2>3 DEF TypeOK, CommitPass, reqVars, kafkaVars
<1>8. ASSUME NEW r \in Replica, AbortPass(r) PROVE TypeOK'
  <2>1. /\ todo' \in [Replica -> SUBSET Event]
        /\ wrote' \in [Replica -> [Event -> Outcome]]
    BY <1>8 DEF TypeOK, AbortPass, NoWrites, Outcome
  <2>2. aborts' \in Nat
    BY <1>8 DEF TypeOK, AbortPass
  <2> QED BY <1>8, <2>1, <2>2 DEF TypeOK, AbortPass, reqVars, kafkaVars
<1>9. ASSUME NEW e \in InlineEvent, NEW p \in Partition,
             InlinePublish(e, p) \/ InlineResend(e, p)
      PROVE TypeOK'
  <2>1. log' \in [Partition -> Seq(Event)]
    BY <1>9, StoreAppends DEF InlinePublish, InlineResend
  <2>2. inline' \in [Event -> Stage]
    BY <1>9 DEF TypeOK, InlinePublish, InlineResend, Stage, Publishing
  <2>4. resends' = resends \/ resends' = [resends EXCEPT ![e] = @ + 1]
    BY <1>9 DEF InlinePublish, InlineResend, Resend
  <2>5. resends' \in [Event -> Nat]
    <3>1. resends \in [Event -> Nat] /\ e \in Event
      BY DEF TypeOK
    <3> HIDE DEF TypeOK
    <3> QED BY <2>4, <3>1
  <2>3. UNCHANGED <<reqVars, status, attempts, relayVars, dlq, aborts>>
    BY <1>9 DEF InlinePublish, InlineResend
  <2> QED BY <2>1, <2>2, <2>3, <2>5 DEF TypeOK, reqVars, relayVars
<1>10. ASSUME NEW e \in InlineEvent, InlineSkip(e) \/ InlineGiveUp(e)
       PROVE TypeOK'
  <2>1. inline' \in [Event -> Stage]
    BY <1>10 DEF TypeOK, InlineSkip, InlineGiveUp, Stage, Publishing
  <2> QED BY <1>10, <2>1 DEF TypeOK, InlineSkip, InlineGiveUp, reqVars, relayVars, kafkaVars
<1>11. ASSUME NEW e \in InlineEvent, InlineMark(e) PROVE TypeOK'
  <2>1. inline' \in [Event -> Stage]
    BY <1>11 DEF TypeOK, InlineMark, Stage, Publishing
  <2> QED BY <1>11, <2>1 DEF TypeOK, InlineMark, reqVars, relayVars, kafkaVars, Status
<1>12. CASE UNCHANGED vars
  BY <1>12 DEF TypeOK, vars, kafkaVars
<1> QED
  BY <1>1, <1>2, <1>3, <1>4, <1>5, <1>7, <1>8, <1>9, <1>10, <1>11, <1>12
     DEF Next, Request, Drain, InlineStep, EmptyPass

\* Type correctness of every reachable state.
THEOREM TypeCorrect == Spec => []TypeOK
<1>1. TypeOK /\ [Next]_vars => TypeOK' BY TypeStep
<1> QED BY TypeInit, <1>1, PTL DEF Spec

-----------------------------------------------------------------------------
\* The claim discipline: locks taken by SKIP LOCKED stay exclusive and locked
\* rows stay pending until the pass that holds them ends.
LEMMA ClaimStep == TypeOK /\ ClaimInv /\ [Next]_vars => ClaimInv'
<1> SUFFICES ASSUME TypeOK, ClaimInv, [Next]_vars PROVE ClaimInv'
  OBVIOUS
<1>1. ASSUME NEW t \in Txn, Begin(t) \/ Rollback(t) PROVE ClaimInv'
  BY <1>1 DEF Begin, Rollback, relayVars, ClaimInv, Held
<1>2. ASSUME NEW t \in Txn, Commit(t) PROVE ClaimInv'
  <2>1. todo' = todo /\ wrote' = wrote
    BY <1>2 DEF Commit, relayVars
  <2>2. \A e \in Event : status[e] = "pending" => status'[e] = "pending"
    BY <1>2 DEF Commit
  <2>3. \A r \in Replica : Held(r) \subseteq Event
    BY DEF Held, TypeOK
  <2> QED BY <2>1, <2>2, <2>3 DEF ClaimInv, Held
<1>3. ASSUME NEW r \in Replica, Claim(r) PROVE ClaimInv'
  <2>1. PICK B \in OldestBatch(Claimable) : todo' = [todo EXCEPT ![r] = B]
    BY <1>3 DEF Claim
  <2>2. B \subseteq Claimable
    BY DEF OldestBatch
  <2>3. wrote' = wrote /\ status' = status
    BY <1>3 DEF Claim
  <2>4. \A e \in Event : wrote[r][e] = "none"
    BY <1>3 DEF Claim, Idle, Held
  <2>5. Held(r)' = B
    BY <2>1, <2>3, <2>4 DEF Held, TypeOK
  <2>6. \A q \in Replica : q # r => Held(q)' = Held(q) /\ B \cap Held(q) = {}
    BY <2>1, <2>2, <2>3 DEF Held, TypeOK, Claimable, Locked
  <2>7. \A e \in B : e \in Event /\ status[e] = "pending" /\ wrote[r][e] = "none"
    BY <2>2, <2>4 DEF Claimable
  <2>8. \A q1, q2 \in Replica : q1 # q2 => Held(q1)' \cap Held(q2)' = {}
    <3> SUFFICES ASSUME NEW q1 \in Replica, NEW q2 \in Replica, q1 # q2
                 PROVE  Held(q1)' \cap Held(q2)' = {}
      OBVIOUS
    <3>1. CASE q1 = r BY <3>1, <2>5, <2>6
    <3>2. CASE q2 = r BY <3>2, <2>5, <2>6
    <3>3. CASE q1 # r /\ q2 # r BY <3>3, <2>6 DEF ClaimInv
    <3> QED BY <3>1, <3>2, <3>3
  <2>9. \A q \in Replica : \A e \in Held(q)' : status'[e] = "pending"
    BY <2>3, <2>5, <2>6, <2>7 DEF ClaimInv
  <2>10. \A q \in Replica : \A e \in todo'[q] : wrote'[q][e] = "none"
    BY <2>1, <2>3, <2>7 DEF ClaimInv, TypeOK
  <2> QED BY <2>8, <2>9, <2>10 DEF ClaimInv
<1>4. ASSUME NEW r \in Replica, NEW e \in Event, NEW out \in Outcome \ {"none"},
             e \in todo[r], todo' = [todo EXCEPT ![r] = @ \ {e}],
             wrote' = [wrote EXCEPT ![r][e] = out], status' = status
      PROVE ClaimInv'
  <2>1. \A q \in Replica : Held(q)' = Held(q)
    BY <1>4 DEF Held, TypeOK, Outcome
  <2>2. \A q \in Replica : \A f \in todo'[q] : wrote'[q][f] = "none"
    BY <1>4 DEF ClaimInv, TypeOK
  <2> QED BY <1>4, <2>1, <2>2 DEF ClaimInv
<1>5. ASSUME NEW r \in Replica, NEW e \in Event, NEW n, PublishOk(r, e, n)
      PROVE ClaimInv'
  BY <1>4, <1>5 DEF PublishOk, NextRow, Outcome
<1>6. ASSUME NEW r \in Replica, NEW e \in Event, NEW n, NEW toDlq \in BOOLEAN,
             PublishFail(r, e, n, toDlq)
      PROVE ClaimInv'
  <2> DEFINE out == IF Parked(e) THEN "failed" ELSE "pending"
  <2>1. out \in Outcome \ {"none"}
    BY DEF Outcome
  <2>2. /\ e \in todo[r]
        /\ todo' = [todo EXCEPT ![r] = @ \ {e}]
        /\ wrote' = [wrote EXCEPT ![r][e] = out]
        /\ status' = status
    BY <1>6 DEF PublishFail, NextRow
  <2> HIDE DEF out
  <2> QED BY <2>1, <2>2, <1>4
<1>7. ASSUME NEW r \in Replica, CommitPass(r) \/ AbortPass(r) PROVE ClaimInv'
  <2>1. /\ todo'[r] = {}
        /\ \A e \in Event : wrote'[r][e] = "none"
        /\ \A q \in Replica : q # r => todo'[q] = todo[q] /\ wrote'[q] = wrote[q]
    BY <1>7 DEF CommitPass, AbortPass, TypeOK, NoWrites
  <2>2. Held(r)' = {} /\ \A q \in Replica : q # r => Held(q)' = Held(q)
    BY <2>1 DEF Held
  <2>3. \A e \in Event : wrote[r][e] = "none" => status'[e] = status[e]
    BY <1>7 DEF CommitPass, AbortPass
  <2>4. \A q \in Replica : q # r => \A e \in Held(q) : e \in Event /\ wrote[r][e] = "none"
    BY DEF ClaimInv, Held, TypeOK
  <2>5. \A q \in Replica : \A e \in Held(q)' : status'[e] = "pending"
    BY <2>2, <2>3, <2>4 DEF ClaimInv
  <2>6. \A q \in Replica : \A e \in todo'[q] : wrote'[q][e] = "none"
    BY <2>1 DEF ClaimInv
  <2>7. \A q1, q2 \in Replica : q1 # q2 => Held(q1)' \cap Held(q2)' = {}
    BY <2>2 DEF ClaimInv
  <2> QED BY <2>5, <2>6, <2>7 DEF ClaimInv
<1>8. ASSUME NEW e \in InlineEvent,
             \/ \E p \in Partition : InlinePublish(e, p) \/ InlineResend(e, p)
             \/ InlineSkip(e) \/ InlineGiveUp(e)
      PROVE ClaimInv'
  BY <1>8 DEF InlinePublish, InlineResend, InlineSkip, InlineGiveUp, relayVars, ClaimInv,
              Held
<1>9. ASSUME NEW e \in InlineEvent, InlineMark(e) PROVE ClaimInv'
  <2>1. /\ todo' = todo /\ wrote' = wrote
        /\ \A f : f # e /\ f \in Event => status'[f] = status[f]
    BY <1>9 DEF InlineMark, relayVars, TypeOK
  <2>2. \A q \in Replica : e \notin Held(q) /\ Held(q) \subseteq Event
    BY <1>9 DEF InlineMark, Locked, Held, TypeOK
  <2> QED BY <2>1, <2>2 DEF ClaimInv, Held
<1>10. CASE UNCHANGED vars
  BY <1>10 DEF vars, ClaimInv, Held
<1> QED
  BY <1>1, <1>2, <1>3, <1>5, <1>6, <1>7, <1>8, <1>9, <1>10
     DEF Next, Request, Drain, Publish, InlineStep, EmptyPass

-----------------------------------------------------------------------------
\* Rows exist exactly from their transaction's COMMIT on, and nothing else
\* than an existing row reaches Kafka or a dead-letter topic.
LEMMA RowStep ==
    TypeOK /\ ClaimInv /\ RowInv /\ NoPhantomEvent /\ [Next]_vars
      => RowInv' /\ NoPhantomEvent'
<1> SUFFICES ASSUME TypeOK, ClaimInv, RowInv, NoPhantomEvent, [Next]_vars
             PROVE  RowInv' /\ NoPhantomEvent'
  OBVIOUS
<1> DEFINE Seen == Delivered \cup dlq
<1>1. ASSUME NEW t \in Txn, Begin(t) \/ Rollback(t)
      PROVE  RowInv' /\ NoPhantomEvent'
  <2>1. /\ status' = status /\ inline' = inline /\ dlq' = dlq /\ log' = log
        /\ \A u \in Txn : txn'[u] = "committed" <=> txn[u] = "committed"
    BY <1>1 DEF Begin, Rollback, kafkaVars, TypeOK
  <2>2. Delivered' = Delivered
    BY <2>1, SameLogSameDelivered
  <2>3. Seen \subseteq Event
    BY DEF Delivered, TypeOK
  <2> QED BY <2>1, <2>2, <2>3 DEF RowInv, NoPhantomEvent
<1>2. ASSUME NEW t \in Txn, Commit(t) PROVE RowInv' /\ NoPhantomEvent'
  <2>1. /\ dlq' = dlq /\ log' = log
        /\ \A u \in Txn : txn'[u] = "committed" <=> txn[u] = "committed" \/ u = t
    BY <1>2 DEF Commit, kafkaVars, TypeOK
  <2>2. Delivered' = Delivered
    BY <2>1, SameLogSameDelivered
  <2>3. Seen \subseteq Event
    BY DEF Delivered, TypeOK
  <2>4. NoPhantomEvent'
    BY <2>1, <2>2, <2>3 DEF NoPhantomEvent
  <2>5. \A e \in Event : status'[e] = "absent" <=> txn'[TxnOf[e]] # "committed"
    BY <1>2, <2>1 DEF Commit, RowInv
  <2>6. \A e \in Event : inline'[e] # "none" => e \in InlineEvent
    BY <1>2 DEF Commit, RowInv
  <2>7. \A e \in Event : inline'[e] \in Publishing => status'[e] # "absent"
    BY <1>2 DEF Commit, RowInv
  <2> QED BY <2>4, <2>5, <2>6, <2>7 DEF RowInv
<1>3. ASSUME NEW r \in Replica, Claim(r) \/ AbortPass(r)
      PROVE  RowInv' /\ NoPhantomEvent'
  <2>1. /\ txn' = txn /\ status' = status /\ inline' = inline
        /\ dlq' = dlq /\ log' = log
    BY <1>3 DEF Claim, AbortPass, reqVars, kafkaVars
  <2>2. Delivered' = Delivered
    BY <2>1, SameLogSameDelivered
  <2> QED BY <2>1, <2>2 DEF RowInv, NoPhantomEvent
<1>4. ASSUME NEW r \in Replica, NEW e \in Event, Publish(r, e)
      PROVE  RowInv' /\ NoPhantomEvent'
  <2>1. /\ txn' = txn /\ status' = status /\ inline' = inline
        /\ dlq' \subseteq dlq \cup {e}
        /\ e \in Held(r)
    BY <1>4 DEF Publish, PublishOk, PublishFail, reqVars, NextRow, Held
  <2>2. Delivered' \subseteq Delivered \cup {e}
    BY <1>4, TryStores
  <2>3. txn[TxnOf[e]] = "committed"
    BY <2>1 DEF ClaimInv, RowInv
  <2> QED BY <2>1, <2>2, <2>3 DEF RowInv, NoPhantomEvent
<1>5. ASSUME NEW r \in Replica, CommitPass(r) PROVE RowInv' /\ NoPhantomEvent'
  <2>1. txn' = txn /\ inline' = inline /\ dlq' = dlq /\ log' = log
    BY <1>5 DEF CommitPass, reqVars, kafkaVars
  <2>2. Delivered' = Delivered
    BY <2>1, SameLogSameDelivered
  <2>3. \A e \in Event : status'[e] = "absent" <=> status[e] = "absent"
    <3> SUFFICES ASSUME NEW e \in Event
                 PROVE  status'[e] = "absent" <=> status[e] = "absent"
      OBVIOUS
    <3>1. CASE wrote[r][e] = "none"
      BY <1>5, <3>1 DEF CommitPass
    <3>2. CASE wrote[r][e] # "none"
      <4>1. e \in Held(r)
        BY <3>2 DEF Held
      <4>2. status[e] = "pending"
        BY <4>1 DEF ClaimInv
      <4>a. wrote[r][e] \in Outcome
        BY DEF TypeOK
      <4>3. wrote[r][e] # "absent"
        BY <4>a DEF Outcome
      <4>4. status'[e] = wrote[r][e]
        BY <1>5, <3>2 DEF CommitPass
      <4> QED BY <4>2, <4>3, <4>4
    <3> QED BY <3>1, <3>2
  <2> QED BY <2>1, <2>2, <2>3 DEF RowInv, NoPhantomEvent
<1>6. ASSUME NEW e \in InlineEvent, NEW p \in Partition,
             InlinePublish(e, p) \/ InlineResend(e, p)
      PROVE  RowInv' /\ NoPhantomEvent'
  <2>1. /\ txn' = txn /\ status' = status /\ dlq' = dlq
        /\ inline[e] \in Publishing
        /\ \A f \in Event : f # e => inline'[f] = inline[f]
        /\ Store(p, e, 1)
    BY <1>6 DEF InlinePublish, InlineResend, Publishing, reqVars, TypeOK
  <2>2. Delivered' = Delivered \cup {e}
    BY <2>1, StoreDelivers
  <2>3. txn[TxnOf[e]] = "committed" /\ status[e] # "absent"
    BY <2>1 DEF RowInv
  <2>4. RowInv'
    BY <2>1, <2>3 DEF RowInv, TypeOK
  <2> QED BY <2>1, <2>2, <2>3, <2>4 DEF NoPhantomEvent
<1>7. ASSUME NEW e \in InlineEvent, InlineSkip(e) \/ InlineGiveUp(e) \/ InlineMark(e)
      PROVE  RowInv' /\ NoPhantomEvent'
  <2>1. /\ txn' = txn /\ dlq' = dlq /\ log' = log
        /\ inline[e] \in Publishing
        /\ \A f \in Event : f # e => inline'[f] = inline[f] /\ status'[f] = status[f]
        /\ status'[e] \in {status[e], "sent"}
    BY <1>7 DEF InlineSkip, InlineGiveUp, InlineMark, Publishing, reqVars, kafkaVars, TypeOK
  <2>2. Delivered' = Delivered
    BY <2>1, SameLogSameDelivered
  <2>3. status[e] # "absent" /\ status'[e] # "absent" /\ txn[TxnOf[e]] = "committed"
    BY <2>1 DEF RowInv
  <2> QED BY <2>1, <2>2, <2>3 DEF RowInv, NoPhantomEvent
<1>8. CASE UNCHANGED vars
  <2>1. Delivered' = Delivered
    BY <1>8, SameLogSameDelivered DEF vars, kafkaVars
  <2> QED BY <1>8, <2>1 DEF vars, RowInv, NoPhantomEvent
<1> QED
  BY <1>1, <1>2, <1>3, <1>4, <1>5, <1>6, <1>7, <1>8
     DEF Next, Request, Drain, InlineStep, EmptyPass

-----------------------------------------------------------------------------
\* A pass writes 'sent' only for what it stored, and so does an inline publisher
\* that was not skipped: a committed 'sent' stands for a record in Kafka.  The
\* attempts a pass will commit never pass the limit.
LEMMA PassStep ==
    ASSUME TypeOK, ClaimInv, RowInv, PassInv, AttemptInv, SentIsDelivered,
           [Next]_vars
    PROVE  PassInv' /\ AttemptInv' /\ SentIsDelivered'
<1> USE DEF Relayed
\* Steps that leave the relay's side and the rows alone.
<1>1. ASSUME wrote' = wrote, attempts' = attempts, dlq' = dlq, status' = status,
             Delivered \subseteq Delivered',
             \A e \in Event : /\ inline'[e] = "published" => e \in Delivered'
                              /\ inline[e] = "unsent" => inline'[e] = "unsent"
      PROVE  PassInv' /\ AttemptInv' /\ SentIsDelivered'
  BY <1>1 DEF PassInv, AttemptInv, SentIsDelivered
<1>2. ASSUME NEW t \in Txn, Begin(t) \/ Rollback(t)
      PROVE  PassInv' /\ AttemptInv' /\ SentIsDelivered'
  <2>1. Delivered' = Delivered /\ inline' = inline
    BY <1>2, SameLogSameDelivered DEF Begin, Rollback, kafkaVars
  <2> QED BY <1>1, <1>2, <2>1 DEF Begin, Rollback, relayVars, PassInv
<1>3. ASSUME NEW t \in Txn, Commit(t)
      PROVE  PassInv' /\ AttemptInv' /\ SentIsDelivered'
  <2>1. /\ wrote' = wrote /\ attempts' = attempts /\ dlq' = dlq /\ log' = log
        /\ \A e \in Event : \/ status'[e] = status[e]
                            \/ status[e] = "absent" /\ status'[e] = "pending"
        /\ \A e \in Event : \/ inline'[e] = inline[e]
                            \/ inline'[e] = "publish" /\ status'[e] = "pending"
    BY <1>3 DEF Commit, relayVars, kafkaVars, RowInv
  <2>2. Delivered' = Delivered
    BY <2>1, SameLogSameDelivered
  <2>3. PassInv' /\ SentIsDelivered'
    BY <2>1, <2>2 DEF PassInv, SentIsDelivered
  <2>4. AttemptInv'
    BY <2>1 DEF AttemptInv, TypeOK
  <2> QED BY <2>3, <2>4
<1>4. ASSUME NEW r \in Replica, Claim(r)
      PROVE  PassInv' /\ AttemptInv' /\ SentIsDelivered'
  <2>1. Delivered' = Delivered /\ inline' = inline
    BY <1>4, SameLogSameDelivered DEF Claim, kafkaVars
  <2> QED BY <1>1, <1>4, <2>1 DEF Claim, PassInv
<1>5. ASSUME NEW r \in Replica, NEW e \in Event, NEW n \in Nat, PublishOk(r, e, n)
      PROVE  PassInv' /\ AttemptInv' /\ SentIsDelivered'
  <2>1. /\ attempts' = attempts /\ dlq' = dlq /\ status' = status
        /\ wrote' = [wrote EXCEPT ![r][e] = "sent"]
        /\ inline' = inline
        /\ Store(KeyPartition[e], e, n) /\ n # 0
    BY <1>5 DEF PublishOk
  <2>2. Delivered' = Delivered \cup {e}
    BY <2>1, StoreDelivers
  <2>3. PassInv'
    BY <2>1, <2>2 DEF PassInv, TypeOK
  <2> QED BY <2>1, <2>2, <2>3 DEF AttemptInv, SentIsDelivered
<1>6. ASSUME NEW r \in Replica, NEW e \in Event, NEW n \in Nat, NEW toDlq \in BOOLEAN,
             PublishFail(r, e, n, toDlq)
      PROVE  PassInv' /\ AttemptInv' /\ SentIsDelivered'
  <2> DEFINE out == IF Parked(e) THEN "failed" ELSE "pending"
  <2>1. /\ attempts' = attempts /\ status' = status /\ inline' = inline
        /\ wrote' = [wrote EXCEPT ![r][e] = out]
        /\ dlq' = dlq \/ (Parked(e) /\ dlq' = dlq \cup {e})
        /\ Store(KeyPartition[e], e, n)
        /\ e \in Held(r)
    BY <1>6 DEF PublishFail, NextRow, Held
  <2>2. Delivered \subseteq Delivered'
    BY <2>1, StoreDelivers
  <2>3. attempts[e] \in Nat /\ attempts[e] < MaxAttempts
    BY <2>1 DEF ClaimInv, AttemptInv, TypeOK
  <2>4. /\ out = "pending" => attempts[e] + 1 < MaxAttempts
        /\ out = "failed" => attempts[e] + 1 = MaxAttempts
        /\ out # "sent"
        /\ Parked(e) => attempts[e] + 1 >= MaxAttempts
    BY <2>3 DEF Parked
  <2> HIDE DEF out
  <2>5. \A q \in Replica, f \in Event :
           wrote'[q][f] = IF q = r /\ f = e THEN out ELSE wrote[q][f]
    BY <2>1 DEF TypeOK
  <2>6. PassInv'
    BY <2>1, <2>2, <2>4, <2>5 DEF PassInv
  <2>7. AttemptInv'
    BY <2>1, <2>4 DEF AttemptInv
  <2> QED BY <2>1, <2>2, <2>6, <2>7 DEF SentIsDelivered
<1>7. ASSUME NEW r \in Replica, CommitPass(r)
      PROVE  PassInv' /\ AttemptInv' /\ SentIsDelivered'
  <2>1. dlq' = dlq /\ log' = log /\ inline' = inline
    BY <1>7 DEF CommitPass, kafkaVars
  <2>2. Delivered' = Delivered
    BY <2>1, SameLogSameDelivered
  <2>3. \A q \in Replica, f \in Event :
           wrote'[q][f] = IF q = r THEN "none" ELSE wrote[q][f]
    BY <1>7 DEF CommitPass, NoWrites, TypeOK
  <2>4. \A f \in Event :
           IF wrote[r][f] = "none"
           THEN status'[f] = status[f] /\ attempts'[f] = attempts[f]
           ELSE status'[f] = wrote[r][f] /\ attempts'[f] = attempts[f] + 1
    BY <1>7 DEF CommitPass
  <2>5. \A q \in Replica, f \in Event :
           q # r /\ wrote[q][f] # "none" => attempts'[f] = attempts[f]
    <3> SUFFICES ASSUME NEW q \in Replica, NEW f \in Event,
                        q # r, wrote[q][f] # "none"
                 PROVE  attempts'[f] = attempts[f]
      OBVIOUS
    <3>1. f \in Held(q) /\ f \notin Held(r)
      BY DEF Held, ClaimInv
    <3>2. wrote[r][f] = "none"
      BY <3>1 DEF Held
    <3> QED BY <2>4, <3>2
  <2>6. PassInv'
    BY <2>1, <2>2, <2>3, <2>5 DEF PassInv
  <2>7. AttemptInv'
    <3> SUFFICES ASSUME NEW f \in Event
                 PROVE  /\ status'[f] = "absent" => attempts'[f] = 0
                        /\ status'[f] = "failed" => attempts'[f] = MaxAttempts
                        /\ status'[f] = "pending" => attempts'[f] < MaxAttempts
                        /\ f \in Relayed /\ f \in dlq' => attempts'[f] + 1 >= MaxAttempts
      BY DEF AttemptInv
    <3>1. attempts[f] \in Nat
      BY DEF TypeOK
    <3>2. CASE wrote[r][f] = "none"
      BY <2>1, <2>4, <3>2 DEF AttemptInv
    <3>3. CASE wrote[r][f] # "none"
      <4>1. status'[f] = wrote[r][f] /\ attempts'[f] = attempts[f] + 1
        BY <2>4, <3>3
      <4>2. wrote[r][f] \in Outcome
        BY DEF TypeOK
      <4>3. wrote[r][f] # "absent"
        BY <4>2 DEF Outcome
      <4> QED BY <2>1, <3>1, <4>1, <4>3 DEF PassInv, AttemptInv
    <3> QED BY <3>2, <3>3
  <2>8. SentIsDelivered'
    BY <2>1, <2>2, <2>4 DEF PassInv, SentIsDelivered
  <2> QED BY <2>6, <2>7, <2>8
<1>8. ASSUME NEW r \in Replica, AbortPass(r)
      PROVE  PassInv' /\ AttemptInv' /\ SentIsDelivered'
  <2>1. /\ attempts' = attempts /\ status' = status /\ dlq' = dlq /\ log' = log
        /\ inline' = inline
        /\ \A q \in Replica, f \in Event :
              wrote'[q][f] = IF q = r THEN "none" ELSE wrote[q][f]
    BY <1>8 DEF AbortPass, kafkaVars, NoWrites, TypeOK
  <2>2. Delivered' = Delivered
    BY <2>1, SameLogSameDelivered
  <2> QED BY <2>1, <2>2 DEF PassInv, AttemptInv, SentIsDelivered
<1>9. ASSUME NEW e \in InlineEvent, NEW p \in Partition,
             InlinePublish(e, p) \/ InlineResend(e, p)
      PROVE  PassInv' /\ AttemptInv' /\ SentIsDelivered'
  <2>1. Delivered' = Delivered \cup {e}
    BY <1>9, StoreDelivers DEF InlinePublish, InlineResend
  <2>2. /\ \A f \in Event : f # e => inline'[f] = inline[f]
        /\ inline[e] # "unsent"
    BY <1>9 DEF InlinePublish, InlineResend, TypeOK
  <2>3. \A f \in Event : /\ inline'[f] = "published" => f \in Delivered'
                         /\ inline[f] = "unsent" => inline'[f] = "unsent"
    BY <2>1, <2>2 DEF PassInv
  <2> QED BY <1>1, <1>9, <2>1, <2>3 DEF InlinePublish, InlineResend, relayVars
<1>10. ASSUME NEW e \in InlineEvent, InlineSkip(e) \/ InlineGiveUp(e)
       PROVE  PassInv' /\ AttemptInv' /\ SentIsDelivered'
  <2>1. Delivered' = Delivered
    BY <1>10, SameLogSameDelivered DEF InlineSkip, InlineGiveUp, kafkaVars
  <2>2. /\ \A f \in Event : f # e => inline'[f] = inline[f]
        /\ inline[e] # "unsent" /\ inline'[e] # "published"
    BY <1>10 DEF InlineSkip, InlineGiveUp, Publishing, TypeOK
  <2>3. \A f \in Event : /\ inline'[f] = "published" => f \in Delivered'
                         /\ inline[f] = "unsent" => inline'[f] = "unsent"
    BY <2>1, <2>2 DEF PassInv
  <2> QED BY <1>1, <1>10, <2>1, <2>3 DEF InlineSkip, InlineGiveUp, relayVars
<1>11. ASSUME NEW e \in InlineEvent, InlineMark(e)
       PROVE  PassInv' /\ AttemptInv' /\ SentIsDelivered'
  <2>1. /\ wrote' = wrote /\ dlq' = dlq /\ log' = log
        /\ \A f \in Event : f # e => attempts'[f] = attempts[f] /\ status'[f] = status[f]
        /\ status'[e] = "sent"
        /\ inline'[e] = "unsent" \/ (inline[e] = "published" /\ inline'[e] = "done")
        /\ \A f \in Event : f # e => inline'[f] = inline[f]
        /\ \A q \in Replica : wrote[q][e] = "none"
    BY <1>11 DEF InlineMark, relayVars, kafkaVars, TypeOK, Locked, Held
  <2>2. Delivered' = Delivered
    BY <2>1, SameLogSameDelivered
  <2>3. PassInv'
    BY <2>1, <2>2 DEF PassInv
  <2>4. SentIsDelivered'
    BY <2>1, <2>2 DEF PassInv, SentIsDelivered
  <2> QED BY <2>1, <2>3, <2>4 DEF AttemptInv
<1>12. CASE UNCHANGED vars
  <2>1. Delivered' = Delivered
    BY <1>12, SameLogSameDelivered DEF vars, kafkaVars
  <2> QED BY <1>1, <1>12, <2>1 DEF vars, PassInv
<1> QED
  <2>1. ASSUME NEW r \in Replica, NEW e \in Event, Publish(r, e)
        PROVE  PassInv' /\ AttemptInv' /\ SentIsDelivered'
    <3>1. 0..MaxResends + 1 \subseteq Nat
      OBVIOUS
    <3> QED BY <1>5, <1>6, <2>1, <3>1 DEF Publish
  <2> QED
    BY <2>1, <1>2, <1>3, <1>4, <1>7, <1>8, <1>9, <1>10, <1>11, <1>12
       DEF Next, Request, Drain, InlineStep, EmptyPass

-----------------------------------------------------------------------------
LEMMA IndInit == Init => IndInv
<1> SUFFICES ASSUME Init PROVE IndInv
  OBVIOUS
<1>1. TypeOK
  BY TypeInit
<1>2. ClaimInv
  BY DEF Init, ClaimInv, Held, NoWrites
<1>3. Delivered = {}
  BY DEF Init, Delivered
<1>4. RowInv /\ NoPhantomEvent
  BY <1>3 DEF Init, RowInv, Publishing, NoPhantomEvent
<1>5. PassInv
  BY DEF Init, PassInv, NoWrites
<1>6. AttemptInv /\ SentIsDelivered
  BY DEF Init, AttemptInv, SentIsDelivered, Relayed
<1> QED BY <1>1, <1>2, <1>4, <1>5, <1>6 DEF IndInv

\* IndInv is inductive.
THEOREM IndInvariant == Spec => []IndInv
<1>1. IndInv /\ [Next]_vars => IndInv'
  BY TypeStep, ClaimStep, RowStep, PassStep DEF IndInv
<1> QED BY IndInit, <1>1, PTL DEF Spec

\* Nothing reaches Kafka or a dead-letter topic unless the transaction that
\* enqueued it committed.
THEOREM NoPhantom == Spec => []NoPhantomEvent
<1>1. IndInv => NoPhantomEvent BY DEF IndInv
<1> QED BY IndInvariant, <1>1, PTL

\* What the relay marked 'sent' is in Kafka, an inline publisher's row included.
THEOREM NoLoss == Spec => []SentIsDelivered
<1>1. IndInv => SentIsDelivered BY DEF IndInv
<1> QED BY IndInvariant, <1>1, PTL

\* A row is parked exactly at the attempt limit and dead-lettered no sooner.
THEOREM LastResort == Spec => []DeadLetterIsLastResort
<1>1. IndInv => DeadLetterIsLastResort
  BY DEF IndInv, AttemptInv, DeadLetterIsLastResort, Relayed
<1> QED BY IndInvariant, <1>1, PTL

-----------------------------------------------------------------------------
\* What one step does to the rows, as the refinement and finality read it: a
\* relayed row appears as pending, and leaves pending only for the status the
\* pass that holds it wrote.
LEMMA RowMoves ==
    ASSUME IndInv, [Next]_vars, NEW e \in Relayed, status'[e] # status[e]
    PROVE  \/ status[e] = "absent" /\ status'[e] = "pending"
           \/ \E r \in Replica : /\ CommitPass(r)
                                 /\ wrote[r][e] # "none"
                                 /\ status[e] = "pending"
                                 /\ status'[e] = wrote[r][e]
<1> USE DEF Relayed
<1>1. e \in Event /\ e \notin InlineEvent
  OBVIOUS
<1>2. ASSUME NEW t \in Txn, Commit(t)
      PROVE  status[e] = "absent" /\ status'[e] = "pending"
  BY <1>1, <1>2 DEF Commit, IndInv, RowInv
<1>3. ASSUME NEW r \in Replica, CommitPass(r)
      PROVE  /\ wrote[r][e] # "none"
             /\ status[e] = "pending"
             /\ status'[e] = wrote[r][e]
  <2>1. wrote[r][e] # "none" /\ status'[e] = wrote[r][e]
    BY <1>1, <1>3 DEF CommitPass
  <2>2. e \in Held(r)
    BY <1>1, <2>1 DEF Held
  <2> QED BY <2>1, <2>2 DEF IndInv, ClaimInv
<1>4. ASSUME NEW f \in InlineEvent, InlineStep(f) PROVE status'[e] = status[e]
  BY <1>1, <1>4
     DEF InlineStep, InlinePublish, InlineResend, InlineSkip, InlineGiveUp, InlineMark,
         IndInv, TypeOK
<1>5. ASSUME NEW t \in Txn, Begin(t) \/ Rollback(t) PROVE status' = status
  BY <1>5 DEF Begin, Rollback
<1>6. ASSUME NEW r \in Replica, NEW f \in Event,
             Claim(r) \/ AbortPass(r) \/ EmptyPass(r) \/ Publish(r, f)
      PROVE status' = status
  BY <1>6 DEF Claim, AbortPass, EmptyPass, Publish, PublishOk, PublishFail, vars
<1>7. CASE UNCHANGED vars
  BY <1>7 DEF vars
<1> QED
  BY <1>2, <1>3, <1>4, <1>5, <1>6, <1>7 DEF Next, Request, Drain, EmptyPass

\* No step takes a relayed row out of 'sent' or 'failed'.
THEOREM Finality == Spec => ResolvedIsFinal
<1>1. ASSUME IndInv, [Next]_vars
      PROVE  [\A e \in Relayed : status[e] \in {"sent", "failed"} =>
                                    status'[e] = status[e]]_vars
  BY <1>1, RowMoves
<1> QED BY IndInvariant, <1>1, PTL DEF Spec, ResolvedIsFinal

-----------------------------------------------------------------------------
(* The relay implements AtLeastOnce on the rows only it publishes.         *)

Accepted  == {e \in Relayed : status[e] # "absent"}
Settled   == {e \in Relayed : status[e] = "sent"}
Abandoned == {e \in Relayed : status[e] = "failed"}

LEMMA AbstractInit == Init => Guarantee!Init
BY DEF Init, Guarantee!Init, Delivered, Relayed

\* Equal rows and equal logs are an abstract stutter.
LEMMA AbstractStutter ==
    ASSUME status' = status, Delivered' \cap Relayed = Delivered \cap Relayed
    PROVE  UNCHANGED Guarantee!vars
BY DEF Guarantee!vars

\* A commit accepts the transaction's relayed rows.
LEMMA CommitAccepts ==
    ASSUME IndInv, NEW t \in Txn, Commit(t)
    PROVE  Guarantee!Accept
<1> DEFINE S == {e \in Relayed : TxnOf[e] = t}
<1>1. /\ log' = log
      /\ \A e \in Relayed : status'[e] = IF TxnOf[e] = t THEN "pending" ELSE status[e]
      /\ \A e \in Relayed : TxnOf[e] = t => status[e] = "absent"
  BY DEF Commit, kafkaVars, IndInv, RowInv, Relayed
<1>2. Delivered' = Delivered
  BY <1>1, SameLogSameDelivered
<1>3. S \in SUBSET (Relayed \ Accepted)
  BY <1>1 DEF Accepted
<1>4. Accepted' = Accepted \cup S
  BY <1>1 DEF Accepted, Relayed
<1>5. Settled' = Settled /\ Abandoned' = Abandoned
  BY <1>1 DEF Settled, Abandoned, Relayed
<1> QED BY <1>2, <1>3, <1>4, <1>5 DEF Guarantee!Accept, Accepted, Settled, Abandoned, Relayed

\* A publish attempt delivers an unresolved row or changes nothing.
LEMMA PublishDelivers ==
    ASSUME IndInv, NEW r \in Replica, NEW e \in Event, Publish(r, e)
    PROVE  Guarantee!Deliver \/ UNCHANGED Guarantee!vars
<1>1. status' = status /\ e \in Held(r)
  BY DEF Publish, PublishOk, PublishFail, NextRow, Held
<1>2. Delivered' = Delivered \/ Delivered' = Delivered \cup {e}
  BY TryStores DEF IndInv
<1>3. CASE e \in Relayed /\ Delivered' = Delivered \cup {e}
  <2>1. status[e] = "pending"
    BY <1>1 DEF IndInv, ClaimInv
  <2>2. e \in Guarantee!Unresolved
    BY <1>3, <2>1 DEF Guarantee!Unresolved
  <2>3. Delivered' \cap Relayed = (Delivered \cap Relayed) \cup {e}
    BY <1>3
  <2> QED BY <1>1, <2>2, <2>3 DEF Guarantee!Deliver, Relayed
<1>4. CASE e \notin Relayed \/ Delivered' = Delivered
  <2>1. Delivered' \cap Relayed = Delivered \cap Relayed
    BY <1>2, <1>4
  <2> QED BY <1>1, <2>1, AbstractStutter
<1> QED BY <1>2, <1>3, <1>4

\* The end of a pass settles what it stored and abandons what it parked.
LEMMA CommitPassResolves ==
    ASSUME IndInv, NEW r \in Replica, CommitPass(r)
    PROVE  Guarantee!Resolve
<1> DEFINE S == {e \in Relayed : wrote[r][e] = "sent"}
           A == {e \in Relayed : wrote[r][e] = "failed"}
<1>1. log' = log
  BY DEF CommitPass, kafkaVars
<1>2. Delivered' = Delivered
  BY <1>1, SameLogSameDelivered
<1>3. \A e \in Relayed : wrote[r][e] # "none" => status[e] = "pending"
  BY DEF IndInv, ClaimInv, Held, Relayed
<1>4. \A e \in Relayed : status'[e] = IF wrote[r][e] = "none" THEN status[e]
                                                              ELSE wrote[r][e]
  BY DEF CommitPass, Relayed
<1>5. \A e \in Relayed : wrote[r][e] \in {"none", "pending", "sent", "failed"}
  BY DEF IndInv, TypeOK, Outcome, Relayed
<1>6. S \in SUBSET (Guarantee!Unresolved \cap (Delivered \cap Relayed))
  BY <1>3 DEF Guarantee!Unresolved, IndInv, PassInv, Relayed
<1>7. A \in SUBSET (Guarantee!Unresolved \ S)
  BY <1>3 DEF Guarantee!Unresolved
<1>8. Settled' = Settled \cup S
  BY <1>3, <1>4, <1>5 DEF Settled, Relayed
<1>9. Abandoned' = Abandoned \cup A
  BY <1>3, <1>4, <1>5 DEF Abandoned, Relayed
<1>10. Accepted' = Accepted
  BY <1>3, <1>4, <1>5 DEF Accepted, Relayed
<1> QED
  BY <1>2, <1>6, <1>7, <1>8, <1>9, <1>10
     DEF Guarantee!Resolve, Accepted, Settled, Abandoned, Relayed

\* The sign-up handler's inline publishing is outside the guarantee.
LEMMA InlineStutters ==
    ASSUME IndInv, NEW e \in InlineEvent, InlineStep(e)
    PROVE  UNCHANGED Guarantee!vars
<1>1. \A f \in Relayed : f # e /\ status'[f] = status[f]
  BY DEF InlineStep, InlinePublish, InlineResend, InlineSkip, InlineGiveUp, InlineMark,
         IndInv, TypeOK, Relayed
<1>2. log' = log \/ \E p \in Partition : Store(p, e, 1)
  BY DEF InlineStep, InlinePublish, InlineResend, InlineSkip, InlineGiveUp, InlineMark,
         kafkaVars
<1>3. Delivered' \subseteq Delivered \cup {e} /\ Delivered \subseteq Delivered'
  BY <1>2, StoreDelivers, SameLogSameDelivered DEF IndInv
<1>4. Delivered' \cap Relayed = Delivered \cap Relayed
  BY <1>1, <1>3
<1>5. Accepted' = Accepted /\ Settled' = Settled /\ Abandoned' = Abandoned
  BY <1>1 DEF Accepted, Settled, Abandoned, Relayed
<1> QED BY <1>4, <1>5 DEF Guarantee!vars, Accepted, Settled, Abandoned, Relayed

\* The outbox and its relay implement at-least-once delivery.
THEOREM Refinement == Spec => ImplementsAtLeastOnce
<1>1. ASSUME IndInv, [Next]_vars PROVE [Guarantee!Next]_(Guarantee!vars)
  <2>1. ASSUME NEW t \in Txn, Begin(t) \/ Rollback(t)
        PROVE  UNCHANGED Guarantee!vars
    BY <2>1, AbstractStutter, SameLogSameDelivered DEF Begin, Rollback, kafkaVars
  <2>2. ASSUME NEW r \in Replica, Claim(r) \/ AbortPass(r)
        PROVE  UNCHANGED Guarantee!vars
    BY <2>2, AbstractStutter, SameLogSameDelivered DEF Claim, AbortPass, kafkaVars
  <2>3. CASE UNCHANGED vars
    BY <2>3, AbstractStutter, SameLogSameDelivered DEF vars, kafkaVars
  <2> QED
    BY <1>1, <2>1, <2>2, <2>3, CommitAccepts, PublishDelivers,
       CommitPassResolves, InlineStutters
       DEF Next, Request, Drain, EmptyPass, Guarantee!Next
<1> QED
  BY AbstractInit, IndInvariant, <1>1, PTL
     DEF Spec, ImplementsAtLeastOnce, Guarantee!Spec

-----------------------------------------------------------------------------
(* Duplicates.                                                             *)

\* Where the records of a row are, and the passes that have sent it and are open.
RecordsIn(p, e) == {<<p, i>> : i \in {j \in DOMAIN log[p] : log[p][j] = e}}
Records(e) == UNION {RecordsIn(p, e) : p \in Partition}
OpenPasses(e) == {r \in Replica : wrote[r][e] # "none"}

\* Every record is paid for.  An open pass pays for one, until its commit counts
\* the attempt or its end counts as an abort; a send pays for its resends at once.
Paid(e) ==
    /\ IsFiniteSet(Records(e))
    /\ Cardinality(Records(e))
         <= attempts[e] + aborts + resends[e] + IF OpenPasses(e) = {} THEN 0 ELSE 1

PaidInv == \A e \in Relayed : Paid(e)

\* Consecutive places of one partition are as many as their numbers.
LEMMA PlacesAreFinite ==
    ASSUME NEW p, NEW a \in Nat, NEW n \in Nat
    PROVE  /\ IsFiniteSet({<<p, i>> : i \in a + 1 .. a + n})
           /\ Cardinality({<<p, i>> : i \in a + 1 .. a + n}) <= n
<1> DEFINE S == a + 1 .. a + n
           T == {<<p, i>> : i \in S}
           f == [i \in S |-> <<p, i>>]
<1>1. IsFiniteSet(S) /\ Cardinality(S) = n
  <2>1. a + 1 \in Int /\ a + n \in Int
    OBVIOUS
  <2>2. IsFiniteSet(S) /\ Cardinality(S) = IF a + 1 > a + n THEN 0 ELSE a + n - (a + 1) + 1
    BY <2>1, FS_Interval
  <2> QED BY <2>2
<1>2. f \in Surjection(S, T)
  <2>1. f \in [S -> T]
    OBVIOUS
  <2>2. \A t \in T : \E i \in S : f[i] = t
    OBVIOUS
  <2> QED BY <2>1, <2>2 DEF Surjection
<1>3. IsFiniteSet(T) /\ Cardinality(T) <= Cardinality(S)
  BY <1>1, <1>2, FS_Surjection
<1> QED BY <1>1, <1>3

\* A store of n records adds n at most, to the row that was sent.
LEMMA StoreRecords ==
    ASSUME TypeOK, NEW p \in Partition, NEW e \in Event, NEW n \in Nat, Store(p, e, n)
    PROVE  /\ \A f \in Event : f # e => Records(f)' = Records(f)
           /\ IsFiniteSet(Records(e)) =>
                 /\ IsFiniteSet(Records(e)')
                 /\ Cardinality(Records(e)') <= Cardinality(Records(e)) + n
<1> DEFINE places == Len(log[p]) + 1 .. Len(log[p]) + n
           new == {<<p, i>> : i \in places}
<1>1. /\ \A q \in Partition : q # p => log'[q] = log[q]
      /\ DOMAIN log'[p] = DOMAIN log[p] \cup places
      /\ \A i \in DOMAIN log[p] : log'[p][i] = log[p][i]
      /\ \A i \in places : log'[p][i] = e
  BY StoreAppends
<1>2. Len(log[p]) \in Nat
  BY DEF TypeOK
<1>3. IsFiniteSet(new) /\ Cardinality(new) <= n
  BY <1>2, PlacesAreFinite
<1> HIDE DEF places
<1>5. \A q \in Partition, f \in Event : q # p => RecordsIn(q, f)' = RecordsIn(q, f)
  BY <1>1 DEF RecordsIn
<1>6. \A f \in Event : f # e => RecordsIn(p, f)' = RecordsIn(p, f)
  <2>1. ASSUME NEW f \in Event, f # e
        PROVE  {j \in DOMAIN log'[p] : log'[p][j] = f}
                 = {j \in DOMAIN log[p] : log[p][j] = f}
    BY <1>1, <2>1
  <2> QED BY <2>1 DEF RecordsIn
<1>7. RecordsIn(p, e)' = RecordsIn(p, e) \cup new
  <2>1. {j \in DOMAIN log'[p] : log'[p][j] = e}
          = {j \in DOMAIN log[p] : log[p][j] = e} \cup places
    BY <1>1
  <2> QED BY <2>1 DEF RecordsIn
<1>8. \A f \in Event : f # e => Records(f)' = Records(f)
  <2>1. ASSUME NEW f \in Event, f # e, NEW q \in Partition
        PROVE  RecordsIn(q, f)' = RecordsIn(q, f)
    BY <1>5, <1>6, <2>1
  <2> QED BY <2>1 DEF Records
<1>9. Records(e)' = Records(e) \cup new
  BY <1>5, <1>7 DEF Records
<1>10. ASSUME IsFiniteSet(Records(e))
       PROVE  /\ IsFiniteSet(Records(e)')
              /\ Cardinality(Records(e)') <= Cardinality(Records(e)) + n
  <2> HIDE DEF new
  <2>1. /\ IsFiniteSet(Records(e) \cup new)
        /\ Cardinality(Records(e) \cup new)
             = Cardinality(Records(e)) + Cardinality(new) - Cardinality(Records(e) \cap new)
    BY <1>3, <1>10, FS_Union
  <2>2. IsFiniteSet(Records(e) \cap new)
    BY <1>3, FS_Subset
  <2>3. /\ Cardinality(Records(e)) \in Nat /\ Cardinality(new) \in Nat
        /\ Cardinality(Records(e) \cap new) \in Nat
    BY <1>3, <1>10, <2>2, FS_CardinalityType
  <2> QED BY <1>3, <1>9, <2>1, <2>3
<1> QED BY <1>8, <1>10

\* A step that sends nothing leaves the records where they are.
LEMMA SameLogSameRecords == ASSUME log' = log PROVE \A e : Records(e)' = Records(e)
BY DEF Records, RecordsIn

\* A row is in at most one open pass.
LEMMA OnePass ==
    ASSUME TypeOK, ClaimInv, NEW r \in Replica, NEW e \in Event, e \in Held(r)
    PROVE  OpenPasses(e) \subseteq {r}
BY DEF OpenPasses, ClaimInv, Held, TypeOK

LEMMA PaidInit == Init => PaidInv
<1> SUFFICES ASSUME Init, NEW e \in Relayed PROVE Paid(e)
  BY DEF PaidInv
<1>1. Records(e) = {}
  BY DEF Init, Records, RecordsIn
<1>2. attempts[e] = 0 /\ aborts = 0 /\ resends[e] = 0 /\ OpenPasses(e) = {}
  BY DEF Init, OpenPasses, NoWrites, Relayed
<1> QED BY <1>1, <1>2, FS_EmptySet DEF Paid

\* A replica tries a row it claimed: one record at most for the pass that is open
\* from now on, the others for the acknowledgements that were lost.
LEMMA TryPays ==
    ASSUME TypeOK, ClaimInv, PaidInv, NEW r \in Replica, NEW e \in Event,
           NEW out \in Outcome \ {"none"}, NEW n \in Nat, NEW k \in Nat,
           e \in todo[r], wrote' = [wrote EXCEPT ![r][e] = out],
           UNCHANGED <<attempts, aborts>>,
           Store(KeyPartition[e], e, n), Resend(e, k), n <= k + 1
    PROVE  PaidInv'
<1>2. /\ \A f \in Event : f # e => Records(f)' = Records(f)
      /\ IsFiniteSet(Records(e)) =>
            /\ IsFiniteSet(Records(e)')
            /\ Cardinality(Records(e)') <= Cardinality(Records(e)) + n
  BY StoreRecords
<1>r. /\ resends'[e] = resends[e] + k
      /\ \A f \in Event : f # e => resends'[f] = resends[f]
  BY DEF TypeOK, Resend
<1>3. OpenPasses(e) = {} /\ OpenPasses(e)' # {}
  <2>1. OpenPasses(e) \subseteq {r} /\ wrote[r][e] = "none"
    BY OnePass DEF Held, ClaimInv
  <2>2. wrote'[r][e] # "none"
    BY DEF TypeOK, Outcome
  <2> QED BY <2>1, <2>2 DEF OpenPasses
<1>4. \A f \in Event : f # e => OpenPasses(f)' = OpenPasses(f)
  BY DEF OpenPasses, TypeOK
<1> SUFFICES ASSUME NEW f \in Relayed PROVE Paid(f)'
  BY DEF PaidInv, Relayed
<1>5. /\ Paid(f) /\ f \in Event
      /\ attempts[f] \in Nat /\ aborts \in Nat /\ resends[f] \in Nat
  BY DEF PaidInv, Relayed, TypeOK
<1>6. CASE f # e
  BY <1>2, <1>r, <1>4, <1>5, <1>6 DEF Paid
<1>7. CASE f = e
  <2>1. IsFiniteSet(Records(e)) /\ Cardinality(Records(e)) \in Nat
        /\ Cardinality(Records(e)) <= attempts[e] + aborts + resends[e]
    BY <1>3, <1>5, <1>7, FS_CardinalityType DEF Paid
  <2>2. IsFiniteSet(Records(e)') /\ Cardinality(Records(e)') \in Nat
    BY <1>2, <2>1, FS_CardinalityType
  <2>3. Cardinality(Records(e)') <= attempts'[e] + aborts' + resends'[e] + 1
    BY <1>2, <1>r, <2>1, <2>2, <1>5, <1>7
  <2> QED BY <2>2, <2>3, <1>3, <1>7 DEF Paid
<1> QED BY <1>6, <1>7

LEMMA PaidStep == ASSUME TypeOK, ClaimInv, PaidInv, [Next]_vars PROVE PaidInv'
<1>0. ASSUME UNCHANGED <<log, wrote, aborts>>,
             \A e \in Relayed : attempts'[e] = attempts[e] /\ resends'[e] = resends[e]
      PROVE  PaidInv'
  <2>1. \A e : Records(e)' = Records(e) /\ OpenPasses(e)' = OpenPasses(e)
    BY <1>0, SameLogSameRecords DEF OpenPasses
  <2> QED BY <1>0, <2>1 DEF PaidInv, Paid, Relayed
<1>1. ASSUME NEW t \in Txn, Request(t) PROVE PaidInv'
  BY <1>0, <1>1 DEF Request, Begin, Commit, Rollback, relayVars, kafkaVars
<1>2. ASSUME NEW r \in Replica, Claim(r) \/ EmptyPass(r) PROVE PaidInv'
  BY <1>0, <1>2 DEF Claim, EmptyPass, vars, kafkaVars
<1>3. ASSUME NEW r \in Replica, NEW e \in Event, NEW n \in Nat, PublishOk(r, e, n)
      PROVE  PaidInv'
  <2>1. n - 1 \in Nat /\ n <= (n - 1) + 1
    BY <1>3 DEF PublishOk
  <2>2. /\ e \in todo[r]
        /\ wrote' = [wrote EXCEPT ![r][e] = "sent"]
        /\ UNCHANGED <<attempts, aborts>>
        /\ Store(KeyPartition[e], e, n)
        /\ Resend(e, n - 1)
    BY <1>3 DEF PublishOk, NextRow
  <2>3. "sent" \in Outcome \ {"none"}
    BY DEF Outcome
  <2> QED BY <2>1, <2>2, <2>3, TryPays
<1>4. ASSUME NEW r \in Replica, NEW e \in Event, NEW n \in Nat, NEW toDlq \in BOOLEAN,
             PublishFail(r, e, n, toDlq)
      PROVE  PaidInv'
  <2> DEFINE out == IF Parked(e) THEN "failed" ELSE "pending"
             again == IF n = 0 THEN 0 ELSE n - 1
  <2>1. out \in Outcome \ {"none"} /\ again \in Nat /\ n <= again + 1
    BY DEF Outcome
  <2>2. /\ e \in todo[r]
        /\ wrote' = [wrote EXCEPT ![r][e] = out]
        /\ UNCHANGED <<attempts, aborts>>
        /\ Store(KeyPartition[e], e, n)
        /\ Resend(e, again)
    BY <1>4 DEF PublishFail, NextRow
  <2> HIDE DEF out, again
  <2> QED BY <2>1, <2>2, TryPays
<1>5. ASSUME NEW r \in Replica, CommitPass(r) PROVE PaidInv'
  <2> SUFFICES ASSUME NEW e \in Relayed PROVE Paid(e)'
    BY DEF PaidInv, Relayed
  <2>1. /\ log' = log /\ aborts' = aborts /\ resends' = resends
        /\ \A q \in Replica : q # r => wrote'[q] = wrote[q]
        /\ wrote'[r][e] = "none"
        /\ attempts'[e] = IF wrote[r][e] = "none" THEN attempts[e] ELSE attempts[e] + 1
    BY <1>5 DEF CommitPass, kafkaVars, TypeOK, NoWrites, Relayed
  <2>2. Records(e)' = Records(e)
    BY <2>1, SameLogSameRecords
  <2>3. Paid(e) /\ e \in Event /\ attempts[e] \in Nat /\ aborts \in Nat /\ resends[e] \in Nat
    BY DEF PaidInv, Relayed, TypeOK
  <2>4. Cardinality(Records(e)) \in Nat
    BY <2>3, FS_CardinalityType DEF Paid
  <2>5. CASE wrote[r][e] = "none"
    <3>1. OpenPasses(e)' = OpenPasses(e)
      BY <2>1, <2>5 DEF OpenPasses
    <3> QED BY <2>1, <2>2, <2>3, <2>5, <3>1 DEF Paid
  <2>6. CASE wrote[r][e] # "none"
    <3>1. OpenPasses(e)' = {} /\ OpenPasses(e) # {}
      <4>1. OpenPasses(e) \subseteq {r}
        BY <2>3, <2>6, OnePass DEF Held
      <4> QED BY <4>1, <2>1, <2>6 DEF OpenPasses
    <3>2. Cardinality(Records(e)) <= attempts[e] + aborts + resends[e] + 1
      BY <2>3, <3>1 DEF Paid
    <3>3. Cardinality(Records(e)') <= attempts'[e] + aborts' + resends'[e] + 0
      BY <2>1, <2>2, <2>3, <2>4, <2>6, <3>2
    <3> QED BY <2>2, <2>3, <3>1, <3>3 DEF Paid
  <2> QED BY <2>5, <2>6
<1>6. ASSUME NEW r \in Replica, AbortPass(r) PROVE PaidInv'
  <2> SUFFICES ASSUME NEW e \in Relayed PROVE Paid(e)'
    BY DEF PaidInv, Relayed
  <2>1. log' = log /\ aborts' = aborts + 1 /\ attempts' = attempts /\ resends' = resends
    BY <1>6 DEF AbortPass, kafkaVars
  <2>2. Records(e)' = Records(e)
    BY <2>1, SameLogSameRecords
  <2>3. Paid(e) /\ attempts[e] \in Nat /\ aborts \in Nat /\ resends[e] \in Nat
    BY DEF PaidInv, Relayed, TypeOK
  <2>4. Cardinality(Records(e)) \in Nat
    BY <2>3, FS_CardinalityType DEF Paid
  <2>5. Cardinality(Records(e)) <= attempts[e] + aborts + resends[e] + 1
    BY <2>3, <2>4 DEF Paid
  <2>6. Cardinality(Records(e)') <= attempts'[e] + aborts' + resends'[e] + 0
    BY <2>1, <2>2, <2>3, <2>4, <2>5
  <2>7. Cardinality(Records(e)') <= attempts'[e] + aborts' + resends'[e] + 1
    BY <2>1, <2>2, <2>3, <2>4, <2>5
  <2> QED BY <2>2, <2>3, <2>6, <2>7 DEF Paid
<1>7. ASSUME NEW e \in InlineEvent, NEW p \in Partition,
             InlinePublish(e, p) \/ InlineResend(e, p)
      PROVE  PaidInv'
  <2>1. Store(p, e, 1) /\ UNCHANGED <<attempts, wrote, aborts>>
    BY <1>7 DEF InlinePublish, InlineResend, relayVars
  <2>2. \A f \in Relayed : Records(f)' = Records(f)
    BY <2>1, StoreRecords DEF Relayed
  <2>3. \A f \in Relayed : resends'[f] = resends[f]
    BY <1>7 DEF InlinePublish, InlineResend, Resend, Relayed, TypeOK
  <2> QED BY <2>1, <2>2, <2>3 DEF PaidInv, Paid, OpenPasses, Relayed
<1>8. ASSUME NEW e \in InlineEvent, InlineSkip(e) \/ InlineGiveUp(e) \/ InlineMark(e)
      PROVE  PaidInv'
  <2>1. \A f \in Relayed : attempts'[f] = attempts[f]
    BY <1>8 DEF InlineSkip, InlineGiveUp, InlineMark, TypeOK, Relayed
  <2> QED
    BY <1>0, <1>8, <2>1 DEF InlineSkip, InlineGiveUp, InlineMark, relayVars, kafkaVars
<1>9. CASE UNCHANGED vars
  BY <1>0, <1>9 DEF vars, kafkaVars
<1>10. ASSUME NEW r \in Replica, NEW e \in Event, Publish(r, e) PROVE PaidInv'
  <2>1. 0..MaxResends + 1 \subseteq Nat
    OBVIOUS
  <2> QED BY <1>3, <1>4, <1>10, <2>1 DEF Publish
<1> QED
  BY <1>1, <1>2, <1>5, <1>6, <1>7, <1>8, <1>9, <1>10 DEF Next, Drain, InlineStep

\* Every record of a row is paid for by a counted attempt, a rolled-back pass, the
\* pass that is open, or an acknowledgement that was lost inside a send.
THEOREM Duplicates == Spec => []DuplicatesAreAccounted
<1>1. IndInv /\ PaidInv /\ [Next]_vars => PaidInv'
  BY PaidStep DEF IndInv
<1>2. IndInv /\ PaidInv => DuplicatesAreAccounted
  <2> SUFFICES ASSUME IndInv, PaidInv, NEW e \in Relayed
               PROVE  Copies(e) <= attempts[e] + aborts + resends[e]
                                     + Cardinality(OpenPasses(e))
    BY DEF DuplicatesAreAccounted, OpenPasses
  <2>1. Copies(e) = Cardinality(Records(e))
    BY DEF Copies, Records, RecordsIn
  <2>2. Paid(e) /\ e \in Event
    BY DEF PaidInv, Relayed
  <2>3. CASE OpenPasses(e) = {}
    BY <2>1, <2>2, <2>3, FS_EmptySet DEF Paid
  <2>4. CASE OpenPasses(e) # {}
    <3>1. PICK r \in Replica : r \in OpenPasses(e)
      BY <2>4 DEF OpenPasses
    <3>2. OpenPasses(e) = {r}
      BY <2>2, <3>1, OnePass DEF IndInv, OpenPasses, Held
    <3>3. Cardinality(OpenPasses(e)) = 1
      BY <3>2, FS_Singleton
    <3> QED BY <2>1, <2>2, <2>4, <3>3 DEF Paid
  <2> QED BY <2>3, <2>4
<1> QED BY <1>1, <1>2, PaidInit, IndInvariant, PTL DEF Spec
-----------------------------------------------------------------------------
(* One replica works through a stream in order.                            *)

\* Times of transactions lie in the past, a commit after its begin.
Clocked ==
    \A t \in Txn :
        /\ txn[t] # "idle" => createdAt[t] <= clock
        /\ txn[t] = "committed" => createdAt[t] <= committedAt[t]

\* A replica that holds a row holds the pending rows that precede it.
Queued ==
    \A r \in Replica, e \in Event : \A f \in Held(r) :
        Precedes(e, f) /\ status[e] = "pending" => e \in Held(r)

\* The rows that a replica holds were committed.
LEMMA HeldIsCommitted ==
    ASSUME TypeOK, ClaimInv, RowInv, NEW r \in Replica, NEW f \in Held(r)
    PROVE  f \in Event /\ txn[TxnOf[f]] = "committed"
<1>1. f \in Event
  BY DEF TypeOK, Held
<1>2. status[f] = "pending"
  BY DEF ClaimInv
<1> QED BY <1>1, <1>2 DEF RowInv

LEMMA ClockedStep == ASSUME TypeOK, Clocked, [Next]_vars PROVE Clocked'
<1>1. ASSUME NEW t \in Txn, Request(t) PROVE Clocked'
  <2>1. CASE Begin(t)
    BY <2>1 DEF TypeOK, Begin, Clocked
  <2>2. CASE Commit(t)
    BY <2>2 DEF TypeOK, Commit, Clocked
  <2>3. CASE Rollback(t)
    BY <2>3 DEF TypeOK, Rollback, Clocked
  <2> QED BY <1>1, <2>1, <2>2, <2>3 DEF Request
<1>2. ASSUME UNCHANGED reqVars PROVE Clocked'
  BY <1>2 DEF reqVars, Clocked
<1>3. ASSUME NEW r \in Replica, Drain(r) \/ AbortPass(r) \/ EmptyPass(r)
      PROVE  UNCHANGED reqVars
  BY <1>3 DEF Drain, Claim, Publish, PublishOk, PublishFail, CommitPass, AbortPass,
              EmptyPass, vars, reqVars
<1>4. ASSUME NEW e \in InlineEvent, InlineStep(e) PROVE UNCHANGED reqVars
  BY <1>4 DEF InlineStep, InlinePublish, InlineResend, InlineSkip, InlineGiveUp, InlineMark
<1>5. CASE UNCHANGED vars
  BY <1>5, <1>2 DEF vars, reqVars
<1> QED BY <1>1, <1>2, <1>3, <1>4, <1>5 DEF Next

\* A claim takes the oldest rows, and with one replica none are skipped.
LEMMA QueuedStep ==
    ASSUME \A r, q \in Replica : r = q,
           TypeOK, ClaimInv, RowInv, Clocked, Queued, [Next]_vars
    PROVE  Queued'
<1>q. ASSUME NEW r \in Replica, NEW e \in Event, NEW f \in Held(r),
             Precedes(e, f), status[e] = "pending"
      PROVE  e \in Held(r)
  BY <1>q DEF Queued
<1>1. ASSUME NEW t \in Txn, Request(t) PROVE Queued'
  <2> SUFFICES ASSUME NEW r \in Replica, NEW e \in Event, NEW f \in Held(r)',
                      Precedes(e, f)', status'[e] = "pending"
               PROVE  e \in Held(r)'
    BY DEF Queued
  <2>1. Held(r)' = Held(r)
    BY <1>1 DEF Request, Begin, Commit, Rollback, relayVars, Held
  <2>2. f \in Event /\ txn[TxnOf[f]] = "committed"
    BY <2>1, HeldIsCommitted
  <2>3. TxnOf[f] \in Txn /\ TxnOf[e] \in Txn
    BY <2>2 DEF OutboxAssumption
  <2>4. CASE Begin(t)
    <3>1. TxnOf[e] # t /\ TxnOf[f] # t
      BY <2>2, <2>3, <2>4 DEF Begin, Precedes, TypeOK
    <3>2. Precedes(e, f) /\ status[e] = "pending"
      BY <2>3, <2>4, <3>1 DEF Begin, Precedes, TypeOK
    <3> QED BY <1>q, <2>1, <3>2
  <2>5. CASE Commit(t)
    <3>1. TxnOf[f] # t /\ createdAt[TxnOf[f]] <= clock
      BY <2>2, <2>3, <2>5 DEF Commit, Clocked
    <3>2. TxnOf[e] # t
      BY <2>3, <2>5, <3>1 DEF Commit, Precedes, TypeOK
    <3>3. Precedes(e, f) /\ status[e] = "pending"
      BY <2>3, <2>5, <3>1, <3>2 DEF Commit, Precedes, TypeOK
    <3> QED BY <1>q, <2>1, <3>3
  <2>6. CASE Rollback(t)
    <3>1. TxnOf[e] # t /\ TxnOf[f] # t
      BY <2>2, <2>3, <2>6 DEF Rollback, Precedes, TypeOK
    <3>2. Precedes(e, f) /\ status[e] = "pending"
      BY <2>3, <2>6, <3>1 DEF Rollback, Precedes, TypeOK
    <3> QED BY <1>q, <2>1, <3>2
  <2> QED BY <1>1, <2>4, <2>5, <2>6 DEF Request
\* Rows that are held stay held, and no row becomes pending.
<1>f. ASSUME UNCHANGED reqVars,
             \A r \in Replica : Held(r)' = Held(r) \/ Held(r)' = {},
             \A e \in Event : status'[e] = "pending" => status[e] = "pending"
      PROVE  Queued'
  BY <1>f, <1>q DEF Queued, Precedes, reqVars
<1>2. ASSUME NEW r \in Replica, Claim(r) PROVE Queued'
  <2>1. PICK B \in OldestBatch(Claimable) : todo' = [todo EXCEPT ![r] = B]
    BY <1>2 DEF Claim
  <2>2. Held(r)' = B /\ Locked = {}
    BY <1>2, <2>1 DEF Claim, Idle, Held, Locked, TypeOK
  <2>3. UNCHANGED <<reqVars, status>>
    BY <1>2 DEF Claim
  <2>4. ASSUME NEW e \in Event, NEW f \in B, Precedes(e, f), status[e] = "pending"
        PROVE  e \in B
    <3>1. f \in Event /\ TxnOf[f] \in Txn /\ TxnOf[e] \in Txn
      BY DEF OldestBatch, Claimable, OutboxAssumption
    <3>2. CreatedAt(e) < CreatedAt(f)
      BY <2>4, <3>1 DEF Precedes, Clocked, CreatedAt, TypeOK
    <3>3. e \in Claimable
      BY <2>2, <2>4 DEF Claimable
    <3>4. CreatedAt(e) \in Nat /\ CreatedAt(f) \in Nat
      BY <3>1 DEF CreatedAt, TypeOK
    <3> QED BY <3>2, <3>3, <3>4 DEF OldestBatch
  <2>5. ASSUME NEW e \in Event, NEW f \in B, Precedes(e, f)', status'[e] = "pending"
        PROVE  e \in B
    BY <2>3, <2>4, <2>5 DEF Precedes, reqVars
  <2> QED BY <2>2, <2>5 DEF Queued
<1>3. ASSUME NEW r \in Replica, NEW e \in Event, Publish(r, e) PROVE Queued'
  <2>1. PICK outcome \in Outcome \ {"none"} :
            /\ e \in todo[r]
            /\ todo' = [todo EXCEPT ![r] = @ \ {e}]
            /\ wrote' = [wrote EXCEPT ![r][e] = outcome]
            /\ UNCHANGED <<reqVars, status>>
    <3>1. ASSUME NEW n, PublishOk(r, e, n)
          PROVE  \E outcome \in Outcome \ {"none"} :
                    /\ e \in todo[r]
                    /\ todo' = [todo EXCEPT ![r] = @ \ {e}]
                    /\ wrote' = [wrote EXCEPT ![r][e] = outcome]
                    /\ UNCHANGED <<reqVars, status>>
      BY <3>1 DEF PublishOk, NextRow, Outcome
    <3>2. ASSUME NEW n, NEW toDlq \in BOOLEAN, PublishFail(r, e, n, toDlq)
          PROVE  \E outcome \in Outcome \ {"none"} :
                    /\ e \in todo[r]
                    /\ todo' = [todo EXCEPT ![r] = @ \ {e}]
                    /\ wrote' = [wrote EXCEPT ![r][e] = outcome]
                    /\ UNCHANGED <<reqVars, status>>
      <4> DEFINE tried == IF Parked(e) THEN "failed" ELSE "pending"
      <4>1. /\ e \in todo[r]
            /\ todo' = [todo EXCEPT ![r] = @ \ {e}]
            /\ wrote' = [wrote EXCEPT ![r][e] = tried]
            /\ UNCHANGED <<reqVars, status>>
        BY <3>2 DEF PublishFail, NextRow
      <4>2. tried \in Outcome \ {"none"}
        BY DEF Outcome
      <4> HIDE DEF tried
      <4> QED BY <4>1, <4>2
    <3> QED BY <1>3, <3>1, <3>2 DEF Publish
  <2>2. ASSUME NEW q \in Replica PROVE Held(q)' = Held(q)
    BY <2>1 DEF Held, TypeOK
  <2> QED BY <1>f, <2>1, <2>2
<1>4. ASSUME NEW r \in Replica, CommitPass(r) PROVE Queued'
  <2>1. ASSUME NEW q \in Replica PROVE Held(q)' = {}
    BY <1>4, <2>1 DEF CommitPass, Held, NoWrites, TypeOK
  <2> QED BY <2>1 DEF Queued
<1>5. ASSUME NEW r \in Replica, AbortPass(r) PROVE Queued'
  <2>1. ASSUME NEW q \in Replica PROVE Held(q)' = {}
    BY <1>5, <2>1 DEF AbortPass, Held, NoWrites, TypeOK
  <2> QED BY <2>1 DEF Queued
<1>6. ASSUME NEW r \in Replica, EmptyPass(r) PROVE Queued'
  BY <1>6, <1>f DEF EmptyPass, vars, reqVars, Held
<1>7. ASSUME NEW e \in InlineEvent, InlineStep(e) PROVE Queued'
  <2>1. /\ UNCHANGED <<reqVars, relayVars>>
        /\ \A x \in Event : status'[x] = "pending" => status[x] = "pending"
    BY <1>7 DEF InlineStep, InlinePublish, InlineResend, InlineSkip, InlineGiveUp, InlineMark, TypeOK
  <2> QED BY <1>f, <2>1 DEF relayVars, Held
<1>8. CASE UNCHANGED vars
  BY <1>8, <1>f DEF vars, reqVars, Held
<1> QED BY <1>1, <1>2, <1>3, <1>4, <1>5, <1>6, <1>7, <1>8 DEF Next, Drain

\* What a replica stores is preceded in its stream by what it has tried.
LEMMA StoredInOrder ==
    ASSUME IndInv, Clocked, Queued, [Next]_vars,
           NEW r \in Replica, NEW e \in Relayed, NEW f \in Relayed,
           Precedes(e, f), wrote[r][f] = "none", wrote'[r][f] = "sent"
    PROVE  \/ e \in Delivered
           \/ status[e] = "failed"
           \/ wrote[r][e] \in {"pending", "failed"}
<1>e. e \in Event /\ f \in Event
  BY DEF Relayed
<1>1. f \in NextRow(r)
  <2>1. ASSUME NEW q \in Replica, NEW x \in Event, Publish(q, x) PROVE f \in NextRow(r)
    <3>1. x \in NextRow(q) /\ \E o \in Outcome : wrote' = [wrote EXCEPT ![q][x] = o]
      BY <2>1 DEF Publish, PublishOk, PublishFail, Outcome
    <3>2. q = r /\ x = f
      BY <1>e, <3>1 DEF IndInv, TypeOK
    <3> QED BY <3>1, <3>2
  <2>2. ASSUME NEW q \in Replica, Claim(q) \/ CommitPass(q) \/ AbortPass(q) \/ EmptyPass(q)
        PROVE  FALSE
    <3>1. wrote' = wrote \/ wrote' = [wrote EXCEPT ![q] = NoWrites]
      BY <2>2 DEF Claim, CommitPass, AbortPass, EmptyPass, vars
    <3>2. wrote'[r] = wrote[r] \/ wrote'[r] = NoWrites
      BY <3>1 DEF IndInv, TypeOK
    <3>3. NoWrites[f] = "none"
      BY <1>e DEF NoWrites
    <3> QED BY <3>2, <3>3
  <2>3. ASSUME NEW t \in Txn, Request(t) PROVE FALSE
    BY <2>3 DEF Request, Begin, Commit, Rollback, relayVars
  <2>4. ASSUME NEW x \in InlineEvent, InlineStep(x) PROVE FALSE
    BY <2>4 DEF InlineStep, InlinePublish, InlineResend, InlineSkip, InlineGiveUp, InlineMark, relayVars
  <2>5. ~UNCHANGED vars
    BY DEF vars
  <2> QED BY <2>1, <2>2, <2>3, <2>4, <2>5 DEF Next, Drain
<1>2. status[e] \in {"pending", "sent", "failed"}
  BY <1>e DEF IndInv, RowInv, Precedes, TypeOK, Status
<1>3. CASE status[e] = "sent"
  BY <1>e, <1>3 DEF IndInv, RowInv, SentIsDelivered, Relayed
<1>4. CASE status[e] = "pending"
  <2>1. e \in Held(r)
    BY <1>e, <1>1, <1>4 DEF Queued, NextRow, Held
  <2>2. e \notin todo[r]
    <3>1. TxnOf[e] \in Txn /\ TxnOf[f] \in Txn
      BY <1>e DEF OutboxAssumption
    <3>2. CreatedAt(e) < CreatedAt(f)
      BY <3>1 DEF Precedes, Clocked, CreatedAt, IndInv, TypeOK
    <3>3. CreatedAt(e) \in Nat /\ CreatedAt(f) \in Nat
      BY <3>1 DEF CreatedAt, IndInv, TypeOK
    <3> QED BY <1>1, <3>2, <3>3 DEF NextRow
  <2>3. wrote[r][e] \in {"pending", "sent", "failed"}
    BY <1>e, <2>1, <2>2 DEF Held, IndInv, TypeOK, Outcome
  <2> QED BY <1>e, <2>3 DEF IndInv, PassInv
<1> QED BY <1>2, <1>3, <1>4

\* With one replica a stream is out of order only where a publish failed.
THEOREM Ordering ==
    ASSUME \A r, q \in Replica : r = q PROVE Spec => OnlyFailureReorders
<1>1. Init => Clocked /\ Queued
  BY DEF Init, Clocked, Queued, Held, NoWrites
<1>2. IndInv /\ Clocked /\ Queued /\ [Next]_vars => (Clocked /\ Queued)'
  BY ClockedStep, QueuedStep DEF IndInv
<1>3. IndInv /\ Clocked /\ Queued /\ [Next]_vars =>
        [\A r \in Replica, e, f \in Relayed :
           (/\ Precedes(e, f)
            /\ SameStream(e, f)
            /\ wrote[r][f] = "none"
            /\ wrote'[r][f] = "sent")
           => \/ e \in Delivered
              \/ status[e] = "failed"
              \/ wrote[r][e] \in {"pending", "failed"}]_vars
  BY StoredInOrder
<1> QED BY <1>1, <1>2, <1>3, IndInvariant, PTL DEF Spec, OnlyFailureReorders
=============================================================================
