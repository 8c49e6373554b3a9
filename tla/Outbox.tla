------------------------------- MODULE Outbox -------------------------------
(***************************************************************************)
(* The event backbone of FuzeFront's backend: rows of `event_outbox`       *)
(* written inside the transaction of a state change (outbox.ts), relay     *)
(* replicas that drain them to Kafka (outboxRelay.ts, kafkaPublisher.ts),  *)
(* and the sign-up handler that also publishes its own row inline          *)
(* (security/src/services/oidc.ts, eventPublisher.ts).                     *)
(*                                                                         *)
(* A row is identified with the event it carries.  Kafka is the one part   *)
(* that is not under src/: a partition is a sequence of records and a send *)
(* may be rejected, or stored with its acknowledgement lost.  kafkajs then *)
(* sends again inside the one send() of the code, and as the producer is   *)
(* not idempotent the record may be stored once more each time.            *)
(***************************************************************************)
EXTENDS Naturals, FiniteSets, Sequences
LOCAL INSTANCE Functions

CONSTANTS
    Txn,            \* database transactions of request handlers
    Event,          \* outbox rows
    InlineEvent,    \* rows whose handler also publishes them inline
    Replica,        \* relay replicas (one per security-service process)
    Partition,      \* Kafka partitions: one per topic and key here
    TxnOf,          \* the transaction that enqueues a row
    KeyPartition,   \* where the row's partition key sends it
    BatchSize,      \* rows claimed per drain pass (default 20)
    MaxAttempts,    \* publishes before a row is parked (default 10)
    MaxAborts,      \* bound: drain transactions that are rolled back
    MaxResends      \* bound: records that resends inside send() add

ASSUME OutboxAssumption ==
    /\ InlineEvent \subseteq Event
    /\ TxnOf \in [Event -> Txn]
    /\ KeyPartition \in [Event -> Partition]
    /\ BatchSize \in Nat \ {0}
    /\ MaxAttempts \in Nat \ {0}
    /\ MaxAborts \in Nat
    /\ MaxResends \in Nat

VARIABLES
    clock,       \* transactions begun so far: the database's now()
    txn,         \* "idle" | "open" | "committed" | "rolledback"
    createdAt,   \* now() at BEGIN, the rows' created_at default
    committedAt, \* the clock at COMMIT
    status,      \* committed status column, "absent" before COMMIT
    attempts,    \* committed attempts column
    todo,        \* rows a replica claimed and has not tried in this pass
    wrote,       \* the status a replica's open transaction gave a row
    inline,      \* where the inline publisher of a row is
    log,         \* records of each partition, by the row they carry
    resends,     \* records of a row that were added by a resend
    dlq,         \* rows sent to their <topic>.dlq
    aborts

relayVars == <<todo, wrote>>
kafkaVars == <<log, resends>>
reqVars   == <<clock, txn, createdAt, committedAt>>
vars == <<clock, txn, createdAt, committedAt, status, attempts, todo, wrote,
          inline, kafkaVars, dlq, aborts>>

Status  == {"absent", "pending", "sent", "failed"}
Outcome == {"none", "pending", "sent", "failed"}

\* Where an inline publisher is: "unsent" once it has marked a row whose publish
\* was skipped, "done" on every other way out.
Publishing == {"publish", "published", "skipped"}
Stage      == {"none", "done", "unsent"} \cup Publishing

\* Rows only the relay ever publishes.
Relayed == Event \ InlineEvent

\* The rows a replica holds FOR UPDATE.
Held(r) == todo[r] \cup {e \in Event : wrote[r][e] # "none"}
Locked  == UNION {Held(r) : r \in Replica}

CreatedAt(e) == createdAt[TxnOf[e]]

\* Rows with at least one record in Kafka.
Delivered == {e \in Event : \E p \in Partition :
                              \E i \in DOMAIN log[p] : log[p][i] = e}

NoWrites == [e \in Event |-> "none"]

Init ==
    /\ clock = 0
    /\ txn = [t \in Txn |-> "idle"]
    /\ createdAt = [t \in Txn |-> 0]
    /\ committedAt = [t \in Txn |-> 0]
    /\ status = [e \in Event |-> "absent"]
    /\ attempts = [e \in Event |-> 0]
    /\ todo = [r \in Replica |-> {}]
    /\ wrote = [r \in Replica |-> NoWrites]
    /\ inline = [e \in Event |-> "none"]
    /\ log = [p \in Partition |-> <<>>]
    /\ resends = [e \in Event |-> 0]
    /\ dlq = {}
    /\ aborts = 0

-----------------------------------------------------------------------------
(* A request handler's transaction.                                        *)

\* Faulty variant: enqueueEvent given the pool instead of the transaction, so
\* the rows are visible at once.
BeginOutsideTrx(t) ==
    /\ txn[t] = "idle"
    /\ txn' = [txn EXCEPT ![t] = "open"]
    /\ clock' = clock + 1
    /\ createdAt' = [createdAt EXCEPT ![t] = clock + 1]
    /\ status' = [e \in Event |-> IF TxnOf[e] = t THEN "pending" ELSE status[e]]
    /\ UNCHANGED <<committedAt, attempts, relayVars, inline, kafkaVars, dlq,
                   aborts>>

Begin(t) ==
    /\ txn[t] = "idle"
    /\ txn' = [txn EXCEPT ![t] = "open"]
    /\ clock' = clock + 1
    /\ createdAt' = [createdAt EXCEPT ![t] = clock + 1]
    /\ UNCHANGED <<committedAt, status, attempts, relayVars, inline, kafkaVars, dlq,
                   aborts>>

\* enqueueEvent: the rows become visible with the state change they describe.
Commit(t) ==
    /\ txn[t] = "open"
    /\ txn' = [txn EXCEPT ![t] = "committed"]
    /\ committedAt' = [committedAt EXCEPT ![t] = clock]
    /\ status' = [e \in Event |->
                    IF TxnOf[e] = t THEN "pending" ELSE status[e]]
    /\ inline' = [e \in Event |->
                    IF e \in InlineEvent /\ TxnOf[e] = t THEN "publish"
                                                         ELSE inline[e]]
    /\ UNCHANGED <<clock, createdAt, attempts, relayVars, kafkaVars, dlq, aborts>>

Rollback(t) ==
    /\ txn[t] = "open"
    /\ txn' = [txn EXCEPT ![t] = "rolledback"]
    /\ UNCHANGED <<clock, createdAt, committedAt, status, attempts, relayVars,
                   inline, kafkaVars, dlq, aborts>>

-----------------------------------------------------------------------------
(* The relay: drainOutboxOnce in one database transaction.                 *)

Idle(r) == Held(r) = {}

\* Faulty variant: the claim without FOR UPDATE SKIP LOCKED.
ClaimableUnlocked == {e \in Event : status[e] = "pending"}

\* Pending rows no other transaction has locked.
Claimable == {e \in Event : status[e] = "pending"} \ Locked

\* ORDER BY created_at LIMIT batchSize, rows of equal created_at in any order.
OldestBatch(free) ==
    {B \in SUBSET free :
       /\ \/ Cardinality(B) = BatchSize
          \/ Cardinality(B) < BatchSize /\ B = free
       /\ \A e \in B, f \in free \ B : CreatedAt(e) <= CreatedAt(f)}

\* Faulty variant: the claim marks its rows sent, outside the drain's
\* transaction, and publishes afterwards.
ClaimAndMark(r) ==
    /\ Idle(r)
    /\ Claimable # {}
    /\ \E B \in OldestBatch(Claimable) :
         /\ todo' = [todo EXCEPT ![r] = B]
         /\ status' = [e \in Event |-> IF e \in B THEN "sent" ELSE status[e]]
    /\ UNCHANGED <<reqVars, attempts, wrote, inline, kafkaVars, dlq, aborts>>

Claim(r) ==
    /\ Idle(r)
    /\ Claimable # {}
    /\ \E B \in OldestBatch(Claimable) : todo' = [todo EXCEPT ![r] = B]
    /\ UNCHANGED <<reqVars, status, attempts, wrote, inline, kafkaVars, dlq, aborts>>

EmptyPass(r) ==
    /\ Idle(r)
    /\ Claimable = {}
    /\ UNCHANGED vars

\* Faulty variant: the claim without ORDER BY.
NextRowUnordered(r) == todo[r]

\* The claimed rows in the order the loop visits them.
NextRow(r) == {e \in todo[r] : \A f \in todo[r] : CreatedAt(e) <= CreatedAt(f)}

\* The partition gets n records of the row.
Store(p, e, n) == log' = [log EXCEPT ![p] = @ \o [i \in 1..n |-> e]]

\* n of the row's records come from resends.
Resend(e, n) ==
    /\ SumFunction(resends) + n <= MaxResends
    /\ resends' = [resends EXCEPT ![e] = @ + n]

PublishOk(r, e, n) ==
    /\ e \in NextRow(r)
    /\ n >= 1
    /\ Store(KeyPartition[e], e, n)
    /\ Resend(e, n - 1)
    /\ todo' = [todo EXCEPT ![r] = @ \ {e}]
    /\ wrote' = [wrote EXCEPT ![r][e] = "sent"]
    /\ UNCHANGED <<reqVars, status, attempts, inline, dlq, aborts>>

\* Faulty variant: the limit is met one attempt early.
ParkedEarly(e) == attempts[e] + 2 >= MaxAttempts

Parked(e) == attempts[e] + 1 >= MaxAttempts

\* Faulty variant: the publish swallows its error and returns.
PublishSwallow(r, e, n, toDlq) ==
    /\ e \in NextRow(r)
    /\ toDlq = FALSE
    /\ Store(KeyPartition[e], e, n)
    /\ Resend(e, IF n = 0 THEN 0 ELSE n - 1)
    /\ todo' = [todo EXCEPT ![r] = @ \ {e}]
    /\ wrote' = [wrote EXCEPT ![r][e] = "sent"]
    /\ UNCHANGED <<reqVars, status, attempts, inline, dlq, aborts>>

\* The send threw: schema rejection or no broker, with nothing stored (n = 0),
\* or every acknowledgement was lost after the broker stored the record.  The
\* dead-letter send of a parked row may itself fail, and is swallowed (toDlq).
PublishFail(r, e, n, toDlq) ==
    /\ e \in NextRow(r)
    /\ toDlq => Parked(e)
    /\ Store(KeyPartition[e], e, n)
    /\ Resend(e, IF n = 0 THEN 0 ELSE n - 1)
    /\ todo' = [todo EXCEPT ![r] = @ \ {e}]
    /\ wrote' = [wrote EXCEPT ![r][e] = IF Parked(e) THEN "failed" ELSE "pending"]
    /\ dlq' = IF toDlq THEN dlq \cup {e} ELSE dlq
    /\ UNCHANGED <<reqVars, status, attempts, inline, aborts>>

\* Faulty variants: the update without its WHERE id; attempts not bumped on
\* success; attempts not bumped on failure.
CommitPassEveryRow(r) ==
    /\ todo[r] = {}
    /\ wrote[r] # NoWrites
    /\ status' = wrote[r]
    /\ wrote' = [wrote EXCEPT ![r] = NoWrites]
    /\ UNCHANGED <<reqVars, attempts, todo, inline, kafkaVars, dlq, aborts>>

CommitPassCounting(r, counted) ==
    /\ todo[r] = {}
    /\ wrote[r] # NoWrites
    /\ status' = [e \in Event |->
                    IF wrote[r][e] = "none" THEN status[e] ELSE wrote[r][e]]
    /\ attempts' = [e \in Event |->
                      IF wrote[r][e] \in counted THEN attempts[e] + 1 ELSE attempts[e]]
    /\ wrote' = [wrote EXCEPT ![r] = NoWrites]
    /\ UNCHANGED <<reqVars, todo, inline, kafkaVars, dlq, aborts>>

CommitPassSuccessUncounted(r) == CommitPassCounting(r, {"pending", "failed"})
CommitPassFailureUncounted(r) == CommitPassCounting(r, {"sent"})

CommitPass(r) ==
    /\ todo[r] = {}
    /\ wrote[r] # NoWrites
    /\ status' = [e \in Event |->
                    IF wrote[r][e] = "none" THEN status[e] ELSE wrote[r][e]]
    /\ attempts' = [e \in Event |->
                      IF wrote[r][e] = "none" THEN attempts[e] ELSE attempts[e] + 1]
    /\ wrote' = [wrote EXCEPT ![r] = NoWrites]
    /\ UNCHANGED <<reqVars, todo, inline, kafkaVars, dlq, aborts>>

\* The process dies, or the database drops the drain's transaction: its writes
\* and locks go, what reached Kafka stays.
AbortPass(r) ==
    /\ ~Idle(r)
    /\ aborts < MaxAborts
    /\ aborts' = aborts + 1
    /\ todo' = [todo EXCEPT ![r] = {}]
    /\ wrote' = [wrote EXCEPT ![r] = NoWrites]
    /\ UNCHANGED <<reqVars, status, attempts, inline, kafkaVars, dlq>>

-----------------------------------------------------------------------------
(* The inline publisher of the sign-up handler.                            *)

\* An unkeyed send: the producer picks the partition.
InlinePublish(e, p) ==
    /\ inline[e] = "publish"
    /\ Store(p, e, 1)
    /\ inline' = [inline EXCEPT ![e] = "published"]
    /\ UNCHANGED <<reqVars, status, attempts, relayVars, resends, dlq, aborts>>

\* Its acknowledgement was lost: kafkajs sends again, and picks anew.
InlineResend(e, p) ==
    /\ inline[e] = "published"
    /\ Store(p, e, 1)
    /\ Resend(e, 1)
    /\ UNCHANGED <<reqVars, status, attempts, relayVars, inline, dlq, aborts>>

\* getProducer returned null (no brokers, or connect failed): the publish
\* returns normally without sending.
InlineSkip(e) ==
    /\ inline[e] = "publish"
    /\ inline' = [inline EXCEPT ![e] = "skipped"]
    /\ UNCHANGED <<reqVars, status, attempts, relayVars, kafkaVars, dlq, aborts>>

\* The send threw, or the process died: the row is left to the relay.
InlineGiveUp(e) ==
    /\ inline[e] \in Publishing
    /\ inline' = [inline EXCEPT ![e] = "done"]
    /\ UNCHANGED <<reqVars, status, attempts, relayVars, kafkaVars, dlq, aborts>>

\* UPDATE ... WHERE correlation_id, which waits for a replica's row lock.
InlineMark(e) ==
    /\ inline[e] \in {"published", "skipped"}
    /\ e \notin Locked
    /\ status' = [status EXCEPT ![e] = "sent"]
    /\ attempts' = [attempts EXCEPT ![e] = 1]
    /\ inline' = [inline EXCEPT ![e] = IF @ = "skipped" THEN "unsent" ELSE "done"]
    /\ UNCHANGED <<reqVars, relayVars, kafkaVars, dlq, aborts>>

-----------------------------------------------------------------------------
Request(t) == Begin(t) \/ Commit(t) \/ Rollback(t)

Publish(r, e) ==
    \E n \in 0..MaxResends + 1 :
        \/ PublishOk(r, e, n)
        \/ \E toDlq \in BOOLEAN : PublishFail(r, e, n, toDlq)

Drain(r) ==
    \/ Claim(r)
    \/ \E e \in Event : Publish(r, e)
    \/ CommitPass(r)

InlineStep(e) ==
    \/ \E p \in Partition : InlinePublish(e, p) \/ InlineResend(e, p)
    \/ InlineSkip(e)
    \/ InlineGiveUp(e)
    \/ InlineMark(e)

Next ==
    \/ \E t \in Txn : Request(t)
    \/ \E r \in Replica : Drain(r) \/ AbortPass(r) \/ EmptyPass(r)
    \/ \E e \in InlineEvent : InlineStep(e)

Spec == Init /\ [][Next]_vars

\* The relay's timer re-arms in a finally block, so every replica keeps
\* draining; requests are under no obligation to run or to finish.
FairSpec == Spec /\ \A r \in Replica : WF_vars(Drain(r))

-----------------------------------------------------------------------------
(* Properties.                                                             *)

TypeOK ==
    /\ clock \in Nat
    /\ txn \in [Txn -> {"idle", "open", "committed", "rolledback"}]
    /\ createdAt \in [Txn -> Nat]
    /\ committedAt \in [Txn -> Nat]
    /\ status \in [Event -> Status]
    /\ attempts \in [Event -> Nat]
    /\ todo \in [Replica -> SUBSET Event]
    /\ wrote \in [Replica -> [Event -> Outcome]]
    /\ inline \in [Event -> Stage]
    /\ log \in [Partition -> Seq(Event)]
    /\ resends \in [Event -> Nat]
    /\ dlq \in SUBSET Event
    /\ aborts \in Nat

\* The outbox's reason to exist (outbox.ts: "if the transaction rolls back,
\* the event is dropped with it"): whatever reaches Kafka, a dead-letter topic
\* included, was enqueued by a transaction that committed.
NoPhantomEvent ==
    \A e \in Delivered \cup dlq : txn[TxnOf[e]] = "committed"

\* No event is lost behind a 'sent', the relay's or an inline publisher's,
\* whatever crashed, failed or was retried in between and whoever overwrote whose
\* verdict.  The one exception is the mark after a skipped publish, which
\* SkippedPublishIsHeld is about.
SentIsDelivered ==
    \A e \in Event : status[e] = "sent" /\ inline[e] # "unsent" => e \in Delivered

Copies(e) == Cardinality(UNION {{<<p, i>> : i \in {j \in DOMAIN log[p] :
                                      log[p][j] = e}} : p \in Partition})

\* Every record is paid for by an attempt the row counts, a rolled-back pass or
\* an acknowledgement lost inside a send: the relay itself, whatever its replicas
\* read and in which order they commit, sends no row that it need not send.
DuplicatesAreAccounted ==
    \A e \in Relayed :
       Copies(e) <= attempts[e] + aborts + resends[e]
                      + Cardinality({r \in Replica : wrote[r][e] # "none"})

\* A row is given up only when every one of its MaxAttempts publishes was
\* counted, and reaches its dead-letter topic no earlier than the last of them.
\* (A rolled-back pass can leave a dead-lettered row pending: hence - 1.)
DeadLetterIsLastResort ==
    \A e \in Relayed :
       /\ status[e] = "failed"  => attempts[e] = MaxAttempts
       /\ status[e] = "pending" => attempts[e] < MaxAttempts
       /\ e \in dlq => attempts[e] + 1 >= MaxAttempts

\* Once a pass commits a row as 'sent' or 'failed' no other replica, working
\* from what it read earlier, brings it back.
ResolvedIsFinal ==
    [][\A e \in Relayed : status[e] \in {"sent", "failed"} =>
                            status'[e] = status[e]]_vars

\* e was committed before the transaction of f began.
Precedes(e, f) ==
    /\ txn[TxnOf[e]] = "committed"
    /\ txn[TxnOf[f]] # "idle"
    /\ committedAt[TxnOf[e]] < createdAt[TxnOf[f]]

SameStream(e, f) == e # f /\ KeyPartition[e] = KeyPartition[f]

\* With one relay replica only a failed publish reorders a stream: when a pass
\* stores f, an older row of the stream is already in Kafka, was parked, or has
\* just failed in this very pass.
OnlyFailureReorders ==
    [][\A r \in Replica, e, f \in Relayed :
         (/\ Precedes(e, f)
          /\ SameStream(e, f)
          /\ wrote[r][f] = "none"
          /\ wrote'[r][f] = "sent")
         => \/ e \in Delivered
            \/ status[e] = "failed"
            \/ wrote[r][e] \in {"pending", "failed"}]_vars

\* The rows only the relay publishes, as AtLeastOnce sees them.
Guarantee == INSTANCE AtLeastOnce WITH
    Row       <- Relayed,
    accepted  <- {e \in Relayed : status[e] # "absent"},
    delivered <- Delivered \cap Relayed,
    settled   <- {e \in Relayed : status[e] = "sent"},
    abandoned <- {e \in Relayed : status[e] = "failed"}

\* The relay implements the at-least-once delivery the callers rely on.
ImplementsAtLeastOnce == Guarantee!Spec

\* ... and answers for every accepted row: none is forgotten, and failing ones
\* do not starve the rest.
ImplementsResponsive == Guarantee!Responsive

-----------------------------------------------------------------------------
(* What the repository's comments say and the code does not do.            *)

\* oidc.ts:508 "Best-effort publish; failure leaves the outbox row 'pending'
\* for replay" and eventPublisher.ts:84 "(outbox holds it)".
SkippedPublishIsHeld ==
    \A e \in InlineEvent : status[e] = "sent" => e \in Delivered
=============================================================================
