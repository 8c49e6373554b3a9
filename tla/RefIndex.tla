------------------------------ MODULE RefIndex ------------------------------
(***************************************************************************)
(* The reference index (referential-integrity layer L1): a table of the    *)
(* entities other services own, projected from their lifecycle topics by   *)
(* one consumer group (ref-index.consumer.ts, ref-index.repository.ts) and *)
(* read by assertRefExists (packages/identity/src/ref-index.ts).           *)
(*                                                                         *)
(* The owners' outbox is what module AtLeastOnce promises: an announced    *)
(* change is published one or more times, in any order across topics.      *)
(* kafkajs is external: one message at a time, offsets committed for the   *)
(* topics it has processed, fromBeginning only where no offset is stored.  *)
(***************************************************************************)
EXTENDS Integers, Sequences

CONSTANTS
    Entity,
    Topic,            \* one partition each
    CreatedTopic,     \* Entity -> Topic, identity.org.created and the like
    DeletedTopic,     \* the same for users and organizations; portals have none
    TenantOf,         \* Entity -> tenant of its row, NoTenant when unscoped
    Tenant,
    NoTenant,
    Reader,           \* requests that call assertRefExists with enforce
    Established,      \* the group already has an offset on every topic
    ErrorsSwallowed,  \* the handler catches and logs a failed apply
    MaxRepeats,       \* bound: how long a topic may grow by repeated events
    MaxCrashes,       \* bound: consumer crashes
    MaxLosses         \* bound: losses of the table

NoOffset == -1
CreatedTopics == {CreatedTopic[e] : e \in Entity}
DeletedTopics == {DeletedTopic[e] : e \in DOMAIN DeletedTopic}

ASSUME RefIndexAssumption ==
    /\ CreatedTopic \in [Entity -> Topic]
    /\ DOMAIN DeletedTopic \subseteq Entity
    /\ DeletedTopic \in [DOMAIN DeletedTopic -> Topic]
    /\ CreatedTopics \cap DeletedTopics = {}
    /\ NoTenant \notin Tenant
    /\ TenantOf \in [Entity -> Tenant \cup {NoTenant}]
    /\ Established \in BOOLEAN
    /\ ErrorsSwallowed \in BOOLEAN
    /\ MaxRepeats \in Nat /\ MaxCrashes \in Nat /\ MaxLosses \in Nat

VARIABLES
    life,       \* the owner's entity: "unborn" | "alive" | "deleted"
    announced,  \* <<topic, entity>> pairs the owner's outbox still publishes
    log,        \* the messages of each topic, as the entities they are about
    row,        \* status column of ref_index, "none" without a row
    applied,    \* last_applied_at: "never" | "recent" | "old"
    up,         \* the consumer is running
    next,       \* messages of each topic the consumer has passed
    resolved,   \* topics with a message processed since the consumer started
    writing,    \* topics whose message is written but not yet stamped: at most one
    committed,  \* the group's stored offsets
    reader,     \* a request: what it looked up, what it saw, its verdict
    crashes,
    losses

ownerVars    == <<life, announced, log>>
tableVars    == <<row, applied>>
consumerVars == <<up, next, resolved, writing, committed>>
boundVars    == <<crashes, losses>>
vars == <<life, announced, log, row, applied, up, next, resolved, writing,
          committed, reader, crashes, losses>>

Asks == [pc : {"missed", "accepted", "degraded", "rejected"},
         entity : Entity, tenant : Tenant \cup {NoTenant}, seen : BOOLEAN]
Waiting == [pc |-> "idle"]

Init ==
    /\ life = [e \in Entity |-> "unborn"]
    /\ announced = {}
    /\ log = [t \in Topic |-> <<>>]
    /\ row = [e \in Entity |-> "none"]
    /\ applied = "never"
    /\ up = FALSE
    /\ next = [t \in Topic |-> 0]
    /\ resolved = {}
    /\ writing = {}
    /\ committed = [t \in Topic |-> IF Established THEN 0 ELSE NoOffset]
    /\ reader = [r \in Reader |-> Waiting]
    /\ crashes = 0
    /\ losses = 0

-----------------------------------------------------------------------------
(* The owning services.                                                    *)

Create(e) ==
    /\ life[e] = "unborn"
    /\ life' = [life EXCEPT ![e] = "alive"]
    /\ announced' = announced \cup {<<CreatedTopic[e], e>>}
    /\ UNCHANGED <<log, tableVars, consumerVars, reader, boundVars>>

Delete(e) ==
    /\ e \in DOMAIN DeletedTopic
    /\ life[e] = "alive"
    /\ life' = [life EXCEPT ![e] = "deleted"]
    /\ announced' = announced \cup {<<DeletedTopic[e], e>>}
    /\ UNCHANGED <<log, tableVars, consumerVars, reader, boundVars>>

\* again: the relay will publish the event once more (AtLeastOnce!Deliver).
Publish(t, e, again) ==
    /\ <<t, e>> \in announced
    /\ again => Len(log[t]) < MaxRepeats
    /\ log' = [log EXCEPT ![t] = Append(@, e)]
    /\ announced' = IF again THEN announced ELSE announced \ {<<t, e>>}
    /\ UNCHANGED <<life, tableVars, consumerVars, reader, boundVars>>

-----------------------------------------------------------------------------
(* startRefIndexConsumer and its handler.                                  *)

IsEmpty == \A e \in Entity : row[e] = "none"

\* subscribe(topic, fromBeginning = isEmpty()): a stored offset wins, and
\* without one the group starts at the beginning or at the tip.
StartAt(t) ==
    IF committed[t] # NoOffset THEN committed[t]
    ELSE IF IsEmpty THEN 0 ELSE Len(log[t])

Start ==
    /\ ~up
    /\ up' = TRUE
    /\ next' = [t \in Topic |-> StartAt(t)]
    /\ resolved' = {}
    /\ UNCHANGED <<ownerVars, tableVars, writing, committed, reader, boundVars>>

HasMessage(t) == up /\ writing = {} /\ next[t] < Len(log[t])

Message(t) == log[t][next[t] + 1]

\* Faulty variant: ON CONFLICT DO UPDATE without the tombstone guard.
UpsertedBlindly(e) == "active"

\* INSERT ... ON CONFLICT DO UPDATE WHERE status <> 'deleted'.
Upserted(e) == IF row[e] = "deleted" THEN "deleted" ELSE "active"

\* Faulty variant: UPDATE ... SET status = 'deleted', for rows that exist.
TombstonedIfPresent(e) == IF row[e] = "none" THEN "none" ELSE "deleted"

\* Faulty variant: a status the table's CHECK does not list.
TombstonedAsArchived(e) == "archived"

\* INSERT ... ON CONFLICT DO UPDATE SET status = 'deleted'.
Tombstoned(e) == "deleted"

\* applyEventToRefIndex: the topic decides between upsert and markDeleted.
Write(t) ==
    /\ HasMessage(t)
    /\ row' = [row EXCEPT ![Message(t)] = IF t \in DeletedTopics
                                          THEN Tombstoned(Message(t))
                                          ELSE Upserted(Message(t))]
    /\ writing' = {t}
    /\ UNCHANGED <<ownerVars, applied, up, next, resolved, committed, reader,
                   boundVars>>

\* The handler is done with the message.
Advance(t) ==
    /\ next' = [next EXCEPT ![t] = @ + 1]
    /\ resolved' = resolved \cup {t}

\* touch() succeeds and the handler returns.
Stamp(t) ==
    /\ t \in writing
    /\ applied' = "recent"
    /\ writing' = {}
    /\ Advance(t)
    /\ UNCHANGED <<ownerVars, row, up, committed, reader, boundVars>>

\* The write or the stamp fails in the database.  billing-service lets it
\* escape, and kafkajs hands the same message to the handler again; the other
\* services log it and return.
ApplyFails(t) ==
    /\ HasMessage(t) \/ t \in writing
    /\ writing' = {}
    /\ IF ErrorsSwallowed THEN Advance(t) ELSE UNCHANGED <<next, resolved>>
    /\ UNCHANGED <<ownerVars, tableVars, up, committed, reader, boundVars>>

\* kafkajs commits what the handler has finished.
CommitOffsets ==
    /\ up
    /\ committed' = [t \in Topic |-> IF t \in resolved THEN next[t] ELSE committed[t]]
    /\ UNCHANGED <<ownerVars, tableVars, up, next, resolved, writing, reader,
                   boundVars>>

Crash ==
    /\ up
    /\ crashes < MaxCrashes
    /\ crashes' = crashes + 1
    /\ up' = FALSE
    /\ writing' = {}
    /\ UNCHANGED <<ownerVars, tableVars, next, resolved, committed, reader, losses>>

\* Restored from a backup without the table, or truncated.
LoseTable ==
    /\ ~up
    /\ losses < MaxLosses
    /\ losses' = losses + 1
    /\ row' = [e \in Entity |-> "none"]
    /\ applied' = "never"
    /\ UNCHANGED <<ownerVars, consumerVars, reader, crashes>>

\* staleAfterMs (five minutes) pass without an event.
Age ==
    /\ applied = "recent"
    /\ applied' = "old"
    /\ UNCHANGED <<ownerVars, row, consumerVars, reader, boundVars>>

-----------------------------------------------------------------------------
(* assertRefExists in enforce mode: two reads.                             *)

\* Faulty variant: an unscoped row only answers an unscoped question.
HasStrictly(e, tn) == row[e] = "active" /\ tn \in {NoTenant, TenantOf[e]}

\* The row of another tenant does not count.
Has(e, tn) ==
    /\ row[e] = "active"
    /\ \/ tn = NoTenant
       \/ TenantOf[e] = NoTenant
       \/ TenantOf[e] = tn

\* The consumer has passed the entity's created event.
Passed(e) ==
    \E i \in 1..next[CreatedTopic[e]] :
        i \in DOMAIN log[CreatedTopic[e]] /\ log[CreatedTopic[e]][i] = e

Lookup(r, e, tn) ==
    /\ reader[r].pc # "missed"
    /\ reader' = [reader EXCEPT ![r] =
                    [pc |-> IF Has(e, tn) THEN "accepted" ELSE "missed",
                     entity |-> e, tenant |-> tn, seen |-> up /\ Passed(e)]]
    /\ UNCHANGED <<ownerVars, tableVars, consumerVars, boundVars>>

\* Faulty variant: an entity the table does not know is always rejected.
JudgeWithoutDegrade(r) ==
    /\ reader[r].pc = "missed"
    /\ reader' = [reader EXCEPT ![r].pc = "rejected"]
    /\ UNCHANGED <<ownerVars, tableVars, consumerVars, boundVars>>

\* lastAppliedAt: a stale projection accepts what it does not know.
Judge(r) ==
    /\ reader[r].pc = "missed"
    /\ reader' = [reader EXCEPT ![r].pc =
                    IF applied = "recent" THEN "rejected" ELSE "degraded"]
    /\ UNCHANGED <<ownerVars, tableVars, consumerVars, boundVars>>

-----------------------------------------------------------------------------
Owner ==
    \/ \E e \in Entity : Create(e) \/ Delete(e)
    \/ \E t \in Topic, e \in Entity, again \in BOOLEAN : Publish(t, e, again)

Consume == \E t \in Topic : Write(t) \/ Stamp(t)

Consumer == Start \/ Consume \/ (\E t \in Topic : ApplyFails(t)) \/ CommitOffsets

Read == \E r \in Reader :
            \/ \E e \in Entity, tn \in Tenant \cup {NoTenant} : Lookup(r, e, tn)
            \/ Judge(r)

Next == Owner \/ Consumer \/ Crash \/ LoseTable \/ Age \/ Read

Spec == Init /\ [][Next]_vars

\* The relay keeps publishing what is announced, the orchestrator restarts the
\* consumer, kafkajs keeps delivering, and the database does not fail for ever.
FairSpec ==
    /\ Spec
    /\ \A t \in Topic, e \in Entity : WF_vars(Publish(t, e, FALSE))
    /\ WF_vars(Start)
    /\ \A t \in Topic : SF_vars(Write(t)) /\ SF_vars(Stamp(t))

-----------------------------------------------------------------------------
TypeOK ==
    /\ life \in [Entity -> {"unborn", "alive", "deleted"}]
    /\ announced \subseteq Topic \X Entity
    /\ log \in [Topic -> Seq(Entity)]
    /\ row \in [Entity -> {"none", "active", "deleted"}]
    /\ applied \in {"never", "recent", "old"}
    /\ up \in BOOLEAN
    /\ next \in [Topic -> Nat]
    /\ resolved \subseteq Topic
    /\ writing \subseteq Topic
    /\ committed \in [Topic -> Nat \cup {NoOffset}]
    /\ reader \in [Reader -> {Waiting} \cup Asks]
    /\ crashes \in Nat
    /\ losses \in Nat

\* The table holds what a message of topic t about e says.
Told(t, e) ==
    /\ t \in CreatedTopics => row[e] # "none"
    /\ t \in DeletedTopics => row[e] = "deleted"

\* What the group will not read again: the messages before the running
\* consumer's position, or before the stored offset it will resume from.
Behind(t) == IF up THEN next[t] ELSE committed[t]

\* Once the group is past a message, the table holds what it said: no crash,
\* redelivery or order of the topics leaves an announced entity out or a
\* deleted one live.  ("Resumes where it stopped and the rows it already wrote
\* are still there": ref-index.consumer.ts; a lost table is another matter.)
PassedIsReflected ==
    losses = 0 => \A t \in Topic : \A i \in 1..Behind(t) : i \in DOMAIN log[t] => Told(t, log[t][i])

\* A tombstone is final while the table lasts: a late or repeated created event
\* never brings the row back (WHERE status <> 'deleted' in upsert).
TombstoneIsFinal ==
    [][\A e \in Entity : row[e] = "deleted" /\ losses' = losses
                            => row'[e] = "deleted"]_vars

\* A request is never rejected over an entity that lives, belongs to the asking
\* tenant or to none, and whose created event the consumer had passed when it
\* asked, as long as the table was never lost (assertRefExists, enforce).
NoFalseReject ==
    losses = 0 => \A r \in Reader :
        reader[r].pc = "rejected" =>
            ~ /\ reader[r].seen
              /\ life[reader[r].entity] = "alive"
              /\ \/ NoTenant \in {reader[r].tenant, TenantOf[reader[r].entity]}
                 \/ reader[r].tenant = TenantOf[reader[r].entity]

\* While no event was ever applied the index rejects nothing: a fresh or
\* unreachable projection does not take the write path down (the degrade of
\* enforce to warn in assertRefExists).  Until the table is lost, a verdict
\* "rejected" means that some event was applied.
NeverAppliedNeverRejects ==
    losses = 0 /\ applied = "never" => \A r \in Reader : reader[r].pc # "rejected"

\* A deleted entity is tombstoned in the end, through crashes and failing writes
\* (the self-healing the consumer's comment claims), unless the table is lost.
DeletionArrives ==
    \A e \in Entity :
        life[e] = "deleted" ~> (row[e] = "deleted" \/ losses > 0)
=============================================================================
