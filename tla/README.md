# FuzeFront: a TLA+ verification project

FuzeFront is a microfrontend platform kept in one repository: backend services
for identity and security, applications, billing, e-mail, chat and
configuration, a Kafka event backbone between them, and many frontends. Most of
that code is request and response. What is hard about it is the part that
spans two stores: a row and its event, a table and the topics it is projected
from, an organization and what Permit and Authentik know of it. Processes crash
between the two, messages repeat and reorder, replicas and requests interleave,
and a unit test sees one schedule. This project models that part, checks it on
small instances with TLC, and proves its safety properties for every value of
the constants with TLAPS.

Paths below are relative to `src/`.

## Inventory

| Component | State | Operations | Interacts with | Hard behaviour | What makes it correct |
|---|---|---|---|---|---|
| Transactional outbox and relay (`backend/core/src/events`, `shared/src/kafka/producer.ts`) | rows of `event_outbox`, their status and attempts | `enqueueEvent`, `drainOutboxOnce`, the relay's timer | handlers write rows in their own transaction; the relay sends to Kafka and to dead-letter topics | two replicas, a crash between send and commit, lost acknowledgements, parking | no event of a transaction that rolled back; none lost behind `sent`; duplicates bounded; accepted rows answered for |
| Inline publishers (`backend/security/src/services/oidc.ts`, `eventPublisher.ts`) | the same rows | publish, then `UPDATE ... WHERE correlation_id` | race with the relay | a send that was skipped looks like a success | a row marked `sent` is in Kafka |
| Reference index (`services/billing-service`, `backend/applications`, `packages/identity/src/ref-index.ts`) | `ref_index`, its stamp, the group's offsets | start, `applyEventToRefIndex`, `assertRefExists` | consumes the owners' lifecycle topics; write paths ask it | topics out of order, repeats, crash in the first replay, failing writes, a lost table, two reads | what the group is past is in the table; tombstones are final; no consumed entity is rejected |
| Organization provisioning (`backend/security/src/services/organizationProvisioning.ts`, `routes/internal.ts`) | `organizations`, `organization_provisioning`, an advisory lock | `runInternalProvision`, `reconcileOrganizationProvisioning`, `deprovisionOrganization` | Permit, the mail topic; called by sign-ins, routes, consumers, operators | callers at once, crash between an effect and its commit, hard deletes under a reconcile | nothing recorded that has not happened; wired in order; welcomed once; heals |
| Organization routes (`routes/organizations.ts`) | `organizations`, outbox rows | POST, PUT, DELETE | the outbox, provisioning | a reconcile that fails after the row is committed | the event makes up for it |
| provisioning-service (`services/provisioning-service`) | Kafka offsets | three consumers, `callProvision`, `callDeprovision`, `withDlq` | the internal endpoints | retries of what was done, dead-lettering | no event acknowledged without its reconcile |
| Portal provisioning (`backend/src/services/portalProvisioning.ts`, `custom-domains/authentikRedirect.ts`) | `portal_provisioning`, `portals`, an advisory lock, Authentik's list of redirect URIs | `provisionPortal`, `register` | Permit, Authentik, Kafka | failed steps, rollback after external effects, concurrent requests, a document replaced as a whole | step rows tell the truth; a ready portal is wired; nothing created twice |
| Portal administration (`routes/adminPortals.ts`) | `portals.status` | create, PATCH, suspend, resume | portal provisioning | a suspension during provisioning | a portal is offered only when it is ready |
| Portals as organizations (`backend/security/src/routes/portals.ts`) | `organization_portal_attributes` | CRUD, suspend, resume | organization provisioning | as there | as there |
| One-time payments (`services/billing-service`: `routes/payments.ts`, `payment.repository.ts`, `handlers/payment-completed.ts`) | `payments` | checkout, its replay, the GET, three webhook handlers | Stripe, Kafka | one row with four writers that repeat and reorder | the mirror is never ahead of Stripe and never goes back; outcomes are told once |
| Stripe webhooks (`routes/webhooks.ts`, `webhook-router.ts`) | `stripe_events` | deduplicate, route, answer | Stripe | repeats, a handler that fails after the dedup row | every event is handled once, or is visibly left over |
| Subscriptions and invoices | `subscriptions`, `invoices`, a projection | the handlers of Stripe events | Permit, Kafka, the organization's billing columns | events out of order, last writer wins | the mirror ends at Stripe's state |
| Invitations and memberships (`backend/src/routes/invitations.ts`, `organizations.ts`, security-service's copies) | `organization_invitations`, `organization_memberships`, a home portal | invite, resend, revoke, accept, change and remove a member | Permit after the commit | accepts and revocations cross each other, checks precede the transaction | an invitation lets its person in once and while it is pending; members have their role |
| Usage metering (`metering.service.ts`) | `usage_events` | record, flush in batches of 1000 | Stripe's meter events | retries, poisoned rows at the head of the batch | every event reported once |
| User lifecycle (`userLifecycle.ts`) | sessions | update, deactivate | Permit | two calls, one fails | both happen or are retried |
| OIDC, sign-in, MFA, API tokens | `users`, sessions | the login flows | Authentik | protocol exchanges | left to tests |
| Kafka contract (`shared/src/kafka`) | none | schemas, partition keys | every producer and consumer | schema drift | data, left to tests |
| Permit utilities | none | wrappers | Permit | failures reported as Booleans | part of the callers' models |
| SMS service (`services/sms-service`) | the table of the rate limit, in memory | `check`, `_sweep` | Twilio | a sweep that forgets, restarts | no hour has more codes than the cap |
| E-mail, notification | none | one mail per request event | Kafka, providers | no deduplication, no retry | left to tests |
| Chat service | conversations | retrieval, model calls | providers | mostly I/O | not planned |
| Configuration values (`services/config-service`) | `config_values` | PUT of a batch; GET resolves | four scopes of one user | row locks in any order, errors in the middle, checks before the transaction | a batch is applied as a whole or not at all; none waits for ever |
| Selection lists | lists, items | CRUD under a soft quota | readers | documented overshoot | left to tests |
| Application registry, custom domains | apps, custom hostnames | CRUD, `CustomHostnameService` | Cloudflare, Authentik | polling of external state | its use of `ref_index` is in `RefIndex` |
| Identity graph, FuzeQuality, frontends, SDK, deployment | - | - | - | - | not planned |

`PROJECT.json` lists every component with its sources and the hazards of this
code, each at its line with the properties that would catch it.

## Plan

In the order of what fails most silently; all of it is done:

1. `Outbox` with `AtLeastOnce`: everything else hears of changes through it.
2. `RefIndex`: what a consumer makes of an at-least-once stream. It takes what
   `AtLeastOnce` promises, repeats and reordering across topics, as its input.
3. `OrgProvisioning`: routes, internal endpoints and provisioning-service
   composed, fed by the same at-least-once events.
4. `PortalProvisioning`: a saga with a ledger, then `Invitations`, which let
   people into what it made.
5. `Payments` and `Metering`: what billing-service and Stripe tell each other.
6. `ConfigStore` and `SmsLimiter`: two small services with state of their own.

What would be next, in order: the polling of Cloudflare and the deregistration
of redirect URIs by custom domains, next to the registrar of
`PortalProvisioning`; the manifests of config-service's keys; an abstract ledger
of steps ("a step that is recorded is done") that both provisioning modules
implement, as the payments mirror implements `LaggingMirror`.

## Modules

Each component module is parameterised by CONSTANTS with a named assumption,
has one action per handler or step, and is instantiated by an `MC` module. The
proofs are in modules of their own. "Faulty variant" definitions are plausible
bugs of an action; nothing refers to them, and they serve to show that each
property can be broken by a change of the code.

### `Outbox`, `AtLeastOnce`, `MCOutbox`, `OutboxProofs`

A row is identified with the event it carries. `Begin`, `Commit` and `Rollback`
are a handler's transaction with its `enqueueEvent` calls (`outbox.ts`): rows
appear at the commit with the `created_at` of the transaction's begin. A relay
replica's pass is one transaction: `Claim` takes the oldest unlocked pending
rows (`FOR UPDATE SKIP LOCKED`, `ORDER BY created_at LIMIT`), `PublishOk` and
`PublishFail` try them in that order, `CommitPass` makes the verdicts visible
and counts an attempt, `AbortPass` is a crash or a dropped transaction.
`PublishFail` covers the rejected send and the one that was stored with its
acknowledgements lost, and the dead-letter send of a parked row, which may fail.
`InlinePublish`, `InlineSkip`, `InlineGiveUp` and `InlineMark` are the sign-up
handler, which publishes its own row; `inline` is `unsent` once it has marked a
row whose publish was skipped. Kafka is external: a partition is a sequence of
records. The producer is not idempotent (`producer.ts:9`) and kafkajs sends
again inside one `send()` when an acknowledgement is lost, so that one send,
whether it succeeds or throws, may store several records: `n` in `PublishOk` and
`PublishFail`, `InlineResend` for the handler, which has no key and whose resend
picks its partition anew. `resends` counts the records that these add, and
`DuplicatesAreAccounted` charges a row's records to its attempts, the
rolled-back passes, the resends and the passes that are open.

`AtLeastOnce` is the promise: accepted rows are delivered any number of times,
and leave only delivered or openly given up. `Outbox` implements it with
`accepted` the rows that exist, `settled` and `abandoned` those with status
`sent` and `failed`, and `delivered` those with a record in Kafka.

### `RefIndex`, `MCRefIndex`, `RefIndexProofs`

Owners create and delete entities and publish what they announced, again and in
any order across topics. `Start` is `startRefIndexConsumer` (`fromBeginning`
only if the table is empty, and only where no offset is stored), `Write` and
`Stamp` are the two statements of `applyEventToRefIndex`, `ApplyFails` a failed
one (billing-service lets the error escape, backend/applications logs it:
`ErrorsSwallowed`, which no run sets, see below), `CommitOffsets` is kafkajs,
`Crash` and `LoseTable` are what they say. `Lookup` and `Judge` are the two
reads of `assertRefExists` in enforce mode, and `Age` is the passing of
`staleAfterMs`.

### `OrgProvisioning`, `MCOrgProvisioning`, `OrgProvisioningProofs`

One owner's organizations. A caller is a sign-in, the request that creates an
organization, a consumer of provisioning-service with its HTTP retries, or an
operator. `List` is `runInternalProvision` up to its list, `Lock` the begin of a
reconcile (advisory lock, row, step rows), `StepSucceeds`, `StepSkipped` and
`StepFails` one turn of its loop, `Commit` the organization's new state. The step
rows are transactional and Permit and the mail topic are not: `view` is what the
open transaction sees, `tenant`, `role` and `mails` are what rollbacks do not
undo. `StepSkipped` is the welcome whose publish finds no broker, returns
normally and is recorded as done; `skipped` remembers whose it was, and
`RecordedHappened` says that this is the one record with nothing behind it. A
send of the welcome may store several records, as in `Outbox`; each one more is a
fault.
`Receive`, `Return`, `Fail` and `DeadLetter` are the consumer's side; `Crash`,
`Abandon`, `Disconnect` and `Abort` are faults.

### `PortalProvisioning`, `MCPortalProvisioning`, `PortalProvisioningProofs`

`Request` is the begin of `provisionPortal`'s transaction (lock, `SlugTakenError`
as a guard, step rows, recovered ids), `StepDone` and `StepFails` one turn of
its loop, `ReadUris` and `PatchUris` the registration of the redirect URI as the
two calls it is, `Checkpoint` and `Flip` the SELECT and the UPDATE of the
status, `Optional` the brand and the invitation, `Announce` the publish of
`portal.created`, `Commit` and `Abort` the transaction's end. `Suspend` and
`Resume` are the administrator. `minted`, `permit`, `uris` and `created` survive
a rollback. The status `provisioned-pending-invite` is written `pending_invite`.

### `Payments`, `LaggingMirror`, `Metering`, `MCBilling`, `PaymentsProofs`, `BillingProofs`

`Payments` is one order's Checkout Sessions. `Post`, `MirrorPending`,
`MirrorFails` and `Respond` are POST /payments/checkout, which answers whether
or not its mirror row could be written; `Retrieve` and `Remirror` are the GET
that reads the live session and writes what it read; `Receive` is the webhook up
to its dedup row, `Find`, `Write`, `Emit` and `Finish` a handler between its
statements, and `Throw` the error that is answered with 200. `Upserted` is the
CASE of the one statement all of them use. Stripe is external: buyers pay at
once or by a delayed method, cards are declined, sessions expire, events are
created with each change and delivered again and out of order until answered.

`LaggingMirror` is what the `payments` table promises its readers: it may lag
behind the provider, but is only ever set to what is so there at that moment,
never leaves `paid`, and does not return from an outcome to `pending`. `Payments`
implements it with `mirror` the rows and `truths` the pairs of a session and a
status that may honestly be said of it (`Honest`: `paid` once it is paid,
`expired` once it has expired, `failed` once a payment of its order was declined
or refused, and `pending` always). Stripe's steps are its `Turn`, every write of a
row is a `Reflect` or a stutter, and the requests and handlers in between are
invisible.

`Metering` is a table of usage events and flushes that overlap: `List` takes the
oldest unreported, `Create` sends one to Stripe (and may fail after it arrived),
`Mark` records it, `Reject` and `Fail` go on, and `Die` is the end of a process.
Stripe remembers identifiers, and some events it never accepts.

### `Invitations`, `InvitationsProofs`

A request reads what it decides on (`Invite`, `Accept`, `Resend`, `Revoke`,
`ChangeRole`, `RemoveMember`), and then runs its statements one at a time:
`WriteInvitation`, or `CompareAndSwap`, `Look` and `Admit` in a transaction
whose row locks make others wait, or `WriteRole` and `DeleteMember`; at the end
`Assign` calls Permit, or `Fail`s. `Enroll` and `Lapse` are the person who signs
up and the seven days.

### `ConfigStore`, `PlatformProofs`

PUT /v1/config. `Check` reads the rows of the whole chain and refuses what an
ancestor has locked; `Execute` is one operation of the transaction, which waits
for the row locks of others; `Apply` (COMMIT), `Refuse` (there is nothing to
unlock), `Deadlock` (PostgreSQL's detection of a circle of waiting transactions,
`IsCircle`) and `RollBack` (any other error) are the ways out. A value is named
after the request that set it, so that what an unlock writes back is seen.

### `SmsLimiter`, `PlatformProofs`

`Send` is `check` (its three guards are `Admits`) with the code that is sent
after it, `Sweep` the hourly timer
at any time, `Restart` a process that starts with an empty table. `log` is what
was sent, which the table may forget.

### The `MC` modules

`MCPlatform` checks `PortalProvisioning`, `Invitations`, `SmsLimiter` and
`ConfigStore` together, and `MCBilling` the two billing modules: the parts share no
state, so a behaviour is about one of them and the others stand still, which
checks each as a run of its own would, and `BillingIsBoth` and
`PlatformIsItsParts` prove that this is so: a behaviour of the parts side by side
is a behaviour of each. They extend the modules they check, which is why
`Invitations`, `Metering`, `ConfigStore` and `SmsLimiter` name their `Init`,
`Next` and specification after themselves. The other `MC` modules only give
values to constants.

## Runs

| Run | Question | Bounds |
|---|---|---|
| `outbox_relay` | Do two replicas and an inline publisher lose, invent or resurrect an event? Do the rows only the relay publishes get at-least-once delivery? | two rows in two transactions, one of them inline, two attempts, one rolled-back pass, one resend |
| `outbox_single` | With one replica, what reorders a stream? Is every accepted row answered for? | three rows on two partitions, batch of two, two attempts, one resend |
| `outbox_skip` (violated) | Is a skipped inline publish held for replay, as the comments say? | as `outbox_relay` |
| `ref_index` | Does the table hold what the group is past, are tombstones final, does every deletion arrive, and does the index reject only what it may? | an organization (two topics), a tenant's portal, one reader, one crash, one loss |
| `ref_index_rebuild` (violated) | Is an ordinary restart harmless before the first offsets are stored? | one crash |
| `org_safety` | Do concurrent callers, deletions and faults record, wire or welcome wrongly, or lose an event? | a personal organization and a team, two callers, one retry, one fault |
| `org_heals` | Does an organization become active after a fault, an update, a refused soft delete, unless Permit refuses its role for ever? | one organization, two callers, one fault, a Permit that may refuse a repeated assignment |
| `org_soft_delete` (violated) | Is a soft deprovision processed, without any fault? | one caller, three retries |
| `platform` | Portals: do retries, rollbacks, failed calls and suspensions leave a ledger that tells the truth, a ready portal that is wired, and a portal that completes? Invitations: does one let its person in once, and what do crossing requests leave in Permit? Configuration: are batches whole and do they end? SMS: does the limit hold? | one portal, two requests, two failures, two rollbacks; one person, two portals' invitations, two requests, one failure; three batches of five kinds, two keys, one failure; one phone, two addresses, a cap of two, a clock that goes from six to fourteen with an hour of six |
| `portal_redirect` (violated) | Does a portal keep the redirect URI its step registered? | two portals, no failure |
| `billing` | Is usage billed once, and in the end? Is the payment mirror honest, does it implement `LaggingMirror`, and is every outcome told once? | three usage events, one rejected for ever, batches of two, two flushes, one failure; two sessions, two Stripe events, one mishap |
| `payments_async` (violated) | Does the follow-up webhook decide a session whose payment settles later? | one session, two events, no mishap |

The bounds are the least at which the interesting cases happen: two of whatever
competes (replicas, callers, requests, portals, topics of one entity), three
where an order within a batch matters, one more attempt or retry than none, and
as many faults as one property needs to be told apart from its neighbour.
`platform` has two failures and two rollbacks because the accounting of a portal
counts them. The safety properties that rest on a bound are also proved without
it.

Five runs are expected to be violated. Each checks what a comment of the
repository says, and `PROJECT.json` quotes it:

- a publish that was skipped because the broker could not be reached is marked
  `sent` (`oidc.ts:520`);
- a crash in the middle of the reference index's first replay leaves out the
  topics that had not been read (`ref-index.consumer.ts:54`);
- a soft deprovision writes a value the column's enum does not have
  (`organizationProvisioning.ts:414`);
- two portals provisioned at once lose one of their redirect URIs
  (`authentikRedirect.ts:101`);
- a session that is settled after it completed stays `pending`, because no
  handler is registered for the event that says so (`webhook-router.ts:45`).

## Fairness

- `Outbox`: weak fairness of each replica's `Drain`, because the relay re-arms
  its timer in a `finally` block. Requests and faults are under no obligation.
- `RefIndex`: weak fairness of publishing what is announced (the relay's own
  liveness) and of `Start` (the orchestrator restarts the process), strong
  fairness of `Write` and `Stamp` per topic: kafkajs keeps redelivering and the
  database does not fail for ever.
- `OrgProvisioning`: strong fairness of a caller's work, since PostgreSQL grants
  a lock that keeps coming free, and of the owner signing in again: what the
  code's comment relies on ("will self-heal on the user's next login").
  `SelfHeals` excepts an organization whose role Permit has and no row records
  (`Stranded`): a fault between the assignment and its commit leaves it so, and
  where Permit answers a repeated assignment with a conflict every further try
  fails. Without the exception the run fails.
- `PortalProvisioning`: weak fairness of a request that is under way and strong
  fairness of a request for each slug being made again, which is what "re-triggered
  after a mid-step failure" in the ledger's migration means. Nobody guarantees
  it in code: without an operator's retry a portal stays where it failed.
  `Completes` excepts a portal whose Permit instance was made by a call that
  failed, because the helper takes the conflict of every later call for a failure.

- `Payments`: weak fairness of `Receive` and of a handler's next step: Stripe
  delivers an event until it is answered, and a handler that is running ends.
  Nothing is assumed of buyers, of the GET or of checkout requests.
- `Metering`: weak fairness of each flush, whose timer never stops.
- `ConfigStore`: weak fairness of a request's next step, where PostgreSQL's
  deadlock detection is one. A statement that waits is not enabled, so nothing
  is assumed of locks: that they are given back is what `TransactionsEnd` shows.

Failures are bounded in every liveness run, so these runs show that the system
recovers once failures cease.

## What is proved

Every theorem holds for all values of the constants under the module's named
assumption (sets are arbitrary, bounds are naturals, sentinels such as `None`
are not members of the sets they stand beside).

| Module | Theorems | The inductive invariant and why it is needed |
|---|---|---|
| `OutboxProofs` | `TypeCorrect`, `NoPhantom`, `NoLoss`, `LastResort`, `IndInvariant`, `Finality`, `Duplicates`, `Ordering`, `Refinement` | The properties alone do not say who may write a row. `ClaimInv` does: replicas hold disjoint rows and all of them are pending (what the row locks give). `RowInv` ties rows to committed transactions, `PassInv` ties what an open pass wrote to Kafka and to the attempt count, `AttemptInv` bounds the count by status. `PaidInv` charges each record in Kafka to a counted attempt, an aborted pass, a resend inside a send or the one pass that is open, which is why a row is in one pass only; it holds for any number of resends in each send. `NoLoss` covers the rows published inline too, the relay's verdict overwritten by the handler's UPDATE included, and excepts the mark after a skipped publish alone. `Ordering` is about one replica (its only hypothesis; two do reorder): it needs `Clocked`, that a transaction's rows are dated no later than its commit, and `Queued`, that who holds a row holds every pending row that precedes it, so that a pass never meets the younger one alone. `Refinement` maps every step to a step of `AtLeastOnce` or a stutter. |
| `RefIndexProofs` | `TypeCorrect`, `TombstonesLast`, `IndInvariant`, `Reflection`, `FalseRejects`, `Degrades` | `PassedIsReflected` is not inductive across a restart: `Positions` keeps the stored offset at or before the position, `InFlight` says that a message between write and stamp is in the table already, `EventsHaveCauses` and `RowsHaveCauses` tie messages and rows to the owner's entity, and `MissesAreDeletions` carries a reader's first read over to its verdict. |
| `OrgProvisioningProofs` | `TypeCorrect`, `IndInvariant`, `Recorded`, `Ordered`, `Welcomes`, `Acknowledged` | `Holding` says that the lock and the caller's place agree, `RowsTruthful` and `HolderSees` that a transaction's view extends the committed rows and is as true (what they say is done has happened, or is a welcome that was skipped for lack of a broker; the steps before the welcome have no such exception, which is why `Ordered` has none), `MailsBounded` charges every welcome without a record to a fault, `LoopReaches` that a consumer still has its event's organization before it. |
| `PortalProvisioningProofs` | `PortalTypeCorrect`, `PortalInvariant`, `Ledger`, `Wired`, `Accounted`, `Created`, `KeptOneAtATime`, `KeptAlone` | `Locking` makes a transaction the only one of its slug; `Seen` and `Written` relate its view to the committed rows, the status apart, which an administrator may change meanwhile; `Placed` is what is known at each place of the code; `Minted` and `Announced` charge what no committed row accounts for to a rolled-back transaction. The last two are about the run `portal_redirect`, which loses a URI: with registrations that do not overlap, and so with one portal, whose lock keeps them apart, `Registered` is invariant: a recorded URI is in the list, and so it is in the copy a registrar holds. |
| `PaymentsProofs` | `TypeCorrect`, `IndInvariant`, `Honesty`, `ToldOnce`, `Mirrors` | `Truths` says that whatever is on its way was so at Stripe: what an event, a handler, the GET, a row and an announcement carry. `Once` says that an event has its dedup row before it has a handler, one handler at most, and that a handler ends with what it announces. `Mirrors` is the refinement of `LaggingMirror`: `Truths` is what makes a write of remembered data a `Reflect`, and the CASE of the upsert is what makes a late one a stutter. |
| `BillingProofs` | `MeteringTypeCorrect`, `MeteringInvariant`, `BilledOnce`, `Room`, `BillingIsBoth`, `BillingTypeCorrect`, `BillingIsSafe` | What is about to be marked, or is marked, has been counted by Stripe, and whatever the meter holds of an event is under that event's one identifier. `Room` is the safety half of `UsageIsBilled`: fewer poisoned events than a batch has places cannot fill a batch while another event waits (by counting those older than the oldest of the others). |
| `InvitationsProofs` | `InvitationsTypeCorrect`, `InvitationsInvariant`, `EntersOnce`, `HomeKept`, `HaveRole` | `RowLocking` makes the accept that has swapped the status the only one; `Minting` says that an id is minted for one request and unknown before its row exists; `Granting` that an invitation has let nobody in while it is pending, and one person at most afterwards; `Roles` that an accept is of its invitation's role; `Backing` that a member's role is in Permit or in the hands of a request that will assign it. |
| `PlatformProofs`, SMS | `SmsTypeCorrect`, `SmsInvariant`, `Limit`, `Exact` | `Logged`: what an entry holds was sent, and in the past. `Remembered`: what an entry has forgotten is out of the hour, because the sweep drops an entry only when its last code, and with it all of them, is older. `Stamped` ties both stamps to the log, which gives `Exact`: the limiter answers as one with an endless memory and no guard per address would. |
| `PlatformProofs`, configuration | `ConfigTypeCorrect`, `ConfigInvariant`, `Whole`, `NeverStuck` | `Executed` says which keys a transaction holds: those of the operations it has executed, deletions that found nothing apart. `RowLocksExclude` says that no two hold one row, and `RowsAreApplied` that a row's value was put there by a batch that was applied, so that a rolled-back one leaves nothing. `NeverStuck` is the safety half of `TransactionsEnd`: among finitely many transactions that all wait, the smallest set closed under waiting is a circle, which PostgreSQL breaks. |
| `PlatformProofs`, composition | `PlatformIsItsParts`, `PlatformTypeCorrect`, `PlatformIsSafe` | None of its own: each step of the platform is a step of one part and leaves the others unchanged, so their invariants add up. |

The proofs are laid out alike: types first, then a lemma for each part of the
invariant with one step per action, then the theorems by temporal reasoning.
`OutboxProofs` has one step per action and invariant; `OrgProvisioningProofs`
first sorts the actions into the few kinds that matter to the lock (`Calm`,
`Acquire`, ...); `PortalProvisioningProofs` splits a transaction into its begin,
its `Middle` and its end, with a frame lemma for what each leaves alone.

## What is only model-checked

- Liveness: `ImplementsResponsive`, `DeletionArrives`, `SelfHeals`, `Completes`,
  `UsageIsBilled`, `OutcomeIsTold`, `TransactionsEnd`. The prover does not do
  liveness under fairness. `Room` and `NeverStuck` are as far as safety reaches:
  what has to happen is always possible.
- The five violated runs, which are counterexamples.

## What is not modelled, and where the code and its comments differ

Data is abstracted to what the properties tell apart: payloads, names, tokens,
schemas and correlation ids are left out, a mail is a count, a tenant a name.
Time enters as `clock` in `Outbox`, as one step of ageing in `RefIndex` and as a
bounded clock in `SmsLimiter`. PostgreSQL is taken at READ COMMITTED with row
and advisory locks as documented. Retries' delays, logging and authorization are
left out. In `PortalProvisioning` each portal has its one default domain, a slug
without step rows and one with all rows pending are the same, and PATCH of a
status is not modelled. In `Outbox` the records of one send of the relay are
stored in one step, and a record that the broker stores after its send has
ended, having been taken for lost, is not modelled. Components without a module
are listed above and in `PROJECT.json` with the reason.

Differences met while modelling that no run checks:

- Outbox: two replicas may publish a stream out of order, because a replica
  skips a row another one holds; a comment in `registry.ts:61` expects the key
  to keep the order. Two replicas may also send one row twice after an abort
  (`outboxRelay.ts:45` speaks of rows never published twice).
- Kafka: the producer is not idempotent, so that a lost acknowledgement may
  store a record twice within one counted attempt (`producer.ts:9`,
  `client.ts:14-19`). The models of the outbox and of the welcome mail say so.
  `CreatedIsAccounted` and `EventsAreToldOnce` count sends: a record of
  `portal.created` or `billing.payment.completed` that kafkajs stored twice is one.
- Reference index: a lost table is not rebuilt while offsets exist, although
  `ref-index.consumer.ts:43` and `identifier-standard.md:153` rely on a replay.
- Organizations: a hard deprovision leaves the Permit tenant
  (`handler.ts:128`); an update of an active organization never reaches Permit,
  its steps being done (`handler.ts:95`); a sign-in lists and wires a
  soft-deleted organization (`organizations.ts:640`); with the root-membership
  flag on, failed organizations are not retried (`organizations.ts:241`); a
  conflict on a repeated role assignment counts as a failure
  (`role-assignment.ts:22`), so that an organization whose role was assigned by a
  lost transaction does not heal; a welcome mail that was skipped because no
  broker was there is recorded as `done`, and its outbox row is inserted as `sent`,
  so that nobody sends it later, while `eventPublisher.ts:100` says "(outbox holds
  it)".
- Portals: `portal.created` is lost if its publish fails or is skipped, since
  its outbox row is inserted as `sent` and the relay never looks at it, while
  the comment calls the row "the durable record" (`portalProvisioning.ts:587`);
  a failed invitation or brand is "independently retryable" but the next request
  is refused as a taken slug (`:284`); after a rollback the retry mints another
  organization and leaves the first one's tenant in Permit (`:278`); an
  administrator's suspension between the checkpoint's read and its write is
  overwritten (`:493`); and resuming a suspended portal makes it `active` even
  if it was suspended half-provisioned (`adminPortals.ts:415`).
- Reference index, continued: `assertRefExists` may reject an entity that is
  consumed between its two reads, as it may one that is not consumed yet;
  `NoFalseReject` is about entities consumed when the request asked. Also, every
  consumer but billing-service's logs an event it fails to apply and goes past
  it (`backend/applications/src/kafka/ref-index.consumer.ts:90`,
  `backend/security/src/kafka/ref-index.consumer.ts:75`, and those of the
  backend and the chat service); the properties are claimed of
  billing-service's.
- Payments: a failed intent is put down to the latest row of its order, whichever
  session it is of (`payment.repository.ts:125`); 'failed' is announced although
  the buyer may still pay in the open session, and may reach its reader after
  the payment; an event whose handler failed is never handled again
  (`webhooks.ts:62`), so that its outcome is not announced unless somebody replays
  it: `OutcomeIsTold` is claimed without such failures. Usage is billed once as
  long as Stripe remembers an identifier, and a correlation id names one usage;
  as many rejected events as a batch has places stop the metering
  (`metering.service.ts:33`), which `UsageIsBilled` excludes.
- Subscriptions: the mirror keeps the event that was delivered last, not the
  one that happened last (`subscription.repository.ts:76`).
- Invitations: revoking overwrites `accepted` (`organizations.ts:1115`); roles of
  members who were changed or removed stay in Permit (`role-assignment.ts:13`,
  which only adds); two portals' invitations accepted at once make a member of
  another portal's account, which the check at `invitations.ts:213` is there to
  refuse; an account without a home cannot be invited to a portal
  (`organizations.ts:956`), though accepting would give it one.
- Configuration: the `ETag` of a GET (a hash) is never the version a PUT computes
  (`w1-...`), though `version.ts:14` and `openapi.yaml:386` rely on it; the version
  and the ancestors' locks are read before the transaction, so that two
  conditional writes may both succeed and a write may land under a lock just
  taken; an unlock writes the value it read before the transaction, where the
  comment says it preserves "whatever value is there" (`config.write.ts:292`);
  two batches may each win half of their keys where one of them unsets a row
  that is absent and so locks nothing; a ROLLBACK on a lost connection throws
  out of the handler (`config.write.ts:317`), and the process ends.
- SMS: a rejected call of Twilio is a rejection nobody handles, so that the
  process ends and the limits start anew; the limit is one per process; the
  guard per phone and address never decides, since the phone's own stamp is as
  recent.
