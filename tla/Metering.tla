------------------------------ MODULE Metering ------------------------------
(***************************************************************************)
(* Usage metering of billing-service: billing.usage.recorded events are    *)
(* buffered in billing.usage_events, and a timer flushes the oldest of     *)
(* them, one by one, to Stripe's meters (services/metering.service.ts,     *)
(* usage.repository.ts, kafka/consumer.ts, index.ts).  The timer does not  *)
(* wait for the flush before it, and each replica has its own, so flushes  *)
(* overlap.  Stripe is external: it keeps the first meter event of an      *)
(* identifier, and some events it never accepts.                           *)
(***************************************************************************)
EXTENDS Integers, FiniteSets

CONSTANTS
    Usage,        \* usage events: numbers, in the order of occurred_at
    Rejected,     \* those Stripe never accepts
    Flush,        \* flushes that may be in progress at once
    BatchSize,    \* of a flush (DEFAULT_BATCH)
    MaxFailures   \* bound: failing calls, failing statements and crashes

ASSUME MeteringAssumption ==
    /\ Usage \subseteq Nat /\ IsFiniteSet(Usage)
    /\ Rejected \subseteq Usage
    /\ BatchSize \in Nat \ {0}
    /\ MaxFailures \in Nat

VARIABLES
    buffered,   \* rows of billing.usage_events
    reported,   \* those with a reported_at
    todo,       \* what each flush has read and not come to the end of
    step,       \* what each flush does next with the oldest of these
    meter,      \* Stripe: the meter events it counts
    failures

meteringVars == <<buffered, reported, todo, step, meter, failures>>

\* Identifiers are made of a flush and an event, for the faulty variant's sake.
Identifier == Flush \X Usage \cup Usage

MeteringInit ==
    /\ buffered = {}
    /\ reported = {}
    /\ todo = [f \in Flush |-> {}]
    /\ step = [f \in Flush |-> "create"]
    /\ meter = {}
    /\ failures = 0

\* INSERT ... ON CONFLICT (correlation_id) DO NOTHING.
Buffer(u) ==
    /\ buffered' = buffered \cup {u}
    /\ UNCHANGED <<reported, todo, step, meter, failures>>

Oldest(S) == CHOOSE u \in S : \A v \in S : u <= v

\* Faulty variant: the oldest rows of the buffer, reported or not.
UnreportedOrNot == buffered

Unreported == buffered \ reported

\* ORDER BY occurred_at ASC LIMIT batchSize.
Batch == {u \in Unreported : Cardinality({v \in Unreported : v < u}) < BatchSize}

List(f) ==
    /\ todo[f] = {}
    /\ todo' = [todo EXCEPT ![f] = Batch]
    /\ UNCHANGED <<buffered, reported, step, meter, failures>>

Current(f) == Oldest(todo[f])

\* The loop goes on with the next event.
Advance(f) ==
    /\ todo' = [todo EXCEPT ![f] = @ \ {Current(f)}]
    /\ step' = [step EXCEPT ![f] = "create"]

At(f, s) == todo[f] # {} /\ step[f] = s

\* Faulty variant: an identifier for each attempt.
IdentifierOfAttempt(f, u) == <<f, u>>

IdentifierOf(f, u) == u

\* meterEvents.create: Stripe ignores an identifier it has seen.
Create(f) ==
    /\ At(f, "create")
    /\ Current(f) \notin Rejected
    /\ meter' = IF \E m \in meter : m.identifier = IdentifierOf(f, Current(f))
                THEN meter
                ELSE meter \cup {[identifier |-> IdentifierOf(f, Current(f)),
                                  usage |-> Current(f)]}
    /\ step' = [step EXCEPT ![f] = "mark"]
    /\ UNCHANGED <<buffered, reported, todo, failures>>

\* The error is logged and the event left for the next flush.
Reject(f) ==
    /\ At(f, "create")
    /\ Current(f) \in Rejected
    /\ Advance(f)
    /\ UNCHANGED <<buffered, reported, meter, failures>>

Mark(f) ==
    /\ At(f, "mark")
    /\ reported' = reported \cup {Current(f)}
    /\ Advance(f)
    /\ UNCHANGED <<buffered, meter, failures>>

\* The call or the UPDATE fails: as for a refusal.
Fail(f) ==
    /\ todo[f] # {}
    /\ failures < MaxFailures
    /\ failures' = failures + 1
    /\ Advance(f)
    /\ UNCHANGED <<buffered, reported, meter>>

\* The process dies in the middle of a flush.
Die(f) ==
    /\ todo[f] # {}
    /\ failures < MaxFailures
    /\ failures' = failures + 1
    /\ todo' = [todo EXCEPT ![f] = {}]
    /\ step' = [step EXCEPT ![f] = "create"]
    /\ UNCHANGED <<buffered, reported, meter>>

Report(f) == List(f) \/ Create(f) \/ Reject(f) \/ Mark(f)

MeteringNext ==
    \/ \E u \in Usage : Buffer(u)
    \/ \E f \in Flush : Report(f) \/ Fail(f) \/ Die(f)

MeteringSpec == MeteringInit /\ [][MeteringNext]_meteringVars

\* The timer starts flushes for ever, and a flush runs to its end.
MeteringFairSpec == MeteringSpec /\ \A f \in Flush : WF_meteringVars(Report(f))

-----------------------------------------------------------------------------
MeteringTypeOK ==
    /\ buffered \subseteq Usage
    /\ reported \subseteq Usage
    /\ todo \in [Flush -> SUBSET Usage]
    /\ step \in [Flush -> {"create", "mark"}]
    /\ meter \subseteq [identifier : Identifier, usage : Usage]
    /\ failures \in Nat

\* An event is billed once, though flushes overlap and repeat what a failure or
\* a crash left unmarked ("the unique identifier makes retries safe"), and none
\* is marked as reported that is not billed.
UsageIsBilledOnce ==
    /\ \A m, n \in meter : m.usage = n.usage => m = n
    /\ \A u \in reported : \E m \in meter : m.usage = u

\* A buffered event that Stripe accepts is billed in the end, as long as the
\* events it never accepts, which stay at the head of every batch, do not fill it.
UsageIsBilled ==
    Cardinality(Rejected) < BatchSize =>
        \A u \in Usage \ Rejected : u \in buffered ~> \E m \in meter : m.usage = u
=============================================================================
