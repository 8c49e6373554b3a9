------------------------------ MODULE Payments ------------------------------
(***************************************************************************)
(* One-time payments of billing-service: POST /payments/checkout, the      *)
(* Stripe webhooks of payment-mode sessions and GET /payments/sessions     *)
(* write one mirror row per Checkout Session (routes/payments.ts,          *)
(* handlers/payment-completed.ts, payment.repository.ts), and the outcome  *)
(* is announced to the product that owns the order.                        *)
(*                                                                         *)
(* The model is about one order of one product.  A repeated request with   *)
(* the same parameters gets the same session back, one with other          *)
(* parameters a second session for the same order, so an order may have    *)
(* several.  Stripe and the buyer are external: Stripe delivers an event   *)
(* until it is answered, more than once and in any order.                  *)
(***************************************************************************)
EXTENDS Integers, Sequences, FiniteSets, SequencesExt

CONSTANTS
    Session,      \* Checkout Sessions that are created for the order
    MaxEvents,    \* bound: events that Stripe sends about the order
    MaxMishaps    \* bound: failing statements, failing emits and crashes

PaymentStatus == {"pending", "paid", "failed", "expired"}

\* status and payment_status of a session.  "created" is an open session whose
\* URL was not returned yet; "unpaid" is complete with a delayed payment method,
\* which Stripe later settles or refuses.
SessionState == {"none", "created", "open", "paid", "unpaid", "settled",
                 "refused", "expired"}

\* n tells the declined attempts of a session apart.
Event == [type : {"completed", "async_succeeded", "expired", "intent_failed"},
          session : Session, state : SessionState, n : Nat]

VARIABLES
    session,   \* Stripe: the state of each session
    declines,  \* Stripe: the declined attempts of each session
    sent,      \* Stripe: events it still delivers, for want of an answer
    recorded,  \* billing.stripe_events
    row,       \* billing.payments: the status of each session's row, or "none"
    made,      \* billing.payments: the sessions in the order of created_at
    posting,   \* POST requests between the session and its mirror row
    polling,   \* GET requests: the status read from Stripe, or "none"
    handling,  \* webhook handlers in progress
    told,      \* billing.payment.completed, in the order it was sent
    mishaps

stripeVars == <<session, declines, sent>>
mirrorVars == <<row, made>>
routeVars  == <<posting, polling>>
hookVars   == <<recorded, handling, told>>
vars == <<session, declines, sent, recorded, row, made, posting, polling,
          handling, told, mishaps>>

Handler == [event : Event, step : {"find", "write", "emit"}, row : Session]

Announcement == [event : Event, session : Session, status : PaymentStatus]

Init ==
    /\ session = [s \in Session |-> "none"]
    /\ declines = [s \in Session |-> 0]
    /\ sent = {}
    /\ recorded = {}
    /\ row = [s \in Session |-> "none"]
    /\ made = <<>>
    /\ posting = {}
    /\ polling = [s \in Session |-> "none"]
    /\ handling = {}
    /\ told = <<>>
    /\ mishaps = 0

-----------------------------------------------------------------------------
(* Stripe and the buyer.                                                   *)

NewEvent(type, s, state, n) ==
    [type |-> type, session |-> s, state |-> state, n |-> n]

Send(event) ==
    /\ Cardinality(sent \cup recorded) < MaxEvents
    /\ sent' = sent \cup {event}

\* A session changes state, and Stripe sends an event with a snapshot of it.
Move(s, state, event) ==
    /\ session' = [session EXCEPT ![s] = state]
    /\ Send(event)
    /\ UNCHANGED <<declines, mirrorVars, routeVars, hookVars, mishaps>>

Pay(s) ==
    /\ session[s] = "open"
    /\ Move(s, "paid", NewEvent("completed", s, "paid", 0))

PayLater(s) ==
    /\ session[s] = "open"
    /\ Move(s, "unpaid", NewEvent("completed", s, "unpaid", 0))

Settle(s) ==
    /\ session[s] = "unpaid"
    /\ Move(s, "settled", NewEvent("async_succeeded", s, "settled", 0))

Refuse(s) ==
    /\ session[s] = "unpaid"
    /\ Move(s, "refused", NewEvent("intent_failed", s, "refused", 0))

Expire(s) ==
    /\ session[s] \in {"created", "open"}
    /\ Move(s, "expired", NewEvent("expired", s, "expired", 0))

\* The card is declined; the session stays open for another attempt.
Decline(s) ==
    /\ session[s] = "open"
    /\ declines' = [declines EXCEPT ![s] = @ + 1]
    /\ Send(NewEvent("intent_failed", s, "open", declines[s] + 1))
    /\ UNCHANGED <<session, mirrorVars, routeVars, hookVars, mishaps>>

-----------------------------------------------------------------------------
(* The mirror.                                                             *)

\* Faulty variant: a session that is not expired and complete counts as paid.
StatusFromSessionByCompletion(state) ==
    IF state = "expired" THEN "expired"
    ELSE IF state \in {"paid", "unpaid", "settled", "refused"} THEN "paid"
    ELSE "pending"

\* Faulty variant: Stripe's own word for it.
StatusFromSessionRaw(state) == IF state = "expired" THEN "expired"
                               ELSE IF state = "settled" THEN "paid" ELSE state

\* Derive the mirror status from a Stripe Checkout Session.
StatusFromSession(state) ==
    IF state = "expired" THEN "expired"
    ELSE IF state \in {"paid", "settled"} THEN "paid"
    ELSE "pending"

\* Faulty variant: the last writer wins.
UpsertedBlindly(s, status) == status

\* The CASE of ON CONFLICT (stripe_session_id): "paid" is terminal, and
\* "pending" never replaces a status.
Upserted(s, status) ==
    IF row[s] = "paid" \/ (status = "pending" /\ row[s] # "none")
    THEN row[s]
    ELSE status

Upsert(s, status) ==
    /\ row' = [row EXCEPT ![s] = Upserted(s, status)]
    /\ made' = IF row[s] = "none" THEN Append(made, s) ELSE made

-----------------------------------------------------------------------------
(* POST /payments/checkout and GET /payments/sessions/:sessionId.          *)

\* The session is created, or the first answer returned again by its idempotency
\* key, whatever has become of the session.
Post(s) ==
    /\ session' = [session EXCEPT ![s] = IF @ = "none" THEN "created" ELSE @]
    /\ posting' = posting \cup {s}
    /\ UNCHANGED <<declines, sent, mirrorVars, polling, hookVars, mishaps>>

\* The URL is returned to the buyer whether or not the mirror was written.
Respond(s) ==
    /\ s \in posting
    /\ posting' = posting \ {s}
    /\ session' = [session EXCEPT ![s] = IF @ = "created" THEN "open" ELSE @]
    /\ UNCHANGED <<declines, sent, polling, hookVars>>

MirrorPending(s) ==
    /\ Respond(s)
    /\ Upsert(s, "pending")
    /\ UNCHANGED mishaps

MirrorFails(s) ==
    /\ Respond(s)
    /\ mishaps < MaxMishaps
    /\ mishaps' = mishaps + 1
    /\ UNCHANGED mirrorVars

\* Without a row, the live session is read from Stripe ...
Retrieve(s) ==
    /\ row[s] = "none"
    /\ session[s] # "none"
    /\ polling' = [polling EXCEPT ![s] = StatusFromSession(session[s])]
    /\ UNCHANGED <<stripeVars, mirrorVars, posting, hookVars, mishaps>>

\* ... and mirrored again.
Remirror(s) ==
    /\ polling[s] # "none"
    /\ Upsert(s, polling[s])
    /\ polling' = [polling EXCEPT ![s] = "none"]
    /\ UNCHANGED <<stripeVars, posting, hookVars, mishaps>>

-----------------------------------------------------------------------------
(* POST /webhooks/:provider.                                               *)

\* Faulty variant: no deduplication.
IsAlwaysNew(e) == TRUE

\* recordIfNew: INSERT ... ON CONFLICT (stripe_event_id) DO NOTHING.
IsNew(e) == e \notin recorded

\* HANDLERS: no entry, and so nothing is done, for async_payment_succeeded.
\* The session events know their session, a failed intent only its order.
Routed(e) ==
    IF e.type = "async_succeeded" THEN {}
    ELSE {[event |-> e, row |-> e.session,
           step |-> IF e.type = "intent_failed" THEN "find" ELSE "write"]}

\* A duplicate, and an event without a handler, is answered at once.
Receive(e) ==
    /\ e \in sent
    /\ IF IsNew(e)
       THEN /\ recorded' = recorded \cup {e}
            /\ handling' = handling \cup Routed(e)
            /\ sent' = IF Routed(e) = {} THEN sent \ {e} ELSE sent
       ELSE /\ sent' = sent \ {e}
            /\ UNCHANGED <<recorded, handling>>
    /\ UNCHANGED <<session, declines, mirrorVars, routeVars, told, mishaps>>

\* The handler returns or throws: 200 either way.
Finish(h) ==
    /\ handling' = handling \ {h}
    /\ sent' = sent \ {h.event}

GoTo(h, step, s) ==
    /\ handling' = (handling \ {h}) \cup {[h EXCEPT !.step = step, !.row = s]}
    /\ UNCHANGED sent

\* findByOrder: the latest row of the order, whichever session failed.
Find(h) ==
    /\ h.step = "find"
    /\ IF made = <<>> THEN Finish(h) ELSE GoTo(h, "write", Last(made))
    /\ UNCHANGED <<session, declines, recorded, mirrorVars, routeVars, told, mishaps>>

StatusOf(e) ==
    IF e.type = "intent_failed" THEN "failed" ELSE StatusFromSession(e.state)

\* Faulty variant: announced only when the row changes.
AnnouncedOnChange(h) == Upserted(h.row, StatusOf(h.event)) \notin {"pending", row[h.row]}

\* A session's outcome is announced as the event has it, a failure only when
\* the row the upsert returned says so.
Announced(h) ==
    IF h.event.type = "intent_failed"
    THEN Upserted(h.row, "failed") = "failed"
    ELSE StatusOf(h.event) # "pending"

Write(h) ==
    /\ h.step = "write"
    /\ Upsert(h.row, StatusOf(h.event))
    /\ IF Announced(h) THEN GoTo(h, "emit", h.row) ELSE Finish(h)
    /\ UNCHANGED <<session, declines, recorded, routeVars, told, mishaps>>

Emit(h) ==
    /\ h.step = "emit"
    /\ told' = Append(told, [event |-> h.event, session |-> h.row,
                             status |-> StatusOf(h.event)])
    /\ Finish(h)
    /\ UNCHANGED <<session, declines, recorded, mirrorVars, routeVars, mishaps>>

\* A statement or the emit fails: logged, and answered with 200.
Throw(h) ==
    /\ mishaps < MaxMishaps
    /\ mishaps' = mishaps + 1
    /\ Finish(h)
    /\ UNCHANGED <<session, declines, recorded, mirrorVars, routeVars, told>>

\* The process dies: no answer, and Stripe delivers again what was in progress.
Crash ==
    /\ mishaps < MaxMishaps
    /\ mishaps' = mishaps + 1
    /\ handling' = {}
    /\ posting' = {}
    /\ polling' = [s \in Session |-> "none"]
    /\ UNCHANGED <<stripeVars, recorded, mirrorVars, told>>

-----------------------------------------------------------------------------
Handle == \E h \in handling : Find(h) \/ Write(h) \/ Emit(h)

Next ==
    \/ \E s \in Session :
          \/ Pay(s) \/ PayLater(s) \/ Settle(s) \/ Refuse(s) \/ Expire(s) \/ Decline(s)
          \/ Post(s) \/ MirrorPending(s) \/ MirrorFails(s) \/ Retrieve(s) \/ Remirror(s)
    \/ \E e \in sent : Receive(e)
    \/ Handle
    \/ \E h \in handling : Throw(h)
    \/ Crash

Spec == Init /\ [][Next]_vars

\* Stripe keeps delivering, and a handler runs to its end.
FairSpec == Spec /\ WF_vars(\E e \in sent : Receive(e)) /\ WF_vars(Handle)

-----------------------------------------------------------------------------
TypeOK ==
    /\ session \in [Session -> SessionState]
    /\ declines \in [Session -> Nat]
    /\ sent \subseteq Event
    /\ recorded \subseteq Event
    /\ row \in [Session -> PaymentStatus \cup {"none"}]
    /\ made \in Seq(Session)
    /\ posting \subseteq Session
    /\ polling \in [Session -> PaymentStatus \cup {"none"}]
    /\ handling \subseteq Handler
    /\ told \in Seq(Announcement)
    /\ mishaps \in Nat

HasPaid(s) == session[s] \in {"paid", "settled"}

\* What the mirror or an announcement says of a session is so at Stripe: paid
\* means paid, expired means expired, and a failure has a declined attempt or a
\* refused payment of the order behind it, whatever was retried, lost, reordered
\* or read from Stripe in the meantime.
Honest(s, status) ==
    /\ status = "paid" => HasPaid(s)
    /\ status = "expired" => session[s] = "expired"
    /\ status = "failed" => \E t \in Session : declines[t] > 0 \/ session[t] = "refused"

MirrorIsHonest ==
    /\ \A s \in Session : Honest(s, row[s])
    /\ \A i \in DOMAIN told : Honest(told[i].session, told[i].status)

Reflection == INSTANCE LaggingMirror WITH
    Subject <- Session,
    truths  <- {x \in Session \X PaymentStatus : Honest(x[1], x[2])},
    mirror  <- row

\* The rows are a mirror that lags but does not go back: the slow mirror write of
\* the request, a replayed request, the fallback of the GET and late webhooks all
\* write one row, and each writes what is so at Stripe when it does, keeps "paid"
\* and never puts "pending" over an outcome ("status monotonicity on conflict").
ImplementsMirror == Reflection!Spec

\* An event leads to at most one announcement, however often it is delivered: one
\* call of the emitter, whatever kafkajs stores for it when an acknowledgement is
\* lost.
EventsAreToldOnce ==
    \A i, j \in DOMAIN told : told[i].event = told[j].event => i = j

IsTold(s, status) ==
    \E i \in DOMAIN told : told[i].session = s /\ told[i].status = status

\* A session that is paid at once, or expires, is announced, even when the GET
\* or a failure wrote the row first - unless a statement, an emit or the process
\* failed: an event whose handler failed is not handled again.
OutcomeIsTold ==
    \A s \in Session :
        session[s] \in {"paid", "expired"}
            ~> (IsTold(s, StatusFromSession(session[s])) \/ mishaps > 0)

\* "A completed-but-unpaid session is mirrored as 'pending' and NOT emitted - the
\* follow-up webhook decides" (payment-completed.ts).
UnpaidIsDecided ==
    \A s \in Session :
        session[s] = "settled" ~> (row[s] = "paid" \/ mishaps > 0)
=============================================================================
