--------------------------- MODULE PaymentsProofs ---------------------------
(***************************************************************************)
(* Proofs about Payments for any number of Checkout Sessions of an order,  *)
(* any number of events and any number of failures and crashes.            *)
(***************************************************************************)
EXTENDS Payments, TLAPS

\* What events, handlers and GET requests carry towards the mirror is so at
\* Stripe already when it is written, however late that is.
EventsTrue == \A e \in sent \cup recorded : Honest(e.session, StatusOf(e))
HandlersTrue ==
    \A h \in handling :
        /\ Honest(h.row, StatusOf(h.event))
        /\ h.step = "find" => h.event.type = "intent_failed"
PollsTrue == \A s \in Session : Honest(s, polling[s])
RowsTrue == \A s \in Session : Honest(s, row[s])
ToldTrue == \A i \in DOMAIN told : Honest(told[i].session, told[i].status)

Truths == EventsTrue /\ HandlersTrue /\ PollsTrue /\ RowsTrue /\ ToldTrue

\* The dedup row is written before the handler starts, and a handler ends with
\* what it announces.
Once ==
    /\ \A h \in handling : h.event \in recorded
    /\ \A h, k \in handling : h.event = k.event => h = k
    /\ \A i \in DOMAIN told : told[i].event \in recorded
    /\ \A i \in DOMAIN told : \A h \in handling : told[i].event # h.event
    /\ EventsAreToldOnce

-----------------------------------------------------------------------------
\* A handler's verdict is a status of the mirror.
LEMMA StatusType == \A e \in Event : StatusOf(e) \in PaymentStatus
BY DEF StatusOf, StatusFromSession, PaymentStatus

LEMMA UpsertType ==
    ASSUME TypeOK, NEW s \in Session, NEW status \in PaymentStatus, Upsert(s, status)
    PROVE  /\ row' \in [Session -> PaymentStatus \cup {"none"}]
           /\ made' \in Seq(Session)
<1>1. Upserted(s, status) \in PaymentStatus \cup {"none"}
  BY DEF TypeOK, Upserted
<1>2. row' \in [Session -> PaymentStatus \cup {"none"}]
  BY <1>1 DEF TypeOK, Upsert
<1>3. made' \in Seq(Session)
  BY DEF TypeOK, Upsert
<1> QED BY <1>2, <1>3

\* A step of a handler keeps the rest of the handlers as they are.
LEMMA GoToType ==
    ASSUME TypeOK, NEW h \in handling, NEW s \in Session,
           NEW step \in {"find", "write", "emit"}, GoTo(h, step, s)
    PROVE  handling' \subseteq Handler
<1>1. h \in Handler
  BY DEF TypeOK
<1>2. [h EXCEPT !.step = step, !.row = s] \in Handler
  BY <1>1 DEF Handler
<1> QED BY <1>2 DEF TypeOK, GoTo

LEMMA LastType == ASSUME NEW q \in Seq(Session), q # <<>> PROVE Last(q) \in Session
BY DEF Last

LEMMA TypeInit == Init => TypeOK
BY DEF Init, TypeOK, SessionState, PaymentStatus

\* The events that Stripe sends are events.
LEMMA MoveType ==
    ASSUME TypeOK, NEW s \in Session, NEW state \in SessionState,
           NEW e \in Event, Move(s, state, e)
    PROVE  TypeOK'
BY DEF TypeOK, Move, Send, mirrorVars, routeVars, hookVars

\* Every action keeps every variable in its type.
LEMMA TypeStep == TypeOK /\ [Next]_vars => TypeOK'
<1> SUFFICES ASSUME TypeOK, [Next]_vars PROVE TypeOK'
  OBVIOUS
<1>s. ASSUME NEW s \in Session,
             \/ Pay(s) \/ PayLater(s) \/ Settle(s) \/ Refuse(s) \/ Expire(s) \/ Decline(s)
      PROVE  TypeOK'
  <2>1. CASE Pay(s)
    BY <2>1, MoveType DEF Pay, NewEvent, Event, SessionState
  <2>2. CASE PayLater(s)
    BY <2>2, MoveType DEF PayLater, NewEvent, Event, SessionState
  <2>3. CASE Settle(s)
    BY <2>3, MoveType DEF Settle, NewEvent, Event, SessionState
  <2>4. CASE Refuse(s)
    BY <2>4, MoveType DEF Refuse, NewEvent, Event, SessionState
  <2>5. CASE Expire(s)
    BY <2>5, MoveType DEF Expire, NewEvent, Event, SessionState
  <2>6. CASE Decline(s)
    <3>1. NewEvent("intent_failed", s, "open", declines[s] + 1) \in Event
      BY DEF TypeOK, NewEvent, Event, SessionState
    <3> QED BY <2>6, <3>1 DEF TypeOK, Decline, Send, mirrorVars, routeVars, hookVars
  <2> QED BY <1>s, <2>1, <2>2, <2>3, <2>4, <2>5, <2>6
<1>r. ASSUME NEW s \in Session,
             Post(s) \/ MirrorPending(s) \/ MirrorFails(s) \/ Retrieve(s) \/ Remirror(s)
      PROVE  TypeOK'
  <2>1. CASE Post(s)
    BY <2>1 DEF TypeOK, Post, mirrorVars, hookVars, SessionState
  <2>2. CASE MirrorPending(s)
    <3>1. Upsert(s, "pending") /\ "pending" \in PaymentStatus
      BY <2>2 DEF MirrorPending, PaymentStatus
    <3>2. row' \in [Session -> PaymentStatus \cup {"none"}] /\ made' \in Seq(Session)
      BY <3>1, UpsertType
    <3> QED BY <2>2, <3>2 DEF TypeOK, MirrorPending, Respond, hookVars, SessionState
  <2>3. CASE MirrorFails(s)
    BY <2>3 DEF TypeOK, MirrorFails, Respond, mirrorVars, hookVars, SessionState
  <2>4. CASE Retrieve(s)
    BY <2>4 DEF TypeOK, Retrieve, stripeVars, mirrorVars, hookVars,
                StatusFromSession, PaymentStatus
  <2>5. CASE Remirror(s)
    <3>1. Upsert(s, polling[s]) /\ polling[s] \in PaymentStatus
      BY <2>5 DEF TypeOK, Remirror
    <3>2. row' \in [Session -> PaymentStatus \cup {"none"}] /\ made' \in Seq(Session)
      BY <3>1, UpsertType
    <3> QED BY <2>5, <3>2 DEF TypeOK, Remirror, stripeVars, hookVars
  <2> QED BY <1>r, <2>1, <2>2, <2>3, <2>4, <2>5
<1>1. ASSUME NEW e \in sent, Receive(e) PROVE TypeOK'
  <2>1. e \in Event
    BY DEF TypeOK
  <2>2. Routed(e) \subseteq Handler
    BY <2>1 DEF Routed, Handler, Event
  <2>3. sent' \subseteq Event /\ recorded' \subseteq Event /\ handling' \subseteq Handler
    BY <1>1, <2>1, <2>2 DEF TypeOK, Receive
  <2> QED BY <1>1, <2>3 DEF TypeOK, Receive, mirrorVars, routeVars
<1>h. ASSUME NEW h \in handling PROVE h \in Handler /\ h.event \in Event /\ h.row \in Session
  BY DEF TypeOK, Handler
<1>2. ASSUME NEW h \in handling, Find(h) PROVE TypeOK'
  <2>1. handling' \subseteq Handler /\ sent' \subseteq Event
    <3>1. CASE made = <<>>
      BY <1>2, <3>1 DEF TypeOK, Find, Finish
    <3>2. CASE made # <<>>
      <4>1. Last(made) \in Session
        BY <3>2, LastType DEF TypeOK
      <4>2. GoTo(h, "write", Last(made))
        BY <1>2, <3>2 DEF Find
      <4> QED BY <4>1, <4>2, GoToType DEF TypeOK, GoTo
    <3> QED BY <3>1, <3>2
  <2> QED BY <1>2, <2>1 DEF TypeOK, Find, mirrorVars, routeVars
<1>3. ASSUME NEW h \in handling, Write(h) PROVE TypeOK'
  <2>1. handling' \subseteq Handler /\ sent' \subseteq Event
    <3>1. CASE Announced(h)
      BY <1>3, <1>h, <3>1, GoToType DEF TypeOK, Write, GoTo
    <3>2. CASE ~Announced(h)
      BY <1>3, <3>2 DEF TypeOK, Write, Finish
    <3> QED BY <3>1, <3>2
  <2>2. row' \in [Session -> PaymentStatus \cup {"none"}] /\ made' \in Seq(Session)
    BY <1>3, <1>h, StatusType, UpsertType DEF Write
  <2> QED BY <1>3, <2>1, <2>2 DEF TypeOK, Write, routeVars
<1>4. ASSUME NEW h \in handling, Emit(h) PROVE TypeOK'
  <2>1. [event |-> h.event, session |-> h.row, status |-> StatusOf(h.event)] \in Announcement
    BY <1>h, StatusType DEF Announcement
  <2>2. told' \in Seq(Announcement)
    BY <1>4, <2>1 DEF TypeOK, Emit
  <2> QED BY <1>4, <2>2 DEF TypeOK, Emit, Finish, mirrorVars, routeVars
<1>5. ASSUME NEW h \in handling, Throw(h) PROVE TypeOK'
  BY <1>5 DEF TypeOK, Throw, Finish, mirrorVars, routeVars
<1>6. CASE Crash
  BY <1>6 DEF TypeOK, Crash, stripeVars, mirrorVars
<1>7. CASE UNCHANGED vars
  BY <1>7 DEF TypeOK, vars
<1> QED BY <1>s, <1>r, <1>1, <1>2, <1>3, <1>4, <1>5, <1>6, <1>7 DEF Next, Handle

-----------------------------------------------------------------------------
\* What was true of a session stays true: paid, settled, refused and expired are
\* final, and declined attempts are not undone.
LEMMA SessionsAdvance ==
    ASSUME TypeOK, [Next]_vars
    PROVE  \A t \in Session :
              /\ session[t] \in {"paid", "settled", "refused", "expired"}
                    => session'[t] = session[t]
              /\ declines[t] > 0 => declines'[t] > 0
<1> DEFINE Advances(t) ==
              /\ session[t] \in {"paid", "settled", "refused", "expired"}
                    => session'[t] = session[t]
              /\ declines[t] > 0 => declines'[t] > 0
<1> SUFFICES ASSUME NEW t \in Session PROVE Advances(t)
  OBVIOUS
<1>1. ASSUME NEW u \in Session,
             \/ Pay(u) \/ PayLater(u) \/ Settle(u) \/ Refuse(u) \/ Expire(u) \/ Decline(u)
      PROVE  Advances(t)
  BY <1>1 DEF TypeOK, Pay, PayLater, Settle, Refuse, Expire, Decline, Move
<1>2. ASSUME NEW u \in Session,
             Post(u) \/ MirrorPending(u) \/ MirrorFails(u) \/ Retrieve(u) \/ Remirror(u)
      PROVE  Advances(t)
  BY <1>2 DEF TypeOK, Post, MirrorPending, MirrorFails, Respond, Retrieve, Remirror,
              stripeVars
<1>3. CASE \/ \E e \in sent : Receive(e)
           \/ Handle
           \/ \E h \in handling : Throw(h)
           \/ Crash
           \/ UNCHANGED vars
  BY <1>3 DEF Receive, Handle, Find, Write, Emit, Throw, Crash, vars, stripeVars
<1> QED BY <1>1, <1>2, <1>3 DEF Next

\* An upsert writes what it is given or leaves the row as it is, and no other row.
LEMMA UpsertEffect ==
    ASSUME TypeOK, NEW s \in Session, NEW status \in PaymentStatus, Upsert(s, status)
    PROVE  /\ row'[s] \in {row[s], status}
           /\ \A t \in Session : t # s => row'[t] = row[t]
           /\ row[s] = "paid" => row'[s] = "paid"
           /\ row[s] \in {"failed", "expired"} => row'[s] \notin {"none", "pending"}
BY DEF TypeOK, Upsert, Upserted, PaymentStatus

\* A truth outlives a step of any kind.
LEMMA TruthLasts ==
    ASSUME TypeOK, [Next]_vars
    PROVE  \A s \in Session, status \in PaymentStatus \cup {"none"} :
              Honest(s, status) => Honest(s, status)'
BY SessionsAdvance DEF Honest, HasPaid

\* What a step leaves alone, or takes away from, stays true.
LEMMA TruthsLast ==
    ASSUME TypeOK, Truths, [Next]_vars
    PROVE  /\ sent' \cup recorded' \subseteq sent \cup recorded => EventsTrue'
           /\ handling' \subseteq handling => HandlersTrue'
           /\ (\A s \in Session : polling'[s] \in {polling[s], "none"}) => PollsTrue'
           /\ row' = row => RowsTrue'
           /\ told' = told => ToldTrue'
<1>1. ASSUME sent' \cup recorded' \subseteq sent \cup recorded PROVE EventsTrue'
  <2>1. \A e \in sent \cup recorded : e.session \in Session /\ StatusOf(e) \in PaymentStatus
    BY StatusType DEF TypeOK, Event
  <2> QED BY <1>1, <2>1, TruthLasts DEF Truths, EventsTrue, Honest, HasPaid
<1>2. ASSUME handling' \subseteq handling PROVE HandlersTrue'
  <2>1. \A h \in handling : h.row \in Session /\ StatusOf(h.event) \in PaymentStatus
    BY StatusType DEF TypeOK, Handler
  <2> QED BY <1>2, <2>1, TruthLasts DEF Truths, HandlersTrue, Honest, HasPaid
<1>3. ASSUME \A s \in Session : polling'[s] \in {polling[s], "none"} PROVE PollsTrue'
  BY <1>3, TruthLasts DEF TypeOK, Truths, PollsTrue, Honest, HasPaid
<1>4. ASSUME row' = row PROVE RowsTrue'
  BY <1>4, TruthLasts DEF TypeOK, Truths, RowsTrue, Honest, HasPaid
<1>5. ASSUME told' = told PROVE ToldTrue'
  <2>1. \A i \in DOMAIN told : told[i] \in Announcement
    BY DEF TypeOK
  <2>2. \A i \in DOMAIN told : told[i].session \in Session /\ told[i].status \in PaymentStatus
    BY <2>1 DEF Announcement
  <2> QED BY <1>5, <2>2, TruthLasts DEF Truths, ToldTrue, Honest, HasPaid
<1> QED BY <1>1, <1>2, <1>3, <1>4, <1>5

\* An upsert of what is so leaves true rows.
LEMMA TrueUpsert ==
    ASSUME TypeOK, Truths, [Next]_vars,
           NEW s \in Session, NEW status \in PaymentStatus,
           Honest(s, status), Upsert(s, status)
    PROVE  RowsTrue'
<1>1. \A t \in Session : \E st \in PaymentStatus \cup {"none"} : st = row'[t] /\ Honest(t, st)
  BY UpsertEffect DEF TypeOK, Truths, RowsTrue
<1> QED BY <1>1, TruthLasts DEF RowsTrue, Honest, HasPaid

\* What Stripe sends is so at that moment.
LEMMA TrueEvent ==
    ASSUME TypeOK, Truths, [Next]_vars, NEW e \in Event,
           sent' = sent \cup {e}, recorded' = recorded, Honest(e.session, StatusOf(e))'
    PROVE  EventsTrue'
<1>1. \A d \in sent \cup recorded : d.session \in Session /\ StatusOf(d) \in PaymentStatus
  BY StatusType DEF TypeOK, Event
<1> QED BY <1>1, TruthLasts DEF Truths, EventsTrue, Honest, HasPaid

LEMMA TruthInit == Init => Truths
BY DEF Init, Truths, EventsTrue, HandlersTrue, PollsTrue, RowsTrue, ToldTrue, Honest

\* Every action keeps the truths.
LEMMA TruthStep == TypeOK /\ Truths /\ [Next]_vars => Truths'
<1> SUFFICES ASSUME TypeOK, Truths, [Next]_vars PROVE Truths'
  OBVIOUS
<1>s. ASSUME NEW s \in Session, NEW type, NEW state, NEW n, NEW e,
             e = NewEvent(type, s, state, n), e \in Event, sent' = sent \cup {e},
             UNCHANGED <<mirrorVars, routeVars, hookVars>>,
             Honest(s, StatusOf(e))'
      PROVE  Truths'
  <2>1. EventsTrue'
    BY <1>s, TrueEvent DEF NewEvent, hookVars
  <2> QED BY <1>s, <2>1, TruthsLast DEF Truths, mirrorVars, routeVars, hookVars
<1>1. ASSUME NEW s \in Session, Pay(s) PROVE Truths'
  <2> DEFINE e == NewEvent("completed", s, "paid", 0)
  <2>1. e \in Event
    BY DEF NewEvent, Event, SessionState
  <2>2. session'[s] = "paid" /\ StatusOf(e) = "paid"
    BY <1>1 DEF TypeOK, Pay, Move, NewEvent, StatusOf, StatusFromSession
  <2>3. Honest(s, StatusOf(e))'
    BY <2>2 DEF Honest, HasPaid
  <2> QED BY <1>1, <1>s, <2>1, <2>3 DEF Pay, Move, Send
<1>2. ASSUME NEW s \in Session, PayLater(s) PROVE Truths'
  <2> DEFINE e == NewEvent("completed", s, "unpaid", 0)
  <2>1. e \in Event
    BY DEF NewEvent, Event, SessionState
  <2>2. StatusOf(e) = "pending"
    BY DEF NewEvent, StatusOf, StatusFromSession
  <2>3. Honest(s, StatusOf(e))'
    BY <2>2 DEF Honest
  <2> QED BY <1>2, <1>s, <2>1, <2>3 DEF PayLater, Move, Send
<1>3. ASSUME NEW s \in Session, Settle(s) PROVE Truths'
  <2> DEFINE e == NewEvent("async_succeeded", s, "settled", 0)
  <2>1. e \in Event
    BY DEF NewEvent, Event, SessionState
  <2>2. session'[s] = "settled" /\ StatusOf(e) = "paid"
    BY <1>3 DEF TypeOK, Settle, Move, NewEvent, StatusOf, StatusFromSession
  <2>3. Honest(s, StatusOf(e))'
    BY <2>2 DEF Honest, HasPaid
  <2> QED BY <1>3, <1>s, <2>1, <2>3 DEF Settle, Move, Send
<1>4. ASSUME NEW s \in Session, Refuse(s) PROVE Truths'
  <2> DEFINE e == NewEvent("intent_failed", s, "refused", 0)
  <2>1. e \in Event
    BY DEF NewEvent, Event, SessionState
  <2>2. session'[s] = "refused" /\ StatusOf(e) = "failed"
    BY <1>4 DEF TypeOK, Refuse, Move, NewEvent, StatusOf
  <2>3. Honest(s, StatusOf(e))'
    BY <2>2 DEF Honest
  <2> QED BY <1>4, <1>s, <2>1, <2>3 DEF Refuse, Move, Send
<1>5. ASSUME NEW s \in Session, Expire(s) PROVE Truths'
  <2> DEFINE e == NewEvent("expired", s, "expired", 0)
  <2>1. e \in Event
    BY DEF NewEvent, Event, SessionState
  <2>2. session'[s] = "expired" /\ StatusOf(e) = "expired"
    BY <1>5 DEF TypeOK, Expire, Move, NewEvent, StatusOf, StatusFromSession
  <2>3. Honest(s, StatusOf(e))'
    BY <2>2 DEF Honest
  <2> QED BY <1>5, <1>s, <2>1, <2>3 DEF Expire, Move, Send
<1>6. ASSUME NEW s \in Session, Decline(s) PROVE Truths'
  <2> DEFINE e == NewEvent("intent_failed", s, "open", declines[s] + 1)
  <2>1. e \in Event
    BY DEF TypeOK, NewEvent, Event, SessionState
  <2>2. declines'[s] > 0 /\ StatusOf(e) = "failed"
    BY <1>6 DEF TypeOK, Decline, NewEvent, StatusOf
  <2>3. Honest(s, "failed")'
    BY <2>2 DEF Honest
  <2>4. PICK d \in Event : d = e
    BY <2>1
  <2>5. d.session = s /\ StatusOf(d) = "failed" /\ sent' = sent \cup {d}
    BY <1>6, <2>2, <2>4 DEF NewEvent, Decline, Send
  <2>6. EventsTrue'
    BY <1>6, <2>3, <2>5, TrueEvent DEF Decline, hookVars
  <2> QED BY <1>6, <2>6, TruthsLast DEF Truths, Decline, mirrorVars, routeVars, hookVars
<1>7. ASSUME NEW s \in Session, Post(s) PROVE Truths'
  BY <1>7, TruthsLast DEF Truths, Post, mirrorVars, hookVars
<1>8. ASSUME NEW s \in Session, MirrorPending(s) PROVE Truths'
  <2>1. RowsTrue'
    BY <1>8, TrueUpsert DEF MirrorPending, PaymentStatus, Honest
  <2> QED BY <1>8, <2>1, TruthsLast DEF Truths, MirrorPending, Respond, hookVars
<1>9. ASSUME NEW s \in Session, MirrorFails(s) PROVE Truths'
  BY <1>9, TruthsLast DEF Truths, MirrorFails, Respond, mirrorVars, hookVars
<1>10. ASSUME NEW s \in Session, Retrieve(s) PROVE Truths'
  <2>1. session' = session /\ declines' = declines
    BY <1>10 DEF Retrieve, stripeVars
  <2>2. polling'[s] = StatusFromSession(session[s])
        /\ \A t \in Session : t # s => polling'[t] = polling[t]
    BY <1>10 DEF TypeOK, Retrieve
  <2>3. PollsTrue'
    BY <2>1, <2>2 DEF Truths, PollsTrue, Honest, HasPaid, StatusFromSession
  <2> QED BY <1>10, <2>3, TruthsLast DEF Truths, Retrieve, stripeVars, mirrorVars, hookVars
<1>11. ASSUME NEW s \in Session, Remirror(s) PROVE Truths'
  <2>1. PICK status \in PaymentStatus : status = polling[s]
    BY <1>11 DEF TypeOK, Remirror
  <2>2. RowsTrue'
    BY <1>11, <2>1, TrueUpsert DEF Truths, PollsTrue, Remirror
  <2>3. \A t \in Session : polling'[t] \in {polling[t], "none"}
    BY <1>11 DEF TypeOK, Remirror
  <2> QED BY <1>11, <2>2, <2>3, TruthsLast DEF Truths, Remirror, stripeVars, hookVars
<1>12. ASSUME NEW e \in sent, Receive(e) PROVE Truths'
  <2>1. sent' \cup recorded' \subseteq sent \cup recorded
    BY <1>12 DEF Receive
  <2>2. session' = session /\ declines' = declines
    BY <1>12 DEF Receive
  <2>3. handling' \subseteq handling \cup Routed(e)
    BY <1>12 DEF Receive
  <2>4. \A h \in Routed(e) :
          /\ h.event = e /\ h.row = e.session
          /\ h.step = "find" => e.type = "intent_failed"
    BY DEF Routed
  <2>5. ASSUME NEW h \in handling'
        PROVE  /\ Honest(h.row, StatusOf(h.event))
               /\ h.step = "find" => h.event.type = "intent_failed"
    <3>1. CASE h \in handling
      BY <3>1 DEF Truths, HandlersTrue
    <3>2. CASE h \in Routed(e)
      <4>1. Honest(e.session, StatusOf(e))
        BY DEF Truths, EventsTrue
      <4> QED BY <2>4, <3>2, <4>1
    <3> QED BY <2>3, <2>5, <3>1, <3>2
  <2>6. HandlersTrue'
    BY <2>2, <2>5 DEF HandlersTrue, Honest, HasPaid
  <2> QED BY <1>12, <2>1, <2>6, TruthsLast DEF Truths, Receive, mirrorVars, routeVars
\* A handler that goes on keeps its event, and a failure is true of any row.
<1>h. ASSUME NEW h \in handling, NEW s \in Session, NEW step \in {"find", "write", "emit"},
             GoTo(h, step, s), UNCHANGED <<session, declines>>, step # "find",
             s = h.row \/ h.event.type = "intent_failed"
      PROVE  HandlersTrue'
  <2>1. h \in Handler
    BY DEF TypeOK
  <2> DEFINE k == [h EXCEPT !.step = step, !.row = s]
  <2>2. k.event = h.event /\ k.row = s /\ k.step = step
    BY <2>1 DEF Handler
  <2>3. handling' = (handling \ {h}) \cup {k}
    BY <1>h DEF GoTo
  <2> HIDE DEF k
  <2>4. Honest(h.row, StatusOf(h.event))
    BY DEF Truths, HandlersTrue
  <2>5. Honest(k.row, StatusOf(k.event))
    <3>1. CASE s = h.row
      BY <2>2, <2>4, <3>1
    <3>2. CASE h.event.type = "intent_failed"
      BY <2>2, <2>4, <3>2 DEF StatusOf, Honest
    <3> QED BY <1>h, <3>1, <3>2
  <2> QED BY <1>h, <2>2, <2>3, <2>5 DEF Truths, HandlersTrue, Honest, HasPaid
<1>13. ASSUME NEW h \in handling, Find(h) PROVE Truths'
  <2>1. HandlersTrue'
    <3>1. CASE made = <<>>
      BY <1>13, <3>1, TruthsLast DEF Find, Finish
    <3>2. CASE made # <<>>
      <4>1. PICK s \in Session : s = Last(made)
        BY <3>2, LastType DEF TypeOK
      <4>2. h.event.type = "intent_failed"
        BY <1>13 DEF Find, Truths, HandlersTrue
      <4> QED BY <1>13, <1>h, <3>2, <4>1, <4>2 DEF Find
    <3> QED BY <3>1, <3>2
  <2>2. sent' \cup recorded' \subseteq sent \cup recorded
    BY <1>13 DEF Find, Finish, GoTo
  <2> QED BY <1>13, <2>1, <2>2, TruthsLast DEF Truths, Find, mirrorVars, routeVars
<1>14. ASSUME NEW h \in handling, Write(h) PROVE Truths'
  <2>1. h.row \in Session /\ StatusOf(h.event) \in PaymentStatus
    BY StatusType DEF TypeOK, Handler
  <2>2. RowsTrue'
    BY <1>14, <2>1, TrueUpsert DEF Truths, HandlersTrue, Write
  <2>3. HandlersTrue'
    <3>1. CASE Announced(h)
      BY <1>14, <1>h, <2>1, <3>1 DEF Write
    <3>2. CASE ~Announced(h)
      BY <1>14, <3>2, TruthsLast DEF Write, Finish
    <3> QED BY <3>1, <3>2
  <2>4. sent' \cup recorded' \subseteq sent \cup recorded
    BY <1>14 DEF Write, Finish, GoTo
  <2> QED BY <1>14, <2>2, <2>3, <2>4, TruthsLast DEF Truths, Write, routeVars
<1>15. ASSUME NEW h \in handling, Emit(h) PROVE Truths'
  <2> DEFINE a == [event |-> h.event, session |-> h.row, status |-> StatusOf(h.event)]
  <2>1. told' = Append(told, a) /\ a.session = h.row /\ a.status = StatusOf(h.event)
    BY <1>15 DEF Emit
  <2> HIDE DEF a
  <2>2. \A i \in DOMAIN told' : told'[i] = a \/ (i \in DOMAIN told /\ told'[i] = told[i])
    BY <2>1 DEF TypeOK
  <2>3. ToldTrue'
    BY <1>15, <2>1, <2>2 DEF Truths, ToldTrue, HandlersTrue, Honest, HasPaid, Emit
  <2>4. sent' \cup recorded' \subseteq sent \cup recorded /\ handling' \subseteq handling
    BY <1>15 DEF Emit, Finish
  <2> QED BY <1>15, <2>3, <2>4, TruthsLast DEF Truths, Emit, mirrorVars, routeVars
<1>16. ASSUME NEW h \in handling, Throw(h) PROVE Truths'
  <2>1. sent' \cup recorded' \subseteq sent \cup recorded /\ handling' \subseteq handling
    BY <1>16 DEF Throw, Finish
  <2> QED BY <1>16, <2>1, TruthsLast DEF Truths, Throw, mirrorVars, routeVars
<1>17. CASE Crash
  BY <1>17, TruthsLast DEF Truths, Crash, stripeVars, mirrorVars
<1>18. CASE UNCHANGED vars
  BY <1>18, TruthsLast DEF Truths, vars
<1> QED BY <1>1, <1>2, <1>3, <1>4, <1>5, <1>6, <1>7, <1>8, <1>9, <1>10, <1>11, <1>12,
           <1>13, <1>14, <1>15, <1>16, <1>17, <1>18 DEF Next, Handle

-----------------------------------------------------------------------------
LEMMA OnceInit == Init => Once
BY DEF Init, Once, EventsAreToldOnce

\* Handlers that end, or go on with the same event, leave what is told alone.
LEMMA OnceLasts ==
    ASSUME Once, recorded \subseteq recorded', told' = told,
           \A h \in handling' : \E k \in handling : k.event = h.event,
           \A h, k \in handling' : h.event = k.event => h = k
    PROVE  Once'
BY DEF Once, EventsAreToldOnce

\* One handler goes on, with the event it has.
LEMMA OnceGoesOn ==
    ASSUME TypeOK, Once, NEW h \in handling, NEW s, NEW step, GoTo(h, step, s)
    PROVE  /\ \A g \in handling' : \E k \in handling : k.event = g.event
           /\ \A g, k \in handling' : g.event = k.event => g = k
<1> DEFINE n == [h EXCEPT !.step = step, !.row = s]
<1>1. h \in Handler
  BY DEF TypeOK
<1>2. n.event = h.event
  BY <1>1 DEF Handler
<1>3. handling' = (handling \ {h}) \cup {n}
  BY DEF GoTo
<1> HIDE DEF n
<1>4. \A g, k \in handling : g.event = k.event => g = k
  BY DEF Once
<1> QED BY <1>2, <1>3, <1>4

\* Every action keeps an event with one handler, and one announcement after it.
LEMMA OnceStep == TypeOK /\ Once /\ [Next]_vars => Once'
<1> SUFFICES ASSUME TypeOK, Once, [Next]_vars PROVE Once'
  OBVIOUS
<1>o. \A g, k \in handling : g.event = k.event => g = k
  BY DEF Once
<1>k. ASSUME recorded' = recorded, told' = told, handling' \subseteq handling PROVE Once'
  BY <1>k, <1>o, OnceLasts
<1>1. ASSUME NEW s \in Session,
             \/ Pay(s) \/ PayLater(s) \/ Settle(s) \/ Refuse(s) \/ Expire(s) \/ Decline(s)
      PROVE  Once'
  BY <1>1, <1>k DEF Pay, PayLater, Settle, Refuse, Expire, Decline, Move, hookVars
<1>2. ASSUME NEW s \in Session,
             Post(s) \/ MirrorPending(s) \/ MirrorFails(s) \/ Retrieve(s) \/ Remirror(s)
      PROVE  Once'
  BY <1>2, <1>k DEF Post, MirrorPending, MirrorFails, Respond, Retrieve, Remirror, hookVars
<1>3. ASSUME NEW e \in sent, Receive(e) PROVE Once'
  <2>1. CASE e \in recorded
    BY <1>3, <1>k, <2>1 DEF Receive, IsNew
  <2>2. CASE e \notin recorded
    <3>1. /\ recorded' = recorded \cup {e}
          /\ handling' = handling \cup Routed(e)
          /\ told' = told
      BY <1>3, <2>2 DEF Receive, IsNew
    <3>2. \A h \in Routed(e) : h.event = e
      BY DEF Routed
    <3>3. \A g, k \in Routed(e) : g = k
      BY DEF Routed
    <3>4. \A h \in handling : h.event # e
      BY <2>2 DEF Once
    <3>5. \A i \in DOMAIN told : told[i].event # e
      BY <2>2 DEF Once
    <3>6. \A g, k \in handling' : g.event = k.event => g = k
      BY <1>o, <3>1, <3>2, <3>3, <3>4
    <3> QED BY <3>1, <3>2, <3>5, <3>6 DEF Once, EventsAreToldOnce
  <2> QED BY <2>1, <2>2
<1>4. ASSUME NEW h \in handling, Find(h) PROVE Once'
  <2>1. CASE made = <<>>
    BY <1>4, <1>k, <2>1 DEF Find, Finish
  <2>2. CASE made # <<>>
    BY <1>4, <2>2, OnceGoesOn, OnceLasts DEF Find
  <2> QED BY <2>1, <2>2
<1>5. ASSUME NEW h \in handling, Write(h) PROVE Once'
  <2>1. CASE Announced(h)
    BY <1>5, <2>1, OnceGoesOn, OnceLasts DEF Write
  <2>2. CASE ~Announced(h)
    BY <1>5, <1>k, <2>2 DEF Write, Finish
  <2> QED BY <2>1, <2>2
<1>6. ASSUME NEW h \in handling, Emit(h) PROVE Once'
  <2> DEFINE a == [event |-> h.event, session |-> h.row, status |-> StatusOf(h.event)]
  <2>1. told' = Append(told, a) /\ a.event = h.event
    BY <1>6 DEF Emit
  <2> HIDE DEF a
  <2>2. /\ DOMAIN told' = DOMAIN told \cup {Len(told) + 1}
        /\ told'[Len(told) + 1] = a
        /\ \A i \in DOMAIN told : told'[i] = told[i]
    BY <2>1 DEF TypeOK
  <2>3. handling' = handling \ {h} /\ recorded' = recorded
    BY <1>6 DEF Emit, Finish
  <2>4. \A g \in handling' : g.event # h.event
    BY <1>o, <2>3
  <2>5. EventsAreToldOnce'
    BY <2>1, <2>2 DEF Once, EventsAreToldOnce
  <2>6. \A i \in DOMAIN told' :
          /\ told'[i].event \in recorded'
          /\ \A g \in handling' : told'[i].event # g.event
    BY <2>1, <2>2, <2>3, <2>4 DEF Once
  <2> QED BY <1>o, <2>3, <2>5, <2>6 DEF Once
<1>7. ASSUME NEW h \in handling, Throw(h) PROVE Once'
  BY <1>7, <1>k DEF Throw, Finish
<1>8. CASE Crash
  BY <1>8, <1>k DEF Crash
<1>9. CASE UNCHANGED vars
  BY <1>9, <1>k DEF vars
<1> QED BY <1>1, <1>2, <1>3, <1>4, <1>5, <1>6, <1>7, <1>8, <1>9 DEF Next, Handle

-----------------------------------------------------------------------------
\* Every variable of the payments model keeps its type.
THEOREM TypeCorrect == Spec => []TypeOK
BY TypeInit, TypeStep, PTL DEF Spec

\* The inductive invariant of the theorems below.
THEOREM IndInvariant == Spec => [](TypeOK /\ Truths /\ Once)
<1>1. Init => TypeOK /\ Truths /\ Once
  BY TypeInit, TruthInit, OnceInit
<1>2. (TypeOK /\ Truths /\ Once) /\ [Next]_vars => (TypeOK /\ Truths /\ Once)'
  BY TypeStep, TruthStep, OnceStep
<1> QED BY <1>1, <1>2, PTL DEF Spec

\* The mirror and the announcements say what is so at Stripe, for any number of
\* sessions, repeats, reorderings and failures.
THEOREM Honesty == Spec => []MirrorIsHonest
<1>1. Truths => MirrorIsHonest
  BY DEF Truths, RowsTrue, ToldTrue, MirrorIsHonest
<1> QED BY <1>1, IndInvariant, PTL

\* No event is announced twice, though Stripe delivers it again and again.
THEOREM ToldOnce == Spec => []EventsAreToldOnce
<1>1. Once => EventsAreToldOnce
  BY DEF Once
<1> QED BY <1>1, IndInvariant, PTL

-----------------------------------------------------------------------------
(* The rows as a mirror that lags.                                         *)

\* What LaggingMirror calls the truths.
Facts == {x \in Session \X PaymentStatus : Honest(x[1], x[2])}

LEMMA FactOf ==
    ASSUME NEW s \in Session, NEW status \in PaymentStatus
    PROVE  /\ <<s, status>> \in Facts <=> Honest(s, status)
           /\ <<s, status>> \in Facts' <=> Honest(s, status)'
BY DEF Facts

\* A step that writes no row lets more become true, at most.
LEMMA TurnStep ==
    ASSUME TypeOK, TypeOK', [Next]_vars, row' = row PROVE Reflection!Turn
<1>1. Facts \subseteq Facts'
  <2> SUFFICES ASSUME NEW s \in Session, NEW status \in PaymentStatus, Honest(s, status)
               PROVE  Honest(s, status)'
    BY DEF Facts
  <2> QED BY TruthLasts
<1>2. Facts' \in SUBSET (Session \X PaymentStatus)
  BY DEF Facts
<1>3. ASSUME NEW s \in Session PROVE ~({<<s, "paid">>, <<s, "expired">>} \subseteq Facts')
  <2>1. ~(Honest(s, "paid")' /\ Honest(s, "expired")')
    BY DEF Honest, HasPaid
  <2> QED BY <2>1, FactOf DEF PaymentStatus
<1>4. Reflection!Status = PaymentStatus
  BY DEF Reflection!Status, Reflection!Outcome, PaymentStatus
<1>5. Facts' = Facts \cup Facts'
  BY <1>1
<1> QED
  BY <1>2, <1>3, <1>4, <1>5 DEF Reflection!Turn, Facts

\* An upsert of what is so reflects it, or leaves the mirror as it is.
LEMMA ReflectStep ==
    ASSUME TypeOK, NEW s \in Session, NEW status \in PaymentStatus, Upsert(s, status),
           Honest(s, status), Facts' = Facts
    PROVE  (\E st \in Reflection!Status : Reflection!Reflect(s, st))
              \/ UNCHANGED Reflection!mirrorVars
<1>1. status \in Reflection!Status /\ <<s, status>> \in Facts
  BY FactOf DEF Reflection!Status, Reflection!Outcome, PaymentStatus
<1>2. CASE row[s] = "paid" \/ (status = "pending" /\ row[s] # "none")
  <2>1. row' = row
    BY <1>2 DEF Upsert, Upserted, TypeOK
  <2> QED BY <2>1 DEF Reflection!mirrorVars, Facts
<1>3. CASE ~(row[s] = "paid" \/ (status = "pending" /\ row[s] # "none"))
  <2>1. row' = [row EXCEPT ![s] = status]
    BY <1>3 DEF Upsert, Upserted
  <2>2. Reflection!Reflect(s, status)
    BY <1>1, <1>3, <2>1 DEF Reflection!Reflect, Facts
  <2> QED BY <1>1, <2>2
<1> QED BY <1>2, <1>3

\* What is so of a session does not change when Stripe's side does not, nor when
\* the buyer is given the URL.
LEMMA SameFacts ==
    ASSUME TypeOK, declines' = declines,
           \A s \in Session : session'[s] = session[s]
                              \/ {session[s], session'[s]} \subseteq {"none", "created", "open"}
    PROVE  Facts' = Facts
<1>1. ASSUME NEW s \in Session, NEW status \in PaymentStatus
      PROVE  Honest(s, status)' <=> Honest(s, status)
  BY DEF Honest, HasPaid
<1> QED BY <1>1 DEF Facts

LEMMA MirrorStep ==
    ASSUME TypeOK, TypeOK', Truths, [Next]_vars
    PROVE  [Reflection!Next]_(Reflection!mirrorVars)
<1>0. ASSUME row' = row PROVE Reflection!Next
  BY <1>0, TurnStep DEF Reflection!Next
<1>u. ASSUME NEW s \in Session, NEW status \in PaymentStatus, Upsert(s, status),
             Honest(s, status), Facts' = Facts
      PROVE  [Reflection!Next]_(Reflection!mirrorVars)
  BY <1>u, ReflectStep DEF Reflection!Next
<1>1. ASSUME NEW s \in Session,
             \/ Pay(s) \/ PayLater(s) \/ Settle(s) \/ Refuse(s) \/ Expire(s) \/ Decline(s)
             \/ Post(s) \/ MirrorFails(s) \/ Retrieve(s)
      PROVE  row' = row
  BY <1>1 DEF Pay, PayLater, Settle, Refuse, Expire, Decline, Move, Post, MirrorFails,
              Retrieve, mirrorVars
<1>2. ASSUME NEW s \in Session, MirrorPending(s)
      PROVE  [Reflection!Next]_(Reflection!mirrorVars)
  <2>1. Facts' = Facts
    BY <1>2, SameFacts DEF MirrorPending, Respond, TypeOK
  <2>2. Honest(s, "pending") /\ "pending" \in PaymentStatus
    BY DEF Honest, PaymentStatus
  <2> QED BY <1>2, <1>u, <2>1, <2>2 DEF MirrorPending
<1>3. ASSUME NEW s \in Session, Remirror(s)
      PROVE  [Reflection!Next]_(Reflection!mirrorVars)
  <2>1. Facts' = Facts
    BY <1>3, SameFacts DEF Remirror, stripeVars
  <2>2. polling[s] \in PaymentStatus /\ Honest(s, polling[s])
    BY <1>3 DEF Remirror, TypeOK, Truths, PollsTrue
  <2> QED BY <1>3, <1>u, <2>1, <2>2 DEF Remirror
<1>4. ASSUME NEW h \in handling, Write(h)
      PROVE  [Reflection!Next]_(Reflection!mirrorVars)
  <2>1. Facts' = Facts
    BY <1>4, SameFacts DEF Write
  <2>2. h.row \in Session /\ StatusOf(h.event) \in PaymentStatus
    BY StatusType DEF TypeOK, Handler
  <2>3. Honest(h.row, StatusOf(h.event))
    BY DEF Truths, HandlersTrue
  <2> QED BY <1>4, <1>u, <2>1, <2>2, <2>3 DEF Write
<1>5. CASE \/ \E e \in sent : Receive(e)
           \/ \E h \in handling : Find(h) \/ Emit(h) \/ Throw(h)
           \/ Crash
           \/ UNCHANGED vars
  <2>1. row' = row
    BY <1>5 DEF Receive, Find, Emit, Throw, Crash, mirrorVars, vars
  <2> QED BY <1>0, <2>1
<1> QED BY <1>0, <1>1, <1>2, <1>3, <1>4, <1>5 DEF Next, Handle

\* The payments mirror is a lagging mirror of Stripe: whoever writes a row, in
\* whatever order, writes what is so there, and no write takes an outcome back.
THEOREM Mirrors == Spec => ImplementsMirror
<1>1. Init => Reflection!Init
  <2>1. ASSUME Init PROVE Facts = Session \X {"pending"}
    <3>1. ASSUME NEW s \in Session, NEW status \in PaymentStatus
          PROVE  Honest(s, status) <=> status = "pending"
      BY <2>1 DEF Init, Honest, HasPaid, PaymentStatus
    <3> QED BY <3>1 DEF Facts, PaymentStatus
  <2> QED BY <2>1 DEF Init, Reflection!Init, Facts
<1>2. TypeOK /\ TypeOK' /\ Truths /\ [Next]_vars => [Reflection!Next]_(Reflection!mirrorVars)
  BY MirrorStep
<1> QED BY <1>1, <1>2, IndInvariant, PTL DEF Spec, ImplementsMirror, Reflection!Spec
=============================================================================
