----------------------------- MODULE SmsLimiter -----------------------------
(***************************************************************************)
(* The rate limit of sms-service: at most MaxPerHour codes per phone and   *)
(* hour, Cooldown apart, and an hourly sweep that keeps the table from     *)
(* growing.  Checks are synchronous, so requests do not interleave in one. *)
(* The table lives in the process: a failing call of Twilio rejects the    *)
(* handler's promise, which nobody catches (Express 4), and Node exits.    *)
(***************************************************************************)
EXTENDS Integers, FiniteSets

CONSTANTS
    Phone, Ip,
    Cooldown,     \* cooldownMs
    MaxPerHour,
    Hour,         \* SWEEP_INTERVAL_MS, and the window of the hourly cap
    MaxTime       \* bound: when the clock stops

\* No cooldown is for tests (the sweep is not even scheduled then); one of more
\* than an hour would outlive the entry that remembers it.
SmsLimiterAssumption ==
    /\ Hour \in Nat
    /\ Cooldown \in 1..Hour
    /\ MaxPerHour \in Nat
    /\ MaxTime \in Nat

VARIABLES
    now,     \* Date.now()
    last,    \* lastSentAt of a phone's entry, 0 if there is none
    sends,   \* its hourlySends
    perIp,   \* lastSentAt of the entry of a phone and an address
    log      \* the codes sent since the process started

smsVars == <<now, last, sends, perIp, log>>

Empty ==
    /\ last' = [p \in Phone |-> 0]
    /\ sends' = [p \in Phone |-> {}]
    /\ perIp' = [x \in Phone \X Ip |-> 0]
    /\ log' = [p \in Phone |-> {}]

\* The epoch is long past.
SmsInit ==
    /\ now = Hour
    /\ last = [p \in Phone |-> 0]
    /\ sends = [p \in Phone |-> {}]
    /\ perIp = [x \in Phone \X Ip |-> 0]
    /\ log = [p \in Phone |-> {}]

Tick ==
    /\ now < MaxTime
    /\ now' = now + 1
    /\ UNCHANGED <<last, sends, perIp, log>>

RecentSends(p) == {t \in sends[p] : t > now - Hour}

\* check, which throws otherwise and then changes nothing.
Admits(p, ip) ==
    /\ now - last[p] >= Cooldown
    /\ Cardinality(RecentSends(p)) < MaxPerHour
    /\ now - perIp[<<p, ip>>] >= Cooldown

\* The code is sent.
Send(p, ip) ==
    /\ Admits(p, ip)
    /\ perIp' = [perIp EXCEPT ![<<p, ip>>] = now]
    /\ sends' = [sends EXCEPT ![p] = RecentSends(p) \cup {now}]
    /\ last' = [last EXCEPT ![p] = now]
    /\ log' = [log EXCEPT ![p] = @ \cup {now}]
    /\ UNCHANGED now

\* Faulty variant: entries go as soon as their cooldown is over.
IsIdleForCooldown(t) == t < now - Cooldown

IsIdle(t) == t < now - Hour

\* _sweep, whenever its timer fires.
Sweep ==
    /\ last' = [p \in Phone |-> IF IsIdle(last[p]) THEN 0 ELSE last[p]]
    /\ sends' = [p \in Phone |-> IF IsIdle(last[p]) THEN {} ELSE sends[p]]
    /\ perIp' = [x \in Phone \X Ip |-> IF IsIdle(perIp[x]) THEN 0 ELSE perIp[x]]
    /\ UNCHANGED <<now, log>>

\* The process dies and the next one knows nothing.
Restart == Empty /\ UNCHANGED now

SmsNext ==
    \/ Tick \/ Sweep \/ Restart
    \/ \E p \in Phone, ip \in Ip : Send(p, ip)

SmsSpec == SmsInit /\ [][SmsNext]_smsVars

-----------------------------------------------------------------------------
SmsTypeOK ==
    /\ now \in Nat
    /\ last \in [Phone -> Nat]
    /\ sends \in [Phone -> SUBSET Nat]
    /\ perIp \in [Phone \X Ip -> Nat]
    /\ log \in [Phone -> SUBSET Nat]

\* The codes sent to a phone in the hour that ends at t.
Window(p, t) == {s \in log[p] : t - Hour < s /\ s <= t}

\* No hour of a process's life, wherever it starts, has more codes for a phone
\* than the cap allows, and they are a cooldown apart: what a sweep forgets is
\* never needed again ("Remove entries idle for longer than the longest window",
\* rate-limiter.ts), whatever addresses the requests come from.
LimitHolds ==
    \A p \in Phone : \A t \in log[p] :
        /\ Cardinality(Window(p, t)) <= MaxPerHour
        /\ \A s \in log[p] : s < t => t - s >= Cooldown
=============================================================================
