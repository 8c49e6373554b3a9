--------------------------- MODULE PlatformProofs ---------------------------
(***************************************************************************)
(* Proofs about SmsLimiter for any phones, addresses and limits, about     *)
(* ConfigStore for any requests, keys and batches, and about MCPlatform,   *)
(* which puts these two next to PortalProvisioning and Invitations: every  *)
(* behaviour of the four is one of each.  Theorems about a component whose *)
(* assumption its module only names assume it.                             *)
(***************************************************************************)
EXTENDS PortalProvisioningProofs, InvitationsProofs, MCPlatform,
        WellFoundedInduction

-----------------------------------------------------------------------------
(* The limit on SMS codes.                                                 *)

\* The clock does not go back, and a phone's list is of codes sent to it.
Logged ==
    \A p \in Phone :
        /\ IsFiniteSet(log[p])
        /\ sends[p] \subseteq log[p]
        /\ \A t \in log[p] : t <= now

\* What an entry has forgotten is out of the hour.
Remembered ==
    \A p \in Phone : \A t \in log[p] :
        /\ t > now - Hour => t \in sends[p]
        /\ t <= last[p] \/ t < now - Hour

\* What an entry remembers is a code that was sent, and none is younger than the
\* process.
Stamped ==
    /\ now >= Hour
    /\ \A p \in Phone : last[p] = 0 \/ last[p] \in log[p]
    /\ \A p \in Phone, ip \in Ip : perIp[<<p, ip>>] = 0 \/ perIp[<<p, ip>>] \in log[p]

SmsInv == SmsTypeOK /\ Logged /\ Remembered /\ Stamped /\ LimitHolds

\* A limiter that forgets nothing would send a code: the last one was a cooldown
\* ago, and there were fewer than the cap in the last hour.
IsDue(p) ==
    /\ \A t \in log[p] : now - t >= Cooldown
    /\ Cardinality(Window(p, now)) < MaxPerHour

\* The table that is swept answers as the whole log would, from any address.
AnswersAsTheLog == \A p \in Phone, ip \in Ip : Admits(p, ip) <=> IsDue(p)

-----------------------------------------------------------------------------
LEMMA SmsInvInit == ASSUME SmsLimiterAssumption, SmsInit PROVE SmsInv
<1>1. SmsTypeOK
  BY DEF SmsInit, SmsTypeOK, SmsLimiterAssumption
<1>2. Logged
  BY FS_EmptySet DEF SmsInit, Logged
<1>3. Remembered /\ Stamped /\ LimitHolds
  BY DEF SmsInit, Remembered, Stamped, LimitHolds, SmsLimiterAssumption
<1> QED BY <1>1, <1>2, <1>3 DEF SmsInv

\* Where the log stays, so do the windows.
LEMMA SameLogSameLimit ==
    ASSUME LimitHolds, log' = log PROVE LimitHolds'
BY DEF LimitHolds, Window

\* A code that is sent is one of at most MaxPerHour in its hour.
LEMMA SendIsInLimit ==
    ASSUME SmsLimiterAssumption, SmsInv,
           NEW p \in Phone, NEW ip \in Ip, Send(p, ip)
    PROVE  LimitHolds'
<1>1. now \in Nat /\ last[p] \in Nat /\ Hour \in Nat /\ Cooldown \in 1..Hour
  BY DEF SmsInv, SmsTypeOK, SmsLimiterAssumption
<1>2. /\ now' = now
      /\ \A q \in Phone : log'[q] = IF q = p THEN log[p] \cup {now} ELSE log[q]
  BY DEF Send, SmsInv, SmsTypeOK
<1>3. \A q \in Phone : log[q] \subseteq Nat
  BY DEF SmsInv, SmsTypeOK
<1>4. Cardinality(Window(p, now)') <= MaxPerHour
  <2>1. IsFiniteSet(RecentSends(p))
    <3>1. IsFiniteSet(log[p]) /\ RecentSends(p) \in SUBSET log[p]
      BY DEF SmsInv, Logged, RecentSends
    <3> QED BY <3>1, FS_Subset
  <2>2. Window(p, now)' \subseteq RecentSends(p) \cup {now}
    <3> SUFFICES ASSUME NEW s \in Window(p, now)', s # now
                 PROVE  s \in RecentSends(p)
      OBVIOUS
    <3>1. s \in log[p] /\ now - Hour < s
      BY <1>2 DEF Window
    <3>2. s \in Nat
      BY <1>3, <3>1
    <3>3. s \in sends[p]
      BY <1>1, <3>1, <3>2 DEF SmsInv, Remembered
    <3> QED BY <1>1, <3>1, <3>2, <3>3 DEF RecentSends
  <2>3. /\ IsFiniteSet(RecentSends(p) \cup {now})
        /\ Cardinality(RecentSends(p) \cup {now}) <= Cardinality(RecentSends(p)) + 1
    <3>1. /\ IsFiniteSet(RecentSends(p) \cup {now})
          /\ Cardinality(RecentSends(p) \cup {now})
               = IF now \in RecentSends(p) THEN Cardinality(RecentSends(p))
                                           ELSE Cardinality(RecentSends(p)) + 1
      BY <2>1, FS_AddElement
    <3>2. Cardinality(RecentSends(p)) \in Nat
      BY <2>1, FS_CardinalityType
    <3> QED BY <3>1, <3>2
  <2>4. Cardinality(Window(p, now)') <= Cardinality(RecentSends(p) \cup {now})
    BY <2>2, <2>3, FS_Subset
  <2>5. IsFiniteSet(Window(p, now)')
    BY <2>2, <2>3, FS_Subset
  <2>6. Cardinality(RecentSends(p)) < MaxPerHour
    BY DEF Send, Admits
  <2>7. /\ Cardinality(Window(p, now)') \in Nat
        /\ Cardinality(RecentSends(p)) \in Nat
        /\ Cardinality(RecentSends(p) \cup {now}) \in Nat
        /\ MaxPerHour \in Nat
    BY <2>1, <2>3, <2>5, FS_CardinalityType DEF SmsLimiterAssumption
  <2> QED BY <2>3, <2>4, <2>6, <2>7
<1>5. \A s \in log[p] : s < now => now - s >= Cooldown
  <2> SUFFICES ASSUME NEW s \in log[p], s < now PROVE now - s >= Cooldown
    OBVIOUS
  <2>1. s \in Nat /\ (s <= last[p] \/ s < now - Hour)
    BY <1>3 DEF SmsInv, Remembered
  <2>2. now - last[p] >= Cooldown
    BY DEF Send, Admits
  <2> QED BY <1>1, <2>1, <2>2
<1>6. ASSUME NEW q \in Phone, NEW t \in log'[q]
      PROVE  /\ Cardinality(Window(q, t)') <= MaxPerHour
             /\ \A s \in log'[q] : s < t => t - s >= Cooldown
  <2>1. CASE q = p /\ t = now
    BY <1>1, <1>2, <1>4, <1>5, <2>1
  <2>2. CASE ~(q = p /\ t = now)
    <3>1. t \in log[q] /\ t <= now /\ t \in Nat
      BY <1>2, <1>3, <2>2 DEF SmsInv, Logged
    <3>2. q = p => t < now
      BY <1>1, <2>2, <3>1
    <3>3. Window(q, t)' = Window(q, t)
      BY <1>1, <1>2, <3>1, <3>2 DEF Window
    <3> QED BY <1>1, <1>2, <3>1, <3>2, <3>3 DEF SmsInv, LimitHolds
  <2> QED BY <2>1, <2>2
<1> QED BY <1>6 DEF LimitHolds

LEMMA SmsInvStep ==
    ASSUME SmsLimiterAssumption, SmsInv, [SmsNext]_smsVars PROVE SmsInv'
<1> USE DEF SmsLimiterAssumption
<1>1. CASE Tick
  <2>1. SmsTypeOK' /\ Logged'
    BY <1>1 DEF Tick, SmsInv, SmsTypeOK, Logged
  <2>2. Remembered' /\ Stamped'
    BY <1>1 DEF Tick, SmsInv, SmsTypeOK, Remembered, Stamped
  <2>3. LimitHolds'
    BY <1>1, SameLogSameLimit DEF Tick, SmsInv
  <2> QED BY <2>1, <2>2, <2>3 DEF SmsInv
<1>2. CASE Sweep
  <2>1. SmsTypeOK' /\ Logged'
    BY <1>2 DEF Sweep, SmsInv, SmsTypeOK, Logged
  <2>2. Remembered'
    <3> SUFFICES ASSUME NEW p \in Phone, NEW t \in log[p]
                 PROVE  /\ t > now - Hour => t \in sends'[p]
                        /\ t <= last'[p] \/ t < now - Hour
      BY <1>2 DEF Sweep, Remembered
    <3>1. t \in Nat /\ now \in Nat /\ last[p] \in Nat
      BY DEF SmsInv, SmsTypeOK
    <3>2. /\ t > now - Hour => t \in sends[p]
          /\ t <= last[p] \/ t < now - Hour
      BY DEF SmsInv, Remembered
    <3> QED BY <1>2, <3>1, <3>2 DEF Sweep, IsIdle
  <2>3. Stamped'
    BY <1>2 DEF Sweep, SmsInv, SmsTypeOK, Stamped
  <2>4. LimitHolds'
    BY <1>2, SameLogSameLimit DEF Sweep, SmsInv
  <2> QED BY <2>1, <2>2, <2>3, <2>4 DEF SmsInv
<1>3. CASE Restart
  <2>1. SmsTypeOK'
    BY <1>3 DEF Restart, Empty, SmsInv, SmsTypeOK
  <2>2. Logged'
    BY <1>3, FS_EmptySet DEF Restart, Empty, Logged
  <2>3. Remembered' /\ Stamped' /\ LimitHolds'
    BY <1>3 DEF Restart, Empty, Remembered, Stamped, LimitHolds, SmsInv
  <2> QED BY <2>1, <2>2, <2>3 DEF SmsInv
<1>4. ASSUME NEW p \in Phone, NEW ip \in Ip, Send(p, ip) PROVE SmsInv'
  <2>1. SmsTypeOK'
    BY <1>4 DEF Send, RecentSends, SmsInv, SmsTypeOK
  <2>2. Logged'
    <3> SUFFICES ASSUME NEW q \in Phone
                 PROVE  /\ IsFiniteSet(log'[q])
                        /\ sends'[q] \subseteq log'[q]
                        /\ \A t \in log'[q] : t <= now'
      BY DEF Logged
    <3>1. /\ IsFiniteSet(log[q]) /\ sends[q] \subseteq log[q]
          /\ \A t \in log[q] : t <= now
      BY DEF SmsInv, Logged
    <3>2. IsFiniteSet(log[q] \cup {now})
      BY <3>1, FS_AddElement
    <3>3. /\ now' = now
          /\ log'[q] = IF q = p THEN log[q] \cup {now} ELSE log[q]
          /\ sends'[q] = IF q = p THEN RecentSends(p) \cup {now} ELSE sends[q]
      BY <1>4 DEF Send, SmsInv, SmsTypeOK
    <3> QED BY <3>1, <3>2, <3>3 DEF RecentSends, SmsInv, SmsTypeOK
  <2>3. Remembered'
    BY <1>4 DEF Send, RecentSends, SmsInv, SmsTypeOK, Logged, Remembered
  <2>4. Stamped'
    BY <1>4 DEF Send, SmsInv, SmsTypeOK, Stamped
  <2>5. LimitHolds'
    BY <1>4, SendIsInLimit
  <2> QED BY <2>1, <2>2, <2>3, <2>4, <2>5 DEF SmsInv
<1>5. CASE UNCHANGED smsVars
  <2>1. SmsTypeOK' /\ Logged' /\ Remembered' /\ Stamped'
    BY <1>5 DEF smsVars, SmsInv, SmsTypeOK, Logged, Remembered, Stamped
  <2> QED BY <1>5, <2>1, SameLogSameLimit DEF smsVars, SmsInv
<1> QED BY <1>1, <1>2, <1>3, <1>4, <1>5 DEF SmsNext

\* The inductive invariant of the theorems below.
THEOREM SmsInvariant == ASSUME SmsLimiterAssumption PROVE SmsSpec => []SmsInv
<1>1. SmsInit => SmsInv
  BY SmsInvInit
<1>2. SmsInv /\ [SmsNext]_smsVars => SmsInv'
  BY SmsInvStep
<1> QED BY <1>1, <1>2, PTL DEF SmsSpec

\* Every variable of the limiter keeps its type.
THEOREM SmsTypeCorrect == ASSUME SmsLimiterAssumption PROVE SmsSpec => []SmsTypeOK
<1>1. SmsInv => SmsTypeOK
  BY DEF SmsInv
<1> QED BY <1>1, SmsInvariant, PTL

\* Whatever the limits, the sweeps and the addresses, no hour has more codes for
\* a phone than the cap allows and no two are closer than the cooldown.
THEOREM Limit == ASSUME SmsLimiterAssumption PROVE SmsSpec => []LimitHolds
<1>1. SmsInv => LimitHolds
  BY DEF SmsInv
<1> QED BY <1>1, SmsInvariant, PTL

\* The sweep and the entries per address change no answer of the limiter: it
\* sends exactly the codes that one with an endless memory would, and refuses
\* nothing else.
THEOREM Exact == ASSUME SmsLimiterAssumption PROVE SmsSpec => []AnswersAsTheLog
<1>1. ASSUME SmsInv, NEW p \in Phone, NEW ip \in Ip PROVE Admits(p, ip) <=> IsDue(p)
  <2>1. /\ now \in Nat /\ last[p] \in Nat /\ perIp[<<p, ip>>] \in Nat
        /\ sends[p] \in SUBSET Nat /\ log[p] \in SUBSET Nat
        /\ Hour \in Nat /\ Cooldown \in 1..Hour /\ now >= Hour
    BY <1>1 DEF SmsInv, SmsTypeOK, Stamped, SmsLimiterAssumption
  <2>2. Window(p, now) = RecentSends(p)
    <3>1. /\ sends[p] \subseteq log[p]
          /\ \A t \in log[p] : t <= now /\ (t > now - Hour => t \in sends[p])
      BY <1>1 DEF SmsInv, Logged, Remembered
    <3> QED BY <2>1, <3>1 DEF Window, RecentSends
  <2>3. (now - last[p] >= Cooldown) <=> \A t \in log[p] : now - t >= Cooldown
    <3>1. \A t \in log[p] : t <= last[p] \/ t < now - Hour
      BY <1>1 DEF SmsInv, Remembered
    <3>2. last[p] = 0 \/ last[p] \in log[p]
      BY <1>1 DEF SmsInv, Stamped
    <3> QED BY <2>1, <3>1, <3>2
  <2>4. (\A t \in log[p] : now - t >= Cooldown) => now - perIp[<<p, ip>>] >= Cooldown
    <3>1. perIp[<<p, ip>>] = 0 \/ perIp[<<p, ip>>] \in log[p]
      BY <1>1 DEF SmsInv, Stamped
    <3> QED BY <2>1, <3>1
  <2> QED BY <2>2, <2>3, <2>4 DEF Admits, IsDue
<1>2. SmsInv => AnswersAsTheLog
  BY <1>1 DEF AnswersAsTheLog
<1> QED BY <1>2, SmsInvariant, PTL

-----------------------------------------------------------------------------
(* The batches of configuration values.                                    *)

\* A transaction holds a key of each operation it has executed, unless that was a
\* deletion that found nothing, and no others; one that is over holds none.
Executed(p) ==
    /\ place[p] # "writing" => held[p] = {}
    /\ place[p] = "new" => next[p] = 1
    /\ \A k \in held[p] : \E n \in DOMAIN batch[p].operations :
          n < next[p] /\ batch[p].operations[n].key = k
    /\ place[p] = "writing" => \A n \in DOMAIN batch[p].operations : n < next[p] =>
          /\ batch[p].operations[n].op # "unset" =>
                batch[p].operations[n].key \in held[p]
          /\ batch[p].operations[n].op = "unlock" =>
                seen[p][batch[p].operations[n].key] # NoRow

\* Two transactions never hold the same row.
RowLocksExclude ==
    \A p, q \in Put :
        p # q /\ batch[p].tier = batch[q].tier => held[p] \cap held[q] = {}

\* A stored row is one that an applied request left at its own scope.
RowsAreApplied ==
    \A p \in Put, k \in Key, t \in Tier :
        Leaves(p, k, t) => place[p] = "applied" /\ t = batch[p].tier

ConfigInv ==
    /\ ConfigTypeOK
    /\ \A p \in Put : next[p] >= 1 /\ Executed(p)
    /\ RowLocksExclude
    /\ RowsAreApplied
    /\ BatchesAreWhole

-----------------------------------------------------------------------------
LEMMA SeqElement ==
    ASSUME NEW T, NEW q \in Seq(T), NEW n \in DOMAIN q PROVE q[n] \in T
OBVIOUS

\* A batch names a key once, so its operation on the key is known.
LEMMA OneOperation ==
    ASSUME ConfigStoreAssumption, ConfigTypeOK,
           NEW p \in Put, NEW n \in DOMAIN batch[p].operations
    PROVE  /\ OperationOn(p, batch[p].operations[n].key) = n
           /\ batch[p].operations[n].key \in Key
           /\ batch[p].operations[n].op \in Operation
           /\ DOMAIN batch[p].operations = 1..Len(batch[p].operations)
           /\ Len(batch[p].operations) \in Nat
           /\ batch[p].tier \in Tier
<1>1. batch[p] \in Batch
  BY DEF ConfigTypeOK
<1>2. /\ batch[p].operations \in Seq([key : Key, op : Operation])
      /\ batch[p].tier \in Tier
      /\ \A m, l \in DOMAIN batch[p].operations :
            batch[p].operations[m].key = batch[p].operations[l].key => m = l
  BY <1>1 DEF ConfigStoreAssumption
<1>3. OperationOn(p, batch[p].operations[n].key) = n
  BY <1>2 DEF OperationOn
<1>4. batch[p].operations[n] \in [key : Key, op : Operation]
  BY <1>2, SeqElement
<1>5. /\ DOMAIN batch[p].operations = 1..Len(batch[p].operations)
      /\ Len(batch[p].operations) \in Nat
  BY <1>2
<1> QED BY <1>2, <1>3, <1>4, <1>5

\* The operation a transaction is at.
LEMMA AtOperation ==
    ASSUME ConfigStoreAssumption, ConfigTypeOK,
           NEW p \in Put, IsWriting(p), next[p] >= 1
    PROVE  /\ next[p] \in DOMAIN batch[p].operations
           /\ OperationAt(p).key \in Key
           /\ OperationAt(p).op \in Operation
<1>1. batch[p] \in Batch /\ next[p] \in Nat
  BY DEF ConfigTypeOK
<1>2. batch[p].operations \in Seq([key : Key, op : Operation])
  BY <1>1 DEF ConfigStoreAssumption
<1>3. next[p] \in DOMAIN batch[p].operations
  BY <1>1, <1>2 DEF IsWriting
<1> QED BY <1>3, OneOperation DEF OperationAt

\* What a transaction stores for a key it holds is a row of its own or none, and
\* one of its own unless the batch removes the key.
LEMMA StoredIsOwn ==
    ASSUME ConfigStoreAssumption, ConfigTypeOK, NEW p \in Put,
           place[p] = "writing", Executed(p), NEW k \in held[p]
    PROVE  /\ Stored(p, k) \in Row \cup {NoRow}
           /\ Stored(p, k) # NoRow => Stored(p, k).setBy = p
           /\ k \in Overwrites(p) => Stored(p, k).setBy = p
<1>1. PICK n \in DOMAIN batch[p].operations :
              n < next[p] /\ batch[p].operations[n].key = k
  BY DEF Executed
<1>2. OperationOn(p, k) = n /\ k \in Key /\ batch[p].operations[n].op \in Operation
  BY <1>1, OneOperation
<1> DEFINE op == batch[p].operations[n].op
<1>3. k \in Overwrites(p) => op # "unset"
  <2> SUFFICES ASSUME NEW m \in DOMAIN batch[p].operations,
                      batch[p].operations[m].op # "unset",
                      batch[p].operations[m].key = k
               PROVE  op # "unset"
    BY DEF Overwrites
  <2>1. OperationOn(p, k) = m
    BY OneOperation
  <2> QED BY <1>2, <2>1
<1>4. CASE op = "unset"
  BY <1>2, <1>3, <1>4 DEF Stored
<1>5. CASE op = "unlock"
  <2>1. seen[p][k] # NoRow
    BY <1>1, <1>5 DEF Executed
  <2>2. seen[p][k].value \in Put
    BY <1>2, <2>1 DEF ConfigTypeOK, Row
  <2>3. Stored(p, k) = [value |-> seen[p][k].value, locked |-> FALSE, setBy |-> p]
    BY <1>2, <1>5 DEF Stored
  <2> QED BY <2>2, <2>3 DEF Row
<1>6. CASE op \in {"set", "lock"}
  <2>1. Stored(p, k) = [value |-> p, locked |-> op = "lock", setBy |-> p]
    BY <1>2, <1>6 DEF Stored
  <2> QED BY <2>1 DEF Row
<1> QED BY <1>2, <1>4, <1>5, <1>6 DEF Operation

-----------------------------------------------------------------------------
LEMMA ConfigInvInit == ASSUME ConfigStoreAssumption, ConfigInit PROVE ConfigInv
<1>1. ConfigTypeOK
  BY DEF ConfigInit, ConfigTypeOK, ConfigStoreAssumption
<1>2. \A p \in Put : next[p] >= 1 /\ Executed(p)
  <2> SUFFICES ASSUME NEW p \in Put PROVE next[p] >= 1 /\ Executed(p)
    OBVIOUS
  <2>1. place[p] = "new" /\ next[p] = 1 /\ held[p] = {}
    BY DEF ConfigInit
  <2> QED BY <2>1 DEF Executed
<1>3. RowLocksExclude
  BY DEF ConfigInit, RowLocksExclude
<1>4. \A p \in Put, k \in Key, t \in Tier : ~Leaves(p, k, t)
  BY DEF ConfigInit, Leaves
<1> QED BY <1>1, <1>2, <1>3, <1>4 DEF ConfigInv, RowsAreApplied, BatchesAreWhole

\* What a request asks for does not change, and it changes nothing of another's;
\* only a request that is applied changes rows.
LEMMA ConfigFrame ==
    ASSUME ConfigTypeOK, NEW p \in Put, GoOn(p) \/ RollBack(p)
    PROVE  /\ batch' = batch
           /\ \A q \in Put \ {p} : /\ place'[q] = place[q] /\ seen'[q] = seen[q]
                                  /\ next'[q] = next[q] /\ held'[q] = held[q]
           /\ rows' = rows \/ Apply(p)
BY DEF ConfigTypeOK, GoOn, Check, Execute, Refuse, Apply, Deadlock, RollBack, CloseAs

\* A transaction that is over, without its rows, has given its locks back.
LEMMA RefusedStep ==
    ASSUME ConfigTypeOK, NEW p \in Put, Refuse(p) \/ Deadlock(p) \/ RollBack(p)
    PROVE  /\ place'[p] = "refused" /\ held'[p] = {}
           /\ UNCHANGED <<rows, batch, seen, next>> /\ rollbacks' \in Nat
           /\ place' \in [Put -> {"new", "writing", "applied", "refused"}]
           /\ held' \in [Put -> SUBSET Key]
<1>1. CloseAs(p, "refused") /\ UNCHANGED <<rows, batch, seen, next>>
  BY DEF Refuse, Deadlock, RollBack
<1>2. rollbacks' \in Nat
  BY DEF Refuse, Deadlock, RollBack, ConfigTypeOK
<1> QED BY <1>1, <1>2 DEF CloseAs, ConfigTypeOK

LEMMA ConfigTypeStep ==
    ASSUME ConfigStoreAssumption, ConfigInv, NEW p \in Put, GoOn(p) \/ RollBack(p)
    PROVE  ConfigTypeOK'
<1>t. ConfigTypeOK /\ next[p] >= 1 /\ Executed(p)
  BY DEF ConfigInv
<1>1. CASE Check(p)
  <2>1. batch[p].tier \in Tier
    BY <1>t DEF ConfigTypeOK, ConfigStoreAssumption
  <2>2. [k \in Key |-> rows[k][batch[p].tier]] \in [Key -> Row \cup {NoRow}]
    BY <1>t, <2>1 DEF ConfigTypeOK
  <2> QED BY <1>1, <1>t, <2>2 DEF Check, ConfigTypeOK
<1>2. CASE Execute(p)
  <2>1. OperationAt(p).key \in Key
    BY <1>2, <1>t, AtOperation DEF Execute
  <2> QED BY <1>2, <1>t, <2>1 DEF Execute, ConfigTypeOK
<1>3. CASE Apply(p)
  <2>1. \A k \in held[p] : Stored(p, k) \in Row \cup {NoRow}
    BY <1>3, <1>t, StoredIsOwn DEF Apply
  <2>2. rows' \in [Key -> [Tier -> Row \cup {NoRow}]]
    BY <1>3, <1>t, <2>1 DEF Apply, Write, ConfigTypeOK
  <2> QED BY <1>3, <1>t, <2>2 DEF Apply, CloseAs, ConfigTypeOK
<1>4. CASE Refuse(p) \/ Deadlock(p) \/ RollBack(p)
  BY <1>4, <1>t, RefusedStep DEF ConfigTypeOK
<1> QED BY <1>1, <1>2, <1>3, <1>4 DEF GoOn

\* A request's own step keeps what it has executed and what it holds in line.
LEMMA ExecutedStep ==
    ASSUME ConfigStoreAssumption, ConfigInv, NEW p \in Put, GoOn(p) \/ RollBack(p)
    PROVE  \A q \in Put : next'[q] >= 1 /\ Executed(q)'
<1>t. ConfigTypeOK /\ next[p] \in Nat /\ next[p] >= 1 /\ Executed(p)
  BY DEF ConfigInv, ConfigTypeOK
<1>f. batch' = batch
  BY <1>t, ConfigFrame
<1>q. ASSUME NEW q \in Put \ {p} PROVE next'[q] >= 1 /\ Executed(q)'
  <2>1. /\ place'[q] = place[q] /\ seen'[q] = seen[q]
        /\ next'[q] = next[q] /\ held'[q] = held[q]
    BY <1>t, ConfigFrame
  <2>2. next[q] >= 1 /\ Executed(q)
    BY DEF ConfigInv
  <2> QED BY <1>f, <2>1, <2>2 DEF Executed
<1>n. \A n \in DOMAIN batch[p].operations : n \in Nat /\ n >= 1
  BY <1>t, OneOperation
<1>1. ASSUME Check(p) PROVE next'[p] >= 1 /\ Executed(p)'
  <2>1. /\ place[p] = "new" /\ next[p] = 1 /\ held[p] = {}
        /\ next' = next /\ held' = held /\ place'[p] # "new"
    BY <1>1, <1>t DEF Check, Executed, ConfigTypeOK
  <2> QED BY <1>f, <1>n, <2>1 DEF Executed
<1>2. ASSUME Execute(p) PROVE next'[p] >= 1 /\ Executed(p)'
  <2>1. next[p] \in DOMAIN batch[p].operations
    BY <1>2, <1>t, AtOperation DEF Execute
  <2>2. /\ place[p] = "writing" /\ place' = place /\ seen' = seen
        /\ next'[p] = next[p] + 1
        /\ held'[p] = IF IsNoop(p) THEN held[p] ELSE held[p] \cup {OperationAt(p).key}
        /\ ~IsVoid(p)
    BY <1>2, <1>t DEF Execute, IsWriting, ConfigTypeOK
  <2>3. \A n \in DOMAIN batch[p].operations : n < next'[p] => n < next[p] \/ n = next[p]
    BY <1>n, <1>t, <2>2
  <2>4. \A k \in held'[p] : \E n \in DOMAIN batch[p].operations :
           n < next'[p] /\ batch[p].operations[n].key = k
    BY <1>n, <1>t, <2>1, <2>2 DEF Executed, OperationAt
  <2>5. ASSUME NEW n \in DOMAIN batch[p].operations, n < next'[p]
        PROVE  /\ batch[p].operations[n].op # "unset" =>
                     batch[p].operations[n].key \in held'[p]
               /\ batch[p].operations[n].op = "unlock" =>
                     seen[p][batch[p].operations[n].key] # NoRow
    BY <1>t, <2>2, <2>3, <2>5 DEF Executed, OperationAt, IsNoop, IsVoid
  <2> QED BY <1>f, <1>t, <2>2, <2>4, <2>5 DEF Executed
<1>3. ASSUME Apply(p) PROVE next'[p] >= 1 /\ Executed(p)'
  <2>1. place'[p] = "applied" /\ held'[p] = {} /\ next' = next
    BY <1>3, <1>t DEF Apply, CloseAs, ConfigTypeOK
  <2> QED BY <1>t, <2>1 DEF Executed
<1>4. ASSUME Refuse(p) \/ Deadlock(p) \/ RollBack(p) PROVE next'[p] >= 1 /\ Executed(p)'
  <2>1. place'[p] = "refused" /\ held'[p] = {} /\ next' = next
    BY <1>4, <1>t, RefusedStep
  <2> QED BY <1>t, <2>1 DEF Executed
<1> QED BY <1>q, <1>1, <1>2, <1>3, <1>4 DEF GoOn

\* A statement takes a row lock that no other transaction of its scope has.
LEMMA RowLocksStep ==
    ASSUME ConfigStoreAssumption, ConfigInv, NEW p \in Put, GoOn(p) \/ RollBack(p)
    PROVE  RowLocksExclude'
<1>t. ConfigTypeOK /\ RowLocksExclude
  BY DEF ConfigInv
<1>f. batch' = batch /\ \A q \in Put \ {p} : held'[q] = held[q]
  BY <1>t, ConfigFrame
<1>1. \A q \in Put \ {p} : batch[p].tier = batch[q].tier => held'[p] \cap held[q] = {}
  <2> SUFFICES ASSUME NEW q \in Put \ {p}, batch[p].tier = batch[q].tier
               PROVE  held'[p] \cap held[q] = {}
    OBVIOUS
  <2>0. held[p] \cap held[q] = {}
    BY <1>t DEF RowLocksExclude
  <2>1. CASE Execute(p)
    <3>1. ~IsNoop(p) => OperationAt(p).key \notin held[q]
      BY <2>1 DEF Execute, WaitsFor, Holds
    <3>2. held'[p] = IF IsNoop(p) THEN held[p] ELSE held[p] \cup {OperationAt(p).key}
      BY <2>1, <1>t DEF Execute, ConfigTypeOK
    <3> QED BY <2>0, <3>1, <3>2
  <2>2. CASE ~Execute(p)
    <3>1. held'[p] = held[p] \/ held'[p] = {}
      BY <2>2, <1>t DEF GoOn, Check, Refuse, Apply, Deadlock, RollBack, CloseAs,
                        ConfigTypeOK
    <3> QED BY <2>0, <3>1
  <2> QED BY <2>1, <2>2
<1> QED BY <1>t, <1>f, <1>1 DEF RowLocksExclude

\* A request that is applied overwrites what the others left at its keys, and the
\* others leave nothing before they are applied themselves.
LEMMA WholeStep ==
    ASSUME ConfigStoreAssumption, ConfigInv, NEW p \in Put, GoOn(p) \/ RollBack(p)
    PROVE  RowsAreApplied' /\ BatchesAreWhole'
<1>t. /\ ConfigTypeOK /\ RowsAreApplied /\ BatchesAreWhole
      /\ next[p] \in Nat /\ next[p] >= 1 /\ Executed(p)
  BY DEF ConfigInv, ConfigTypeOK
<1>f. /\ batch' = batch
      /\ \A q \in Put \ {p} : place'[q] = place[q]
  BY <1>t, ConfigFrame
<1>o. \A q \in Put : Overwrites(q)' = Overwrites(q)
  BY <1>f DEF Overwrites
<1>1. CASE ~Apply(p)
  <2>1. rows' = rows
    BY <1>1, <1>t, ConfigFrame
  <2>2. \A q \in Put, k \in Key, t \in Tier : Leaves(q, k, t)' <=> Leaves(q, k, t)
    BY <2>1 DEF Leaves
  <2>3. place[p] # "applied"
    <3>1. ASSUME Deadlock(p) PROVE IsWriting(p)
      BY <3>1 DEF Deadlock, IsCircle, WaitsFor
    <3> QED BY <1>1, <3>1 DEF GoOn, Check, Execute, Refuse, RollBack, IsWriting
  <2> QED BY <1>t, <1>f, <1>o, <2>2, <2>3 DEF RowsAreApplied, BatchesAreWhole
<1>2. CASE Apply(p)
  <2>1. /\ place[p] = "writing" /\ place'[p] = "applied"
        /\ next[p] > Len(batch[p].operations)
    BY <1>2, <1>t DEF Apply, CloseAs, ConfigTypeOK
  <2>b. batch[p].tier \in Tier
    BY <1>t DEF ConfigTypeOK, ConfigStoreAssumption
  <2>2. \A k \in Key, t \in Tier :
           rows'[k][t] = IF k \in held[p] /\ t = batch[p].tier THEN Stored(p, k)
                                                              ELSE rows[k][t]
    BY <1>2, <1>t, <2>b DEF Apply, Write, ConfigTypeOK
  <2>3. Overwrites(p) \subseteq held[p]
    <3> SUFFICES ASSUME NEW n \in DOMAIN batch[p].operations,
                        batch[p].operations[n].op # "unset"
                 PROVE  batch[p].operations[n].key \in held[p]
      BY DEF Overwrites
    <3>1. n < next[p]
      BY <1>t, <2>1, OneOperation
    <3> QED BY <1>t, <2>1, <3>1 DEF Executed
\* What the others leave now they left before, and not where p overwrites.
  <2>4. ASSUME NEW q \in Put \ {p}, NEW k \in Key, NEW t \in Tier, Leaves(q, k, t)'
        PROVE  Leaves(q, k, t) /\ ~(k \in Overwrites(p) /\ t = batch[p].tier)
    <3>1. rows'[k][t] # NoRow /\ rows'[k][t].setBy = q
      BY <2>4 DEF Leaves
    <3>2. ~(k \in held[p] /\ t = batch[p].tier)
      BY <1>t, <2>1, <2>2, <3>1, StoredIsOwn
    <3> QED BY <2>2, <2>3, <3>1, <3>2 DEF Leaves
\* What p leaves now is at its own scope: it left nothing before.
  <2>5. ASSUME NEW k \in Key, NEW t \in Tier, Leaves(p, k, t)'
        PROVE  t = batch[p].tier
    <3>1. ~Leaves(p, k, t)
      BY <1>t, <2>1 DEF RowsAreApplied
    <3> QED BY <2>2, <2>5, <3>1 DEF Leaves
  <2>6. RowsAreApplied'
    <3> SUFFICES ASSUME NEW q \in Put, NEW k \in Key, NEW t \in Tier, Leaves(q, k, t)'
                 PROVE  place'[q] = "applied" /\ t = batch[q].tier
      BY <1>f DEF RowsAreApplied
    <3>1. CASE q = p
      BY <2>1, <2>5, <3>1
    <3>2. CASE q # p
      BY <1>f, <1>t, <2>4, <3>2 DEF RowsAreApplied
    <3> QED BY <3>1, <3>2
  <2>7. BatchesAreWhole'
    <3> SUFFICES ASSUME NEW q \in Put, NEW t \in Tier, NEW k \in Key, Leaves(q, k, t)',
                        NEW r \in Put \ {q}, NEW l \in Key,
                        batch[q].tier = batch[r].tier,
                        {k, l} \subseteq Overwrites(q) \cap Overwrites(r),
                        Leaves(r, l, t)'
                 PROVE  FALSE
      BY <1>f, <1>o, <2>6 DEF BatchesAreWhole, RowsAreApplied
    <3>1. t = batch[q].tier /\ t = batch[r].tier
      BY <1>f, <2>6 DEF RowsAreApplied
    <3>2. CASE q = p
      BY <2>4, <3>1, <3>2
    <3>3. CASE r = p
      BY <2>4, <3>1, <3>3
    <3>4. CASE q # p /\ r # p
      <4>1. Leaves(q, k, t) /\ Leaves(r, l, t)
        BY <2>4, <3>4
      <4> QED BY <1>t, <4>1 DEF BatchesAreWhole
    <3> QED BY <3>2, <3>3, <3>4
  <2> QED BY <2>6, <2>7
<1> QED BY <1>1, <1>2

LEMMA ConfigInvStep ==
    ASSUME ConfigStoreAssumption, ConfigInv, [ConfigNext]_configVars PROVE ConfigInv'
<1>1. ASSUME NEW p \in Put, GoOn(p) \/ RollBack(p) PROVE ConfigInv'
  BY <1>1, ConfigTypeStep, ExecutedStep, RowLocksStep, WholeStep DEF ConfigInv
<1>2. CASE UNCHANGED configVars
  <2>1. ConfigTypeOK' /\ \A p \in Put : next'[p] >= 1 /\ Executed(p)'
    BY <1>2 DEF configVars, ConfigInv, ConfigTypeOK, Executed
  <2>2. RowLocksExclude'
    BY <1>2 DEF configVars, ConfigInv, RowLocksExclude
  <2>3. RowsAreApplied' /\ BatchesAreWhole'
    BY <1>2 DEF configVars, ConfigInv, RowsAreApplied, BatchesAreWhole, Leaves, Overwrites
  <2> QED BY <2>1, <2>2, <2>3 DEF ConfigInv
<1> QED BY <1>1, <1>2 DEF ConfigNext

\* The inductive invariant of the theorems about configuration values.
THEOREM ConfigInvariant == ASSUME ConfigStoreAssumption PROVE ConfigSpec => []ConfigInv
<1>1. ConfigInit => ConfigInv
  BY ConfigInvInit
<1>2. ConfigInv /\ [ConfigNext]_configVars => ConfigInv'
  BY ConfigInvStep
<1> QED BY <1>1, <1>2, PTL DEF ConfigSpec

\* Every variable of the configuration model keeps its type.
THEOREM ConfigTypeCorrect ==
    ASSUME ConfigStoreAssumption PROVE ConfigSpec => []ConfigTypeOK
<1>1. ConfigInv => ConfigTypeOK
  BY DEF ConfigInv
<1> QED BY <1>1, ConfigInvariant, PTL

\* PUT /v1/config applies a batch as a whole or not at all, for any number of
\* requests at any scopes, whatever they ask for and in whatever order.
THEOREM Whole == ASSUME ConfigStoreAssumption PROVE ConfigSpec => []BatchesAreWhole
<1>1. ConfigInv => BatchesAreWhole
  BY DEF ConfigInv
<1> QED BY <1>1, ConfigInvariant, PTL

-----------------------------------------------------------------------------
(* Waiting for row locks.                                                  *)

\* A transaction whose next step nothing keeps from being taken.
IsFree(p) ==
    /\ place[p] = "writing"
    /\ \/ next[p] > Len(batch[p].operations)
       \/ IsVoid(p)
       \/ \A q \in Put : ~WaitsFor(p, q)

\* As long as there is a transaction, one is free or PostgreSQL has a circle to
\* break: the row locks alone bring nobody to a stop.
NobodyIsStuck ==
    (\E p \in Put : place[p] = "writing") =>
        \/ \E p \in Put : IsFree(p)
        \/ \E S \in SUBSET Put : S # {} /\ IsCircle(S)

\* Where each of finitely many transactions waits for one of them, some wait for
\* each other in a circle: the smallest such set.
LEMMA WaitersFormCircle ==
    ASSUME IsFiniteSet(Put), NEW W \in SUBSET Put, W # {},
           \A p \in W : \E q \in W : WaitsFor(p, q)
    PROVE  \E S \in SUBSET Put : S # {} /\ IsCircle(S)
<1> DEFINE Closed == {T \in SUBSET Put :
                        T # {} /\ \A p \in T : \E q \in T : WaitsFor(p, q)}
           Smaller == StrictSubsetOrdering(Put)
<1>1. W \in Closed /\ Closed \subseteq SUBSET Put
  OBVIOUS
<1>2. IsWellFoundedOn(Smaller, SUBSET Put)
  BY FS_StrictSubsetOrderingWellFounded, FS_FiniteSubsetsOfFinite
<1>3. PICK S \in Closed : \A T \in Closed : <<T, S>> \notin Smaller
  <2> HIDE DEF Closed, Smaller
  <2> QED BY <1>1, <1>2, WFMin
<1>4. ASSUME NEW r \in S, \A q \in S : ~WaitsFor(q, r) PROVE FALSE
  <2> DEFINE T == S \ {r}
  <2>1. PICK q \in S : WaitsFor(r, q)
    OBVIOUS
  <2>2. q # r
    BY <2>1 DEF WaitsFor
  <2>3. T \in Closed
    BY <1>4, <2>2
  <2>4. <<T, S>> \in Smaller
    BY DEF StrictSubsetOrdering
  <2> QED BY <1>3, <2>3, <2>4
<1>5. IsCircle(S)
  BY <1>4 DEF IsCircle
<1> QED BY <1>5

\* No transaction of PUT /v1/config waits for a lock that nobody is going to give
\* back: for any finite number of requests, whatever rows they lock in whatever
\* order.
THEOREM NeverStuck ==
    ASSUME ConfigStoreAssumption, IsFiniteSet(Put)
    PROVE  ConfigSpec => []NobodyIsStuck
<1>1. ASSUME ConfigInv PROVE NobodyIsStuck
  <2> DEFINE W == {p \in Put : place[p] = "writing"}
  <2> SUFFICES ASSUME W # {}, \A p \in Put : ~IsFree(p)
               PROVE  \E S \in SUBSET Put : S # {} /\ IsCircle(S)
    BY DEF NobodyIsStuck
  <2>1. ASSUME NEW p \in W PROVE \E q \in W : WaitsFor(p, q)
    <3>1. PICK q \in Put : WaitsFor(p, q)
      BY DEF IsFree
    <3>2. held[q] # {}
      BY <3>1 DEF WaitsFor, Holds
    <3>3. place[q] = "writing"
      BY <1>1, <3>2 DEF ConfigInv, Executed
    <3> QED BY <3>1, <3>3
  <2> HIDE DEF W
  <2>2. W \in SUBSET Put
    BY DEF W
  <2> QED BY <2>1, <2>2, WaitersFormCircle
<1> QED BY <1>1, ConfigInvariant, PTL

-----------------------------------------------------------------------------
(* The four parts side by side.                                            *)

\* Whatever a step of the platform is about, it is a step of each part or leaves
\* its state alone.
LEMMA PlatformStep ==
    [PlatformNext]_allVars =>
        /\ [Next]_vars
        /\ [InvitationsNext]_invitationVars
        /\ [ConfigNext]_configVars
        /\ [SmsNext]_smsVars
BY DEF PlatformNext, allVars

\* Put next to each other the parts behave as each does alone.
THEOREM PlatformIsItsParts ==
    PlatformSpec => Spec /\ InvitationsSpec /\ ConfigSpec /\ SmsSpec
<1>1. PlatformInit => Init /\ InvitationsInit /\ ConfigInit /\ SmsInit
  BY DEF PlatformInit
<1> QED BY <1>1, PlatformStep, PTL
        DEF PlatformSpec, Spec, InvitationsSpec, ConfigSpec, SmsSpec

\* Every variable of the platform keeps its type.
THEOREM PlatformTypeCorrect == PlatformSpec => []AllTypesOK
<1>1. TypeOK /\ InvitationsTypeOK /\ SmsTypeOK /\ ConfigTypeOK => AllTypesOK
  BY DEF AllTypesOK
<1>2. PlatformInit => InvitationsAssumption /\ SmsLimiterAssumption /\ ConfigStoreAssumption
  BY DEF PlatformInit
<1>3. CASE InvitationsAssumption /\ SmsLimiterAssumption /\ ConfigStoreAssumption
  BY <1>1, <1>3, PlatformIsItsParts, PTL,
     PortalTypeCorrect, InvitationsTypeCorrect, SmsTypeCorrect, ConfigTypeCorrect
<1>4. CASE ~(InvitationsAssumption /\ SmsLimiterAssumption /\ ConfigStoreAssumption)
  BY <1>2, <1>4, PTL DEF PlatformSpec
<1> QED BY <1>3, <1>4

\* The run's safety properties hold of the platform as a whole.
THEOREM PlatformIsSafe ==
    PlatformSpec =>
        /\ [](LedgerHappened /\ ReadyIsWired /\ ResourcesAreAccounted)
        /\ [](CreatedIsAccounted /\ MembersHaveRole /\ BatchesAreWhole /\ LimitHolds)
        /\ EntersOnceWhilePending /\ HomeIsKept
<1>1. PlatformInit => InvitationsAssumption /\ SmsLimiterAssumption /\ ConfigStoreAssumption
  BY DEF PlatformInit
<1>2. CASE InvitationsAssumption /\ SmsLimiterAssumption /\ ConfigStoreAssumption
  BY <1>2, PlatformIsItsParts, Ledger, Wired, Accounted, Created, HaveRole, Whole, Limit,
     EntersOnce, HomeKept, PTL
<1>3. CASE ~(InvitationsAssumption /\ SmsLimiterAssumption /\ ConfigStoreAssumption)
  BY <1>1, <1>3, PTL DEF PlatformSpec
<1> QED BY <1>2, <1>3
=============================================================================
