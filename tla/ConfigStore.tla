---------------------------- MODULE ConfigStore ----------------------------
(***************************************************************************)
(* The values of config-service: PUT /v1/config applies a batch of set,    *)
(* unset, lock and unlock operations to one scope.  What it decides on it  *)
(* reads before its transaction; the statements of the transaction take    *)
(* row locks and wait for each other (PostgreSQL, READ COMMITTED).         *)
(*                                                                         *)
(* The scopes are those of one user: the platform, a portal, an            *)
(* organization, the user.  Refusals that read no value (shape, permission *)
(* and the like) change nothing and are left out, as is expectedVersion.   *)
(***************************************************************************)
EXTENDS Integers, Sequences, FiniteSets

CONSTANTS
    Put,           \* requests, each made once
    Key,
    Batch,         \* bound: what they ask for
    NoRow,
    MaxRollbacks   \* bound: transactions that fail

Tier == 1..4     \* platform, portal, org, user
Operation == {"set", "unset", "lock", "unlock"}

\* The claims of a batch are the tiers its principal's token names.
ConfigStoreAssumption ==
    /\ \A b \in Batch :
         /\ b.tier \in Tier
         /\ b.claims \subseteq {2, 3}
         /\ b.operations \in Seq([key : Key, op : Operation])
         /\ \A m, n \in DOMAIN b.operations :
               b.operations[m].key = b.operations[n].key => m = n
    /\ MaxRollbacks \in Nat

VARIABLES
    rows,      \* config_values: the committed row of a key at a tier
    place,     \* "new", "writing", "applied" or "refused"
    batch,     \* what a request asks for
    seen,      \* the rows at its scope that it read before the transaction
    next,      \* the operation it is at
    held,      \* keys whose row its transaction has changed and locked
    rollbacks

configVars == <<rows, place, batch, seen, next, held, rollbacks>>

\* A value is named after the request that set it.
Row == [value : Put, locked : BOOLEAN, setBy : Put]

ConfigInit ==
    /\ rows = [k \in Key |-> [t \in Tier |-> NoRow]]
    /\ place = [p \in Put |-> "new"]
    /\ batch \in [Put -> Batch]
    /\ seen = [p \in Put |-> [k \in Key |-> NoRow]]
    /\ next = [p \in Put |-> 1]
    /\ held = [p \in Put |-> {}]
    /\ rollbacks = 0

OperationAt(p) == batch[p].operations[next[p]]
Addressed(p) == {batch[p].operations[n].key : n \in DOMAIN batch[p].operations}

\* buildWriteChain, without its last entry.
Ancestors(b) == ({1} \cup b.claims) \cap 1..b.tier - 1

\* findAncestorLock
LockedByAncestor(p) ==
    \E k \in Addressed(p), t \in Ancestors(batch[p]) :
        rows[k][t] # NoRow /\ rows[k][t].locked

\* Steps 1 to 5 of the handler: one query reads the rows of the whole chain.
Check(p) ==
    /\ place[p] = "new"
    /\ place' = [place EXCEPT ![p] =
                   IF LockedByAncestor(p) THEN "refused" ELSE "writing"]
    /\ seen' = [seen EXCEPT ![p] = [k \in Key |-> rows[k][batch[p].tier]]]
    /\ UNCHANGED <<rows, batch, next, held, rollbacks>>

-----------------------------------------------------------------------------
(* Step 6, the transaction.                                                *)

IsWriting(p) == place[p] = "writing" /\ next[p] <= Len(batch[p].operations)

Holds(q, p, k) == batch[q].tier = batch[p].tier /\ k \in held[q]

\* A DELETE that finds no committed row has nothing to wait for.
IsNoop(p) ==
    /\ OperationAt(p).op = "unset"
    /\ rows[OperationAt(p).key][batch[p].tier] = NoRow

\* NothingToUnlockError
IsVoid(p) == OperationAt(p).op = "unlock" /\ seen[p][OperationAt(p).key] = NoRow

\* The statement of p waits for a row lock of q.
WaitsFor(p, q) ==
    /\ IsWriting(p) /\ p # q
    /\ ~IsNoop(p) /\ ~IsVoid(p)
    /\ Holds(q, p, OperationAt(p).key)

OperationOn(p, k) ==
    (CHOOSE n \in DOMAIN batch[p].operations : batch[p].operations[n].key = k)

\* The row an operation leaves.  unlock writes the value that was read before
\* the transaction.
Stored(p, k) ==
    LET op == batch[p].operations[OperationOn(p, k)].op IN
    CASE op = "unset"  -> NoRow
      [] op = "unlock" ->
           [value |-> seen[p][k].value, locked |-> FALSE, setBy |-> p]
      [] op \in {"set", "lock"} ->
           [value |-> p, locked |-> op = "lock", setBy |-> p]

Write(p, keys) ==
    rows' = [k \in Key |-> IF k \in keys
                           THEN [rows[k] EXCEPT ![batch[p].tier] = Stored(p, k)]
                           ELSE rows[k]]

\* Faulty variant: the statements run on the pool, each a transaction of its own.
ExecuteOnPool(p) ==
    /\ IsWriting(p)
    /\ ~IsVoid(p)
    /\ Write(p, {OperationAt(p).key})
    /\ next' = [next EXCEPT ![p] = @ + 1]
    /\ UNCHANGED <<place, batch, seen, held, rollbacks>>

Execute(p) ==
    /\ IsWriting(p)
    /\ ~IsVoid(p)
    /\ \A q \in Put : ~WaitsFor(p, q)
    /\ held' = [held EXCEPT ![p] =
                  IF IsNoop(p) THEN @ ELSE @ \cup {OperationAt(p).key}]
    /\ next' = [next EXCEPT ![p] = @ + 1]
    /\ UNCHANGED <<rows, place, batch, seen, rollbacks>>

CloseAs(p, outcome) ==
    /\ place' = [place EXCEPT ![p] = outcome]
    /\ held' = [held EXCEPT ![p] = {}]

Apply(p) ==
    /\ place[p] = "writing" /\ next[p] > Len(batch[p].operations)
    /\ Write(p, held[p])
    /\ CloseAs(p, "applied")
    /\ UNCHANGED <<batch, seen, next, rollbacks>>

\* Faulty variant: the connection goes back to the pool without a ROLLBACK.
RefuseWithoutRollback(p) ==
    /\ IsWriting(p) /\ IsVoid(p)
    /\ place' = [place EXCEPT ![p] = "refused"]
    /\ UNCHANGED <<rows, batch, seen, next, held, rollbacks>>

\* ROLLBACK and 400: there is nothing to unlock.
Refuse(p) ==
    /\ IsWriting(p) /\ IsVoid(p)
    /\ CloseAs(p, "refused")
    /\ UNCHANGED <<rows, batch, seen, next, rollbacks>>

IsCircle(S) ==
    \A q \in S : (\E r \in S : WaitsFor(q, r)) /\ (\E r \in S : WaitsFor(r, q))

\* PostgreSQL ends one of the transactions that wait for each other in a circle:
\* ROLLBACK and 500.
Deadlock(p) ==
    /\ \E S \in SUBSET Put : p \in S /\ IsCircle(S)
    /\ CloseAs(p, "refused")
    /\ UNCHANGED <<rows, batch, seen, next, rollbacks>>

\* A statement fails, or the connection or the process is lost.
RollBack(p) ==
    /\ place[p] = "writing"
    /\ rollbacks < MaxRollbacks
    /\ rollbacks' = rollbacks + 1
    /\ CloseAs(p, "refused")
    /\ UNCHANGED <<rows, batch, seen, next>>

-----------------------------------------------------------------------------
GoOn(p) == Check(p) \/ Execute(p) \/ Refuse(p) \/ Apply(p) \/ Deadlock(p)

ConfigNext == \E p \in Put : GoOn(p) \/ RollBack(p)

ConfigSpec == ConfigInit /\ [][ConfigNext]_configVars

-----------------------------------------------------------------------------
ConfigTypeOK ==
    /\ rows \in [Key -> [Tier -> Row \cup {NoRow}]]
    /\ place \in [Put -> {"new", "writing", "applied", "refused"}]
    /\ batch \in [Put -> Batch]
    /\ seen \in [Put -> [Key -> Row \cup {NoRow}]]
    /\ next \in [Put -> Nat]
    /\ held \in [Put -> SUBSET Key]
    /\ rollbacks \in Nat

\* What p leaves at a key of its scope, if it is applied.
Leaves(p, k, t) == rows[k][t] # NoRow /\ rows[k][t].setBy = p

Overwrites(p) ==
    {batch[p].operations[n].key : n \in {m \in DOMAIN batch[p].operations :
                                          batch[p].operations[m].op # "unset"}}

\* A batch is applied as a whole: nothing of a refused one is stored, and of two
\* that write the same keys of a scope one wins them all, in whatever order
\* they list them ("as a single transaction", "no key is written":
\* config.write.ts).
BatchesAreWhole ==
    \A p \in Put : \A t \in Tier, k \in Key : Leaves(p, k, t) =>
        /\ place[p] = "applied"
        /\ \A q \in Put \ {p}, l \in Key :
             /\ batch[p].tier = batch[q].tier
             /\ {k, l} \subseteq Overwrites(p) \cap Overwrites(q)
             => ~Leaves(q, l, t)

\* No transaction waits for ever: batches that lock the same rows in opposite
\* orders are told apart by PostgreSQL, and every way out of the handler's
\* transaction gives its locks back.
TransactionsEnd ==
    \A p \in Put : place[p] = "writing" ~> place[p] \in {"applied", "refused"}
=============================================================================
