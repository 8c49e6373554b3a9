------------------------------ MODULE MCOutbox ------------------------------
(***************************************************************************)
(* Small instances of Outbox for TLC.  In the first, two transactions      *)
(* change one organization: one enqueues rows on two topics (as POST       *)
(* /organizations does: org.created and membership.added), the other one   *)
(* more row on the first topic.  In the second, a transaction of one row   *)
(* runs next to a sign-up, whose row is also published inline.             *)
(***************************************************************************)
EXTENDS Outbox, TLC

CONSTANTS t1, t2, t3,          \* transactions
          e1, e2, e3, u1,      \* rows
          r1, r2,              \* replicas
          pA, pB               \* partitions

MCTxnOf        == (e1 :> t1) @@ (e2 :> t1) @@ (e3 :> t2)
MCKeyPartition == (e1 :> pA) @@ (e2 :> pB) @@ (e3 :> pA)

InlineTxnOf        == (e1 :> t1) @@ (u1 :> t3)
InlineKeyPartition == (e1 :> pA) @@ (u1 :> pA)

ReplicaSymmetry == Permutations(Replica)
=============================================================================
