--------------------------- MODULE BillingProofs ---------------------------
(***************************************************************************)
(* Proofs about Metering for any set of usage events, any number of        *)
(* overlapping flushes and any batch size; and about MCBilling, which puts *)
(* it next to the payments: every behaviour of the two is one of each.     *)
(***************************************************************************)
EXTENDS PaymentsProofs, MCBilling, FiniteSetTheorems, WellFoundedInduction

USE MeteringAssumption

\* Stripe counts the event a flush is at.
Counted(f) == todo[f] # {} /\ \E m \in meter : m.usage = Current(f)

\* A flush marks only what Stripe already counts, and Stripe has one meter event
\* for each usage event because the identifier is the event's own.
MeteringInv ==
    /\ MeteringTypeOK
    /\ \A m \in meter : m.identifier = m.usage
    /\ \A f \in Flush : step[f] = "mark" => Counted(f)
    /\ UsageIsBilledOnce

-----------------------------------------------------------------------------
\* The oldest of some usage events is one of them.
LEMMA OldestIsOne ==
    ASSUME NEW S \in SUBSET Usage, S # {}
    PROVE  Oldest(S) \in S /\ \A v \in S : Oldest(S) <= v
<1> DEFINE Less == {ss \in Nat \X Nat : ss[1] < ss[2]}
<1>1. Less = OpToRel(<, Nat)
  BY DEF OpToRel
<1>2. IsWellFoundedOn(Less, Nat)
  BY <1>1, NatLessThanWellFounded
<1>3. S \subseteq Nat
  BY DEF MeteringAssumption
<1>4. PICK u \in S : \A v \in S : ~(<<v, u>> \in Less)
  <2> HIDE DEF Less
  <2> QED BY <1>2, <1>3, WFMin
<1>5. \A v \in S : u <= v
  <2> SUFFICES ASSUME NEW v \in S PROVE u <= v
    OBVIOUS
  <2>1. u \in Nat /\ v \in Nat
    BY <1>3
  <2>2. ~(v < u)
    BY <1>4, <2>1
  <2> QED BY <2>1, <2>2
<1> QED BY <1>5 DEF Oldest

\* The event a flush is at is a usage event.
LEMMA CurrentIsUsage ==
    ASSUME MeteringTypeOK, NEW f \in Flush, todo[f] # {} PROVE Current(f) \in Usage
BY OldestIsOne DEF MeteringTypeOK, Current

-----------------------------------------------------------------------------
LEMMA MeteringTypeStep == MeteringTypeOK /\ [MeteringNext]_meteringVars => MeteringTypeOK'
<1> SUFFICES ASSUME MeteringTypeOK, [MeteringNext]_meteringVars PROVE MeteringTypeOK'
  OBVIOUS
<1>1. ASSUME NEW u \in Usage, Buffer(u) PROVE MeteringTypeOK'
  BY <1>1 DEF MeteringTypeOK, Buffer
<1>2. ASSUME NEW f \in Flush, List(f) PROVE MeteringTypeOK'
  <2>1. Batch \subseteq Usage
    BY DEF MeteringTypeOK, Batch, Unreported
  <2> QED BY <1>2, <2>1 DEF MeteringTypeOK, List
<1>3. ASSUME NEW f \in Flush, Create(f) PROVE MeteringTypeOK'
  <2>1. Current(f) \in Usage
    BY <1>3, CurrentIsUsage DEF Create, At
  <2>2. meter' \subseteq [identifier : Identifier, usage : Usage]
    BY <1>3, <2>1 DEF MeteringTypeOK, Create, Identifier, IdentifierOf
  <2> QED BY <1>3, <2>2 DEF MeteringTypeOK, Create
<1>4. ASSUME NEW f \in Flush, Reject(f) PROVE MeteringTypeOK'
  BY <1>4 DEF MeteringTypeOK, Reject, Advance
<1>5. ASSUME NEW f \in Flush, Mark(f) PROVE MeteringTypeOK'
  <2>1. Current(f) \in Usage
    BY <1>5, CurrentIsUsage DEF Mark, At
  <2> QED BY <1>5, <2>1 DEF MeteringTypeOK, Mark, Advance
<1>6. ASSUME NEW f \in Flush, Fail(f) PROVE MeteringTypeOK'
  BY <1>6 DEF MeteringTypeOK, Fail, Advance
<1>7. ASSUME NEW f \in Flush, Die(f) PROVE MeteringTypeOK'
  BY <1>7 DEF MeteringTypeOK, Die
<1>8. CASE UNCHANGED meteringVars
  BY <1>8 DEF MeteringTypeOK, meteringVars
<1> QED BY <1>1, <1>2, <1>3, <1>4, <1>5, <1>6, <1>7, <1>8 DEF MeteringNext, Report

\* Every action keeps the identifiers, the marks and the single meter event.
LEMMA MeteringInvStep == MeteringInv /\ [MeteringNext]_meteringVars => MeteringInv'
<1> SUFFICES ASSUME MeteringInv, [MeteringNext]_meteringVars PROVE MeteringInv'
  OBVIOUS
<1>t. MeteringTypeOK /\ MeteringTypeOK'
  BY MeteringTypeStep DEF MeteringInv
<1> DEFINE Own == \A m \in meter : m.identifier = m.usage
           Marks == \A f \in Flush : step[f] = "mark" => Counted(f)
<1>i. Own /\ Marks /\ UsageIsBilledOnce
  BY DEF MeteringInv
<1> SUFFICES Own' /\ Marks' /\ UsageIsBilledOnce'
  BY <1>t DEF MeteringInv
\* A flush that comes to no mark, while the meter stays.
<1>m. ASSUME NEW f \in Flush, meter' = meter, step'[f] # "mark",
             \A g \in Flush : g # f => todo'[g] = todo[g] /\ step'[g] = step[g]
      PROVE  Own' /\ Marks'
  BY <1>i, <1>m DEF Counted, Current
<1>1. ASSUME NEW u \in Usage, Buffer(u) PROVE Own' /\ Marks' /\ UsageIsBilledOnce'
  BY <1>1, <1>i DEF Buffer, Counted, Current, UsageIsBilledOnce
<1>2. ASSUME NEW f \in Flush, List(f) PROVE Own' /\ Marks' /\ UsageIsBilledOnce'
  <2>1. step'[f] # "mark"
    BY <1>2, <1>i DEF List, Counted
  <2>2. Own' /\ Marks'
    BY <1>2, <1>t, <1>m, <2>1 DEF List, MeteringTypeOK
  <2> QED BY <1>2, <1>i, <2>2 DEF List, UsageIsBilledOnce
<1>3. ASSUME NEW f \in Flush, Create(f) PROVE Own' /\ Marks' /\ UsageIsBilledOnce'
  <2> DEFINE u == Current(f)
             new == [identifier |-> u, usage |-> u]
  <2>1. meter' = IF \E m \in meter : m.identifier = u THEN meter ELSE meter \cup {new}
    BY <1>3 DEF Create, IdentifierOf
  <2>2. reported' = reported /\ todo' = todo /\ step' = [step EXCEPT ![f] = "mark"]
    BY <1>3 DEF Create
  <2>3. new.identifier = u /\ new.usage = u
    OBVIOUS
  <2> HIDE DEF u, new
  <2>4. meter \subseteq meter' /\ \E m \in meter' : m.usage = u
    BY <1>i, <2>1, <2>3
  <2>5. Own'
    BY <1>i, <2>1, <2>3
  <2>6. Marks'
    <3>1. Counted(f)'
      BY <1>3, <2>2, <2>4 DEF Counted, Current, Create, At, u
    <3>2. ASSUME NEW g \in Flush, g # f, step'[g] = "mark" PROVE Counted(g)'
      BY <1>i, <1>t, <2>2, <2>4, <3>2 DEF Counted, Current, MeteringTypeOK
    <3> QED BY <3>1, <3>2
  <2>7. UsageIsBilledOnce'
    <3>1. ASSUME NEW m \in meter', NEW n \in meter', m.usage = n.usage PROVE m = n
      BY <1>i, <2>1, <2>3, <3>1 DEF UsageIsBilledOnce
    <3>2. \A v \in reported' : \E m \in meter' : m.usage = v
      BY <1>i, <2>2, <2>4 DEF UsageIsBilledOnce
    <3> QED BY <3>1, <3>2 DEF UsageIsBilledOnce
  <2> QED BY <2>5, <2>6, <2>7
<1>4. ASSUME NEW f \in Flush, Reject(f) PROVE Own' /\ Marks' /\ UsageIsBilledOnce'
  <2>1. Own' /\ Marks'
    BY <1>4, <1>t, <1>m DEF Reject, Advance, MeteringTypeOK
  <2> QED BY <1>4, <1>i, <2>1 DEF Reject, UsageIsBilledOnce
<1>5. ASSUME NEW f \in Flush, Mark(f) PROVE Own' /\ Marks' /\ UsageIsBilledOnce'
  <2>1. Own' /\ Marks'
    BY <1>5, <1>t, <1>m DEF Mark, Advance, MeteringTypeOK
  <2>2. \E m \in meter : m.usage = Current(f)
    BY <1>5, <1>i DEF Mark, At, Counted
  <2> QED BY <1>5, <1>i, <2>1, <2>2 DEF Mark, UsageIsBilledOnce
<1>6. ASSUME NEW f \in Flush, Fail(f) PROVE Own' /\ Marks' /\ UsageIsBilledOnce'
  <2>1. Own' /\ Marks'
    BY <1>6, <1>t, <1>m DEF Fail, Advance, MeteringTypeOK
  <2> QED BY <1>6, <1>i, <2>1 DEF Fail, UsageIsBilledOnce
<1>7. ASSUME NEW f \in Flush, Die(f) PROVE Own' /\ Marks' /\ UsageIsBilledOnce'
  <2>1. Own' /\ Marks'
    BY <1>7, <1>t, <1>m DEF Die, MeteringTypeOK
  <2> QED BY <1>7, <1>i, <2>1 DEF Die, UsageIsBilledOnce
<1>8. CASE UNCHANGED meteringVars
  BY <1>8, <1>i DEF meteringVars, Counted, Current, UsageIsBilledOnce
<1> QED BY <1>1, <1>2, <1>3, <1>4, <1>5, <1>6, <1>7, <1>8 DEF MeteringNext, Report

LEMMA MeteringInvInit == MeteringInit => MeteringInv
BY DEF MeteringInit, MeteringInv, MeteringTypeOK, UsageIsBilledOnce

-----------------------------------------------------------------------------
\* The inductive invariant: identifiers, marks and the claim itself.
THEOREM MeteringInvariant == MeteringSpec => []MeteringInv
BY MeteringInvInit, MeteringInvStep, PTL DEF MeteringSpec

\* Every variable of the metering model keeps its type.
THEOREM MeteringTypeCorrect == MeteringSpec => []MeteringTypeOK
<1>1. MeteringInv => MeteringTypeOK
  BY DEF MeteringInv
<1> QED BY <1>1, MeteringInvariant, PTL

\* A usage event is billed at most once, however flushes overlap, fail and die,
\* and is marked as reported only when it is billed.
THEOREM BilledOnce == MeteringSpec => []UsageIsBilledOnce
<1>1. MeteringInv => UsageIsBilledOnce
  BY DEF MeteringInv
<1> QED BY <1>1, MeteringInvariant, PTL

\* Events that Stripe never accepts stay at the head of every batch, and still
\* leave room for one that it accepts.
BatchesHaveRoom ==
    Cardinality(Rejected) < BatchSize /\ Unreported \ Rejected # {}
        => Batch \ Rejected # {}

\* As long as they do not fill a batch, each flush that starts while an event
\* which Stripe accepts is waiting has one to report: the oldest of these.
THEOREM Room == MeteringSpec => []BatchesHaveRoom
<1>1. ASSUME MeteringTypeOK, Cardinality(Rejected) < BatchSize, Unreported \ Rejected # {}
      PROVE  Batch \ Rejected # {}
  <2> DEFINE u == Oldest(Unreported \ Rejected)
             Before == {v \in Unreported : v < u}
  <2>1. Unreported \subseteq Usage /\ Usage \subseteq Nat
    BY <1>1 DEF MeteringTypeOK, Unreported, MeteringAssumption
  <2>2. u \in Unreported \ Rejected /\ \A v \in Unreported \ Rejected : u <= v
    BY <1>1, <2>1, OldestIsOne
  <2> HIDE DEF u
  <2>3. Before \subseteq Rejected
    <3> SUFFICES ASSUME NEW v \in Unreported, v < u, v \notin Rejected PROVE FALSE
      OBVIOUS
    <3> QED BY <2>1, <2>2
  <2>4. IsFiniteSet(Rejected)
    BY FS_Subset DEF MeteringAssumption
  <2>5. /\ Cardinality(Before) <= Cardinality(Rejected)
        /\ Cardinality(Before) \in Nat /\ Cardinality(Rejected) \in Nat
    <3> HIDE DEF Before
    <3> QED BY <2>3, <2>4, FS_Subset, FS_CardinalityType
  <2>6. Cardinality(Before) < BatchSize
    BY <1>1, <2>5 DEF MeteringAssumption
  <2>7. u \in Batch
    BY <2>2, <2>6 DEF Batch
  <2> QED BY <2>2, <2>7
<1>2. MeteringTypeOK => BatchesHaveRoom
  BY <1>1 DEF BatchesHaveRoom
<1> QED BY <1>2, MeteringTypeCorrect, PTL

-----------------------------------------------------------------------------
(* The two parts of billing-service side by side.                          *)

\* Whatever a step of billing-service is about, it is a step of the payments or
\* leaves their state alone; and likewise of the metering.
LEMMA BillingStep ==
    [BillingNext]_allVars => [Next]_vars /\ [MeteringNext]_meteringVars
BY DEF BillingNext, allVars

\* Put next to each other the two parts behave as each does alone: what is
\* proved of Payments and of Metering holds of billing-service.
THEOREM BillingIsBoth == BillingSpec => Spec /\ MeteringSpec
<1>1. BillingInit => Init /\ MeteringInit
  BY DEF BillingInit
<1> QED BY <1>1, BillingStep, PTL DEF BillingSpec, Spec, MeteringSpec

\* Every variable of billing-service keeps its type.
THEOREM BillingTypeCorrect == BillingSpec => []BothTypeOK
<1>1. TypeOK /\ MeteringTypeOK => BothTypeOK
  BY DEF BothTypeOK
<1> QED BY <1>1, BillingIsBoth, TypeCorrect, MeteringTypeCorrect, PTL

\* The run's safety properties hold of billing-service as a whole: its mirror is
\* honest and does not go back, and nothing is told or billed twice.
THEOREM BillingIsSafe ==
    BillingSpec => /\ [](MirrorIsHonest /\ EventsAreToldOnce /\ UsageIsBilledOnce)
                   /\ ImplementsMirror
BY BillingIsBoth, Honesty, ToldOnce, BilledOnce, Mirrors, PTL
=============================================================================
