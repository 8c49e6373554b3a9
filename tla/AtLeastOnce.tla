---------------------------- MODULE AtLeastOnce ----------------------------
(***************************************************************************)
(* What the transactional outbox promises its callers: a row accepted with *)
(* its transaction is delivered any number of times, and the outbox stops  *)
(* working on it only after a delivery or after giving it up openly.       *)
(***************************************************************************)
CONSTANT Row

VARIABLES accepted, delivered, settled, abandoned

vars == <<accepted, delivered, settled, abandoned>>

Unresolved == accepted \ (settled \cup abandoned)

Init ==
    /\ accepted = {}
    /\ delivered = {}
    /\ settled = {}
    /\ abandoned = {}

Accept ==
    /\ \E S \in SUBSET (Row \ accepted) : accepted' = accepted \cup S
    /\ UNCHANGED <<delivered, settled, abandoned>>

\* Only accepted, unresolved rows are delivered; again is allowed.
Deliver ==
    /\ \E r \in Unresolved : delivered' = delivered \cup {r}
    /\ UNCHANGED <<accepted, settled, abandoned>>

\* A pass ends: rows leave for good, either delivered or given up.
Resolve ==
    /\ \E S \in SUBSET (Unresolved \cap delivered) :
         \E A \in SUBSET (Unresolved \ S) :
            /\ settled' = settled \cup S
            /\ abandoned' = abandoned \cup A
    /\ UNCHANGED <<accepted, delivered>>

Next == Accept \/ Deliver \/ Resolve

Spec == Init /\ [][Next]_vars

\* Nothing accepted is forgotten.
Responsive == \A r \in Row : r \in accepted ~> r \in settled \cup abandoned

LiveSpec == Spec /\ Responsive
=============================================================================
