--------------------------- MODULE LaggingMirror ---------------------------
(***************************************************************************)
(* What the payments mirror promises its readers: it may lag behind the    *)
(* provider, but it is only ever set to what is so there at that moment,   *)
(* never leaves "paid", and does not return from an outcome to "pending".  *)
(***************************************************************************)
CONSTANT Subject

VARIABLES
    truths,   \* what may be said of each subject
    mirror    \* what is said of it

mirrorVars == <<truths, mirror>>

Outcome == {"paid", "failed", "expired"}
Status  == Outcome \cup {"pending"}

Init ==
    /\ truths = Subject \X {"pending"}
    /\ mirror = [s \in Subject |-> "none"]

\* More becomes true; a subject is not both paid and expired.
Turn ==
    /\ \E T \in SUBSET (Subject \X Status) : truths' = truths \cup T
    /\ \A s \in Subject : ~({<<s, "paid">>, <<s, "expired">>} \subseteq truths')
    /\ UNCHANGED mirror

Reflect(s, status) ==
    /\ <<s, status>> \in truths
    /\ mirror[s] # "paid"
    /\ status = "pending" => mirror[s] = "none"
    /\ mirror' = [mirror EXCEPT ![s] = status]
    /\ UNCHANGED truths

Next == Turn \/ \E s \in Subject, status \in Status : Reflect(s, status)

Spec == Init /\ [][Next]_mirrorVars
=============================================================================
