----------------------------- MODULE MCBilling -----------------------------
(***************************************************************************)
(* billing-service for TLC: its usage metering, next to the payments of an *)
(* order.  The two share no state, so a behaviour is about one of them:    *)
(* their interleavings would show nothing more.                            *)
(***************************************************************************)
EXTENDS Payments, Metering

VARIABLE about   \* "usage" or "payments"

allVars == <<about, vars, meteringVars>>

BillingInit == about \in {"usage", "payments"} /\ Init /\ MeteringInit

BillingNext ==
    /\ UNCHANGED about
    /\ \/ about = "usage" /\ MeteringNext /\ UNCHANGED vars
       \/ about = "payments" /\ Next /\ UNCHANGED meteringVars

BillingSpec ==
    /\ BillingInit /\ [][BillingNext]_allVars
    /\ \A f \in Flush : WF_meteringVars(about = "usage" /\ Report(f))
    /\ WF_vars(about = "payments" /\ \E e \in sent : Receive(e))
    /\ WF_vars(about = "payments" /\ Handle)

BothTypeOK == TypeOK /\ MeteringTypeOK
=============================================================================
