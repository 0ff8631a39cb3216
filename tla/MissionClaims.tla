----------------------------- MODULE MissionClaims -----------------------------
(***************************************************************************)
(* What the delivery missions of a shipment promise, whatever the requests *)
(* that race for them: a mission is claimed once, by one courier, who       *)
(* keeps it, and may write to the customer from then until the delivery;    *)
(* nobody may write about a delivered shipment.                             *)
(***************************************************************************)

CONSTANTS Mission, Courier, Nobody

VARIABLES
    claimant,  \* the courier of each mission, or Nobody
    open,      \* the missions whose courier and customer may write to each other
    delivered  \* the shipment's delivery is verified

vars == <<claimant, open, delivered>>

Init ==
    /\ claimant = [m \in Mission |-> Nobody]
    /\ open = {}
    /\ delivered = FALSE

Claim(m, c) ==
    /\ claimant[m] = Nobody
    /\ claimant' = [claimant EXCEPT ![m] = c]
    /\ open' = open \cup {m}
    /\ delivered' = FALSE

Deliver ==
    /\ delivered' = TRUE
    /\ open' = {}
    /\ UNCHANGED claimant

\* The shipment is under way again.
Reopen ==
    /\ delivered' = FALSE
    /\ UNCHANGED <<claimant, open>>

Next ==
    \/ \E m \in Mission, c \in Courier : Claim(m, c)
    \/ Deliver
    \/ Reopen

Spec == Init /\ [][Next]_vars
=============================================================================
