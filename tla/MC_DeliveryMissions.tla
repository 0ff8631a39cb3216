------------------------- MODULE MC_DeliveryMissions -------------------------
(* A small instance of DeliveryMissions for TLC.                             *)
EXTENDS DeliveryMissions, TLC

Symmetry ==
    Permutations(Req) \cup Permutations(Mission) \cup Permutations(Courier)
    \cup Permutations(Agency)
=============================================================================
