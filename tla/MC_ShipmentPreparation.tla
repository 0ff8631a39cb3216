----------------------- MODULE MC_ShipmentPreparation -----------------------
(* A small instance of ShipmentPreparation for TLC.                          *)
EXTENDS ShipmentPreparation, TLC

CallSymmetry == Permutations(Call)
=============================================================================
