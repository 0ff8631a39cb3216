----------------------------- MODULE MC_SellerPlan -----------------------------
(* A small instance of SellerPlan for TLC.                                     *)
EXTENDS SellerPlan, TLC

Symmetry == Permutations(Req) \cup Permutations(Shop)
=============================================================================
