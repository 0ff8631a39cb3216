--------------------------- MODULE MC_AccountSession ---------------------------
(* A small instance of AccountSession for TLC.                                 *)
EXTENDS AccountSession, TLC

Symmetry == Permutations(Req)
=============================================================================
