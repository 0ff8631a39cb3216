--------------------------- MODULE MC_PaymentWebhook ---------------------------
(* A small instance of PaymentWebhook for TLC.                                 *)
EXTENDS PaymentWebhook, TLC

Symmetry == Permutations(Req) \cup Permutations(Invoice)
=============================================================================
