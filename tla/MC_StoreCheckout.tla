-------------------------- MODULE MC_StoreCheckout --------------------------
(* Small instances of StoreCheckout for TLC. *)
EXTENDS StoreCheckout, TLC

Symmetry == Permutations(Item) \cup Permutations(Slot)

\* The step and the order a closed drawer last showed are read by no action:
\* opening resets them.
Seen == <<IF open THEN <<step, placed>> ELSE <<>>, open, placing, key, cart, history, flight,
          server, asked, faults, past>>
=============================================================================
