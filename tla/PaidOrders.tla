------------------------------ MODULE PaidOrders ------------------------------
(***************************************************************************)
(* What paying online promises of the orders: the seller is credited for   *)
(* an order only when a customer has paid an invoice of it, and once each  *)
(* time the order enters PAID, however often PayDunya tells of the payment *)
(* and however the customer's return races with it.                        *)
(***************************************************************************)
EXTENDS Integers

CONSTANT Order

VARIABLES
    due,     \* the orders a customer has paid an invoice of
    paid,    \* the orders that are PAID
    credits  \* how often the seller was credited for each

vars == <<due, paid, credits>>

Init ==
    /\ due = {}
    /\ paid = {}
    /\ credits = [o \in Order |-> 0]

CustomerPays(o) ==
    /\ due' = due \cup {o}
    /\ UNCHANGED <<paid, credits>>

Settle(o) ==
    /\ o \in due \ paid
    /\ paid' = paid \cup {o}
    /\ credits' = [credits EXCEPT ![o] = @ + 1]
    /\ UNCHANGED due

\* The seller says that the order was paid to him.
Mark(o) ==
    /\ paid' = paid \cup {o}
    /\ UNCHANGED <<due, credits>>

\* The order is sent, or cancelled.
Leave(o) ==
    /\ paid' = paid \ {o}
    /\ UNCHANGED <<due, credits>>

Next == \E o \in Order : CustomerPays(o) \/ Settle(o) \/ Mark(o) \/ Leave(o)

Spec == Init /\ [][Next]_vars
=============================================================================
