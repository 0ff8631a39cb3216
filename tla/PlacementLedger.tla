--------------------------- MODULE PlacementLedger --------------------------
(***************************************************************************)
(* What placing and cancelling orders promise to whoever looks at the      *)
(* stock and the points from outside: each happens at one instant.         *)
(***************************************************************************)
EXTENDS Integers

CONSTANTS
    Product, Variant, Account,
    ProductOf,  \* Variant -> Product
    Order,
    Takes,      \* Order -> (row -> what the order takes from it)
    Opening     \* stock and points at the start

Row == Product \cup Variant \cup Account

VARIABLES stock, order, alive
vars == <<stock, order, alive>>

Init ==
    /\ stock = Opening
    /\ order = [o \in Order |-> "none"]
    /\ alive \subseteq Product \cup Variant

\* All or nothing, of what exists.
Place(o) ==
    /\ order[o] = "none"
    /\ \A row \in Row : /\ Takes[o][row] <= stock[row]
                        /\ Takes[o][row] > 0 => row \in alive \cup Account
    /\ stock' = [row \in Row |-> stock[row] - Takes[o][row]]
    /\ order' = [order EXCEPT ![o] = "PENDING"]
    /\ UNCHANGED alive

\* Also an order cancelled while its payment was under way.
Pay(o) ==
    /\ order[o] \in {"PENDING", "CANCELLED"}
    /\ order' = [order EXCEPT ![o] = "PAID"]
    /\ UNCHANGED <<stock, alive>>

\* What still exists gets back all that was taken; points are returned of paid
\* orders only (not of one paid while its cancellation was running).
Cancel(o) ==
    /\ order[o] \in {"PENDING", "PAID"}
    /\ \E refunded \in {{}, IF order[o] = "PAID" THEN Account ELSE {}} :
         stock' = [row \in Row |-> stock[row]
                     + (IF row \in alive \cup refunded THEN Takes[o][row] ELSE 0)]
    /\ order' = [order EXCEPT ![o] = "CANCELLED"]
    /\ UNCHANGED alive

\* The seller changes or removes one product and its variants.
Amend(p) ==
    /\ stock' \in [Row -> Nat]
    /\ \A row \in Row \ {p} : stock'[row] = stock[row]
    /\ alive' \subseteq Product \cup Variant
    /\ \A row \in (Product \cup Variant) \ {p} :
         (row \in alive' <=> row \in alive) \/ (row \in Variant /\ ProductOf[row] = p)
    /\ UNCHANGED order

Next == \/ \E o \in Order : Place(o) \/ Pay(o) \/ Cancel(o)
        \/ \E p \in Product : Amend(p)

Spec == Init /\ [][Next]_vars
=============================================================================
