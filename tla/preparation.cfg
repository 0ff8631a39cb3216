\* Four requests, preparations and payments in any order and any interleaving.
SPECIFICATION PrepSpec
CONSTANTS
    Call = {r1, r2, r3, r4}
    NoRow = NoRow
SYMMETRY CallSymmetry
INVARIANTS
    PreparedOnce
    ReadyWhenPaid
    EscrowReached
\* Once its requests are answered an instance stops.
CHECK_DEADLOCK FALSE
