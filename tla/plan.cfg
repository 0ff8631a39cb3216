SPECIFICATION Spec
CONSTANTS
    Req = {q1, q2}
    Shop = {s1, s2, s3}
    Bill = {b1}
    None = None
    BusinessShops = 2
    MaxCalls = 4
SYMMETRY Symmetry
INVARIANTS
    ShopLimit
    PlansAgree
    IInv
PROPERTIES
    CancelledStays
CHECK_DEADLOCK FALSE
