SPECIFICATION Spec
CONSTANTS
    Req = {r1, r2}
    Carrier = {k1}
    Seller = Seller
    Dispute = {d1}
    Calls <- CallsAll
    MaxCalls = 3
    MaxTries = 1
    NoCall = NoCall
SYMMETRY ReqSymmetry
INVARIANTS
    SellerReleaseEarned
    CarriersPaid
    PayoutPerRelease
    CodeHolds
    IInv
PROPERTIES
    HoldRespected
