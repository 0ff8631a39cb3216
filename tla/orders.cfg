\* Everything that can happen to one order, the payment of a second one and
\* withdrawals of the balance they share, in any interleaving of four requests.
SPECIFICATION Spec
CONSTANTS
    o1 = o1
    o2 = o2
    u1 = u1
    u2 = u2
    Order = {o1, o2}
    Req = {r1, r2, r3, r4}
    User = {u1, u2}
    NoUser = NoUser
    NoBill = NoBill
    NoCall = NoCall
    Plans = {"business"}
    OpeningBalance = 100000
    Calls <- CallsBoth
    Total <- MCTotal
    PointsUsed <- MCPointsUsed
    QuotedNet <- MCQuotedNet
    Buyer <- MCBuyer
    Referrer <- MCReferrer
SYMMETRY ReqSymmetry
INVARIANTS
    CreditPerPaidEntry
    CancelDebitCovered
    OnceUnlessBypassed
    EscrowKept
    PointsReconcile
PROPERTIES
    HeldMoneyStays
\* Once its requests are answered an instance stops.
CHECK_DEADLOCK FALSE
