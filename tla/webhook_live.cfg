SPECIFICATION Spec
CONSTANTS
    Req = {q1, q2}
    Order = {o1}
    Invoice = {i1}
    Key = {k1}
    None = None
    MaxMoves = 1
    MaxFaults = 2
PROPERTIES
    PaidInvoiceSettles
CHECK_DEADLOCK FALSE
