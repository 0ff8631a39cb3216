SPECIFICATION Safety
CONSTANTS
    Req = {q1, q2}
    Order = {o1}
    Invoice = {i1, i2}
    Key = {k1}
    None = None
    MaxMoves = 1
    MaxFaults = 1
SYMMETRY Symmetry
INVARIANTS
    RecordsHold
PROPERTIES
    SettledOnce
CHECK_DEADLOCK FALSE
