SPECIFICATION StoreSpec
CONSTANTS
    Item = {i1, i2}
    Slot = {f1, f2}
    MaxOpens = 2
    MaxOrders = 2
    MaxLocal = 1
    MaxAsked = 3
    MaxFaults = 1
    None = None
    Invoice = Invoice
SYMMETRY Symmetry
VIEW Seen
INVARIANTS
    AnswersOfPath
CHECK_DEADLOCK FALSE
