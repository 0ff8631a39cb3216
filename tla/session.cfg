SPECIFICATION Spec
CONSTANTS
    Req = {q1, q2}
    MaxTries = 2
    MaxCodes = 2
    MaxCalls = 7
SYMMETRY Symmetry
INVARIANTS
    CodesHold
    RefreshOnce
    SessionsRevoked
CHECK_DEADLOCK FALSE
