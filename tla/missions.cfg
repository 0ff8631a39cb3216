SPECIFICATION Spec
CONSTANTS
    Req = {r1, r2}
    Mission = {m1, m2}
    Courier = {c1, c2}
    Agency = {a1, a2}
    None = None
    MaxCalls = 5
SYMMETRY Symmetry
INVARIANTS
    OneActiveMission
    RosterKept
PROPERTIES
    MessagesInMission
    ClaimedOnce
