CONSTANTS
    Grants = {g1, g2}
    None = None
    Second = 2
    Ttls = {2, 5}
    MaxTtl = 4
    IdleTtl = 5
    Absolute = 7
    Policies <- Mixed
    MaxVersion = 2
    MaxChanges = 2
    MaxClock = 7
SPECIFICATION Spec
INVARIANTS
    TokenFromLiveSession
    RevalidatedIsCurrent
    ConnectionClosesInTime
SYMMETRY Symmetry
CHECK_DEADLOCK FALSE
