CONSTANTS
    Resets = {r1}
    Tokens = {t1}
    Calls = {c1, c2, c3}
    None = None
    Ttl = 2
    Period = 2
    Skew = 1
    Codes = 2
    MaxClock = 4
SPECIFICATION SideSpec
INVARIANTS
    AcceptedOnce
    AcceptedWhileValid
    RejectionsAreCharged
SYMMETRY Symmetry
CHECK_DEADLOCK FALSE
