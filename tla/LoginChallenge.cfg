\* Three calls compete for the two attempts of one challenge.
SPECIFICATION Spec
CONSTANTS
    Challenges = {ch1}
    Calls = {c1, c2, c3}
    None = None
    Ttl = 2
    MaxAttempts = 2
    MaxClock = 2
SYMMETRY Symmetry
CHECK_DEADLOCK FALSE
INVARIANTS
    OneAcceptance
    AttemptsBudget
    FairCharge
    RightCodeOutcome
