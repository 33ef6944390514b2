\* A lockout in force when a failure from before it is recorded.
SPECIFICATION Spec
CONSTANTS
    principal = principal
    client = client
    reset = reset
    Keys = {principal}
    LoginKeys <- PrincipalOnly
    RequestKeys <- NoRequests
    Calls = {c1, c2, c3}
    Users = {u1}
    Hashes = {h1, h2}
    None = None
    Window = 2
    StateTTL = 1
    Lockout = 2
    BaseBackoff = 1
    MaxBackoff = 1
    BackoffAfter = 2
    LockAfter = 2
    AttemptsMax = 3
    MaxTries = 2
    MaxClock = 2
    MaxUpdates = 0
SYMMETRY Symmetry
CHECK_DEADLOCK FALSE
PROPERTIES
    LockoutRunsItsTime
