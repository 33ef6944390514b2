\* Two logins and requests that record and clear the counters of a principal, a
\* client and a reset flow, while the user changes: window reset, backoff,
\* lockout and reclamation.
SPECIFICATION Spec
CONSTANTS
    principal = principal
    client = client
    reset = reset
    Keys = {principal, client, reset}
    LoginKeys <- PrincipalAndClient
    RequestKeys <- ResetRequest
    Calls = {c1, c2}
    Users = {u1}
    Hashes = {h1, h2}
    None = None
    Window = 2
    StateTTL = 1
    Lockout = 2
    BaseBackoff = 1
    MaxBackoff = 1
    BackoffAfter = 1
    LockAfter = 2
    AttemptsMax = 2
    MaxTries = 2
    MaxClock = 2
    MaxUpdates = 2
SYMMETRY Symmetry
CHECK_DEADLOCK FALSE
INVARIANTS
    NoFailureLost
    FailuresAreCharged
    SessionOnCurrentUser
    RequestBurstBounded
PROPERTIES
    ClearKeepsNewer
