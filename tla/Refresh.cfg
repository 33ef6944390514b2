\* Three concurrent calls on one family: refreshes and at most one call of each
\* other kind, with time passing through the reuse window and past the expiry; or
\* refreshes of every grant source while grants and users change.
SPECIFICATION SideSpec
CONSTANTS
    Families = {f1}
    Calls = {c1, c2, c3}
    Kinds = {"refresh", "step_up", "logout", "logout_family"}
    Users = {u1}
    Grants = {g1}
    Sources = {"StoredUser", "Host", "Legacy"}
    None = None
    TTL = 3
    GraceWindow = 2
    LiveReads = TRUE
    Overwrites = TRUE
    HostAuthority = TRUE
    MaxRetries = 1
    Skew = 0
    MaxClock = 3
    MaxUpdates = 2
SYMMETRY Symmetry
CHECK_DEADLOCK FALSE
INVARIANTS
    OneLiveToken
    EndedFamilyStaysEnded
    RaceIsNotReplay
    NoWidening
    AuthorityIsCurrent
PROPERTIES
    WindowNeverMoves
    CommitMatchesPresented
    ImplementsFamily
    CallsAdvance
