\* Two callbacks, two requests and a key rotation; times pass the life of a
\* state, of the key-set cache and of the cool-down.
SPECIFICATION Spec
CONSTANTS
    Requests = {r1, r2}
    Calls = {c1, c2}
    Subjects = {s1, s2}
    Users = {u1, u2}
    None = None
    StateTtl = 2
    JwksTtl = 1
    Cooldown = 2
    MaxKeys = 2
    MaxClock = 2
SYMMETRY Symmetry
CHECK_DEADLOCK FALSE
INVARIANTS
    OneLoginPerState
    SignInBelongsToRequest
    OneUserPerIdentity
    WithdrawnKeysDie
    ForcedRefreshesSpaced
