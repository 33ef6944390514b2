SPECIFICATION Spec
CONSTANTS
  Second = 2
  MaxMethods = 2
  TimeLimit = 40
  None = None
  Refused = Refused
  NoData = NoData
  MaxScopes = 3
  MaxScopeClaim = 9
  MaxLeeway = 1
  MaxValues = 2
  MaxMaxAge = 3
  MaxLifetime = 2
  MaxSkew = 2
  MaxEntries = 2
  Kids = {k1, k2}
  CacheTtl = 2
  Cooldown = 2
  StalePolicy = "Reject"
  FetchTime = 1
  MaxKeyTime = 6
  Chars = {"a", "b", ".", "*", " "}
  Texts = {"secret", "i", "s", "x", "fresh", "endpoint"}
  Probes <- MCProbes
INVARIANTS
  NoAmplification
  CatalogueFailsClosed
  SatisfiedUntilIsExact
  AcceptedAsIssued
  BoundPolicyEnforced
  ClientJwtUsable
  VerifiedEmailIsVouched
  WithdrawnKeyDies
CHECK_DEADLOCK FALSE
