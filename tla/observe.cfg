\* Room for two registrations, two losses of the route.
SPECIFICATION UpdateSpec
CONSTANTS
  Tokens <- MCTokens
  POOL = 2
  MAX_OBSERVERS = 2
  MaxNotices = 2
  MaxLosses = 2
  NULL = NULL
INVARIANTS
  UpdateTypeOK
  ObsIsLive
  LeaksBounded
PROPERTY
  KeepsRegistering
