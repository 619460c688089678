SPECIFICATION FairSpec
CONSTANTS
  AuthFailLimit = 2
  MinMs = 1
  MaxMs = 3
  MaxNoise = 2
  MaxOutages = 1
  MaxResets = 1
INVARIANTS
  Safety
  AttemptPending
  FallbackJustified
PROPERTIES
  RetryPaced
  Reachable
CHECK_DEADLOCK FALSE
