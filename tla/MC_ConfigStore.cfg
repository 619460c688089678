SPECIFICATION FairSpec
CONSTANTS
  n1 = n1
  n2 = n2
  Nets <- MCNets
  None = None
  Options = {"x", "y"}
  Default = "x"
  Early <- MCEarly
  Late <- MCLate
  Secrets <- MCSecrets
  MaxRequests = 3
  MaxFails = 1
  MaxCrashes = 1
INVARIANTS
  Safety
  KeptPromises
  QuietTokenAgrees
PROPERTIES
  StartsThrough
CHECK_DEADLOCK FALSE
