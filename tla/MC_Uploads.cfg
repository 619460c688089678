SPECIFICATION BothFair
CONSTANTS
  Versions = {v1, v2}
  NoDoc = NoDoc
  Chunks = 2
  MaxIdle = 2
  MaxCrashes = 2
  Images = {f1, f2}
  Junk = Junk
INVARIANTS
  Safety
  AlwaysBootable
  ConfirmedRuns
PROPERTIES
  KeepsPromise
  UploadsEnd
CHECK_DEADLOCK FALSE
