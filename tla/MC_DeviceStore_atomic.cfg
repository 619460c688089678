\* The promise of device_store.h.
SPECIFICATION Spec
CONSTANTS
  v1 = v1
  v2 = v2
  v3 = v3
  Versions <- MCVersions
  NoDoc = NoDoc
  Chunks = 2
  MaxIdle = 2
  MaxCrashes = 2
PROPERTIES
  ReplacesAtomically
