\* Liveness: one slot, so that connections queue for it.
SPECIFICATION FairSpec
CONSTANTS
  f1 = f1
  f2 = f2
  f3 = f3
  MaxClients = 1
  Fds <- MCFewFds
  NoFd = NoFd
  StreamSize = 1
  ChunkLens = {1}
  AuthReq = TRUE
PROPERTIES
  PoolLive
  NeverHeldUp
