\* Two slots, three descriptors, authentication on: safety.
SPECIFICATION Spec
CONSTANTS
  f1 = f1
  f2 = f2
  f3 = f3
  MaxClients = 2
  Fds <- MCFds
  NoFd = NoFd
  StreamSize = 2
  ChunkLens = {2}
  AuthReq = TRUE
SYMMETRY FdSymmetry
INVARIANTS
  IInv
  NoUseAfterFree
  SocketsOwnedOnce
  OnlyAuthenticated
PROPERTIES
  PoolSpec
