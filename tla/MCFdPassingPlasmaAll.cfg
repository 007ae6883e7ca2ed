\* Plasma bulk store with direct GetPayloads calls: what the stray fds do.
CONSTANTS
  c1 = c1
  c2 = c2
  Conns <- MCOneConn
  Arenas <- MCArenas
  Blobs <- MCBlobs
  EmptyBlob = 0
  NoFd <- MCNoFd
  BadFd <- MCBadFd
  ClientCalls <- MCAllPlasmaCalls
SPECIFICATION Spec
INVARIANT TypeOK
INVARIANT FdTableFaithful
