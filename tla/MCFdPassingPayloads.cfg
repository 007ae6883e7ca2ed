\* Plasma bulk store with direct PlasmaClient::GetPayloads calls.
CONSTANTS
  c1 = c1
  c2 = c2
  Conns <- MCConns
  Arenas <- MCArenas
  Blobs <- MCBlobs
  EmptyBlob = 0
  NoFd <- MCNoFd
  BadFd <- MCBadFd
  ClientCalls <- MCAllPlasmaCalls
SYMMETRY Symmetry
SPECIFICATION Spec
INVARIANT QuiescentAgreement
