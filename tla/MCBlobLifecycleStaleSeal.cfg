CONSTANTS
  c1 = c1
  c2 = c2
  w1 = w1
  b1 = b1
  b2 = b2
  NoBlob = NoBlob
  Clients <- MCClients
  Writers <- MCNoWriters
  Blobs <- MCBlobs
  StoreType = "Default"
  MaxCreates = 3
  MaxConnId = 2
  MaxRef = 2
  UnsafeModes = {FALSE}
SYMMETRY Symmetry
SPECIFICATION Spec
INVARIANT ResidentWhileUsed
