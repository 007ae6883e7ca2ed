\* A get_data that waits for a blob the bulk store then creates.
CONSTANTS
  c1 = c1
  c2 = c2
  o1 = o1
  o2 = o2
  b1 = b1
  n1 = n1
  Clients <- MCClients
  Objects <- MCObjects
  Blobs <- MCBlobs
  Names <- MCNames
  NoObject = NoObject
  NoName = NoName
  NoReq = NoReq
  NoTask = NoTask
  MetaSyncFails = TRUE
  CallRequests <- MCRequests
SPECIFICATION Spec
CHECK_DEADLOCK FALSE
INVARIANT NoSatisfiedRequestDeferred
