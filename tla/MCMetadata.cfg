\* Two clients, two object ids, one blob id, one name; synced reads may fail.
CONSTANTS
  c1 = c1
  c2 = c2
  o1 = o1
  o2 = o2
  b1 = b1
  n1 = n1
  Clients <- MCClients
  Objects <- MCObjects
  Blobs <- MCBlobs
  Names <- MCNames
  NoObject = NoObject
  NoName = NoName
  NoReq = NoReq
  NoTask = NoTask
  MetaSyncFails = TRUE
  CallRequests <- MCRequests
SPECIFICATION Spec
INVARIANT TypeOK
INVARIANT NoSatisfiedMetaRequestDeferred
PROPERTY AnsweredUnlessSyncRead
PROPERTY MetaStoreSpec
CHECK_DEADLOCK FALSE
