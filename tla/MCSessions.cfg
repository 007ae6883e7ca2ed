\* Two clients, the root and two child ids, one blob.  A child's socket may
\* fail to bind, Serve may fail, and the root's clients may delete it.
CONSTANTS
    c1 = c1  c2 = c2  r0 = r0  s1 = s1  s2 = s2  b1 = b1
    Clients <- MCClients
    SessionIDs <- MCSessionIDs
    RootSessionID = r0
    NoConn = NoConn  NoReq = NoReq  NoClient = NoClient
    IPCBindFails = TRUE
    DeleteRoot = TRUE
    Blobs <- MCBlobs
    NoSession = NoSession
    MaxPins = 1
    SelfMove = FALSE
SPECIFICATION Spec
INVARIANTS TypeOK ClosableSessionHasMembers
PROPERTIES ReplyOrCloseUnlessStopped
\* VineyardRunner::Stop and an abort end the process.
CHECK_DEADLOCK FALSE
