\* A child whose socket cannot be bound stops the shared context.
CONSTANTS
    c1 = c1  c2 = c2  r0 = r0  s1 = s1  s2 = s2  b1 = b1
    Clients <- MCClients
    SessionIDs <- MCSessionIDs
    RootSessionID = r0
    NoConn = NoConn  NoReq = NoReq  NoClient = NoClient
    IPCBindFails = TRUE
    DeleteRoot = FALSE
    Blobs <- MCBlobs
    NoSession = NoSession
    MaxPins = 1
    SelfMove = FALSE
SPECIFICATION Spec
PROPERTIES ReplyOrClose
\* VineyardRunner::Stop and an abort end the process.
CHECK_DEADLOCK FALSE
