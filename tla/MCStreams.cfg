\* Stream handlers and connection teardown; every client may close at any
\* time, the server's io loop and blocked readers are fair.
CONSTANTS
  c1 = c1
  c2 = c2
  s1 = s1
  None = None
  Conns <- MCConns
  StreamIds <- MCStreamIds
  MaxChunks <- MCMaxChunks
SPECIFICATION Spec
CHECK_DEADLOCK FALSE
INVARIANT TypeOK
INVARIANT NoCallbackOfStoppedConnection
PROPERTY StopWakesReaders
