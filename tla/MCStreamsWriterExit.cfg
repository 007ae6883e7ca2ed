\* A writer that closes its connection without StopStream while a reader
\* waits in Pull on its stream: spec.md says the reader wakes.
CONSTANTS
  c1 = c1
  c2 = c2
  s1 = s1
  None = None
  Conns <- MCConns
  StreamIds <- MCStreamIds
  MaxChunks <- MCMaxChunks
SPECIFICATION Spec
CHECK_DEADLOCK FALSE
PROPERTY WriterExitWakesReaders
