----------------------------- MODULE MCStreams -----------------------------
(***************************************************************************)
(* Model-checking instance of Streams: two connections that take any of  *)
(* the roles (Pull does not check the opened side, so both may wait on    *)
(* the stream, and one's Stop drops the stream the other waits on), one   *)
(* stream id and two chunks, so a chunk can be queued while the next one  *)
(* is handed to a waiting reader.  No symmetry: the run checks liveness.  *)
(***************************************************************************)
EXTENDS Streams, TLC

CONSTANTS c1, c2, s1

MCConns     == {c1, c2}
MCStreamIds == {s1}
MCMaxChunks == 2

=============================================================================
