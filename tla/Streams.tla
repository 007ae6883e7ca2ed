------------------------------ MODULE Streams ------------------------------
(***************************************************************************)
(* The stream handlers of SocketConnection (socket_server.cc) and the     *)
(* connection teardown that drops a connection's streams, over a stream   *)
(* store reduced to the interface the core calls (Create/Open/Get/Push/   *)
(* Pull/Stop/Drop).  The store itself is not part of this repository; it *)
(* is modelled from that interface and spec.md: a stream is created,     *)
(* opened once per side, the writer obtains chunks with Get and hands     *)
(* them over with Push, a reader's Pull is answered with the next chunk,  *)
(* deferred while none is ready, and failed once the stream is stopped    *)
(* and drained, or dropped.                                               *)
(*                                                                        *)
(* Each client is blocking (ClientBase writes a request and waits in      *)
(* doRead), so a connection has at most one request and one reply in     *)
(* flight.  A deferred Pull is a callback the store keeps; it captures    *)
(* the connection (self) and writes its reply whenever it is fired.       *)
(***************************************************************************)
EXTENDS Naturals, Sequences, FiniteSets

CONSTANTS
  Conns,      \* client connections
  StreamIds,  \* stream object ids
  MaxChunks,  \* chunks the stream memory (stream_threshold) can hold
  None

ASSUME MaxChunks \in Nat /\ None \notin Conns

Chunks == 1..MaxChunks
Modes  == {"read", "write"}

\* The calls of ClientBase on streams, with their arguments.
Calls ==
       [type : {"create", "get", "pull"}, s : StreamIds]
  \cup [type : {"open"}, s : StreamIds, mode : Modes]
  \cup [type : {"push"}, s : StreamIds, chunk : Chunks]
  \cup [type : {"stop"}, s : StreamIds, failed : BOOLEAN]

\* Replies: a status, or a chunk (Get and Pull).
Statuses == {"OK", "ObjectNotExists", "StreamOpened", "StreamDrained",
             "StreamFailed", "NotEnoughMemory", "Invalid"}
Replies == [status : Statuses] \cup [status : {"OK"}, chunk : Chunks]

StreamStates == {"absent", "open", "stopped", "failed"}
\* A client that is in no call, and one whose process closed its socket.
Idle   == [type |-> "idle"]
Closed == [type |-> "closed"]

Absent == [state |-> "absent", reader |-> FALSE, writer |-> FALSE,
           queue |-> <<>>]

VARIABLES
  running,  \* SocketConnection::running_
  assoc,    \* SocketConnection::associated_streams_
  client,   \* the call a client is blocked in, Idle or Closed
  req,      \* request written and not yet handled, or None
  rep,      \* reply written and not yet read, or None
  streams,  \* stream store: id -> state, opened sides, ready chunks
  pending,  \* stream store: id -> connections whose Pull callback waits
  allocated,\* chunks handed out by Get so far
  held,     \* the chunk a writer client got and has not pushed yet
  writerOf, \* ghost: the connection that opened the stream for writing
  dropped,  \* ghost: stream ids the store has dropped
  created   \* ghost: stream ids the application has called CreateStream on

vars == <<running, assoc, client, req, rep, streams, pending, allocated,
          held, writerOf, dropped, created>>

-----------------------------------------------------------------------------
(* Stream store, from its interface.                                      *)

\* The replies a fired callback writes: self->doWrite on a stopped
\* connection writes to a closed socket, and the reply is lost.
Fire(ps, r) ==
  rep' = [c \in Conns |-> IF c \in ps /\ running[c] THEN r ELSE rep[c]]

\* StreamStore::Drop: the stream is erased and its waiting readers are
\* woken with an error.
StoreDrop(ids) ==
  /\ streams' = [s \in StreamIds |-> IF s \in ids THEN Absent ELSE streams[s]]
  /\ pending' = [s \in StreamIds |-> IF s \in ids THEN {} ELSE pending[s]]
  /\ dropped' = dropped \cup {s \in ids : streams[s].state # "absent"}

-----------------------------------------------------------------------------
(* Handlers of SocketConnection.                                          *)

\* doCreateStream: Create and reply with its status.
doCreateStream(c, s) ==
  IF streams[s].state = "absent"
  THEN /\ streams' = [streams EXCEPT ![s] = [Absent EXCEPT !.state = "open"]]
       /\ rep' = [rep EXCEPT ![c] = [status |-> "OK"]]
  ELSE /\ rep' = [rep EXCEPT ![c] = [status |-> "StreamOpened"]]
       /\ UNCHANGED streams

\* doOpenStream: Open(stream_id, mode); each side opens once.
doOpenStream(c, s, mode) ==
  LET side == IF mode = "read" THEN "reader" ELSE "writer" IN
  CASE streams[s].state = "absent" ->
         /\ rep' = [rep EXCEPT ![c] = [status |-> "ObjectNotExists"]]
         /\ UNCHANGED <<streams, writerOf>>
    [] streams[s][side] ->
         /\ rep' = [rep EXCEPT ![c] = [status |-> "StreamOpened"]]
         /\ UNCHANGED <<streams, writerOf>>
    [] OTHER ->
         /\ streams' = [streams EXCEPT ![s][side] = TRUE]
         /\ writerOf' = IF mode = "write" THEN [writerOf EXCEPT ![s] = c]
                                          ELSE writerOf
         /\ rep' = [rep EXCEPT ![c] = [status |-> "OK"]]

\* Get without the check of the stream memory budget.
doGetNextStreamChunkUnbounded(c, s) ==
  IF streams[s].state = "open"
  THEN /\ allocated' = allocated + 1
       /\ rep' = [rep EXCEPT ![c] = [status |-> "OK", chunk |-> allocated + 1]]
  ELSE /\ rep' = [rep EXCEPT ![c] = [status |-> "Invalid"]]
       /\ UNCHANGED allocated

\* doGetNextStreamChunk: Get allocates the writer's next chunk within the
\* memory reserved for streams; its callback replies with the chunk's
\* payload, and RESPONSE_ON_ERROR replies Get's error.
doGetNextStreamChunk(c, s) ==
  CASE streams[s].state = "open" /\ allocated < MaxChunks ->
         /\ allocated' = allocated + 1
         /\ rep' = [rep EXCEPT ![c] = [status |-> "OK", chunk |-> allocated + 1]]
    [] OTHER ->
         /\ rep' = [rep EXCEPT ![c] = [status |->
                      CASE streams[s].state = "absent" -> "ObjectNotExists"
                        [] streams[s].state = "open" -> "NotEnoughMemory"
                        [] OTHER -> "StreamFailed"]]
         /\ UNCHANGED allocated

\* doPushNextStreamChunk: Push hands the chunk to a waiting reader's
\* callback, or queues it; the writer's callback replies OK.
doPushNextStreamChunk(c, s, k) ==
  IF streams[s].state = "open"
  THEN IF pending[s] = {}
       THEN /\ streams' = [streams EXCEPT ![s].queue = Append(@, k)]
            /\ rep' = [rep EXCEPT ![c] = [status |-> "OK"]]
            /\ UNCHANGED pending
       ELSE \E p \in pending[s] :
              /\ pending' = [pending EXCEPT ![s] = @ \ {p}]
              /\ rep' = [d \in Conns |->
                           CASE d = c -> [status |-> "OK"]
                             [] d = p /\ running[p] -> [status |-> "OK", chunk |-> k]
                             [] OTHER -> rep[d]]
              /\ UNCHANGED streams
  ELSE /\ rep' = [rep EXCEPT ![c] = [status |->
                    IF streams[s].state = "absent" THEN "ObjectNotExists"
                                                   ELSE "StreamFailed"]]
       /\ UNCHANGED <<streams, pending>>

\* Pull without associating the stream with the connection.
doPullNextStreamChunkNoAssociate(c, s) ==
  /\ UNCHANGED assoc
  /\ LET st == streams[s] IN
     CASE st.state = "absent" ->
            /\ rep' = [rep EXCEPT ![c] = [status |-> "ObjectNotExists"]]
            /\ UNCHANGED <<streams, pending>>
       [] st.queue # <<>> ->
            /\ streams' = [streams EXCEPT ![s].queue = Tail(@)]
            /\ rep' = [rep EXCEPT ![c] = [status |-> "OK", chunk |-> Head(st.queue)]]
            /\ UNCHANGED pending
       [] st.state = "open" ->
            /\ pending' = [pending EXCEPT ![s] = @ \cup {c}]
            /\ UNCHANGED <<streams, rep>>
       [] OTHER ->
            /\ rep' = [rep EXCEPT ![c] = [status |-> "StreamDrained"]]
            /\ UNCHANGED <<streams, pending>>

\* doPullNextStreamChunk: the stream is associated with the connection
\* first; Pull then answers from the queue, fails a stopped and drained
\* stream, or keeps the callback until a chunk, a Stop or a Drop comes.
doPullNextStreamChunk(c, s) ==
  /\ assoc' = [assoc EXCEPT ![c] = @ \cup {s}]
  /\ LET st == streams[s] IN
     CASE st.state = "absent" ->
            /\ rep' = [rep EXCEPT ![c] = [status |-> "ObjectNotExists"]]
            /\ UNCHANGED <<streams, pending>>
       [] st.queue # <<>> ->
            /\ streams' = [streams EXCEPT ![s].queue = Tail(@)]
            /\ rep' = [rep EXCEPT ![c] = [status |-> "OK", chunk |-> Head(st.queue)]]
            /\ UNCHANGED pending
       [] st.state = "open" ->
            /\ pending' = [pending EXCEPT ![s] = @ \cup {c}]
            /\ UNCHANGED <<streams, rep>>
       [] OTHER ->
            /\ rep' = [rep EXCEPT ![c] = [status |->
                         IF st.state = "stopped" THEN "StreamDrained"
                                                 ELSE "StreamFailed"]]
            /\ UNCHANGED <<streams, pending>>

\* Stop that marks the stream but leaves its waiting callbacks.
doStopStreamNoWake(c, s, failed) ==
  IF streams[s].state = "open"
  THEN /\ streams' = [streams EXCEPT ![s].state =
                         IF failed THEN "failed" ELSE "stopped"]
       /\ rep' = [rep EXCEPT ![c] = [status |-> "OK"]]
       /\ UNCHANGED pending
  ELSE /\ rep' = [rep EXCEPT ![c] = [status |-> "Invalid"]]
       /\ UNCHANGED <<streams, pending>>

\* doStopStream: Stop marks the stream stopped or failed and fails the
\* waiting readers; RESPONSE_ON_ERROR replies the error of an unknown id.
doStopStream(c, s, failed) ==
  IF streams[s].state = "open"
  THEN LET st == IF failed THEN "failed" ELSE "stopped" IN
       /\ streams' = [streams EXCEPT ![s].state = st]
       /\ pending' = [pending EXCEPT ![s] = {}]
       /\ rep' = [d \in Conns |->
                    CASE d = c -> [status |-> "OK"]
                      [] d \in pending[s] /\ running[d] ->
                           [status |-> IF failed THEN "StreamFailed"
                                                 ELSE "StreamDrained"]
                      [] OTHER -> rep[d]]
  ELSE /\ rep' = [rep EXCEPT ![c] = [status |->
                    IF streams[s].state = "absent" THEN "ObjectNotExists"
                                                   ELSE "Invalid"]]
       /\ UNCHANGED <<streams, pending>>

-----------------------------------------------------------------------------
(* Clients and the connection loop.                                       *)

\* A ClientBase stream call writes its request and blocks in doRead.  The
\* application creates each stream id once (stream ids are fresh object
\* ids), and pushes the chunk its last GetNextStreamChunk returned.
ClientCall(c, call) ==
  /\ client[c] = Idle
  /\ call.type = "create" => call.s \notin created
  /\ call.type = "push" => call.chunk = held[c]
  /\ client' = [client EXCEPT ![c] = call]
  /\ req' = [req EXCEPT ![c] = call]
  /\ held' = IF call.type = "push" THEN [held EXCEPT ![c] = None] ELSE held
  /\ created' = IF call.type = "create" THEN created \cup {call.s} ELSE created
  /\ UNCHANGED <<running, assoc, rep, streams, pending, allocated, writerOf,
                 dropped>>

\* processMessage: the request is read and dispatched to its handler.
Handle(c) ==
  /\ running[c] /\ req[c] # None
  /\ req' = [req EXCEPT ![c] = None]
  /\ LET r == req[c] IN
     \/ /\ r.type = "create" /\ doCreateStream(c, r.s)
        /\ UNCHANGED <<assoc, pending, allocated, writerOf>>
     \/ /\ r.type = "open" /\ doOpenStream(c, r.s, r.mode)
        /\ UNCHANGED <<assoc, pending, allocated>>
     \/ /\ r.type = "get" /\ doGetNextStreamChunk(c, r.s)
        /\ UNCHANGED <<assoc, streams, pending, writerOf>>
     \/ /\ r.type = "push" /\ doPushNextStreamChunk(c, r.s, r.chunk)
        /\ UNCHANGED <<assoc, allocated, writerOf>>
     \/ /\ r.type = "pull" /\ doPullNextStreamChunk(c, r.s)
        /\ UNCHANGED <<allocated, writerOf>>
     \/ /\ r.type = "stop" /\ doStopStream(c, r.s, r.failed)
        /\ UNCHANGED <<assoc, allocated, writerOf>>
  /\ UNCHANGED <<running, client, held, dropped, created>>

\* The client reads its reply and returns; a chunk from Get is kept for
\* the next Push.
ClientRead(c) ==
  /\ client[c] \notin {Idle, Closed} /\ rep[c] # None
  /\ client' = [client EXCEPT ![c] = Idle]
  /\ rep' = [rep EXCEPT ![c] = None]
  /\ held' = IF client[c].type = "get" /\ "chunk" \in DOMAIN rep[c]
             THEN [held EXCEPT ![c] = rep[c].chunk] ELSE held
  /\ UNCHANGED <<running, assoc, req, streams, pending, allocated, writerOf,
                 dropped, created>>

\* The client process closes its socket, possibly while blocked in a call.
ClientDisconnect(c) ==
  /\ client[c] # Closed
  /\ client' = [client EXCEPT ![c] = Closed]
  /\ held' = [held EXCEPT ![c] = None]
  /\ UNCHANGED <<running, assoc, req, rep, streams, pending, allocated,
                 writerOf, dropped, created>>

\* doReadHeader/doReadBody see EOF once every request the client wrote has
\* been read, and doStop calls Stop: running_ is cleared and every stream
\* in associated_streams_ is dropped from the stream store.
ServerEOF(c) ==
  /\ running[c] /\ client[c] = Closed /\ req[c] = None
  /\ running' = [running EXCEPT ![c] = FALSE]
  /\ StoreDrop(assoc[c])
  /\ Fire(UNION {pending[s] : s \in assoc[c]} \ {c}, [status |-> "StreamFailed"])
  /\ UNCHANGED <<assoc, client, req, allocated, writerOf, held, created>>

-----------------------------------------------------------------------------
Init ==
  /\ running = [c \in Conns |-> TRUE]
  /\ assoc = [c \in Conns |-> {}]
  /\ client = [c \in Conns |-> Idle]
  /\ req = [c \in Conns |-> None]
  /\ rep = [c \in Conns |-> None]
  /\ held = [c \in Conns |-> None]
  /\ streams = [s \in StreamIds |-> Absent]
  /\ pending = [s \in StreamIds |-> {}]
  /\ allocated = 0
  /\ writerOf = [s \in StreamIds |-> None]
  /\ dropped = {}
  /\ created = {}

Next ==
  \E c \in Conns :
    \/ \E call \in Calls : ClientCall(c, call)
    \/ Handle(c) \/ ClientRead(c) \/ ClientDisconnect(c) \/ ServerEOF(c)

\* The server's io loop keeps reading every open connection, and a client
\* blocked in doRead reads the reply once it is written.
Fairness ==
  \A c \in Conns : /\ WF_vars(Handle(c)) /\ WF_vars(ServerEOF(c))
                   /\ WF_vars(ClientRead(c))

Spec == Init /\ [][Next]_vars /\ Fairness

-----------------------------------------------------------------------------
TypeOK ==
  /\ running \in [Conns -> BOOLEAN]
  /\ assoc \in [Conns -> SUBSET StreamIds]
  /\ client \in [Conns -> Calls \cup {Idle, Closed}]
  /\ req \in [Conns -> Calls \cup {None}]
  /\ rep \in [Conns -> Replies \cup {None}]
  /\ held \in [Conns -> Chunks \cup {None}]
  /\ \A s \in StreamIds :
       /\ streams[s].state \in StreamStates
       /\ streams[s].queue \in Seq(Chunks)
       /\ pending[s] \subseteq Conns
  /\ allocated \in 0..MaxChunks
  /\ writerOf \in [StreamIds -> Conns \cup {None}]
  /\ dropped \subseteq StreamIds
  /\ created \subseteq StreamIds

PullWaiting(c, s) == client[c] = [type |-> "pull", s |-> s]

\* The stream store keeps no Pull callback of a stopped connection: the
\* callback holds the SocketConnection (self) alive, so one left behind
\* by Stop would leak the connection and answer a closed socket.
NoCallbackOfStoppedConnection ==
  \A s \in StreamIds : \A p \in pending[s] : running[p]

\* A reader blocked in PullNextStreamChunk on a stream that has been
\* stopped, failed or dropped is eventually answered (or gone), whether
\* its request was handled before or after: doStopStream and the Drop of
\* SocketConnection::Stop wake the store's waiting callbacks.
StopWakesReaders ==
  \A c \in Conns, s \in StreamIds :
    (PullWaiting(c, s) /\ (streams[s].state \in {"stopped", "failed"}
                            \/ s \in dropped))
      ~> ~PullWaiting(c, s)

\* spec.md, "Cancellation and timeouts": on connection close the
\* connection's streams are dropped, so blocked stream readers wake with
\* an error.  Here: once the connection that opened a stream for writing
\* has been stopped, a reader blocked in Pull on it is eventually answered.
WriterExitWakesReaders ==
  \A c \in Conns, s \in StreamIds :
    (PullWaiting(c, s) /\ writerOf[s] # None /\ ~running[writerOf[s]])
      ~> ~PullWaiting(c, s)
=============================================================================
