------------------------------ MODULE Sessions ------------------------------
(***************************************************************************)
(* The session runner of vineyardd (VineyardRunner), the readiness bits of *)
(* each session's VineyardServer, and the connection set of each session's *)
(* SocketServer, with the three requests that create, delete and read      *)
(* across sessions: new_session, delete_session and move_buffers_ownership.*)
(*                                                                         *)
(* All sessions share one asio context (VineyardRunner::context_), served  *)
(* by a pool of worker threads; a handler runs to its end without yielding *)
(* (spec.md section 5), so each handler is one step.  A connection's       *)
(* request is read, dispatched and, unless processMessage returns true,    *)
(* followed by the next read.  A client is synchronous: it writes one      *)
(* request and blocks until the reply, or until its socket is closed.      *)
(***************************************************************************)
EXTENDS Naturals, FiniteSets

CONSTANTS
    Clients,        \* client processes, each with at most one connection
    RootSessionID,  \* the reserved id of the root session
    SessionIDs,     \* ids GenerateSessionID may return for child sessions
    NoConn,         \* a client without a connection
    NoReq,          \* no request read and not yet dispatched
    NoClient,       \* the creator of the root session: nobody to answer
    IPCBindFails,   \* whether a child's socket path may already be taken
    DeleteRoot,     \* whether clients of the root send delete_session
    SelfMove,       \* whether a move may name the session it is sent to
    Blobs,          \* blob ids, the same id space in every session's store
    NoSession,      \* the owner of a blob no store holds
    MaxPins         \* model bound on the references a move adds

SessionID == {RootSessionID} \cup SessionIDs

\* The bits of VineyardServer::ready_; kBackendReady and kReady.
Components == {"meta", "bulk", "ipc", "rpc"}
kBackendReady == {"meta", "bulk"}
kReady == Components

Requests ==
    [op : {"new_session", "delete_session", "eof"}] \cup
    [op : {"move"}, session : SessionID, ids : SUBSET Blobs \ {{}}]

VARIABLES
    sessions,   \* VineyardRunner::sessions_ (the ids registered)
    used,       \* ids GenerateSessionID has handed out
    ready,      \* VineyardServer::ready_ of every session
    listening,  \* the session's IPC server accepts connections
    closable,   \* SocketServer::closable_ of every session
    creator,    \* the connection the session's callback_ answers
    conn,       \* the client's connection: its session, running_, and
                \* whether SocketServer::connections_ still holds it
    req,        \* the request read from the connection, not yet handled
    waiting,    \* the client is blocked reading a reply
    context,    \* "running", "stopped" (context_.stop()) or "aborted"
    store       \* blob -> the session whose bulk store holds it, the
                \* connections depending on it, and its extra ref_cnt

vars == <<sessions, used, ready, listening, closable, creator, conn, req,
          waiting, context, store>>

\* A connection: its session, SocketConnection::running_, whether
\* SocketServer::connections_ holds it, and the blobs the client's usage
\* tracker holds through it.
Conn == [sid : SessionID, running : BOOLEAN, member : BOOLEAN,
         held : SUBSET Blobs]

TypeOK ==
    /\ sessions \subseteq SessionID /\ used \subseteq SessionIDs
    /\ ready \in [SessionID -> SUBSET Components]
    /\ listening \in [SessionID -> BOOLEAN]
    /\ closable \in [SessionID -> BOOLEAN]
    /\ creator \in [SessionID -> Clients \cup {NoClient}]
    /\ conn \in [Clients -> Conn \cup {NoConn}]
    /\ req \in [Clients -> Requests \cup {NoReq}]
    /\ waiting \in [Clients -> BOOLEAN]
    /\ context \in {"running", "stopped", "aborted"}
    /\ store \in [Blobs -> [owner : SessionID \cup {NoSession},
                           deps : SUBSET Clients,
                           pins : 0..(MaxPins + Cardinality(Clients))]]

Running(c) == conn[c] # NoConn /\ conn[c].running

\* SocketServer::AliveConnections: the connections the server still holds.
AliveConnections(cn, s) ==
    {c \in Clients : cn[c] # NoConn /\ cn[c].sid = s /\ cn[c].member}

\* doWrite of a reply: the blocked client reads it if the socket is open;
\* on a closed socket the write fails and the client reads EOF instead.
Deliver(c) ==
    waiting' = [waiting EXCEPT ![c] = IF Running(c) THEN FALSE ELSE @]

\* SocketServer::Stop: every connection it holds is stopped.
StopConns(cn, s) ==
    [c \in Clients |-> IF cn[c] # NoConn /\ cn[c].sid = s
                         THEN [cn[c] EXCEPT !.running = FALSE] ELSE cn[c]]

Free == [owner |-> NoSession, deps |-> {}, pins |-> 0]

\* bulk_store_.reset() of a stopped session: its payloads are gone.
DropStore(st, s) == [b \in Blobs |-> IF st[b].owner = s THEN Free ELSE st[b]]

\* BulkStore::ReleaseConnection: the connection's dependencies are dropped.
ReleaseConnection(st, c) == [b \in Blobs |-> [st[b] EXCEPT !.deps = @ \ {c}]]

\* VineyardRunner::Delete(s) with the connections cn and the stores st: if
\* s is registered, VineyardServer::Stop stops its IPC server and drops its
\* bulk store, and s is erased.
Delete(s, cn, st) ==
    IF s \in sessions
      THEN /\ sessions' = sessions \ {s}
           /\ listening' = [listening EXCEPT ![s] = FALSE]
           /\ conn' = StopConns(cn, s)
           /\ store' = DropStore(st, s)
      ELSE /\ conn' = cn /\ store' = st
           /\ UNCHANGED <<sessions, listening>>

\* Mutant: RemoveConnection counts the connections before erasing c.
StopAndRemoveCountFirst(c, cl) ==
    LET s  == conn[c].sid
        cn == [conn EXCEPT ![c].running = FALSE, ![c].member = FALSE]
        st == ReleaseConnection(store, c)
    IN  IF AliveConnections(conn, s) = {} /\ cl[s]
          THEN Delete(s, cn, st)
          ELSE /\ conn' = cn /\ store' = st
               /\ UNCHANGED <<sessions, listening>>

\* SocketConnection::Stop of c (which releases its dependencies), then
\* SocketServer::RemoveConnection: c is erased, and the session is deleted
\* when none is left and it is closable.
StopAndRemove(c, cl) ==
    LET s  == conn[c].sid
        cn == [conn EXCEPT ![c].running = FALSE, ![c].member = FALSE]
        st == ReleaseConnection(store, c)
    IN  IF AliveConnections(cn, s) = {} /\ cl[s]
          THEN Delete(s, cn, st)
          ELSE /\ conn' = cn /\ store' = st
               /\ UNCHANGED <<sessions, listening>>

-----------------------------------------------------------------------------
(* The root session has been served (VineyardRunner::Serve): registered,   *)
(* all four bits ready, its IPC server accepting; no client connected yet. *)
Init ==
    /\ sessions = {RootSessionID} /\ used = {}
    /\ ready = [s \in SessionID |-> IF s = RootSessionID THEN kReady ELSE {}]
    /\ listening = [s \in SessionID |-> s = RootSessionID]
    /\ closable = [s \in SessionID |-> FALSE]
    /\ creator = [s \in SessionID |-> NoClient]
    /\ conn = [c \in Clients |-> NoConn]
    /\ req = [c \in Clients |-> NoReq]
    /\ waiting = [c \in Clients |-> FALSE]
    /\ context = "running"
    /\ store = [b \in Blobs |-> Free]

\* The acceptor of a listening session, run on context_, makes a connection.
Accept(c, s) ==
    /\ context = "running" /\ conn[c] = NoConn
    /\ s \in sessions /\ listening[s]
    /\ conn' = [conn EXCEPT ![c] = [sid |-> s, running |-> TRUE, member |-> TRUE,
                                    held |-> {}]]
    /\ UNCHANGED <<sessions, used, ready, listening, closable, creator, req,
                   waiting, context, store>>

\* The client writes a request and blocks on the reply.
Call(c, r) ==
    /\ Running(c) /\ ~waiting[c] /\ req[c] = NoReq
    /\ req' = [req EXCEPT ![c] = r]
    /\ waiting' = [waiting EXCEPT ![c] = TRUE]
    /\ UNCHANGED <<sessions, used, ready, listening, closable, creator, conn,
                   context, store>>

\* Model bound: a new_session is sent only while SessionIDs has an id left
\* for it and for every new_session request still unhandled.
IdsLeft == Cardinality(SessionIDs \ used) >
           Cardinality({x \in Clients : req[x] = [op |-> "new_session"]})

CallNewSession(c) == IdsLeft /\ Call(c, [op |-> "new_session"])

CallDeleteSession(c) ==
    /\ Running(c) /\ (DeleteRoot \/ conn[c].sid # RootSessionID)
    /\ Call(c, [op |-> "delete_session"])

CallMoveBuffersOwnership(c, s, ids) ==
    /\ Running(c) /\ (SelfMove \/ s # conn[c].sid)
    /\ \A b \in ids : store[b].pins < MaxPins
    /\ Call(c, [op |-> "move", session |-> s, ids |-> ids])

\* The client closes its socket; the server's next read meets EOF.
Disconnect(c) ==
    /\ Running(c) /\ ~waiting[c] /\ req[c] = NoReq
    /\ req' = [req EXCEPT ![c] = [op |-> "eof"]]
    /\ UNCHANGED <<sessions, used, ready, listening, closable, creator, conn,
                   waiting, context, store>>

\* The server closed the socket: the client reads EOF and drops it.
Closed(c) ==
    /\ conn[c] # NoConn /\ ~conn[c].running
    /\ conn' = [conn EXCEPT ![c] = NoConn]
    /\ req' = [req EXCEPT ![c] = NoReq]
    /\ waiting' = [waiting EXCEPT ![c] = FALSE]
    /\ UNCHANGED <<sessions, used, ready, listening, closable, creator, context,
                   store>>

-----------------------------------------------------------------------------
(* Server steps.  Each runs on context_ and needs it to be running.        *)

Dispatch(c, op) ==
    /\ context = "running" /\ Running(c)
    /\ req[c] # NoReq /\ req[c].op = op

\* doReadHeader/doReadBody meet EOF: doStop, i.e. Stop then RemoveConnection.
DoStop(c) ==
    /\ Dispatch(c, "eof")
    /\ req' = [req EXCEPT ![c] = NoReq]
    /\ StopAndRemove(c, closable)
    /\ UNCHANGED <<used, ready, closable, creator, waiting, context>>

\* VineyardRunner::CreateNewSession: a generated id is registered with a
\* VineyardServer whose callback_ answers the connection c.
CreateNewSession(c, s) ==
    /\ sessions' = sessions \cup {s}
    /\ used' = used \cup {s}
    /\ creator' = [creator EXCEPT ![s] = c]

\* VineyardServer::Serve of a child: the meta service is started (it reports
\* MetaReady later), the bulk store is made, and BulkReady sets its bit;
\* ready_ is not yet kBackendReady, so nothing else happens.
Serve(s) == ready' = [ready EXCEPT ![s] = {"bulk"}]

\* VINEYARD_CHECK_OK on a failed Serve (the meta service cannot start, or
\* PreAllocate fails): the process aborts and every socket is closed.
Abort ==
    /\ context' = "aborted"
    /\ conn' = [x \in Clients |-> IF conn[x] = NoConn THEN NoConn
                                  ELSE [conn[x] EXCEPT !.running = FALSE]]

\* doNewSession: CreateNewSession, then the reply waits for the callback.
DoNewSession(c) ==
    /\ Dispatch(c, "new_session")
    /\ req' = [req EXCEPT ![c] = NoReq]
    /\ \E s \in SessionIDs \ used :
         /\ CreateNewSession(c, s)
         /\ \/ Serve(s) /\ UNCHANGED <<conn, context>>
            \/ Abort /\ UNCHANGED ready
    /\ UNCHANGED <<listening, closable, waiting, store>>

\* The callback_ of a session, from Ready or from a failed BackendReady,
\* writes the new_session reply to its creator.
Answer(s) ==
    IF creator[s] = NoClient THEN UNCHANGED waiting ELSE Deliver(creator[s])

\* Mutant: ready_ is compared with kReady before the bits are set.
IPCAndRPCReadyTestFirst(s, r) ==
    /\ ready' = [ready EXCEPT ![s] = r \cup {"ipc", "rpc"}]
    /\ IF r = kReady THEN Answer(s) ELSE UNCHANGED waiting


\* IPCReady and RPCReady after the servers have started: each sets its bit,
\* and the one that completes kReady calls Ready, whose callback_ answers.
IPCAndRPCReady(s, r) ==
    /\ ready' = [ready EXCEPT ![s] = r \cup {"ipc", "rpc"}]
    /\ IF r \cup {"ipc", "rpc"} = kReady THEN Answer(s) ELSE UNCHANGED waiting

\* BackendReady: the IPC server starts (its Start calls IPCReady) and, the
\* RPC server being for the root only, RPCReady is called.  If the socket
\* cannot be bound the callback gets the IOError and context_.stop() stops
\* the context every session shares.
BackendReady(s, r) ==
    \/ /\ listening' = [listening EXCEPT ![s] = TRUE]
       /\ IPCAndRPCReady(s, r)
       /\ UNCHANGED context
    \/ /\ IPCBindFails
       /\ ready' = [ready EXCEPT ![s] = r]
       /\ Answer(s)
       /\ context' = "stopped"
       /\ UNCHANGED listening

\* MetaReady, when the meta service has started: the bit is set, and with
\* bulk already set ready_ is kBackendReady and BackendReady runs.
MetaReady(s) ==
    /\ context # "aborted"
    /\ s \in sessions /\ "meta" \notin ready[s]
    /\ LET r == ready[s] \cup {"meta"} IN
       IF r = kBackendReady
         THEN BackendReady(s, r)
         ELSE /\ ready' = [ready EXCEPT ![s] = r]
              /\ UNCHANGED <<listening, waiting, context>>
    /\ UNCHANGED <<sessions, used, closable, creator, conn, req, store>>


\* doDeleteSession: the reply is written, SocketServer::Close makes the
\* session closable, and returning true stops the connection (doStop).
DoDeleteSession(c) ==
    /\ Dispatch(c, "delete_session")
    /\ req' = [req EXCEPT ![c] = NoReq]
    /\ closable' = [closable EXCEPT ![conn[c].sid] = TRUE]
    /\ Deliver(c)
    /\ StopAndRemove(c, closable')
    /\ UNCHANGED <<used, ready, creator, context>>

\* Mutant: both FetchAndModify calls go to the target's store.
MoveBuffersPinTargetTwice(ids, src, tgt) ==
    LET successed == {b \in ids : store[b].owner = src /\ store[b].deps = {}
                                  /\ store[b].pins = 0}
        moved == [b \in Blobs |->
                   IF b \in successed THEN [owner |-> tgt, deps |-> {}, pins |-> 0]
                   ELSE store[b]]
    IN  [b \in Blobs |->
          IF b \in ids /\ moved[b].owner = tgt
            THEN [moved[b] EXCEPT !.pins = @ + 2] ELSE moved[b]]

\* MoveBuffers(mapping, source) into the connection's session tgt, for an

\* identity mapping of ids.  RemoveOwnership on the source detaches the
\* payloads nothing references (the successed_ids); MoveOwnership inserts
\* them into the target with ref_cnt reset.  Then FetchAndModify(+1) runs
\* for every key of the mapping on the source and for every value on the
\* target, whether it was moved or not; the store ignores an id it does
\* not hold (spec.md's handoff test needs that for the moved keys).
MoveBuffers(ids, src, tgt) ==
    LET successed == {b \in ids : store[b].owner = src /\ store[b].deps = {}
                                  /\ store[b].pins = 0}
        moved == [b \in Blobs |->
                   IF b \in successed THEN [owner |-> tgt, deps |-> {}, pins |-> 0]
                   ELSE store[b]]
    IN  [b \in Blobs |->
          IF b \in ids /\ moved[b].owner \in {src, tgt}
            THEN [moved[b] EXCEPT !.pins = @ + 1] ELSE moved[b]]

\* doMoveBuffersOwnership: a move from the connection's own session returns
\* false before any reply; an unknown source is answered with an error;
\* otherwise MoveBuffers runs and the reply is written.
DoMoveBuffersOwnership(c) ==
    /\ Dispatch(c, "move")
    /\ req' = [req EXCEPT ![c] = NoReq]
    /\ LET src == req[c].session
           tgt == conn[c].sid
       IN  IF src = tgt
             THEN UNCHANGED <<waiting, store>>
           ELSE IF src \notin sessions
             THEN /\ Deliver(c) /\ UNCHANGED store
           ELSE /\ store' = MoveBuffers(req[c].ids, src, tgt)
                /\ Deliver(c)
    /\ UNCHANGED <<sessions, used, ready, listening, closable, creator, conn,
                   context>>

\* A client's blob request is answered by a handler that does not wait, so
\* its call, handling and reply are one step here.  doCreateBuffer followed
\* by doSealBlob: the new payload is sealed and the creator depends on it.
CreateAndSeal(c, b) ==
    /\ context = "running" /\ Running(c) /\ ~waiting[c] /\ req[c] = NoReq
    /\ store[b].owner = NoSession
    /\ store' = [store EXCEPT ![b] = [owner |-> conn[c].sid, deps |-> {c},
                                      pins |-> 0]]
    /\ conn' = [conn EXCEPT ![c].held = @ \cup {b}]
    /\ UNCHANGED <<sessions, used, ready, listening, closable, creator,
                   req, waiting, context>>

\* doGetBuffers: GetUnsafe of a payload of the connection's own store, and
\* AddDependency; doRelease: Release removes the dependency.
DoGetBuffers(c, b) ==
    /\ context = "running" /\ Running(c) /\ ~waiting[c] /\ req[c] = NoReq
    /\ store[b].owner = conn[c].sid
    /\ store' = [store EXCEPT ![b].deps = @ \cup {c}]
    /\ conn' = [conn EXCEPT ![c].held = @ \cup {b}]
    /\ UNCHANGED <<sessions, used, ready, listening, closable, creator,
                   req, waiting, context>>

DoRelease(c, b) ==
    /\ context = "running" /\ Running(c) /\ ~waiting[c] /\ req[c] = NoReq
    /\ b \in conn[c].held
    /\ store' = [store EXCEPT ![b].deps = @ \ {c}]
    /\ conn' = [conn EXCEPT ![c].held = @ \ {b}]
    /\ UNCHANGED <<sessions, used, ready, listening, closable, creator,
                   req, waiting, context>>

\* VineyardRunner::Stop, on a signal: every session is deleted, which stops
\* its connections, and the contexts are stopped.
RunnerStop ==
    /\ context # "aborted" /\ sessions # {}
    /\ sessions' = {}
    /\ listening' = [s \in SessionID |-> FALSE]
    /\ conn' = [c \in Clients |-> IF conn[c] = NoConn THEN NoConn
                                   ELSE [conn[c] EXCEPT !.running = FALSE]]
    /\ context' = "stopped"
    /\ store' = [b \in Blobs |-> Free]
    /\ UNCHANGED <<used, ready, closable, creator, req, waiting>>

ServerStep(c) ==
    \/ DoStop(c) \/ DoNewSession(c) \/ DoDeleteSession(c)
    \/ DoMoveBuffersOwnership(c)

Next ==
    \/ \E c \in Clients :
         \/ \E s \in SessionID : Accept(c, s)
         \/ \E s \in SessionID, ids \in SUBSET Blobs \ {{}} :
              CallMoveBuffersOwnership(c, s, ids)
         \/ \E b \in Blobs : CreateAndSeal(c, b) \/ DoGetBuffers(c, b)
                             \/ DoRelease(c, b)

         \/ CallNewSession(c) \/ CallDeleteSession(c) \/ Disconnect(c)
         \/ Closed(c) \/ ServerStep(c)
    \/ \E s \in SessionID : MetaReady(s)
    \/ RunnerStop

\* The worker pool runs every handler whose read has completed, and the
\* meta service eventually reports its start; a client blocked on a closed
\* socket eventually reads EOF.  Clients and the signal are not fair.
Fairness ==
    /\ \A c \in Clients : WF_vars(ServerStep(c)) /\ WF_vars(Closed(c))
    /\ \A s \in SessionID : WF_vars(MetaReady(s))

Spec == Init /\ [][Next]_vars /\ Fairness

-----------------------------------------------------------------------------
(* Properties.                                                             *)

\* A session that delete_session made closable is still registered only
\* while SocketServer::connections_ holds one of its connections: the last
\* RemoveConnection deletes it, whichever connection leaves last.
ClosableSessionHasMembers ==
    context # "aborted" =>
        \A s \in sessions : closable[s] => AliveConnections(conn, s) # {}

\* The root session, which owns the base socket path and the RPC endpoint,
\* stays registered as long as the runner has not been stopped.
RootSessionAlive == context = "running" => RootSessionID \in sessions

\* A step of doMoveBuffersOwnership that answers a move from a registered
\* session.
MoveAnswered(c) ==
    /\ req[c] # NoReq /\ req[c].op = "move" /\ req'[c] = NoReq
    /\ Running(c) /\ waiting[c] /\ ~waiting'[c]
    /\ req[c].session \in sessions

\* spec.md 9: after MoveBuffersOwnership(M, s), no key of M is reachable in
\* s; a move the handler answers has taken every requested id out of it.
MoveLeavesNothingInSource ==
    [][\A c \in Clients :
         MoveAnswered(c) =>
            \A b \in req[c].ids : store'[b].owner # req[c].session]_vars

\* The FIXME loop of MoveBuffers adds a reference only to what was moved:
\* a payload a move leaves in its source keeps the ref_cnt it had.
MovePinsOnlyMoved ==
    [][\A c \in Clients :
         MoveAnswered(c) =>
            \A b \in req[c].ids :
               store'[b].owner = req[c].session => store'[b].pins = store[b].pins]_vars

\* Every request a client blocks on is answered, or its socket is closed:

\* new_session by the child's callback once its meta service is up,
\* delete_session and move_buffers_ownership by their handlers.
ReplyOrClose == \A c \in Clients : waiting[c] ~> ~waiting[c]

\* The same, for as long as no BackendReady failure has stopped context_:
\* every handler and callback on the shared context eventually answers.
ReplyOrCloseUnlessStopped ==
    \A c \in Clients : waiting[c] ~> (~waiting[c] \/ context = "stopped")


=============================================================================
