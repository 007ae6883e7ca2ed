---------------------------- MODULE BlobLifecycle ----------------------------
(***************************************************************************)
(* Blob lifecycle across the server's bulk store and the clients' usage   *)
(* trackers (server/async/socket_server.cc, client/client.cc).             *)
(*                                                                         *)
(* The server keeps, per blob, the set of connections that depend on it   *)
(* (AddDependency on Seal, GetBuffers and IncreaseReferenceCount, removed *)
(* by Release and on disconnect by ReleaseConnection).  A sealed blob no  *)
(* connection depends on may be spilled.  A client keeps its own          *)
(* reference count per blob (UsageTracker), and sends release_request     *)
(* only when that count drops to zero.  Nothing but this protocol keeps a *)
(* blob a client has mapped from being spilled under it.                  *)
(*                                                                         *)
(* A client call is a request, the server's handler, and the return of   *)
(* the call; handlers of different connections interleave.  A remote     *)
(* writer (create_remote_buffer over TCP) creates and seals a blob and    *)
(* then receives its bytes, as a separate step.                           *)
(***************************************************************************)
EXTENDS Integers, FiniteSets, TLC

CONSTANTS
  Clients,     \* local IPC clients (one connection at a time each)
  Writers,     \* remote writers issuing create_remote_buffer
  Blobs,       \* blob ids; an id is reused when its blob is deleted
  NoBlob,      \* InvalidObjectID()
  StoreType,   \* bulk store of the session: "Default" or "Plasma"
  MaxCreates,  \* bound on blobs created over a behaviour
  MaxConnId,   \* bound on connection ids handed out (restarts)
  MaxRef,      \* bound on a client's reference count of one blob
  UnsafeModes  \* the values of GetBuffers' unsafe flag clients pass

ASSUME NoBlob \notin Blobs
ASSUME StoreType \in {"Default", "Plasma"}
ASSUME UnsafeModes \subseteq BOOLEAN /\ UnsafeModes /= {}
ASSUME MaxCreates \in Nat /\ MaxConnId \in Nat /\ MaxRef \in Nat \ {0}

VARIABLES
  store,       \* bulk store: blob id -> payload state and dependencies
  nextGen,     \* blobs created so far (tells incarnations of an id apart)
  conn,        \* client -> its current connection id
  nextConnId,  \* SocketServer::next_conn_id_
  tracker,     \* UsageTracker::object_in_use_: client -> id -> entry
  req,         \* request written by a client and not yet handled
  reply,       \* reply written by the server and not yet read
  pc,          \* the client call in progress
  receiving    \* writer -> the blob doCreateRemoteBuffer is filling

vars == <<store, nextGen, conn, nextConnId, tracker, req, reply, pc, receiving>>

ConnIds == 0 .. MaxConnId
Gens    == 1 .. MaxCreates
NoReq   == [op |-> "none"]
NoRecv  == [id |-> NoBlob, gen |-> 0]
Idle    == [name |-> "idle", id |-> NoBlob]

BlobState == [sealed : BOOLEAN, spilled : BOOLEAN,
              gen : Gens, deps : SUBSET ConnIds]
Usage     == [ref : 1 .. MaxRef, sealed : BOOLEAN, gen : Gens]
ObjInfo   == [sealed : BOOLEAN, gen : Gens]

\* A reply: its status and, per blob id, the payload's sealed bit and
\* incarnation as the server wrote them.
NoReply == [none |-> TRUE, ok |-> FALSE, objs |-> <<>>]
Reply(ok, objs) == [none |-> FALSE, ok |-> ok, objs |-> objs]
Objs(s, ids) == [b \in ids |-> [sealed |-> s[b].sealed, gen |-> s[b].gen]]

(***************************************************************************)
(* Bulk store (not under src/; modelled from the specification of         *)
(* BulkStore).                                                             *)
(***************************************************************************)
\* Create: a fresh payload, unsealed, nobody depending on it.  The id is
\* derived from the allocation's address, so a deleted blob's id returns.
\* Create(b, TRUE) is Create followed at once by Seal.
Create(b, sealed) ==
  /\ b \notin DOMAIN store
  /\ nextGen < MaxCreates
  /\ store' = (b :> [sealed |-> sealed, spilled |-> FALSE, 
                     gen |-> nextGen + 1, deps |-> {}]) @@ store
  /\ nextGen' = nextGen + 1

\* AddDependency binds each sealed id to the connection.
AddDependency(s, ids, cid) ==
  [b \in DOMAIN s |-> IF b \in ids /\ s[b].sealed
                      THEN [s[b] EXCEPT !.deps = @ \cup {cid}] ELSE s[b]]

\* GetUnsafe succeeds for existing ids that are sealed (or any, when
\* unsafe); a spilled payload is reloaded, which may fail for memory.
GetUnsafeOk(ids, unsafe) ==
  /\ ids \subseteq DOMAIN store
  /\ unsafe \/ \A b \in ids : store[b].sealed

Reload(s, ids) ==
  [b \in DOMAIN s |-> IF b \in ids THEN [s[b] EXCEPT !.spilled = FALSE] ELSE s[b]]

\* ReleaseConnection: every dependency of the connection is dropped.
ReleaseConnection(s, cid) == [b \in DOMAIN s |-> [s[b] EXCEPT !.deps = @ \ {cid}]]

\* OnDelete / Delete: the payload goes, whoever depends on it.
Remove(s, b) == [x \in DOMAIN s \ {b} |-> s[x]]

(***************************************************************************)
(* Server handlers.                                                        *)
(***************************************************************************)
Handle(c, op) == req[c].op = op

Answer(c, r) ==
  /\ reply' = [reply EXCEPT ![c] = r]
  /\ req' = [req EXCEPT ![c] = NoReq]

\* doCreateBuffer / doCreateBufferByPlasma (the payload carries no
\* dependency until it is sealed).
DoCreateBuffer(c) ==
  /\ Handle(c, "create_buffer_request")
  /\ \/ \E b \in Blobs :
          /\ Create(b, FALSE)
          /\ Answer(c, Reply(TRUE, b :> [sealed |-> FALSE, gen |-> nextGen + 1]))
     \/ /\ Answer(c, Reply(FALSE, <<>>))   \* Create fails: NotEnoughMemory
        /\ UNCHANGED <<store, nextGen>>
  /\ UNCHANGED <<conn, nextConnId, tracker, pc, receiving>>

\* doSealBlob / doSealPlasmaBlob: Seal, then AddDependency of the id.
DoSealBlob(c) ==
  LET b == req[c].id IN
  /\ Handle(c, "seal_request")
  /\ IF b \in DOMAIN store
     THEN /\ store' = AddDependency([store EXCEPT ![b].sealed = TRUE], {b}, conn[c])
          /\ Answer(c, Reply(TRUE, <<>>))
     ELSE /\ Answer(c, Reply(FALSE, <<>>))
          /\ UNCHANGED store
  /\ UNCHANGED <<nextGen, conn, nextConnId, tracker, pc, receiving>>

\* Mutant: doGetBuffers without its AddDependency (socket_server.cc:440).
DoGetBuffersNoDependency(c) ==
  LET ids == req[c].ids IN
  /\ Handle(c, "get_buffers_request")
  /\ \/ /\ GetUnsafeOk(ids, req[c].unsafe)
        /\ store' = Reload(store, ids)
        /\ Answer(c, Reply(TRUE, Objs(store', ids)))
     \/ /\ ~GetUnsafeOk(ids, req[c].unsafe)
           \/ \E b \in ids : b \in DOMAIN store /\ store[b].spilled
        /\ Answer(c, Reply(FALSE, <<>>))
        /\ UNCHANGED store
  /\ UNCHANGED <<nextGen, conn, nextConnId, tracker, pc, receiving>>

\* doGetBuffers / doGetBuffersByPlasma: GetUnsafe (with reload), then
\* AddDependency of the ids.
DoGetBuffers(c) ==
  LET ids == req[c].ids IN
  /\ Handle(c, "get_buffers_request")
  /\ \/ /\ GetUnsafeOk(ids, req[c].unsafe)
        /\ store' = AddDependency(Reload(store, ids), ids, conn[c])
        /\ Answer(c, Reply(TRUE, Objs(store', ids)))
     \/ /\ ~GetUnsafeOk(ids, req[c].unsafe)
           \/ \E b \in ids : b \in DOMAIN store /\ store[b].spilled
        /\ Answer(c, Reply(FALSE, <<>>))
        /\ UNCHANGED store
  /\ UNCHANGED <<nextGen, conn, nextConnId, tracker, pc, receiving>>

\* doRelease / doPlasmaRelease: Release(id, conn_id).
DoRelease(c) ==
  LET b == req[c].id IN
  /\ Handle(c, "release_request")
  /\ IF b \in DOMAIN store
     THEN /\ store' = [store EXCEPT ![b].deps = @ \ {conn[c]}]
          /\ Answer(c, Reply(TRUE, <<>>))
     ELSE /\ Answer(c, Reply(FALSE, <<>>))
          /\ UNCHANGED store
  /\ UNCHANGED <<nextGen, conn, nextConnId, tracker, pc, receiving>>

\* doDropBuffer / doPlasmaDelData: OnDelete, ignoring references.
DoDropBuffer(c) ==
  LET b == req[c].id IN
  /\ Handle(c, "drop_buffer_request")
  /\ IF b \in DOMAIN store
     THEN /\ store' = Remove(store, b)
          /\ Answer(c, Reply(TRUE, <<>>))
     ELSE /\ Answer(c, Reply(FALSE, <<>>))
          /\ UNCHANGED store
  /\ UNCHANGED <<nextGen, conn, nextConnId, tracker, pc, receiving>>

\* The spiller (BulkStore, on crossing the high watermark): a sealed
\* payload no connection depends on is written out and its memory given
\* back.  The watermarks are abstracted to a free choice of the victim.
Spill(b) ==
  /\ b \in DOMAIN store
  /\ store[b].sealed /\ store[b].deps = {} /\ ~store[b].spilled
  /\ store' = [store EXCEPT ![b].spilled = TRUE]
  /\ UNCHANGED <<nextGen, conn, nextConnId, tracker, req, reply, pc, receiving>>

\* doCreateRemoteBuffer: Create, Seal, and only then start reading the
\* payload's bytes from the socket (recvRemoteBufferHelper).  No
\* dependency is bound.  (Its error replies change no state.)
DoCreateRemoteBuffer(w) ==
  /\ receiving[w] = NoRecv
  /\ \E b \in Blobs :
       /\ Create(b, TRUE)
       /\ receiving' = [receiving EXCEPT ![w] = [id |-> b, gen |-> nextGen + 1]]
  /\ UNCHANGED <<conn, nextConnId, tracker, req, reply, pc>>

\* The read completes: the reply is written to the remote client.
RecvRemoteDone(w) ==
  /\ receiving[w] /= NoRecv
  /\ receiving' = [receiving EXCEPT ![w] = NoRecv]
  /\ UNCHANGED <<store, nextGen, conn, nextConnId, tracker, req, reply, pc>>

\* The read fails (short read, reset): cleanup by Delete(object_id).
RecvRemoteFailed(w) ==
  LET b == receiving[w].id IN
  /\ receiving[w] /= NoRecv
  /\ store' = IF b \in DOMAIN store THEN Remove(store, b) ELSE store
  /\ receiving' = [receiving EXCEPT ![w] = NoRecv]
  /\ UNCHANGED <<nextGen, conn, nextConnId, tracker, req, reply, pc>>

(***************************************************************************)
(* Client calls, each a request and the part after doRead; the usage      *)
(* tracker (UsageTracker in client.cc) is updated at the return.          *)
(***************************************************************************)
Ready(c) == pc[c] = Idle /\ req[c] = NoReq /\ reply[c] = NoReply

Call(c, name, id, r) ==
  /\ Ready(c)
  /\ req' = [req EXCEPT ![c] = r]
  /\ pc' = [pc EXCEPT ![c] = [name |-> name, id |-> id]]
  /\ UNCHANGED <<store, nextGen, conn, nextConnId, reply, receiving>>

Returned(c, name) ==
  /\ pc[c].name = name /\ ~reply[c].none
  /\ pc' = [pc EXCEPT ![c] = Idle]
  /\ reply' = [reply EXCEPT ![c] = NoReply]
  /\ UNCHANGED <<store, nextGen, conn, nextConnId, req, receiving>>

\* AddUsage of each payload of a reply: a new entry copies the payload
\* and starts at one; a known entry only counts up, its payload copy is
\* kept as it was.
AddUsage(t, objs) ==
  [b \in DOMAIN t \cup DOMAIN objs |->
     CASE b \notin DOMAIN objs -> t[b]
       [] b \in DOMAIN t       -> [t[b] EXCEPT !.ref = @ + 1]
       [] OTHER                -> [ref |-> 1, sealed |-> objs[b].sealed, gen |-> objs[b].gen]]

DeleteUsage(t, b) == [x \in DOMAIN t \ {b} |-> t[x]]

\* Room for one more reference to each of ids (a bound of the model).
RefRoom(c, ids) == \A b \in ids \cap DOMAIN tracker[c] : tracker[c][b].ref < MaxRef

\* Client::CreateBuffer: the reply, then Mmap, then AddUsage.  The new
\* id may be that of a dropped blob the tracker still counts.
CallCreateBuffer(c) ==
  /\ RefRoom(c, Blobs)
  /\ Call(c, "CreateBuffer", NoBlob, [op |-> "create_buffer_request"])
  /\ UNCHANGED tracker

ReturnCreateBuffer(c) ==
  /\ Returned(c, "CreateBuffer")
  /\ tracker' = [tracker EXCEPT ![c] =
                   IF reply[c].ok THEN AddUsage(@, reply[c].objs) ELSE @]

\* Client::Seal of a blob the client created: the reply, then SealUsage.
CallSeal(c) ==
  /\ \E b \in DOMAIN tracker[c] :
       /\ ~tracker[c][b].sealed
       /\ Call(c, "Seal", b, [op |-> "seal_request", id |-> b])
  /\ UNCHANGED tracker

ReturnSeal(c) ==
  LET b == pc[c].id IN
  /\ Returned(c, "Seal")
  /\ tracker' = IF reply[c].ok /\ b \in DOMAIN tracker[c]
                 THEN [tracker EXCEPT ![c][b].sealed = TRUE] ELSE tracker

\* Client::GetBuffers(ids, unsafe).
CallGetBuffers(c) ==
  /\ \E ids \in SUBSET Blobs \ {{}}, unsafe \in UnsafeModes :
       /\ RefRoom(c, ids)
       /\ Call(c, "GetBuffers", NoBlob,
               [op |-> "get_buffers_request", ids |-> ids, unsafe |-> unsafe])
  /\ UNCHANGED tracker

\* After a good reply, the fd cross-check or an Mmap may still fail
\* (client.cc:712-720, FdPassing): the call returns its error before any
\* AddUsage.  Otherwise every payload is added.
ReturnGetBuffers(c) ==
  /\ Returned(c, "GetBuffers")
  /\ \/ /\ reply[c].ok
        /\ tracker' = [tracker EXCEPT ![c] = AddUsage(@, reply[c].objs)]
     \/ UNCHANGED tracker

\* Mutant: the count is taken down to zero without the entry going.
ReleaseLocalToZero(c) ==
  /\ Ready(c)
  /\ \E b \in DOMAIN tracker[c] :
       /\ tracker[c][b].ref > 0
       /\ tracker' = [tracker EXCEPT ![c][b].ref = @ - 1]
  /\ UNCHANGED <<store, nextGen, conn, nextConnId, req, reply, pc, receiving>>

\* Client::Release(id) = RemoveUsage: the count goes down; while it stays
\* positive nothing is sent.
ReleaseLocal(c) ==
  /\ Ready(c)
  /\ \E b \in DOMAIN tracker[c] :
       /\ tracker[c][b].ref > 1
       /\ tracker' = [tracker EXCEPT ![c][b].ref = @ - 1]
  /\ UNCHANGED <<store, nextGen, conn, nextConnId, req, reply, pc, receiving>>

\* Mutant: release_request is sent one reference too early.
CallReleaseEarly(c) ==
  /\ \E b \in DOMAIN tracker[c] :
       /\ tracker[c][b].ref \in {1, 2}
       /\ tracker' = [tracker EXCEPT ![c] = IF @[b].ref = 1 THEN DeleteUsage(@, b)
                                             ELSE [@ EXCEPT ![b].ref = 1]]
       /\ Call(c, "Release", b, [op |-> "release_request", id |-> b])

\* At zero, UsageTracker::OnRelease: DeleteUsage, then Client::OnRelease
\* sends release_request.
CallRelease(c) ==
  /\ \E b \in DOMAIN tracker[c] :
       /\ tracker[c][b].ref = 1
       /\ tracker' = [tracker EXCEPT ![c] = DeleteUsage(@, b)]
       /\ Call(c, "Release", b, [op |-> "release_request", id |-> b])

ReturnRelease(c) ==
  /\ Returned(c, "Release")
  /\ UNCHANGED tracker

\* Client::DropBuffer(id, fd) of a buffer the client holds (it passes the
\* buffer's fd): drop_buffer_request, then DeleteUsage.
CallDropBuffer(c) ==
  /\ \E b \in DOMAIN tracker[c] : Call(c, "DropBuffer", b, [op |-> "drop_buffer_request", id |-> b])
  /\ UNCHANGED tracker

ReturnDropBuffer(c) ==
  /\ Returned(c, "DropBuffer")
  /\ tracker' = IF reply[c].ok THEN [tracker EXCEPT ![c] = DeleteUsage(@, pc[c].id)]
                 ELSE tracker

\* The client goes away (disconnect, exit) and connects again.  The old
\* SocketConnection::Stop releases the connection's dependencies only for
\* the default store; SocketServer gives the new connection next_conn_id_.
ClientRestart(c) ==
  /\ req[c] = NoReq
  /\ nextConnId <= MaxConnId
  /\ store' = IF StoreType = "Default" THEN ReleaseConnection(store, conn[c]) ELSE store
  /\ conn' = [conn EXCEPT ![c] = nextConnId]
  /\ nextConnId' = nextConnId + 1
  /\ tracker' = [tracker EXCEPT ![c] = <<>>]
  /\ reply' = [reply EXCEPT ![c] = NoReply]
  /\ pc' = [pc EXCEPT ![c] = Idle]
  /\ UNCHANGED <<nextGen, req, receiving>>

(***************************************************************************)
(* The specification.                                                     *)
(***************************************************************************)
Init ==
  /\ store = <<>>
  /\ nextGen = 0
  /\ conn \in {f \in [Clients -> 0 .. Cardinality(Clients) - 1] :
                 \A x, y \in Clients : f[x] = f[y] => x = y}
  /\ nextConnId = Cardinality(Clients)
  /\ tracker = [c \in Clients |-> <<>>]
  /\ req = [c \in Clients |-> NoReq]
  /\ reply = [c \in Clients |-> NoReply]
  /\ pc = [c \in Clients |-> Idle]
  /\ receiving = [w \in Writers |-> NoRecv]

Next ==
  \/ \E c \in Clients :
       \/ DoCreateBuffer(c) \/ DoSealBlob(c) \/ DoGetBuffers(c)
       \/ DoRelease(c) \/ DoDropBuffer(c)
       \/ CallCreateBuffer(c) \/ ReturnCreateBuffer(c)
       \/ CallSeal(c) \/ ReturnSeal(c)
       \/ CallGetBuffers(c) \/ ReturnGetBuffers(c)
       \/ ReleaseLocal(c) \/ CallRelease(c) \/ ReturnRelease(c)
       \/ CallDropBuffer(c) \/ ReturnDropBuffer(c)
       \/ ClientRestart(c)
  \/ \E w \in Writers :
       DoCreateRemoteBuffer(w) \/ RecvRemoteDone(w) \/ RecvRemoteFailed(w)
  \/ \E b \in Blobs : Spill(b)

Spec == Init /\ [][Next]_vars

(***************************************************************************)
(* Properties.                                                            *)
(***************************************************************************)
TypeOK ==
  /\ \E S \in SUBSET Blobs : store \in [S -> BlobState]
  /\ nextGen \in 0 .. MaxCreates
  /\ conn \in [Clients -> ConnIds]
  /\ nextConnId \in 0 .. MaxConnId + 1
  /\ \A c \in Clients : \E S \in SUBSET Blobs : tracker[c] \in [S -> Usage]
  /\ \A c \in Clients : reply[c].none \/ \E S \in SUBSET Blobs : reply[c].objs \in [S -> ObjInfo]
  /\ receiving \in [Writers -> {NoRecv} \cup [id : Blobs, gen : Gens]]

\* The tracker entry of client c for blob b describes the incarnation of
\* b the store holds now.
Current(c, b) ==
  b \in DOMAIN tracker[c] /\ b \in DOMAIN store /\ store[b].gen = tracker[c][b].gen

\* The tracker's side of OnRelease (client.cc:1544-1546): while a client
\* counts a sealed blob, the server holds a dependency of the client's
\* current connection on that incarnation of it.
HeldWhileUsed ==
  \A c \in Clients, b \in Blobs :
    Current(c, b) /\ tracker[c][b].sealed => conn[c] \in store[b].deps

\* OnRelease's promise in full: while a client counts a sealed blob, the
\* spiller cannot have taken its memory.
ResidentWhileUsed ==
  \A c \in Clients, b \in Blobs :
    Current(c, b) /\ tracker[c][b].sealed => ~store[b].spilled

\* The same for every blob a client has mapped, including one it read
\* with unsafe before it was sealed.
ResidentWhileMapped ==
  \A c \in Clients, b \in Blobs :
    Current(c, b) /\ store[b].sealed => ~store[b].spilled

\* SocketConnection::Stop drops the connection's dependency set: no blob
\* depends on a connection that no longer exists.
NoDependencyOfClosedConnection ==
  \A b \in DOMAIN store : store[b].deps \subseteq {conn[c] : c \in Clients}

\* Reference counting is conservative: a client between calls that holds
\* no usage of a blob has no dependency on it at the server.
DependencyHasUsage ==
  \A c \in Clients, b \in DOMAIN store :
    Ready(c) /\ conn[c] \in store[b].deps => b \in DOMAIN tracker[c]

\* recvRemoteBufferHelper writes into the payload's memory: a blob still
\* being received is never spilled.
NoSpillWhileReceiving ==
  \A w \in Writers :
    LET b == receiving[w].id IN
    receiving[w] /= NoRecv /\ b \in DOMAIN store /\ store[b].gen = receiving[w].gen
      => ~store[b].spilled

=============================================================================
