--------------------------- MODULE IpcConversation ---------------------------
(***************************************************************************)
(* One IPC connection to vineyardd, at the level of its messages: a        *)
(* client (client/client.cc) writes a request with a Write*Request of      *)
(* protocols.cc and blocks in doRead for the reply; the server's           *)
(* SocketConnection (server/async/socket_server.cc) reads one message at a *)
(* time, dispatches it by its "type" in processMessage, and its handler    *)
(* reads the request with a Read*Request and writes a reply or an error    *)
(* reply.  The client reads the reply with the matching Read*Reply.        *)
(*                                                                         *)
(* What a handler does to the stores is modelled in the other modules;     *)
(* here a handler is its reader, its writer, and the ways it can end:      *)
(* with its reply, with an error reply, or with no reply at all.          *)
(***************************************************************************)
EXTENDS Naturals, Sequences, Protocols

CONSTANTS
    ClientCalls,   \* the client functions the client may call
    EnableGPU,     \* whether vineyardd is built with ENABLE_GPU
    MaxItems       \* the most items (blob ids, payloads) a message carries

VARIABLES
    pc,        \* "closed", "idle", or the client function blocked in doRead
    toServer,  \* the messages on the socket towards the server
    toClient,  \* the messages on the socket towards the client
    running,   \* running_ of the server's SocketConnection
    dropped,   \* a handler ended the current request without any reply
    misread    \* the readers that met a message they cannot read: "server",
               \* "client", or "client_error" for the client on an error reply

vars == <<pc, toServer, toClient, running, dropped, misread>>

ItemCounts(p) == IF p.items THEN 0..MaxItems ELSE {0}

-----------------------------------------------------------------------------
(* The handlers of SocketConnection.  A handler reads its request (reads),*)
(* may fail after reading with RESPONSE_ON_ERROR or an error status        *)
(* (fails), writes its reply when it succeeds (answers), has a path that   *)
(* returns false without writing anything (silent), returns true so that  *)
(* the connection stops (stops), and returns at once in a build without    *)
(* ENABLE_GPU (gpu).                                                       *)

Handler(req, rep) ==
    [request |-> req, reply |-> rep, reads |-> TRUE, fails |-> TRUE,
     answers |-> TRUE, silent |-> FALSE, stops |-> FALSE, gpu |-> FALSE]
Silent(h) == [h EXCEPT !.silent = TRUE]
Gpu(h) == [h EXCEPT !.gpu = TRUE, !.silent = TRUE]

doRegister == [Handler(RegisterRequest, RegisterReply) EXCEPT !.fails = FALSE]
doGetBuffers == Handler(GetBuffersRequest, GetBuffersReply)
doGetRemoteBuffers == Handler(GetRemoteBuffersRequest, GetBuffersReply)
doCreateBuffer == Handler(CreateBufferRequest, CreateBufferReply)
doGetGPUBuffers == Gpu(Handler(GetGPUBuffersRequest, GetGPUBuffersReply))
\* An invalid GPU pointer returns without a reply, too.
doCreateGPUBuffer == Gpu(Handler(CreateGPUBufferRequest, GPUCreateBufferReply))
doCreateRemoteBuffer == Handler(CreateRemoteBufferRequest, CreateBufferReply)
doCreateDiskBuffer == Handler(CreateDiskBufferRequest, CreateDiskBufferReply)
doDropBuffer == Handler(DropBufferRequest, DropBufferReply)
\* The callback of VineyardServer::GetData drops a failed sync from the
\* metadata service without calling back (Metadata, metadata_sync_failure).
doGetData == Silent(Handler(GetDataRequest, GetDataReply))
doListData == Handler(ListDataRequest, GetDataReply)
doCreateData == Handler(CreateDataRequest, CreateDataReply)
doPersist == Handler(PersistRequest, PersistReply)
doIfPersist == Handler(IfPersistRequest, IfPersistReply)
doExists == Silent(Handler(ExistsRequest, ExistsReply))
doShallowCopy == Handler(ShallowCopyRequest, ShallowCopyReply)
doDelData == Handler(DelDataRequest, DelDataReply)
doCreateStream == Handler(CreateStreamRequest, CreateStreamReply)
doOpenStream == Handler(OpenStreamRequest, OpenStreamReply)
\* The chunk callback returns the error of GetUnsafe without writing.
doGetNextStreamChunk ==
    Silent(Handler(GetNextStreamChunkRequest, GetNextStreamChunkReply))
doPushNextStreamChunk ==
    Handler(PushNextStreamChunkRequest, PushNextStreamChunkReply)
doPullNextStreamChunk ==
    Handler(PullNextStreamChunkRequest, PullNextStreamChunkReply)
doStopStream == Handler(StopStreamRequest, StopStreamReply)
doPutName == Handler(PutNameRequest, PutNameReply)
doGetName == Silent(Handler(GetNameRequest, GetNameReply))
doDropName == Handler(DropNameRequest, DropNameReply)
\* Deprecated: an error reply, whatever the request.
doMigrateObject ==
    [Handler(MigrateObjectRequest, MigrateObjectReply)
        EXCEPT !.reads = FALSE, !.answers = FALSE]
doClusterMeta == Handler(ClusterMetaRequest, ClusterMetaReply)
doInstanceStatus == Handler(InstanceStatusRequest, InstanceStatusReply)
doMakeArena == Handler(MakeArenaRequest, MakeArenaReply)
doFinalizeArena == Handler(FinalizeArenaRequest, FinalizeArenaReply)
doClear == Handler(ClearRequest, ClearReply)
doDebug ==
    [Handler(DebugRequest, DebugReply) EXCEPT !.reads = FALSE, !.fails = FALSE]
\* The error of CreateNewSession is answered by its callback.
doNewSession == Handler(NewSessionRequest, NewSessionReply)
\* Writes its reply, closes the session's server and returns true.
doDeleteSession ==
    [Handler(DeleteSessionRequest, DeleteSessionReply)
        EXCEPT !.reads = FALSE, !.fails = FALSE, !.stops = TRUE]
doCreateBufferByPlasma ==
    Handler(CreateBufferByPlasmaRequest, CreateBufferByPlasmaReply)
doGetBuffersByPlasma ==
    Handler(GetBuffersByPlasmaRequest, GetBuffersByPlasmaReply)
doSealBlob == Handler(SealRequest, SealReply)
doSealPlasmaBlob == Handler(PlasmaSealRequest, SealReply)
doPlasmaRelease == Handler(PlasmaReleaseRequest, PlasmaReleaseReply)
doPlasmaDelData == Handler(PlasmaDelDataRequest, PlasmaDelDataReply)
\* A move into the connection's own session returns false unanswered.
doMoveBuffersOwnership ==
    Silent(Handler(MoveBuffersOwnershipRequest, MoveBuffersOwnershipReply))
doRelease == Handler(ReleaseRequest, ReleaseReply)
doDelDataWithFeedbacks ==
    Handler(DelDataWithFeedbacksRequest, DelDataWithFeedbacksReply)
doIsInUse == Handler(IsInUseRequest, IsInUseReply)
doIsSpilled == Handler(IsSpilledRequest, IsSpilledReply)
doIncreaseReferenceCount ==
    Handler(IncreaseReferenceCountRequest, IncreaseReferenceCountReply)

\* The switch of processMessage: the handler of each CommandType, named by
\* the string ParseCommandType maps to it.  ExitRequest and the commands
\* it has no case for are not in its domain.
Dispatch ==
    ("register_request" :> doRegister) @@
    ("get_buffers_request" :> doGetBuffers) @@
    ("get_remote_buffers_request" :> doGetRemoteBuffers) @@
    ("create_buffer_request" :> doCreateBuffer) @@
    ("create_remote_buffer_request" :> doCreateRemoteBuffer) @@
    ("create_disk_buffer_request" :> doCreateDiskBuffer) @@
    ("drop_buffer_request" :> doDropBuffer) @@
    ("get_data_request" :> doGetData) @@
    ("list_data_request" :> doListData) @@
    ("create_data_request" :> doCreateData) @@
    ("persist_request" :> doPersist) @@
    ("if_persist_request" :> doIfPersist) @@
    ("exists_request" :> doExists) @@
    ("shallow_copy_request" :> doShallowCopy) @@
    ("del_data_request" :> doDelData) @@
    ("create_stream_request" :> doCreateStream) @@
    ("open_stream_request" :> doOpenStream) @@
    ("get_next_stream_chunk_request" :> doGetNextStreamChunk) @@
    ("push_next_stream_chunk_request" :> doPushNextStreamChunk) @@
    ("pull_next_stream_chunk_request" :> doPullNextStreamChunk) @@
    ("stop_stream_request" :> doStopStream) @@
    ("put_name_request" :> doPutName) @@
    ("get_name_request" :> doGetName) @@
    ("drop_name_request" :> doDropName) @@
    ("migrate_object_request" :> doMigrateObject) @@
    ("cluster_meta" :> doClusterMeta) @@
    ("instance_status_request" :> doInstanceStatus) @@
    ("make_arena_request" :> doMakeArena) @@
    ("finalize_arena_request" :> doFinalizeArena) @@
    ("clear_request" :> doClear) @@
    ("debug_command" :> doDebug) @@
    ("new_session_request" :> doNewSession) @@
    ("delete_session_request" :> doDeleteSession) @@
    ("create_buffer_by_plasma_request" :> doCreateBufferByPlasma) @@
    ("get_buffers_by_plasma_request" :> doGetBuffersByPlasma) @@
    ("seal_request" :> doSealBlob) @@
    ("plasma_seal_request" :> doSealPlasmaBlob) @@
    ("plasma_release_request" :> doPlasmaRelease) @@
    ("plasma_del_data_request" :> doPlasmaDelData) @@
    ("move_buffers_ownership_request" :> doMoveBuffersOwnership) @@
    ("release_request" :> doRelease) @@
    ("del_data_with_feedbacks_request" :> doDelDataWithFeedbacks) @@
    ("is_in_use_request" :> doIsInUse) @@
    ("increase_reference_count_request" :> doIncreaseReferenceCount) @@
    ("is_spilled_request" :> doIsSpilled) @@
    ("create_gpu_buffer_request" :> doCreateGPUBuffer) @@
    ("get_gpu_buffers_request" :> doGetGPUBuffers)

-----------------------------------------------------------------------------
(* The client functions of client.cc that talk to the server: the request *)
(* each writes and the reply it reads.                                     *)

Exchange(req, rep) == [request |-> req, reply |-> rep]

\* BasicIPCClient::Connect after connect_ipc_socket_retry.
Connect == Exchange(RegisterRequest, RegisterReply)
\* BasicIPCClient::Open, after its own Connect: new_session, then
\* Disconnect and Connect to the socket of the new session.
Open == Exchange(NewSessionRequest, NewSessionReply)
CreateDiskBlob == Exchange(CreateDiskBufferRequest, CreateDiskBufferReply)
GetNextStreamChunk ==
    Exchange(GetNextStreamChunkRequest, GetNextStreamChunkReply)
\* Client::migrateBuffers, on the RPC client's connection.
migrateBuffers == Exchange(GetRemoteBuffersRequest, GetBuffersReply)
CreateArena == Exchange(MakeArenaRequest, MakeArenaReply)
ReleaseArena == Exchange(FinalizeArenaRequest, FinalizeArenaReply)
CreateBuffer == Exchange(CreateBufferRequest, CreateBufferReply)
CreateGPUBuffer == Exchange(CreateGPUBufferRequest, GPUCreateBufferReply)
GetGPUBuffers == Exchange(GetGPUBuffersRequest, GetGPUBuffersReply)
GetBuffers == Exchange(GetBuffersRequest, GetBuffersReply)
PostSeal ==
    Exchange(IncreaseReferenceCountRequest, IncreaseReferenceCountReply)
OnRelease == Exchange(ReleaseRequest, ReleaseReply)
DelData == Exchange(DelDataWithFeedbacksRequest, DelDataWithFeedbacksReply)
GetBufferSizes == Exchange(GetBuffersRequest, GetBuffersReply)
DropBuffer == Exchange(DropBufferRequest, DropBufferReply)
Seal == Exchange(SealRequest, SealReply)
ShallowCopy ==
    Exchange(MoveBuffersOwnershipRequest, MoveBuffersOwnershipReply)
IsInUse == Exchange(IsInUseRequest, IsInUseReply)
IsSpilled == Exchange(IsSpilledRequest, IsSpilledReply)
PlasmaSeal == Exchange(PlasmaSealRequest, SealReply)
PlasmaCreateBuffer ==
    Exchange(CreateBufferByPlasmaRequest, CreateBufferByPlasmaReply)
GetPayloads == Exchange(GetBuffersByPlasmaRequest, GetBuffersByPlasmaReply)
PlasmaShallowCopy ==
    Exchange(MoveBuffersOwnershipRequest, MoveBuffersOwnershipReply)
PlasmaOnRelease == Exchange(PlasmaReleaseRequest, PlasmaReleaseReply)
PlasmaOnDelete == Exchange(PlasmaDelDataRequest, PlasmaDelDataReply)

\* The calls of ClientBase (client_base.cc, not in this tree): each
\* WriteXRequest with the ReadXReply of the same name; ListData reads the
\* get_data reply (protocols.cc has no ReadListDataReply).
BaseFunctions ==
    ("ClientBase::GetData" :> Exchange(GetDataRequest, GetDataReply)) @@
    ("ClientBase::ListData" :> Exchange(ListDataRequest, GetDataReply)) @@
    ("ClientBase::CreateData" :> Exchange(CreateDataRequest, CreateDataReply)) @@
    ("ClientBase::Persist" :> Exchange(PersistRequest, PersistReply)) @@
    ("ClientBase::IfPersist" :> Exchange(IfPersistRequest, IfPersistReply)) @@
    ("ClientBase::Exists" :> Exchange(ExistsRequest, ExistsReply)) @@
    ("ClientBase::ShallowCopy" :>
        Exchange(ShallowCopyRequest, ShallowCopyReply)) @@
    ("ClientBase::DelData" :> Exchange(DelDataRequest, DelDataReply)) @@
    ("ClientBase::PutName" :> Exchange(PutNameRequest, PutNameReply)) @@
    ("ClientBase::GetName" :> Exchange(GetNameRequest, GetNameReply)) @@
    ("ClientBase::DropName" :> Exchange(DropNameRequest, DropNameReply)) @@
    ("ClientBase::CreateStream" :>
        Exchange(CreateStreamRequest, CreateStreamReply)) @@
    ("ClientBase::OpenStream" :> Exchange(OpenStreamRequest, OpenStreamReply)) @@
    ("ClientBase::PushNextStreamChunk" :>
        Exchange(PushNextStreamChunkRequest, PushNextStreamChunkReply)) @@
    ("ClientBase::PullNextStreamChunk" :>
        Exchange(PullNextStreamChunkRequest, PullNextStreamChunkReply)) @@
    ("ClientBase::StopStream" :> Exchange(StopStreamRequest, StopStreamReply)) @@
    ("ClientBase::ClusterInfo" :>
        Exchange(ClusterMetaRequest, ClusterMetaReply)) @@
    ("ClientBase::InstanceStatus" :>
        Exchange(InstanceStatusRequest, InstanceStatusReply)) @@
    ("ClientBase::MigrateObject" :>
        Exchange(MigrateObjectRequest, MigrateObjectReply)) @@
    ("ClientBase::Clear" :> Exchange(ClearRequest, ClearReply)) @@
    ("ClientBase::Debug" :> Exchange(DebugRequest, DebugReply))

\* Every client function, with the request it writes and the reply it reads.
CallTable ==
    ("BasicIPCClient::Connect" :> Connect) @@
    ("BasicIPCClient::Open" :> Open) @@
    ("Client::CreateDiskBlob" :> CreateDiskBlob) @@
    ("Client::GetNextStreamChunk" :> GetNextStreamChunk) @@
    ("Client::migrateBuffers" :> migrateBuffers) @@
    ("Client::CreateArena" :> CreateArena) @@
    ("Client::ReleaseArena" :> ReleaseArena) @@
    ("Client::CreateBuffer" :> CreateBuffer) @@
    ("Client::CreateGPUBuffer" :> CreateGPUBuffer) @@
    ("Client::GetGPUBuffers" :> GetGPUBuffers) @@
    ("Client::GetBuffers" :> GetBuffers) @@
    ("Client::PostSeal" :> PostSeal) @@
    ("Client::OnRelease" :> OnRelease) @@
    ("Client::DelData" :> DelData) @@
    ("Client::GetBufferSizes" :> GetBufferSizes) @@
    ("Client::DropBuffer" :> DropBuffer) @@
    ("Client::Seal" :> Seal) @@
    ("Client::ShallowCopy" :> ShallowCopy) @@
    ("Client::IsInUse" :> IsInUse) @@
    ("Client::IsSpilled" :> IsSpilled) @@
    ("PlasmaClient::Seal" :> PlasmaSeal) @@
    ("PlasmaClient::CreateBuffer" :> PlasmaCreateBuffer) @@
    ("PlasmaClient::GetPayloads" :> GetPayloads) @@
    ("PlasmaClient::ShallowCopy" :> PlasmaShallowCopy) @@
    ("PlasmaClient::OnRelease" :> PlasmaOnRelease) @@
    ("PlasmaClient::OnDelete" :> PlasmaOnDelete) @@
    BaseFunctions


-----------------------------------------------------------------------------
(* The conversation.                                                      *)

Init ==
    /\ pc = "closed"
    /\ toServer = <<>>
    /\ toClient = <<>>
    /\ running = FALSE
    /\ dropped = FALSE
    /\ misread = {}

\* A reader that fails on what its peer's writer wrote: a type assertion
\* or a key looked up that is not there.
Misread(side, r) ==
    misread' = IF r \in {"AssertionFailed", "Undefined"}
               THEN misread \cup {side} ELSE misread

\* connect_ipc_socket_retry succeeds on a new socket, and Connect writes
\* register_request.  A connection the client left behind has read its
\* exit or its EOF and takes no further part.
ClientConnect ==
    /\ pc = "closed"
    /\ pc' = "BasicIPCClient::Connect"
    /\ toServer' = <<Write(RegisterRequest, 0)>>
    /\ toClient' = <<>>
    /\ running' = TRUE
    /\ dropped' = FALSE
    /\ UNCHANGED misread

\* Mutant: a client that writes its next request without waiting for the
\* reply of the last.
ClientCallPipelined(f, n) ==
    /\ pc # "closed"
    /\ pc' = f
    /\ toServer' = Append(toServer, Write(CallTable[f].request, n))
    /\ dropped' = FALSE
    /\ UNCHANGED <<toClient, running, misread>>

\* A client function writes its request (doWrite) and blocks in doRead.
ClientCall(f, n) ==
    /\ pc = "idle"
    /\ pc' = f
    /\ toServer' = Append(toServer, Write(CallTable[f].request, n))
    /\ dropped' = FALSE
    /\ UNCHANGED <<toClient, running, misread>>

\* ClientBase::Disconnect: exit_request, then the socket is closed.
ClientDisconnect ==
    /\ pc = "idle"
    /\ pc' = "closed"
    /\ toServer' = Append(toServer, Write(ExitRequest, 0))
    /\ toClient' = <<>>
    /\ UNCHANGED <<running, dropped, misread>>

\* The client process exits or is killed; what the server has not read
\* is still read, what it writes is lost.
ClientExit ==
    /\ pc # "closed"
    /\ pc' = "closed"
    /\ toClient' = <<>>
    /\ UNCHANGED <<toServer, running, dropped, misread>>

Reply(msg) ==
    toClient' = IF pc = "closed" THEN toClient ELSE Append(toClient, msg)

\* The handler h on the request m, after processMessage dispatched it.
Handle(h, m) ==
    LET r == IF h.reads THEN ReadRequest(h.request, m) ELSE "OK"
    IN  \/ /\ h.gpu /\ ~EnableGPU           \* #ifndef ENABLE_GPU return false
           /\ dropped' = TRUE
           /\ UNCHANGED <<toClient, running, misread>>
        \/ /\ ~(h.gpu /\ ~EnableGPU)
           /\ Misread("server", r)
           /\ IF r = "AssertionFailed"       \* TRY_READ_REQUEST
              THEN /\ Reply(WriteErrorReply(r))
                   /\ UNCHANGED <<running, dropped>>
              ELSE \/ /\ h.answers
                      /\ \E k \in ItemCounts(h.reply) : Reply(Write(h.reply, k))
                      /\ running' = ~h.stops
                      /\ UNCHANGED dropped
                   \/ /\ h.fails              \* RESPONSE_ON_ERROR and the like
                      /\ Reply(WriteErrorReply("Invalid"))
                      /\ UNCHANGED <<running, dropped>>
                   \/ /\ h.silent
                      /\ dropped' = TRUE
                      /\ UNCHANGED <<toClient, running>>

\* doReadBody and processMessage on the next message: exit_request stops
\* the connection (doStop), a command without a case is logged and
\* dropped, any other goes to its handler.
ServerRead ==
    /\ running
    /\ toServer # <<>>
    /\ toServer' = Tail(toServer)
    /\ LET m == Head(toServer)
           cmd == ParseCommandType(m["type"])
       IN  \/ /\ cmd = "exit_request"
              /\ running' = FALSE
              /\ UNCHANGED <<pc, toClient, dropped, misread>>
           \/ /\ cmd \notin DOMAIN Dispatch \cup {"exit_request"}
              /\ UNCHANGED <<pc, toClient, running, dropped, misread>>
           \/ /\ cmd \in DOMAIN Dispatch
              /\ Handle(Dispatch[cmd], m)
              /\ UNCHANGED pc

\* doReadBody on EOF, once the client has closed its end: doStop.
ServerEOF ==
    /\ running
    /\ pc = "closed"
    /\ toServer = <<>>
    /\ running' = FALSE
    /\ UNCHANGED <<pc, toServer, toClient, dropped, misread>>

\* The blocked client function reads the reply.  Connect and Open go on
\* after a good reply; every function returns its status.
ClientRead ==
    /\ pc \notin {"closed", "idle"}
    /\ toClient # <<>>
    /\ LET m == Head(toClient)
           r == ReadReply(CallTable[pc].reply, m)
       IN  /\ Misread(IF "code" \in DOMAIN m THEN "client_error" ELSE "client", r)
           /\ IF pc = "BasicIPCClient::Connect"
              THEN /\ pc' = IF r = "OK" THEN "idle" ELSE "closed"
                   /\ toClient' = Tail(toClient)
                   /\ UNCHANGED toServer
              ELSE IF pc = "BasicIPCClient::Open" /\ r = "OK"
              THEN /\ pc' = "closed"       \* Disconnect, then Connect
                   /\ toServer' = Append(toServer, Write(ExitRequest, 0))
                   /\ toClient' = <<>>
              ELSE /\ pc' = "idle"
                   /\ toClient' = Tail(toClient)
                   /\ UNCHANGED toServer
    /\ UNCHANGED <<running, dropped>>

Next ==
    \/ ClientConnect
    \/ \E f \in ClientCalls : \E n \in ItemCounts(CallTable[f].request) :
          ClientCall(f, n)
    \/ ClientDisconnect
    \/ ClientExit
    \/ ServerRead
    \/ ServerEOF
    \/ ClientRead

\* The server's io_context runs every ready handler, and a blocked doRead
\* returns once a reply is there; the client itself owes nothing.
Spec ==
    /\ Init /\ [][Next]_vars
    /\ WF_vars(ServerRead) /\ WF_vars(ServerEOF) /\ WF_vars(ClientRead)

-----------------------------------------------------------------------------

TypeOK ==
    /\ pc \in {"closed", "idle"} \cup DOMAIN CallTable
    /\ running \in BOOLEAN
    /\ dropped \in BOOLEAN
    /\ misread \subseteq {"server", "client", "client_error"}
    /\ \A i \in DOMAIN toServer : "type" \in DOMAIN toServer[i]
    /\ Len(toServer) <= 2 /\ Len(toClient) <= 1

\* Every reader accepts every message of its peer but an error reply:
\* each handler's Read*Request what the client function that calls it
\* writes, and each Read*Reply what its handler writes on success, for
\* every count of items.  No reader asserts a type its writer does not
\* write, or reads with the const operator[] a key its writer leaves out.
WireAgreement == misread \subseteq {"client_error"}

\* Every Read*Reply accepts the error replies its handler writes as well.
\* ReadSealReply, ReadIsInUseReply, ReadIsSpilledReply,
\* ReadIncreaseReferenceCountReply, ReadDelDataWithFeedbacksReply and the
\* GPU readers have no CHECK_IPC_ERROR, and their handlers do write error
\* replies with RESPONSE_ON_ERROR.
ErrorReplyAgreement == "client_error" \notin misread

\* A client function blocked in doRead returns, unless the handler of its
\* request took one of its paths that write nothing (a GPU request in a
\* build without GPU, a failed sync, a move into the own session, a
\* failed GetUnsafe): processMessage has a case for every request a
\* client writes.
CallReturns ==
    \A f \in DOMAIN CallTable : (pc = f) ~> (pc # f \/ dropped)

=============================================================================
