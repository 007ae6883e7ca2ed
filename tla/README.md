# TLA+ models of the vineyard IPC server and client

This directory holds TLA+ models of the C++ sources under `src/src/`:

- the IPC socket server, `server/async/socket_server.cc`;
- the server's request logic, `server/server/vineyard_server.cc`;
- the session runner, `server/server/vineyard_runner.cc`;
- the IPC client, `client/client.cc`;
- the wire protocol, `common/util/protocols.cc`;
- the flags, `server/util/spec_resolvers.cc`.

The models are checked with TLC. `PROJECT.json` lists:

- the components;
- every run and what it expects;
- a mutant for every property;
- the source lines each definition translates;
- the findings;
- the hazards of the code.

## The system

vineyardd is an in-memory object store. Clients on the same host share the server's memory instead of copying data.

- **Sessions.** `VineyardRunner` owns a root session and child sessions. Each session is a `VineyardServer` with its own bulk store, Default or Plasma, and its own `SocketServer` on an IPC socket. A client asks the root session for a child with `new_session`. `delete_session` closes a session's socket server. When the last connection of a closable session goes, `RemoveConnection` deletes the session.
- **Connections.** A `SocketConnection` serves one client socket on the asio thread pool.
  - It reads length-prefixed JSON requests (`doReadHeader`, `doReadBody`) and dispatches them in `processMessage`.
  - Handlers reply with `doWrite`. Some send file descriptors with `send_fd` in the write-completion callback.
  - `Stop` releases the connection's blob dependencies (Default store only), drops its streams and closes the socket.
- **Bulk store.** The bulk store (Default, or Plasma keyed by plasma ids) holds blobs: payloads carved from memory arenas, each arena being one fd. Its code is not under `src/`, so the models take it from `spec.md`:
  - a blob is created unsealed and is sealed once;
  - readers get sealed blobs (or any blob, when `unsafe` is set);
  - every connection holds dependencies on the blobs it uses;
  - sealed blobs nobody uses may be spilled.
- **Fd passing.** The server gives a connection an arena's fd only once. `used_fds_` remembers which fds the connection holds. Replies that reference new arenas are followed by one fd message per arena. The client's `SharedMemoryManager` keeps `mmap_table_`, keyed by the server's fd. It calls `recv_fd` exactly when it maps a key it does not know. Nothing else keeps the two sides in step.
- **Client.** `Client` (Default) and `PlasmaClient` serialise each call under `client_mutex_`: write a request, `doRead` the reply, receive fds and mmap them, then update the `UsageTracker` (`object_in_use_`, with reference counts). Release and delete go back to the server as `release` / `del_data` / `drop_buffer` requests.
- **Metadata.** `VineyardServer` answers metadata requests (GetData, names, persist, delete) against a metadata tree kept by a meta service that is not under `src/`. Requests that must wait are kept as deferred callbacks and re-tested in `ProcessDeferred` after each metadata change.

- **Streams.** A writer creates and opens a stream, gets chunk buffers from the stream store with `get_next_stream_chunk` and hands them over with `push_next_stream_chunk`; readers call `pull_next_stream_chunk`, which the store answers at once or keeps as a callback until a chunk, a `stop_stream` or a drop comes. `pull_next_stream_chunk` records the stream in the connection's `associated_streams_`, and `Stop` drops those streams. The stream store is not under `src/`.
- **Wire.** Every request and reply is a JSON object built by a `Write*` function of `protocols.cc` and read back by the matching `Read*`, which asserts its `"type"`. Most reply readers start with `CHECK_IPC_ERROR`, which turns an error reply (`"code"`, `"message"`) into a status. The readers of the seal, is_in_use, is_spilled, increase_reference_count and del_data_with_feedbacks replies, and the GPU readers, do not, although their handlers write error replies. `processMessage` maps the type to a `CommandType` with `ParseCommandType` and switches on it.

Modules: `Protocols` (the wire pairs), `IpcConversation` (one connection's messages), `FdPassing` (fd hand-off), `BlobLifecycle` (dependencies and usage counts), `Sessions` (runner, sessions, connections, moves), `Metadata` (metadata requests and deferred replies), `Streams` (stream handlers and the teardown of a connection's streams), and `MetaStore`, the abstract metadata plane that `Metadata` refines. They share no variables; each abstracts the others' state it does not need.

## Modules

### FdPassing (`FdPassing.tla`, instance `MCFdPassing.tla`)

This module models the arena fd hand-off between the server connections and the client `SharedMemoryManager`s.

Variables and what they stand for in the code:

| variable | code |
|---|---|
| `store` | the bulk store's payloads: arena (fd), size 0/1, sealed |
| `arenaKind` | allocator arenas: free, carved by `Create`, reserved by `MakeArena` |
| `usedFds[c]` | `SocketConnection::used_fds_` |
| `req[c]` | the request a client has written and the server not yet handled |
| `wire[c]` | the server-to-client byte stream: reply frames and fd messages, in order |
| `mmapTable[c]` | `SharedMemoryManager::mmap_table_`: server fd, and the fd `recv_fd` actually returned |
| `inUse[c]` | `UsageTracker::object_in_use_` (only the cached payload; reference counts are left to the blob lifecycle module) |
| `pc[c]` | the client call in progress; a call is blocking under `client_mutex_` |

Server actions (one per handler):

- `DoCreateBuffer`, `DoCreateBufferByPlasma`: `Create`, then `fd_to_send` from `data_size > 0` and `used_fds_`.
- `DoGetBuffers`: `GetUnsafe`, then the `fd_to_send` loop. The reply carries `fds`.
- `DoGetBuffersByPlasma`: the same fds, chosen in the callback, with no `fds` in the reply.
- `DoSealBlob`.
- `DoMakeArena`: no size test.

Each writes its reply and then its fd messages onto `wire` (`Respond` = `doWrite` + the write callback).

Client actions:

- `Call*`: the request part of a client function.
- `Return*`: its part after `doRead`. `Answered` requires a reply frame at the head of the stream. An fd message there means `doRead` would read its byte as the length header and block, so no return happens.
- The return includes:
  - the fd cross-checks, `PreMmap` against `"fd"` / `"fds"`, each with its early return;
  - the `Mmap` loop, a fold of `Mmap` over the payloads with memory;
  - `AddUsage`, or `SealUsage` for `Seal`.
- `Mmap` models the code as written: an unknown key takes the head fd message, and anything else caches a bad entry. `Mmap` tests the wrong variable, so a failed `recv_fd` is still cached.
- `CallGetPayloads` covers both `PlasmaClient::GetPayloads` and the first half of `PlasmaClient::GetBuffers`. Ids found sealed in the local cache (`FetchOnLocal`) are not asked. `ReturnPlasmaGetBuffers` maps the remote and local payloads in ascending id order, the order of the `std::map`.
- `ClientRestart`: disconnect or process exit followed by `Connect`. The connection's `used_fds_` goes away with the server-side connection, the client gets a new `SharedMemoryManager` and an empty usage cache. It is enabled whenever no request is in flight, including while a call is blocked.

Properties:

- `TypeOK`.
- `FdTableFaithful`: every `mmap_table_` entry holds the arena the server meant by that fd.
- `QuiescentAgreement`: when a call has returned, nothing the server sent remains on the stream, and `used_fds_` equals the key set of `mmap_table_`. This is the invariant the whole protocol rests on, because the next reply's fds are computed by each side from its own set.

Runs:

| run | cfg | calls | result |
|---|---|---|---|
| `fd_stores` | `MCFdPassingStores.cfg` | either store: all `Client` fd calls, or plasma create / GetBuffers / seal; 2 connections | pass (2.3M distinct states, 2 min) |
| `fd_getpayloads_desync` | `MCFdPassingPayloads.cfg` | all plasma calls | violation of `QuiescentAgreement` |

The violation run gives a finding. `PlasmaClient::GetPayloads` (client.cc:1135-1172) never receives the fds that `doGetBuffersByPlasma` sends (socket_server.cc:1277-1288). `Client::ShallowCopy` of a plasma object calls it directly on the source client. The trace has 6 states. The connections and blob ids are interchangeable, and which ones TLC prints depends on the order its workers explore states:

1. One connection creates a blob b in an arena A with `create_buffer_by_plasma`.
2. The other connection, c, calls GetPayloads({b}, unsafe).
3. The server records A in c's `used_fds_` and sends A's fd after the reply.
4. GetPayloads returns with the fd message still on the stream.

c's next call blocks in `doRead`. The server will never send arena A to c again, so c could not map it even after resynchronising. `MCFdPassingPlasmaAll.cfg` (all plasma calls, one connection, `TypeOK` and `FdTableFaithful`; 16k states, kept as a cfg and not as a run because of the limit of twelve runs) shows how far the damage goes: `FdTableFaithful` still holds there, because every call reads a reply before it receives an fd, so the stray message always meets a `doRead` first.

Bounds:

- 2 connections, 2 arenas, 2 blob ids plus the empty blob, sizes 0 and 1. This is the least that exercises:
  - a reply that references both a known arena and a new one;
  - two payloads sharing an arena (the dedup in both loops);
  - a second connection receiving an arena the first created;
  - arena exhaustion (`MakeArena` and `Create` errors);
  - zero-size payloads, which carry no fd.
- `MCFdPassingStores` starts in either store (`bulkStoreType`, fixed for the run, as the server's store type is) and then takes the steps of `FdPassing` instantiated with that store's client calls. Both instances share the variables.
- Connections are symmetric (`SYMMETRY`): connection ids carry no order in the code.
- Default-store states are compared without `inUse` (`StoresView`), because no default-store call reads `object_in_use_`.

Deadlock is checked in every run; `ClientRestart` is always possible when no request is in flight. No liveness is claimed in this module, so no fairness is assumed.

Not modelled here yet: `CreateDiskBuffer` and `GetNextStreamChunk`, which follow the CreateBuffer pattern, and `FinalizeArena`.

### BlobLifecycle (`BlobLifecycle.tla`, instance `MCBlobLifecycle.tla`)

This module models who keeps a blob alive. The server keeps a set of dependent connections per blob, and each client keeps its own reference counts in its `UsageTracker`. The spiller takes any sealed blob with no dependency, so these two records must agree.

| variable | code |
|---|---|
| `store` | bulk store, per blob id: `sealed`, `spilled`, dependency set `deps`, and `gen`, the incarnation (ids come from addresses and are reused) |
| `nextGen` | blobs created so far |
| `conn[c]`, `nextConnId` | `SocketConnection::getConnId()`, `SocketServer::next_conn_id_` |
| `tracker[c]` | `UsageTracker::object_in_use_`: `ref_cnt`, the payload copy's `is_sealed`, and the incarnation it was copied from |
| `req[c]`, `reply[c]`, `pc[c]` | the request in flight, the reply not yet read, and the client call in progress |
| `receiving[w]` | the blob `doCreateRemoteBuffer` is filling for remote writer `w` |

Server actions:

- `DoCreateBuffer`: `Create`, or a `NotEnoughMemory` error.
- `DoSealBlob`: `Seal`, then `AddDependency`.
- `DoGetBuffers`: `GetUnsafe` with reload of spilled payloads (or its failure), then `AddDependency` of the sealed ids.
- `DoRelease`: `Release` of the connection's dependency.
- `DoDropBuffer`: `OnDelete`, regardless of references.
- `DoCreateRemoteBuffer`: `Create` and `Seal`. Then one of `RecvRemoteDone` or `RecvRemoteFailed`; the latter is the cleanup `Delete` by id.
- `Spill`: the spiller.

The plasma handlers (`doCreateBufferByPlasma`, `doSealPlasmaBlob`, `doPlasmaRelease`, `doPlasmaDelData`) have the same shape with plasma ids; `StoreType` only changes `Stop`.

Client actions are again split into request and return:

- `CreateBuffer`: `AddUsage`. A known id only counts up, and its payload copy is kept.
- `Seal`: `SealUsage`.
- `GetBuffers`: `AddUsage` of every payload. The return may also fail after a good reply, the fd cross-check or `Mmap` of `FdPassing`.
- `Release`: `ReleaseLocal` when the count stays positive. At zero, `CallRelease` does `DeleteUsage` and sends `release_request`.
- `DropBuffer`: of a buffer the client holds, then `DeleteUsage`.
- `ClientRestart`: `Stop`, which releases the connection for the default store only, then a new connection with an empty tracker.

The bulk store is not under `src/`. Its operations (`Create`, `AddDependency`, `GetUnsafeOk`, `Reload`, `ReleaseConnection`, `Remove`, `Spill`) follow `spec.md` §3-§4.2: ids derived from addresses, idempotent `Seal`, and only sealed ids bound by `AddDependency`.

Properties:

- `TypeOK`. The reference count is bounded by `MaxRef`, and a count of zero is a type error, because the entry must go at zero.
- `HeldWhileUsed`: while a client counts a sealed blob, the store holds a dependency of its current connection on that incarnation.
- `NoDependencyOfClosedConnection`: every dependency belongs to a live connection. With the default store this is `ReleaseConnection` in `Stop`, so no run checks it. With the plasma store it fails; see the further counterexamples.
- `ResidentWhileUsed`: while a client counts a sealed blob, it is not spilled.
- `DependencyHasUsage`: a client between calls has a dependency only on blobs its tracker counts.
- `NoSpillWhileReceiving`: a blob being received is not spilled.
- `ResidentWhileMapped`: as `ResidentWhileUsed`, for blobs read with `unsafe` too. It is not in a run; see the hazards.

Runs:

| run | cfg | result |
|---|---|---|
| `lifecycle_default` | `MCBlobLifecycleDefault.cfg`: 2 clients and a remote writer, default store | pass (607k states, 15 s) |
| `lifecycle_remote_spill` | `MCBlobLifecycleRemoteSpill.cfg`: remote writer | `NoSpillWhileReceiving` violated in 2 steps: remote create, then spill (socket_server.cc:611) |

Bounds:

- 2 blob ids. The default run allows 2 creations and the violation runs 3. An id freed by a drop or a failed remote receive may be handed out again, so reuse happens within 2 creations.
- Reference counts up to 2, so that `ReleaseLocal` and the zero crossing both happen.
- One reconnection in the two-client run: connection ids 0..2.
- `unsafe = false` in every run (see the hazard list).
- Clients and blob ids are symmetric.

Deadlock is checked: an error reply or a `NotEnoughMemory` is always possible, so no call hangs on a bound.

### Sessions (`Sessions.tla`, instance `MCSessions.tla`)

This module models `VineyardRunner` with its root and child sessions, the `ready_` bits of each `VineyardServer`, and the connection set of each `SocketServer`. It covers the three requests that create, delete and cross sessions: `new_session`, `delete_session` and `move_buffers_ownership`. All sessions share the runner's `context_`, so one handler is one step.

| variable | code |
|---|---|
| `sessions`, `used` | `VineyardRunner::sessions_`, and the ids `GenerateSessionID` handed out |
| `ready`, `listening` | `VineyardServer::ready_` (meta, bulk, ipc, rpc), and whether its IPC server accepts |
| `closable`, `creator` | `SocketServer::closable_`, and the connection a child's `callback_` answers |
| `conn[c]` | the client's connection: its session, `running_`, membership in `connections_`, and the blobs its tracker holds |
| `req[c]`, `waiting[c]` | the request read and not yet handled; the client blocked in `doRead` |
| `context` | running, `context_.stop()`ed, or aborted (`VINEYARD_CHECK_OK`) |
| `store` | per blob: the session whose bulk store holds it, its dependent connections, and its extra `ref_cnt` |

Actions:

- Clients: `Accept`, `CallNewSession` (`BasicIPCClient::Open`), `CallDeleteSession`, `CallMoveBuffersOwnership` (`Client::ShallowCopy`), `CreateAndSeal`, `DoGetBuffers`, `DoRelease`, `Disconnect`, `Closed`.
- Server:
  - `DoNewSession` is `CreateNewSession` and `Serve`, or `Abort`.
  - `MetaReady`, `BackendReady` and `IPCAndRPCReady` follow the `ready_` bits. `BackendReady` either listens or, when the child's socket is taken (`IPCBindFails`), answers with an error and stops `context_`.
  - `DoDeleteSession` sets `closable_` and then runs `StopAndRemove`.
  - `DoMoveBuffersOwnership` runs `MoveBuffers`: `RemoveOwnership` moves the ids with no dependency and no reference, then the FIXME loop adds a reference to every id of the mapping.
  - `DoStop` handles EOF; `RunnerStop` is `VineyardRunner::Stop`.

Properties:

- `TypeOK`.
- `ClosableSessionHasMembers`: a closable session that is still registered has a connection. `RemoveConnection` must delete the session when the last one goes, whatever order they leave in.
- `ReplyOrCloseUnlessStopped`: every blocked client is eventually answered or sees its socket closed, unless `context_` was stopped.
- `ReplyOrClose` (the same without the exception), `RootSessionAlive`, `MoveLeavesNothingInSource` and `MovePinsOnlyMoved`: see the runs and the further counterexamples.

Fairness: weak fairness of every server handler (`ServerStep(c)`), of `MetaReady(s)` and of a client reading EOF (`Closed(c)`). The asio worker pool runs every handler whose message has arrived and every posted ready callback. Client calls and `RunnerStop` (a signal) are not fair. Deadlock is not checked, because `RunnerStop` and an abort end the process.

Runs:

| run | cfg | result |
|---|---|---|
| `sessions` | `MCSessions.cfg`: 2 clients, root and 2 child ids, 1 blob, `IPCBindFails`, `DeleteRoot` | pass (291k states, about 30 s) |
| `sessions_bind_failure` | `MCSessionsBindFail.cfg` | `ReplyOrClose` violated: one child whose socket cannot be bound stops the context every session shares (vineyard_server.cc:158), and the other clients block forever with their sockets open |

Bounds: two child ids let one child be created while another is deleted or failing. One blob with `MaxPins = 1` is enough for a move to meet a held blob and an extra reference. `IdsLeft` stops `new_session` calls when no id is left; without it the liveness property would fail only because the id pool ran dry.

### Metadata (`Metadata.tla`, instance `MCMetadata.tla`)

This module models the metadata requests of one session: `get_data`, `list_data`, `create_data`, `persist`, `if_persist`, `exists`, `shallow_copy`, `del_data` (and `del_data_with_feedbacks`), `put_name`, `get_name`, `drop_name`, plus `create_buffer`, which is what puts a blob in the bulk store. It also models `VineyardServer::deferred_`.

A handler reads its request and calls the `VineyardServer` method. That method either answers at once (a failed check, through `RESPONSE_ON_ERROR` or the callback), or queues a callback with the meta service or on `context_`, and the connection reads on. The callback is a later step of its own (`RunTask`), run on the metadata as it is then. The meta service is not under `src/`. From `spec.md` §5 it is taken that callbacks run one at a time and that every change is applied and then followed by `ProcessDeferred` on the new tree (`Commit`).

| variable | code |
|---|---|
| `data`, `persisted` | the objects of the metadata tree, and those with `persist` set |
| `names`, `objname` | the `names` index, and each object's `__name` field |
| `used`, `blobs` | ids `GenerateObjectID` returned; blob ids the bulk store holds |
| `open`, `running` | the client's socket; `SocketConnection::running_` (the `alive_fn`) |
| `req`, `inflight`, `task` | the request on the wire; the call the client is blocked in; the connection's queued callback |
| `deferred` | `deferred_`, a sequence of (connection, request) |

Per-request actions:

- Handlers `Do*`: each one has the checks of its `VineyardServer` method. These are: a create_data tree without `typename`, with `vineyard::Blob`, or without `instance_id`; persist or shallow copy of a blob; a fast-path delete of non-blobs.
- Callbacks, one per `VineyardServer` method:
  - `GetData` and `GetName` evaluate now, or append to `deferred_` (`EvalOrDefer`). Their synced read may fail (`SyncFailure`).
  - The updates `CreateData`, `Persist`, `ShallowCopy`, `DelData`, `PutName` and `DropName` go through `Commit`.
- `ProcessDeferred` keeps the requests whose connection runs and whose `test_task` fails, and answers the others that are alive.

Properties:

- `TypeOK`. It includes that a persisted object exists, since `persist` is a field of the object's subtree.
- `NoSatisfiedMetaRequestDeferred`: no live get_name, and no live get_data of objects only, stays deferred while its test holds. Every change must wake what it satisfies, on the tree after the change, and the test-and-append of a waiting read must not race a change.
- `AnsweredUnlessSyncRead`: under fairness, every call that is not a synced read returns or is parked in `deferred_`. This covers every handler's and callback's paths, error paths included.
- `MetaStoreSpec`: `Metadata` implements the abstract specification `MetaStore.tla`. In it an object id only moves forward, through fresh, transient, persistent and retired; a transient object may be retired directly. An id handed out to a request that failed is retired directly. A name binds only a persisted object, and deleting an object leaves the names index alone. The mapping `AbsObjects` reads an object's state off `data`, `persisted`, `used` and the queued callbacks. An id is fresh while the create_data or shallow_copy callback that will create it is queued. The check catches a reused id, a name bound to an object deleted while the put_name callback was queued, and a delete of something not live.
- `NoSatisfiedRequestDeferred` and `RequestAnswered` are the same two without the exceptions. Both are violated; see the runs.
- `DeadRequestCollected` and `NameBackReference`: see the further counterexamples.

Fairness: weak fairness of each connection's handler (`Handle(c)`), of running its queued callback (`RunTask(c)`), and of the read loop reaching EOF (`ReadEOF(c)`). These are the asio workers and the meta service thread, which run every ready handler and callback. Client calls and disconnects are not fair. Deadlock is not checked: once every client has closed its socket the server idles, which is the system at rest.

Runs:

| run | cfg | result |
|---|---|---|
| `metadata` | `MCMetadata.cfg`: 2 clients, 2 object ids, 1 blob id, 1 name, `MetaSyncFails` | pass (943k states, under 2 minutes), `MetaStoreSpec` included |
| `metadata_sync_failure` | `MCMetadataSyncFail.cfg` | `RequestAnswered` violated: a `get_name` whose etcd sync fails is never answered, because the GetName callback returns the status without calling back (vineyard_server.cc:731, and 303 for GetData) |

Bounds:

- Two object ids let a second `create_data` or `shallow_copy` make an object that a name can be moved to. `IdsLeft` bounds the calls that generate ids.
- One blob id is enough for a wait on a blob, a fast-path delete and a full bulk store.
- One name is enough for a name to be put, dropped and waited for by both clients.
- `MCRequests` reads o1 and b1, the ids every update touches.

### IpcConversation (`Protocols.tla`, `IpcConversation.tla`, instance `MCIpcConversation.tla`)

`Protocols` is the wire encoding. A JSON object is a function from its keys to values. Only `"type"`, the `"code"` of an error reply and the `"num"` of a message with numbered items (`"0"`, `"1"`, ...) have values the model tells apart. Each Write/Read pair of `protocols.cc` is one record, in file order:

- what the writer writes: its type and keys, and whether it writes `num` and the items;
- what the reader does: the type it asserts (`check`), the keys it reads with `root[k]` rather than `value`/`contains` (`needs`), whether it loops over the items, and whether it starts with `CHECK_IPC_ERROR`.

`Parse` is a reader on an object. A failing `RETURN_ON_ASSERT` gives `AssertionFailed`; a key looked up with the const `operator[]` that is not there gives `Undefined`, nlohmann's undefined behaviour. `ParseCommandType` is the string table of `protocols.cc:39-149`.

`IpcConversation` is one client and its `SocketConnection`:

| variable | code |
|---|---|
| `pc` | the client function blocked in `doRead`, or idle / closed |
| `toServer`, `toClient` | the two directions of the socket |
| `running` | `running_` |
| `dropped` | a handler ended the current request without writing |
| `misread` | the readers that met a message they could not read: the server, the client, or the client on an error reply |

The handlers are a table, one definition per `do*` function: request and reply pair, and the ways it can end (reply, error reply after `RESPONSE_ON_ERROR`, no reply). `Dispatch` is the switch of `processMessage`, keyed by the strings `ParseCommandType` accepts. The client functions are a table of the pair each one writes and reads: `client.cc`, and the `ClientBase` calls, which are not in this tree and are paired by name.

Actions:

- `ClientConnect` is `BasicIPCClient::Connect`.
- `ClientCall(f, n)` is a client function writing its request with `n` items.
- `ClientDisconnect` is `exit_request`.
- `ClientExit` is the process ending.
- `ServerRead` is `doReadBody` and `processMessage`: `exit_request` stops the connection; an unknown command is logged and dropped; any other command goes to its handler.
- `ServerEOF` is `doReadHeader` meeting EOF.
- `ClientRead` is the blocked function reading its reply. `Open` on success disconnects and reconnects.

Properties:

- `TypeOK`.
- `WireAgreement`: no reader fails on a message its peer writes, except on an error reply. Each handler's `Read*Request` accepts what the client function that calls it writes, for every count of items, and each `Read*Reply` accepts what its handler writes on success. This includes the replies read by another pair's reader (`doGetRemoteBuffers` answers with `WriteGetBuffersReply`).
- `ErrorReplyAgreement`: the same for error replies. It is violated; see below.
- `CallReturns`: a blocked client function returns unless its handler took one of its documented no-reply paths. These paths are GPU without `ENABLE_GPU`, the failed sync of GetData/GetName/Exists, a move to the own session, and a failed `GetUnsafe` in the chunk callback.

Fairness: weak fairness of `ServerRead`, `ServerEOF` and `ClientRead`. The asio workers run every ready read, and a blocked `doRead` returns once bytes are there. Client calls, disconnects and exits are not fair.

Runs:

| run | cfg | result |
|---|---|---|
| `ipc_conversation` | `MCIpcConversation.cfg`: every client function but `PlasmaClient::OnDelete`, no GPU, up to 2 items | pass (430 states, 20k in the liveness graph, 1 s) |
| `ipc_plasma_delete` | `MCIpcConversationPlasmaDelete.cfg`: `PlasmaClient::OnDelete` | `CallReturns` violated in 6 states: `WritePlasmaDelDataRequest` writes `"plasma_delete_data_request"` (protocols.cc:1536), `ParseCommandType` knows only `"plasma_del_data_request"` (128), so `processMessage` drops it and the client blocks forever |

Bounds: two items are enough for a reader's loop to see an empty list, one item and a later index. Only one request is in flight at a time, because every client function waits for its reply under `client_mutex_`, so one client suffices.

### Streams (`Streams.tla`, instance `MCStreams.tla`)

The stream handlers of `SocketConnection` over the stream store's interface. The store is not in this repository; it is modelled from `spec.md` (§6.5, and "Cancellation and timeouts"): each side of a stream opens once, `Get` allocates a chunk within the memory reserved for streams (`MaxChunks`, standing for `stream_threshold`), `Push` hands a chunk to one waiting `Pull` callback or queues it, `Pull` answers from the queue, fails a stopped and drained stream, or waits, and `Stop` and `Drop` fail the waiting callbacks.

| variable | code |
|---|---|
| `running`, `assoc` | `running_`, `associated_streams_` of each connection |
| `client`, `req`, `rep` | the blocking `ClientBase` call of each client, its request and its reply on the socket |
| `streams`, `pending`, `allocated` | the stream store: state, opened sides and queue; kept Pull callbacks; chunks handed out |
| `held` | the chunk a writer got and will push |
| `writerOf`, `dropped`, `created` | ghosts: the connection that opened a stream for writing, the dropped ids, the ids CreateStream was called on |

Actions: `ClientCall` (any stream call; each id is created once, as stream ids are fresh object ids, and a push pushes the chunk the last get returned), `Handle` (`processMessage` and the handler, one definition per `do*Stream*`), `ClientRead`, `ClientDisconnect` (at any time, also while blocked), and `ServerEOF` (`doReadHeader`/`doReadBody` at EOF, then `Stop`: `running_` cleared, the associated streams dropped, their callbacks fired). A callback fired for a stopped connection writes to a closed socket (`Fire`).

Properties:

- `TypeOK`.
- `NoCallbackOfStoppedConnection`: the store keeps no Pull callback of a stopped connection. The callback captures `self`, so a callback left behind would keep the connection alive and answer a closed socket.
- `StopWakesReaders`: a reader blocked in Pull on a stream that is stopped, failed or dropped is eventually answered, whether its request was handled before or after the stop.
- `WriterExitWakesReaders`: what `spec.md` promises, namely that once the writer's connection is stopped a reader blocked on its stream is answered.

Fairness: weak fairness of `Handle`, `ServerEOF` and `ClientRead` for each connection. The asio loop reads every open connection, and a blocked `doRead` returns once its reply is written. Client calls and disconnects are not fair.

Runs:

| run | cfg | result |
|---|---|---|
| `streams` | `MCStreams.cfg` | pass (1.05M distinct states, 1 min) |
| `streams_writer_exit` | `MCStreamsWriterExit.cfg` | `WriterExitWakesReaders` violated (10 to 13 states, depending on the order TLC's workers explore) |

The violation is a finding. Only `doPullNextStreamChunk` adds to `associated_streams_` (socket_server.cc:961), so `Stop` (78) drops only the streams the closing connection pulled from. In the trace, one connection (the writer) creates s1 and opens it for writing. The other (the reader) opens s1 for reading, and its pull is deferred. The writer closes without `stop_stream`, and `Stop` drops nothing, so the reader waits forever. Which of c1 and c2 takes which role depends on the order TLC's workers explore. A reader's close, by contrast, drops the stream for everyone: the other reader is woken with an error and the writer's next push fails. `StopWakesReaders` checks that this wake-up always happens.

Bounds: 2 connections, 1 stream, 2 chunks. `Pull` does not check which side opened the stream, so both connections can wait on it, and one's close drops the stream the other waits on. Two chunks let one chunk be queued while the next goes to a waiting reader. No symmetry is used, because the run checks liveness. Deadlock is not checked: when every client has closed, the server has nothing left to do.

## Further counterexamples

`MCFdPassingPlasmaAll.cfg` is the one further passing check (see FdPassing). These properties are stated in the modules and their counterexamples were found with the cfg named. They are not kept as runs, because `PROJECT.json` holds at most twelve runs; the hazards in `PROJECT.json` point here.

- `BlobLifecycle!NoDependencyOfClosedConnection` with `StoreType = "Plasma"`: violated in 7 states. `SocketConnection::Stop` releases dependencies only for kDefault (socket_server.cc:68).
- `BlobLifecycle!DependencyHasUsage` with `MCBlobLifecycleDefault.cfg`: violated in 9 states. `GetBuffers` fails on the client after the server bound the dependency (client.cc:712-735).
- `Sessions!ReplyOrClose` with `SelfMove = TRUE`: violated in 10 states. A move naming the connection's own session is never answered (socket_server.cc:1350).
- `Sessions!RootSessionAlive` with `DeleteRoot = TRUE`: violated in 4 states. `delete_session` on a root connection deletes the root session when its last connection leaves (socket_server.cc:1209).
- `Sessions!MoveLeavesNothingInSource` with all three flags FALSE: violated in 9 states. A move is answered OK although a blob still depended on in the source stayed there. spec.md §9 says no key of the mapping remains in the source (socket_server.cc:1394).
- `Sessions!MovePinsOnlyMoved` with all flags FALSE: violated in 9 states. The FIXME loop gives a blob left in the source a reference nothing removes (socket_server.cc:1403).
- `BlobLifecycle!ResidentWhileUsed` with `MCBlobLifecycleStaleSeal.cfg`: violated. A seal of a dropped and re-created id seals another client's new blob, whose memory the spiller then takes before its owner's own seal returns (socket_server.cc:1296).
- `Metadata!NoSatisfiedRequestDeferred` with `MCMetadataBlobWait.cfg`: violated in 6 states. c1's `get_data({b1}, wait)` is deferred, c2's `create_buffer` puts b1 in the bulk store, and no `ProcessDeferred` runs (vineyard_server.cc:243).
- `IpcConversation!ErrorReplyAgreement` with `MCIpcConversationErrorReply.cfg`: violated in 7 states. After `Connect`, `Client::PostSeal` writes `increase_reference_count_request`. `doIncreaseReferenceCount` fails in `AddDependency` and writes an error reply with `RESPONSE_ON_ERROR` (socket_server.cc:1485). `ReadIncreaseReferenceCountReply` (protocols.cc:1763-1766) has no `CHECK_IPC_ERROR` and evaluates `root["type"]` on an object without `"type"`: the const `operator[]` of nlohmann::json on a missing key is undefined behaviour. `ReadSealReply` (1506), `ReadDelDataWithFeedbacksReply` (1683), `ReadIsInUseReply` (1710) and `ReadIsSpilledReply` (1737) read the error replies of their handlers the same way (socket_server.cc:1296, 1445, 1462, 1474).
- `IpcConversation!ErrorReplyAgreement` with `MCIpcConversationErrorReply.cfg` and `EnableGPU = TRUE`: violated. `ReadGetGPUBuffersReply` and `ReadGPUCreateBufferReply` do not start with `CHECK_IPC_ERROR`, so an error reply is read with `operator[]` on keys it lacks (protocols.cc:423, 476).
- `Metadata!DeadRequestCollected` with `MCMetadata.cfg`: violated in 9 states. A client closes its socket while its `get_name` is deferred; no metadata change follows, so the dead request stays in `deferred_` (vineyard_server.cc:815). spec.md scenario 6 says it is cancelled without leaking.
- `Metadata!NameBackReference` with `MCMetadata.cfg`, after adding `[op : {"persist"}, id : {o2}]` to `MCRequests`: violated in 19 states. `put_name` rebinds a name to a second persisted object and the first keeps its `__name` (vineyard_server.cc:684, the TODO at 654).

## Plan

What is still to do, in order:

1. **BlobLifecycle**:
   - `doIncreaseReferenceCount` with `Client::PostSeal`;
   - `doIsInUse` / `doIsSpilled`;
   - the plasma client's `FetchOnLocal` path;
   - an abstract blob-lifecycle specification (unsealed, sealed, spilled, deleted, with holders), refined by `BlobLifecycle` through a refinement mapping and checked as a PROPERTY.
2. **FdPassing**: `CreateDiskBuffer`, `GetNextStreamChunk` (with its no-reply error path), `GetBufferSizes`.
3. **Connections**: `doRegister` (session lookup and the store type it reports) and the 64 MB header limit.
4. **Metadata**:
   - the `ENSURE_VINEYARDD_READY` guard, which is always true in the served session this module starts from;
   - a composition with Sessions, where a deleted session's deferred requests go with its server.

Not modelled, with reasons (see `PROJECT.json` components):

- the JSON text of `protocols.cc` and the values of its keys: `Protocols` keeps the keys, the type, the error code and the item count, which is what a reader can fail on;
- a foreign client that writes objects no writer of `protocols.cc` writes, such as one without `"type"`, which `processMessage` reads outside its try (socket_server.cc:200);
- the gflags of `spec_resolvers.cc`: configuration;
- GPU buffers beyond their messages: compiled out without `ENABLE_GPU`, and CUDA IPC handles are out of TLC's reach;
- the stream store's internals, of which `Streams` keeps only the interface the handlers call;
- `parseMemoryLimit` of `spec_resolvers.cc`, pure parsing of the `--size` flag. Its comment reads K/M/G as decimal and Ki/Mi/Gi as powers of two, but the code switches on the first suffix character only, so `1G` and `1Gi` are both 2^30. A negative or too-large size makes the `static_cast<size_t>` of a double undefined. Neither is about an interleaving, and a unit test reaches both;
- the meta service and its tree (`meta_tree`), the Kubectl sync of Persist, and the bulk allocator internals: not under `src/`;
- `ListAllData`, `ClusterInfo`, `InstanceStatus`: read-only;
- the unlocked read of `segments_` in `IsSharedMemory`: a data race, recorded as a hazard.
