----------------------------- MODULE Protocols -----------------------------
(***************************************************************************)
(* The wire encoding of common/util/protocols.cc: what every Write*Request *)
(* and Write*Reply puts in the JSON object it encodes, and what the        *)
(* matching Read* function asserts and reads back out of it.              *)
(*                                                                         *)
(* A JSON object is a function from its keys to values.  The model keeps  *)
(* the "type" tag, the set of keys, the "code" of an error reply and the   *)
(* "num" of a message that carries numbered items ("0", "1", ...); the     *)
(* value of every other key is Val.                                        *)
(*                                                                         *)
(* The two functions of a pair are one record:                             *)
(*   type, keys, items  what WriteX writes: root["type"], the other keys,  *)
(*                      and whether it writes "num" and the items;         *)
(*   check, needs, reads, code  what ReadX does: the type it asserts with  *)
(*                      RETURN_ON_ASSERT (NoCheck: none), the keys it      *)
(*                      reads without a default (root[k], not root.value   *)
(*                      or root.contains), whether it loops over the items *)
(*                      "0" .. num - 1, and whether it starts with         *)
(*                      CHECK_IPC_ERROR.                                   *)
(* The Write and Read functions of every pair use the same type literal.   *)
(***************************************************************************)
EXTENDS Naturals, FiniteSets, TLC

\* The value of a key the model does not track.
Val == "v"

\* The "type" of a reader that asserts none.
NoCheck == "none"

\* The keys std::to_string(0) .. std::to_string(n - 1) of n items.
ItemKeys(n) == {ToString(i) : i \in 0..(n - 1)}

Msg(t, ks, needs) ==
    [type |-> t, keys |-> ks, items |-> FALSE,
     check |-> t, needs |-> needs, reads |-> FALSE, code |-> FALSE]

\* A reply pair: its reader starts with CHECK_IPC_ERROR.
Rep(t, ks, needs) == [Msg(t, ks, needs) EXCEPT !.code = TRUE]

\* A pair whose writer writes root["num"] and the items, and whose reader
\* loops over the items.
Items(p) == [p EXCEPT !.items = TRUE, !.reads = TRUE]

\* encode_msg of what WriteX builds, with n items.
Write(p, n) ==
    LET ks == {"type"} \cup p.keys \cup
              (IF p.items THEN {"num"} \cup ItemKeys(n) ELSE {})
    IN  [k \in ks |-> IF k = "type" THEN p.type
                      ELSE IF k = "num" THEN n ELSE Val]

\* WriteErrorReply: Status::ToJSON, the "code" and "message" of a status.
WriteErrorReply(code) == ("code" :> code) @@ ("message" :> Val)

\* The number of items a reader loops over (root["num"], or
\* root.value("num", 0) when "num" is not among the keys it needs).
NumOf(root) == IF "num" \in DOMAIN root THEN root["num"] ELSE 0

\* Mutant: the reader loops over the items 0 .. num, one too many.
KeysReadInclusive(p, root) ==
    p.needs \cup (IF p.reads THEN ItemKeys(NumOf(root) + 1) ELSE {})

KeysRead(p, root) ==
    p.needs \cup (IF p.reads THEN ItemKeys(NumOf(root)) ELSE {})

\* ReadX on root, after CHECK_IPC_ERROR: RETURN_ON_ASSERT of the type,
\* then the get<>() of every key read without a default.  A key that is
\* not there is looked up with the const operator[] of nlohmann::json,
\* which is undefined behaviour: "Undefined".
Parse(p, root) ==
    IF p.check # NoCheck /\ "type" \notin DOMAIN root THEN "Undefined"
    ELSE IF p.check # NoCheck /\ root["type"] # p.check THEN "AssertionFailed"
    ELSE IF ~(KeysRead(p, root) \subseteq DOMAIN root) THEN "Undefined"
    ELSE "OK"

\* A Read*Request called through TRY_READ_REQUEST.
ReadRequest(p, root) == Parse(p, root)

\* A Read*Reply: CHECK_IPC_ERROR returns the status of an error reply.
ReadReply(p, root) ==
    IF p.code /\ "code" \in DOMAIN root THEN root["code"] ELSE Parse(p, root)

-----------------------------------------------------------------------------
(* ParseCommandType: the command a "type" string names.  A CommandType is *)
(* identified with the string that parses to it.                          *)

CommandTypes ==
    {"exit_request", "exit_reply", "register_request", "register_reply",
     "get_data_request", "get_data_reply", "create_data_request",
     "persist_request", "exists_request", "del_data_request", "cluster_meta",
     "list_data_request", "create_buffer_request",
     "create_disk_buffer_request", "get_buffers_request",
     "create_stream_request", "get_next_stream_chunk_request",
     "push_next_stream_chunk_request", "pull_next_stream_chunk_request",
     "stop_stream_request", "put_name_request", "get_name_request",
     "drop_name_request", "if_persist_request", "instance_status_request",
     "shallow_copy_request", "open_stream_request", "migrate_object_request",
     "create_remote_buffer_request", "get_remote_buffers_request",
     "drop_buffer_request", "make_arena_request", "finalize_arena_request",
     "clear_request", "debug_command", "new_session_request",
     "new_session_reply", "delete_session_request", "delete_session_reply",
     "create_buffer_by_plasma_request", "get_buffers_by_plasma_request",
     "seal_request", "plasma_seal_request", "plasma_release_request",
     "plasma_del_data_request", "move_buffers_ownership_request",
     "release_request", "del_data_with_feedbacks_request",
     "is_in_use_request", "increase_reference_count_request",
     "is_spilled_request", "create_gpu_buffer_request",
     "get_gpu_buffers_request"}

\* Mutant: ParseCommandType without its release_request case.
ParseCommandTypeNoRelease(t) ==
    IF t \in CommandTypes \ {"release_request"} THEN t ELSE "NullCommand"

ParseCommandType(t) == IF t \in CommandTypes THEN t ELSE "NullCommand"


-----------------------------------------------------------------------------
(* The pairs, in the order of protocols.cc.                               *)

RegisterRequest == Msg("register_request", {"version", "store_type"}, {})
RegisterReply ==
    Rep("register_reply", {"ipc_socket", "rpc_endpoint", "instance_id",
                           "session_id", "version", "store_match"},
        {"ipc_socket", "rpc_endpoint", "instance_id", "session_id",
         "store_match"})
\* No ReadExitRequest: processMessage stops on the type alone.
ExitRequest == Msg("exit_request", {}, {})
GetDataRequest ==
    Msg("get_data_request", {"id", "sync_remote", "wait"}, {"id"})
GetDataReply == Rep("get_data_reply", {"content"}, {"content"})
ListDataRequest ==
    Msg("list_data_request", {"pattern", "regex", "limit"}, {"pattern", "limit"})
CreateBufferRequest == Msg("create_buffer_request", {"size"}, {"size"})
CreateBufferReply ==
    Rep("create_buffer_reply", {"id", "fd", "created"}, {"created", "id"})
CreateDiskBufferRequest ==
    Msg("create_disk_buffer_request", {"size", "path"}, {"size", "path"})
CreateDiskBufferReply ==
    Rep("create_disk_buffer_reply", {"id", "fd", "created"}, {"created", "id"})
CreateGPUBufferRequest == Msg("create_gpu_buffer_request", {"size"}, {"size"})
\* ReadGPUCreateBufferReply neither checks an error nor asserts the type.
GPUCreateBufferReply ==
    [Msg("create_gpu_buffer_reply", {"id", "created", "handle"},
         {"created", "id", "handle"}) EXCEPT !.check = NoCheck]
GetGPUBuffersRequest ==
    Items(Msg("get_gpu_buffers_request", {"unsafe"}, {"num"}))
\* ReadGetGPUBuffersReply asserts the type but checks no error.
GetGPUBuffersReply ==
    Items(Msg("get_gpu_buffers_reply", {"handles"}, {"num"}))
CreateRemoteBufferRequest ==
    Msg("create_remote_buffer_request", {"size"}, {"size"})
GetBuffersRequest == Items(Msg("get_buffers_request", {"unsafe"}, {"num"}))
\* ReadGetBuffersReply reads root.value("num", 0) and "fds" if present.
GetBuffersReply == Items(Rep("get_buffers_reply", {"fds"}, {}))
GetRemoteBuffersRequest ==
    Items(Msg("get_remote_buffers_request", {"unsafe"}, {"num"}))
DropBufferRequest == Msg("drop_buffer_request", {"id"}, {"id"})
DropBufferReply == Rep("drop_buffer_reply", {}, {})
CreateDataRequest == Msg("create_data_request", {"content"}, {"content"})
CreateDataReply ==
    Rep("create_data_reply", {"id", "signature", "instance_id"},
        {"id", "signature", "instance_id"})
PersistRequest == Msg("persist_request", {"id"}, {"id"})
PersistReply == Rep("persist_reply", {}, {})
IfPersistRequest == Msg("if_persist_request", {"id"}, {"id"})
IfPersistReply == Rep("if_persist_reply", {"persist"}, {})
ExistsRequest == Msg("exists_request", {"id"}, {"id"})
ExistsReply == Rep("exists_reply", {"exists"}, {})
DelDataRequest ==
    Msg("del_data_request", {"id", "force", "deep", "fastpath"}, {"id"})
DelDataReply == Rep("del_data_reply", {}, {})
ClusterMetaRequest == Msg("cluster_meta", {}, {})
ClusterMetaReply == Rep("cluster_meta", {"meta"}, {"meta"})
InstanceStatusRequest == Msg("instance_status_request", {}, {})
InstanceStatusReply == Rep("instance_status_reply", {"meta"}, {"meta"})
PutNameRequest ==
    Msg("put_name_request", {"object_id", "name"}, {"object_id", "name"})
PutNameReply == Rep("put_name_reply", {}, {})
GetNameRequest == Msg("get_name_request", {"name", "wait"}, {"name", "wait"})
GetNameReply == Rep("get_name_reply", {"object_id"}, {"object_id"})
DropNameRequest == Msg("drop_name_request", {"name"}, {"name"})
DropNameReply == Rep("drop_name_reply", {}, {})
MigrateObjectRequest ==
    Msg("migrate_object_request",
        {"object_id", "local", "is_stream", "peer", "peer_rpc_endpoint"},
        {"object_id", "local", "is_stream", "peer", "peer_rpc_endpoint"})
MigrateObjectReply == Rep("migrate_object_reply", {"object_id"}, {"object_id"})
CreateStreamRequest == Msg("create_stream_request", {"object_id"}, {"object_id"})
CreateStreamReply == Rep("create_stream_reply", {}, {})
OpenStreamRequest ==
    Msg("open_stream_request", {"object_id", "mode"}, {"object_id", "mode"})
OpenStreamReply == Rep("open_stream_reply", {}, {})
GetNextStreamChunkRequest ==
    Msg("get_next_stream_chunk_request", {"id", "size"}, {"id", "size"})
GetNextStreamChunkReply ==
    Rep("get_next_stream_chunk_reply", {"buffer", "fd"}, {"buffer"})
PushNextStreamChunkRequest ==
    Msg("push_next_stream_chunk_request", {"id", "chunk"}, {"id", "chunk"})
PushNextStreamChunkReply == Rep("push_next_stream_chunk_reply", {}, {})
PullNextStreamChunkRequest ==
    Msg("pull_next_stream_chunk_request", {"id"}, {"id"})
PullNextStreamChunkReply ==
    Rep("pull_next_stream_chunk_reply", {"chunk"}, {"chunk"})
StopStreamRequest ==
    Msg("stop_stream_request", {"id", "failed"}, {"id", "failed"})
StopStreamReply == Rep("stop_stream_reply", {}, {})
ShallowCopyRequest == Msg("shallow_copy_request", {"id", "extra"}, {"id"})
ShallowCopyReply == Rep("shallow_copy_reply", {"target_id"}, {"target_id"})
MakeArenaRequest == Msg("make_arena_request", {"size"}, {"size"})
MakeArenaReply ==
    Rep("make_arena_reply", {"fd", "size", "base"}, {"fd", "size", "base"})
FinalizeArenaRequest ==
    Msg("finalize_arena_request", {"fd", "offsets", "sizes"},
        {"fd", "offsets", "sizes"})
FinalizeArenaReply == Rep("finalize_arena_reply", {}, {})
ClearRequest == Msg("clear_request", {}, {})
ClearReply == Rep("clear_reply", {}, {})
DebugRequest == Msg("debug_command", {"debug"}, {"debug"})
DebugReply == Rep("debug_reply", {"result"}, {"result"})
NewSessionRequest == Msg("new_session_request", {"bulk_store_type"}, {})
NewSessionReply == Rep("new_session_reply", {"socket_path"}, {"socket_path"})
\* protocols.cc has no ReadDeleteSessionRequest nor ReadDeleteSessionReply.
DeleteSessionRequest == Msg("delete_session_request", {}, {})
DeleteSessionReply == Rep("delete_session_reply", {}, {})
CreateBufferByPlasmaRequest ==
    Msg("create_buffer_by_plasma_request", {"plasma_id", "size", "plasma_size"},
        {"plasma_id", "size", "plasma_size"})
CreateBufferByPlasmaReply ==
    Rep("create_buffer_by_plasma_reply", {"id", "fd", "created"},
        {"created", "id"})
GetBuffersByPlasmaRequest ==
    Items(Msg("get_buffers_by_plasma_request", {"unsafe"}, {"num"}))
GetBuffersByPlasmaReply ==
    Items(Rep("get_buffers_by_plasma_reply", {}, {"num"}))
SealRequest == Msg("seal_request", {"object_id"}, {"object_id"})
PlasmaSealRequest == Msg("plasma_seal_request", {"plasma_id"}, {"plasma_id"})
SealReply == Msg("seal_reply", {}, {})
PlasmaReleaseRequest ==
    Msg("plasma_release_request", {"plasma_id"}, {"plasma_id"})
PlasmaReleaseReply == Rep("plasma_release_reply", {}, {})
PlasmaDelDataRequest ==
    Msg("plasma_delete_data_request", {"plasma_id"}, {"plasma_id"})
PlasmaDelDataReply == Rep("plasma_delete_data_reply", {}, {})
\* Each overload of WriteMoveBuffersOwnershipRequest writes one of the
\* maps "id_to_id", "id_to_pid", "pid_to_id", "pid_to_pid"; the reader
\* reads each with root.value(..., {}).
MoveBuffersOwnershipRequest ==
    Msg("move_buffers_ownership_request", {"id_to_id", "session_id"},
        {"session_id"})
MoveBuffersOwnershipReply == Rep("move_buffers_ownership_reply", {}, {})
ReleaseRequest == Msg("release_request", {"object_id"}, {"object_id"})
ReleaseReply == Rep("release_reply", {}, {})
DelDataWithFeedbacksRequest ==
    Msg("del_data_with_feedbacks_request", {"id", "force", "deep", "fastpath"},
        {"id"})
DelDataWithFeedbacksReply ==
    Msg("del_data_with_feedbacks_reply", {"deleted_bids"}, {"deleted_bids"})
IsInUseRequest == Msg("is_in_use_request", {"id"}, {"id"})
IsInUseReply == Msg("is_in_use_reply", {"is_in_use"}, {"is_in_use"})
IsSpilledRequest == Msg("is_spilled_request", {"id"}, {"id"})
IsSpilledReply == Msg("is_spilled_reply", {"is_spilled"}, {"is_spilled"})
IncreaseReferenceCountRequest ==
    Msg("increase_reference_count_request", {"ids"}, {"ids"})
IncreaseReferenceCountReply == Msg("increase_reference_count_reply", {}, {})

=============================================================================
