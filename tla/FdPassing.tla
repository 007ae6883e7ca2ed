------------------------------ MODULE FdPassing ------------------------------
(***************************************************************************)
(* Arena file-descriptor hand-off between a SocketConnection of the server *)
(* (server/async/socket_server.cc) and the SharedMemoryManager of a client *)
(* (client/client.cc).                                                     *)
(*                                                                         *)
(* The server remembers, per connection, the arena fds it has already      *)
(* sent (used_fds_).  A reply that references an arena not yet sent is     *)
(* followed on the same socket by one ancillary fd message per new arena.  *)
(* The client keeps mmap_table_, keyed by the server-side fd, and calls    *)
(* recv_fd exactly when it meets a key it does not know.  The two sides    *)
(* never exchange their sets: they stay in step only if both compute the   *)
(* same "new fds" in the same order for every reply.                       *)
(*                                                                         *)
(* The socket is one ordered stream per connection (wire), carrying reply  *)
(* frames and fd messages.  A client call is blocking under the client     *)
(* mutex, so a connection has at most one request in flight (req).         *)
(***************************************************************************)
EXTENDS Integers, Sequences, FiniteSets, SequencesExt, TLC

CONSTANTS
  Conns,      \* client connections (one client object each)
  Arenas,     \* store fds of the server's arenas
  Blobs,      \* blob ids the allocator may hand out (integers, ordered)
  EmptyBlob,  \* the reserved id of the zero-sized blob
  NoFd,       \* store_fd of a payload without memory, and "no fd" (-1)
  BadFd,      \* what recv_fd yields when no fd message is at the head
  ClientCalls \* the client API functions the application calls

ASSUME EmptyBlob \notin Blobs /\ Blobs \subseteq Int /\ EmptyBlob \in Int
ASSUME NoFd \notin Arenas /\ BadFd \notin Arenas \cup {NoFd}

DefaultCalls == {"CreateBuffer", "GetBuffers", "Seal", "CreateArena"}
PlasmaCalls  == {"PlasmaCreateBuffer", "PlasmaGetBuffers", "GetPayloads",
                 "PlasmaSeal"}
\* A session's bulk store is either the default or the plasma one, and a
\* client registered with the other type is refused (doRegister).
ASSUME ClientCalls \subseteq DefaultCalls \/ ClientCalls \subseteq PlasmaCalls

VARIABLES
  store,      \* bulk store: blob id -> payload descriptor
  arenaKind,  \* arena -> "free" | "bulk" (carved by Create) | "user" (MakeArena)
  usedFds,    \* SocketConnection::used_fds_, per connection
  req,        \* request written by the client and not yet handled
  wire,       \* server -> client stream: reply frames and fd messages
  mmapTable,  \* SharedMemoryManager::mmap_table_: server fd -> fd received
  inUse,      \* UsageTracker::object_in_use_: id -> cached payload
  pc          \* the client call in progress (name and ids), idle or broken

vars == <<store, arenaKind, usedFds, req, wire, mmapTable, inUse, pc>>

Ids     == Blobs \cup {EmptyBlob}
NoReq   == [op |-> "none"]
Idle    == [name |-> "idle", ids |-> {}]
Broken  == [name |-> "broken", ids |-> {}]

Payload == [arena : Arenas \cup {NoFd}, size : {0, 1}, sealed : BOOLEAN]
Obj     == [id : Ids, arena : Arenas \cup {NoFd}, size : {0, 1}, sealed : BOOLEAN]
Reply   == [kind : {"reply"}, ok : BOOLEAN, objs : Seq(Obj),
            fd : Arenas \cup {NoFd}, fds : Seq(Arenas), hasFds : BOOLEAN]
FdMsg   == [kind : {"fd"}, fd : Arenas]

ErrorReply == [kind |-> "reply", ok |-> FALSE, objs |-> <<>>, fd |-> NoFd,
               fds |-> <<>>, hasFds |-> FALSE]
OkReply    == [ErrorReply EXCEPT !.ok = TRUE]

FdMsgs(fs) == [i \in 1 .. Len(fs) |-> [kind |-> "fd", fd |-> fs[i]]]

ObjOf(b) == [id |-> b] @@ store[b]

(***************************************************************************)
(* Bulk store (its code is not part of this source tree; modelled from    *)
(* the specification of BulkStore::Create / GetUnsafe / Seal).             *)
(***************************************************************************)
GetUnsafeOk(ids, unsafe) ==
  /\ ids \subseteq DOMAIN store
  /\ unsafe \/ \A b \in ids : store[b].sealed

\* Payloads in the order of the request, which the client builds from a
\* std::set of ids, hence ascending.
GetUnsafe(ids) == LET s == SetToSortSeq(ids, <) IN [k \in 1 .. Len(s) |-> ObjOf(s[k])]

\* Create of a non-empty blob b carved from arena a.
BulkCreate(b, a) ==
  /\ store' = (b :> [arena |-> a, size |-> 1, sealed |-> FALSE]) @@ store
  /\ arenaKind' = [arenaKind EXCEPT ![a] = "bulk"]

\* Arenas Create may carve a new payload from: one already in use by the
\* bulk allocator, or a fresh region when the current ones are exhausted.
CarvableArenas == {a \in Arenas : arenaKind[a] \in {"free", "bulk"}}

(***************************************************************************)
(* Server side: which fds a reply announces, per connection.               *)
(***************************************************************************)
\* Variants of the loop below, as a slip in it would be: fds sent for
\* every payload (no used_fds_ test), or sent in reverse order.
NewFdsNoDedup(objs, used) ==
  LET step(acc, o) ==
        IF o.size > 0
        THEN [used |-> acc.used \cup {o.arena}, send |-> Append(acc.send, o.arena)]
        ELSE acc
  IN  FoldLeft(step, [used |-> used, send |-> <<>>], objs)

NewFdsReversed(objs, used) ==
  LET step(acc, o) ==
        IF o.size > 0 /\ o.arena \notin acc.used
        THEN [used |-> acc.used \cup {o.arena}, send |-> <<o.arena>> \o acc.send]
        ELSE acc
  IN  FoldLeft(step, [used |-> used, send |-> <<>>], objs)

\* The loop of doGetBuffers over the payloads: a payload with memory whose
\* arena is not in used_fds_ adds its arena, once, to fd_to_send.
NewFds(objs, used) ==
  LET step(acc, o) ==
        IF o.size > 0 /\ o.arena \notin acc.used
        THEN [used |-> acc.used \cup {o.arena}, send |-> Append(acc.send, o.arena)]
        ELSE acc
  IN  FoldLeft(step, [used |-> used, send |-> <<>>], objs)

\* doWrite of the reply, then, in its completion callback, send_fd of each
\* fd in order.
Respond(c, reply, fds) ==
  /\ wire' = [wire EXCEPT ![c] = (@ \o <<reply>>) \o FdMsgs(fds)]
  /\ req' = [req EXCEPT ![c] = NoReq]

\* Variant: the write callback calls send_fd(fd_to_send) without testing
\* it against -1.
CreateAndReplySendsMinusOne(c) ==
  LET size == req[c].size IN
  \/ /\ size = 0
     /\ Respond(c, [OkReply EXCEPT !.objs = <<ObjOf(EmptyBlob)>>], <<NoFd>>)
     /\ UNCHANGED <<store, arenaKind, usedFds>>
  \/ /\ size = 1
     /\ \E b \in Blobs \ DOMAIN store, a \in CarvableArenas :
          LET send == a \notin usedFds[c] IN
          /\ BulkCreate(b, a)
          /\ usedFds' = [usedFds EXCEPT ![c] = @ \cup {a}]
          /\ Respond(c, [OkReply EXCEPT
                           !.objs = <<[id |-> b, arena |-> a, size |-> 1, sealed |-> FALSE]>>,
                           !.fd = IF send THEN a ELSE NoFd],
                     <<IF send THEN a ELSE NoFd>>)
  \/ /\ size = 1
     /\ Blobs \subseteq DOMAIN store \/ CarvableArenas = {}
     /\ Respond(c, ErrorReply, <<>>)
     /\ UNCHANGED <<store, arenaKind, usedFds>>

\* Shared by doCreateBuffer and doCreateBufferByPlasma: Create, then the
\* "fd" field is fd_to_send, -1 unless the payload has memory in an arena
\* the connection does not hold yet.  A failed Create is an error reply.
CreateAndReply(c) ==
  LET size == req[c].size IN
  \/ /\ size = 0
     /\ Respond(c, [OkReply EXCEPT !.objs = <<ObjOf(EmptyBlob)>>], <<>>)
     /\ UNCHANGED <<store, arenaKind, usedFds>>
  \/ /\ size = 1
     /\ \E b \in Blobs \ DOMAIN store, a \in CarvableArenas :
          LET send == a \notin usedFds[c] IN
          /\ BulkCreate(b, a)
          /\ usedFds' = [usedFds EXCEPT ![c] = @ \cup {a}]
          /\ Respond(c, [OkReply EXCEPT
                           !.objs = <<[id |-> b, arena |-> a, size |-> 1, sealed |-> FALSE]>>,
                           !.fd = IF send THEN a ELSE NoFd],
                     IF send THEN <<a>> ELSE <<>>)
  \/ /\ size = 1
     /\ Blobs \subseteq DOMAIN store \/ CarvableArenas = {}
     /\ Respond(c, ErrorReply, <<>>)
     /\ UNCHANGED <<store, arenaKind, usedFds>>

DoCreateBuffer(c) ==
  /\ req[c].op = "create_buffer_request"
  /\ CreateAndReply(c)
  /\ UNCHANGED <<mmapTable, inUse, pc>>

DoCreateBufferByPlasma(c) ==
  /\ req[c].op = "create_buffer_by_plasma_request"
  /\ CreateAndReply(c)
  /\ UNCHANGED <<mmapTable, inUse, pc>>

\* Shared by doGetBuffers and doGetBuffersByPlasma: GetUnsafe (all or
\* nothing), AddDependency, then the fds of NewFds after the reply.  Only
\* doGetBuffers lists them in the reply ("fds").
GetAndReply(c, listFds) ==
  /\ IF GetUnsafeOk(req[c].ids, req[c].unsafe)
     THEN LET objs == GetUnsafe(req[c].ids)
              nf   == NewFds(objs, usedFds[c])
          IN  /\ usedFds' = [usedFds EXCEPT ![c] = nf.used]
              /\ Respond(c, [OkReply EXCEPT !.objs = objs,
                                            !.fds = IF listFds THEN nf.send ELSE <<>>,
                                            !.hasFds = listFds], nf.send)
     ELSE /\ Respond(c, ErrorReply, <<>>)
          /\ UNCHANGED usedFds
  /\ UNCHANGED <<store, arenaKind, mmapTable, inUse, pc>>

DoGetBuffers(c) ==
  /\ req[c].op = "get_buffers_request"
  /\ GetAndReply(c, TRUE)

DoGetBuffersByPlasma(c) ==
  /\ req[c].op = "get_buffers_by_plasma_request"
  /\ GetAndReply(c, FALSE)

\* doSealBlob / doSealPlasmaBlob: Seal then AddDependency; no fd involved.
DoSealBlob(c) ==
  /\ req[c].op \in {"seal_request", "plasma_seal_request"}
  /\ IF req[c].id \in DOMAIN store
     THEN /\ store' = [store EXCEPT ![req[c].id].sealed = TRUE]
          /\ Respond(c, OkReply, <<>>)
     ELSE /\ Respond(c, ErrorReply, <<>>)
          /\ UNCHANGED store
  /\ UNCHANGED <<arenaKind, usedFds, mmapTable, inUse, pc>>

\* Variant: the arena's fd is sent but not recorded in used_fds_.
DoMakeArenaNoEmplace(c) ==
  /\ req[c].op = "make_arena_request"
  /\ \/ \E a \in {x \in Arenas : arenaKind[x] = "free"} :
          /\ arenaKind' = [arenaKind EXCEPT ![a] = "user"]
          /\ Respond(c, [OkReply EXCEPT !.fd = a],
                     IF a \in usedFds[c] THEN <<>> ELSE <<a>>)
     \/ /\ \A a \in Arenas : arenaKind[a] # "free"
        /\ Respond(c, ErrorReply, <<>>)
        /\ UNCHANGED arenaKind
  /\ UNCHANGED <<store, usedFds, mmapTable, inUse, pc>>

\* doMakeArena: a whole fresh arena is reserved; its fd is sent when the
\* connection does not hold it yet (no size test, unlike the other paths).
DoMakeArena(c) ==
  /\ req[c].op = "make_arena_request"
  /\ \/ \E a \in {x \in Arenas : arenaKind[x] = "free"} :
          /\ arenaKind' = [arenaKind EXCEPT ![a] = "user"]
          /\ usedFds' = [usedFds EXCEPT ![c] = @ \cup {a}]
          /\ Respond(c, [OkReply EXCEPT !.fd = a],
                     IF a \in usedFds[c] THEN <<>> ELSE <<a>>)
     \/ /\ \A a \in Arenas : arenaKind[a] # "free"
        /\ Respond(c, ErrorReply, <<>>)
        /\ UNCHANGED <<arenaKind, usedFds>>
  /\ UNCHANGED <<store, mmapTable, inUse, pc>>

(***************************************************************************)
(* Client side.                                                            *)
(***************************************************************************)
\* SharedMemoryManager::PreMmap(fd): the fd a reply should be followed by,
\* -1 when the table already holds fd.
PreMmap(table, fd) == IF fd \in DOMAIN table THEN NoFd ELSE fd

\* The PreMmap(fd, fds, dedup) loop of Client::GetBuffers over payloads
\* with memory: the fds, in order and once each, the client will receive.
PreMmapAll(table, objs) ==
  LET step(acc, o) ==
        IF o.size > 0 /\ o.arena \notin acc.dedup /\ o.arena \notin DOMAIN table
        THEN [dedup |-> acc.dedup \cup {o.arena}, fds |-> Append(acc.fds, o.arena)]
        ELSE acc
  IN  FoldLeft(step, [dedup |-> {}, fds |-> <<>>], objs).fds

\* Variant: Mmap without the mmap_table_ lookup, receiving every time.
MmapNoLookup(st, fd) ==
  IF ~st.ok THEN st
  ELSE IF st.wire # <<>> /\ Head(st.wire).kind = "fd"
       THEN [st EXCEPT !.table = (fd :> Head(st.wire).fd) @@ st.table,
                       !.wire = Tail(st.wire)]
       ELSE [st EXCEPT !.table = (fd :> BadFd) @@ st.table, !.ok = FALSE]

\* SharedMemoryManager::Mmap(fd, ...): an unknown fd is looked up by
\* recv_fd on the socket.  recv_fd yields -1 when the head of the stream is
\* not an fd message (and would block on an empty one); the check after it
\* tests the server's fd instead of the received one, so the entry is
\* cached either way, and the mmap of it then fails.
Mmap(st, fd) ==
  IF ~st.ok \/ fd \in DOMAIN st.table THEN st
  ELSE IF st.wire # <<>> /\ Head(st.wire).kind = "fd"
       THEN [st EXCEPT !.table = (fd :> Head(st.wire).fd) @@ st.table,
                       !.wire = Tail(st.wire)]
       ELSE [st EXCEPT !.table = (fd :> BadFd) @@ st.table, !.ok = FALSE]

\* The client's table, the rest of the stream after the reply.
Kept(c, rest) == [table |-> mmapTable[c], wire |-> rest, ok |-> TRUE]

\* Mmap of each payload with memory, in order.
MmapAll(c, rest, objs) ==
  LET mem == SelectSeq(objs, LAMBDA o : o.size > 0)
  IN  FoldLeft(Mmap, Kept(c, rest), [i \in 1 .. Len(mem) |-> mem[i].arena])

\* UsageTracker::AddUsage of each payload: a new entry keeps the payload
\* as received, an existing one is left as it is.
AddUsage(u, objs) ==
  LET new == {objs[i].id : i \in 1 .. Len(objs)} \ DOMAIN u
      pay(b) == CHOOSE o \in {objs[i] : i \in 1 .. Len(objs)} : o.id = b
  IN  [b \in DOMAIN u \cup new |->
         IF b \in DOMAIN u THEN u[b]
         ELSE [arena |-> pay(b).arena, size |-> pay(b).size, sealed |-> pay(b).sealed]]

\* UsageTracker::FetchOnLocal: a cached payload that is sealed.
FetchOnLocal(c, b) == b \in DOMAIN inUse[c] /\ inUse[c][b].sealed

\* The client call returns: it has consumed the reply and what it received
\* after it (st), and has taken usage of objs when it succeeded.
Return(c, st, objs) ==
  /\ mmapTable' = [mmapTable EXCEPT ![c] = st.table]
  /\ wire' = [wire EXCEPT ![c] = st.wire]
  /\ pc' = [pc EXCEPT ![c] = IF st.ok THEN Idle ELSE Broken]
  /\ inUse' = [inUse EXCEPT ![c] = IF st.ok THEN AddUsage(@, objs) ELSE @]
  /\ UNCHANGED <<store, arenaKind, usedFds, req>>

\* A call that returns on the reply alone, with its error or after a check.
ReturnOnReply(c) ==
  Return(c, Kept(c, Tail(wire[c])), <<>>)

\* The client's doRead: the call has been answered and the next frame on
\* the stream is a reply.  When an fd message is there instead, doRead
\* reads its byte as part of the length header and never completes.
Answered(c, name) ==
  /\ pc[c].name = name
  /\ req[c] = NoReq
  /\ wire[c] # <<>>
  /\ Head(wire[c]).kind = "reply"

\* Writing the request of a call (the client holds client_mutex_ until the
\* call returns, so a connection has one call in flight).
Call(c, name, r, ids) ==
  /\ pc[c] = Idle
  /\ name \in ClientCalls
  /\ req' = [req EXCEPT ![c] = r]
  /\ pc' = [pc EXCEPT ![c] = [name |-> name, ids |-> ids]]
  /\ UNCHANGED <<store, arenaKind, usedFds, wire, mmapTable, inUse>>

NonEmptyIds == SUBSET Ids \ {{}}

CallCreateBuffer(c) ==
  \E size \in {0, 1} :
    \/ Call(c, "CreateBuffer", [op |-> "create_buffer_request", size |-> size], {})
    \/ Call(c, "PlasmaCreateBuffer",
            [op |-> "create_buffer_by_plasma_request", size |-> size], {})

CallGetBuffers(c) ==
  \E ids \in NonEmptyIds, unsafe \in BOOLEAN :
    Call(c, "GetBuffers", [op |-> "get_buffers_request", ids |-> ids,
                           unsafe |-> unsafe], ids)

\* PlasmaClient::GetPayloads (also the first half of PlasmaClient::
\* GetBuffers): only the ids not found sealed in the local cache are asked.
CallGetPayloads(c) ==
  \E ids \in NonEmptyIds, unsafe \in BOOLEAN, name \in {"GetPayloads", "PlasmaGetBuffers"} :
    Call(c, name, [op |-> "get_buffers_by_plasma_request",
                   ids |-> {b \in ids : ~FetchOnLocal(c, b)}, unsafe |-> unsafe], ids)

CallSeal(c) ==
  \E b \in Ids :
    \/ Call(c, "Seal", [op |-> "seal_request", id |-> b], {b})
    \/ Call(c, "PlasmaSeal", [op |-> "plasma_seal_request", id |-> b], {b})

CallCreateArena(c) ==
  Call(c, "CreateArena", [op |-> "make_arena_request"], {})

\* Client::CreateBuffer and PlasmaClient::CreateBuffer after doRead:
\* an error reply is returned; a payload with memory is mapped only when
\* the reply's "fd" equals PreMmap, else "the fd is not matched".
CreateBufferReturn(c, name) ==
  LET m == Head(wire[c])
      o == m.objs[1]
  IN  /\ Answered(c, name)
      /\ \/ /\ ~m.ok
            /\ ReturnOnReply(c)
         \/ /\ m.ok /\ o.size = 0
            /\ Return(c, Kept(c, Tail(wire[c])), <<o>>)
         \/ /\ m.ok /\ o.size > 0
            /\ IF PreMmap(mmapTable[c], o.arena) = m.fd
               THEN Return(c, MmapAll(c, Tail(wire[c]), <<o>>), <<o>>)
               ELSE ReturnOnReply(c)

ReturnCreateBuffer(c) == CreateBufferReturn(c, "CreateBuffer")

ReturnPlasmaCreateBuffer(c) == CreateBufferReturn(c, "PlasmaCreateBuffer")

\* Client::GetBuffers after doRead: the "fds" list must equal what the
\* PreMmap loop expects, else UnknownError; then Mmap and AddUsage of all.
ReturnGetBuffers(c) ==
  LET m == Head(wire[c]) IN
  /\ Answered(c, "GetBuffers")
  /\ \/ /\ ~m.ok
        /\ ReturnOnReply(c)
     \/ /\ m.ok
        /\ IF m.hasFds /\ PreMmapAll(mmapTable[c], m.objs) # m.fds
           THEN ReturnOnReply(c)
           ELSE Return(c, MmapAll(c, Tail(wire[c]), m.objs), m.objs)

\* PlasmaClient::GetPayloads returns the remote payloads with the local
\* ones; it neither maps nor receives anything.
ReturnGetPayloads(c) ==
  /\ Answered(c, "GetPayloads")
  /\ ReturnOnReply(c)

\* PlasmaClient::GetBuffers: GetPayloads, then Mmap and AddUsage of every
\* payload in the order of the std::map, ascending ids, local ones included.
ReturnPlasmaGetBuffers(c) ==
  LET m == Head(wire[c])
      local == SetToSortSeq({[id |-> b] @@ inUse[c][b] :
                               b \in {x \in pc[c].ids : FetchOnLocal(c, x)}},
                            LAMBDA x, y : x.id < y.id)
      all == SortSeq(m.objs \o local, LAMBDA x, y : x.id < y.id)
  IN  /\ Answered(c, "PlasmaGetBuffers")
      /\ \/ /\ ~m.ok
            /\ ReturnOnReply(c)
         \/ /\ m.ok
            /\ Return(c, MmapAll(c, Tail(wire[c]), all), all)

\* Client::Seal / PlasmaClient::Seal: the reply, then SealUsage.
ReturnSeal(c) ==
  LET b == CHOOSE x \in pc[c].ids : TRUE IN
  /\ \E name \in {"Seal", "PlasmaSeal"} : Answered(c, name)
  /\ wire' = [wire EXCEPT ![c] = Tail(@)]
  /\ pc' = [pc EXCEPT ![c] = Idle]
  /\ inUse' = IF Head(wire[c]).ok /\ b \in DOMAIN inUse[c]
              THEN [inUse EXCEPT ![c][b].sealed = TRUE]
              ELSE inUse
  /\ UNCHANGED <<store, arenaKind, usedFds, req, mmapTable>>

\* Client::CreateArena: Mmap of the arena's fd, whatever the table holds.
ReturnCreateArena(c) ==
  LET m == Head(wire[c]) IN
  /\ Answered(c, "CreateArena")
  /\ \/ /\ ~m.ok
        /\ ReturnOnReply(c)
     \/ /\ m.ok
        /\ Return(c, Mmap(Kept(c, Tail(wire[c])), m.fd), <<>>)

\* The client disconnects (Client::Disconnect: ClearCache, close) or its
\* process exits, and it connects again: the server's connection and its
\* used_fds_ go away with the socket, the client gets a new
\* SharedMemoryManager.  A call blocked in doRead ends this way too.
ClientRestart(c) ==
  /\ req[c] = NoReq
  /\ usedFds' = [usedFds EXCEPT ![c] = {}]
  /\ wire' = [wire EXCEPT ![c] = <<>>]
  /\ mmapTable' = [mmapTable EXCEPT ![c] = <<>>]
  /\ inUse' = [inUse EXCEPT ![c] = <<>>]
  /\ pc' = [pc EXCEPT ![c] = Idle]
  /\ UNCHANGED <<store, arenaKind, req>>

-----------------------------------------------------------------------------
Init ==
  /\ store = EmptyBlob :> [arena |-> NoFd, size |-> 0, sealed |-> TRUE]
  /\ arenaKind = [a \in Arenas |-> "free"]
  /\ usedFds = [c \in Conns |-> {}]
  /\ req = [c \in Conns |-> NoReq]
  /\ wire = [c \in Conns |-> <<>>]
  /\ mmapTable = [c \in Conns |-> <<>>]
  /\ inUse = [c \in Conns |-> <<>>]
  /\ pc = [c \in Conns |-> Idle]

Next ==
  \E c \in Conns :
    \/ CallCreateBuffer(c) \/ CallGetBuffers(c) \/ CallGetPayloads(c)
    \/ CallSeal(c) \/ CallCreateArena(c)
    \/ DoCreateBuffer(c) \/ DoCreateBufferByPlasma(c) \/ DoGetBuffers(c)
    \/ DoGetBuffersByPlasma(c) \/ DoSealBlob(c) \/ DoMakeArena(c)
    \/ ReturnCreateBuffer(c) \/ ReturnPlasmaCreateBuffer(c)
    \/ ReturnGetBuffers(c) \/ ReturnGetPayloads(c) \/ ReturnPlasmaGetBuffers(c)
    \/ ReturnSeal(c) \/ ReturnCreateArena(c)
    \/ ClientRestart(c)

Spec == Init /\ [][Next]_vars

-----------------------------------------------------------------------------
TypeOK ==
  /\ DOMAIN store \subseteq Ids /\ \A b \in DOMAIN store : store[b] \in Payload
  /\ arenaKind \in [Arenas -> {"free", "bulk", "user"}]
  /\ usedFds \in [Conns -> SUBSET Arenas]
  /\ \A c \in Conns :
       /\ wire[c] \in Seq(Reply \cup FdMsg)
       /\ DOMAIN mmapTable[c] \subseteq Arenas
       /\ \A f \in DOMAIN mmapTable[c] : mmapTable[c][f] \in Arenas \cup {BadFd}
       /\ DOMAIN inUse[c] \subseteq Ids
       /\ \A b \in DOMAIN inUse[c] : inUse[c][b] \in Payload
       /\ pc[c].name \in ClientCalls \cup {"idle", "broken"}

\* Every entry of a client's mmap_table_ holds the arena the server meant
\* by that fd: recv_fd in SharedMemoryManager::Mmap never takes another
\* reply's fd message, nor finds none.
FdTableFaithful ==
  \A c \in Conns : \A f \in DOMAIN mmapTable[c] : mmapTable[c][f] = f

\* When a client call has returned, it has consumed everything the server
\* sent for it, and the server's used_fds_ of the connection is exactly
\* the set of fds in the client's mmap_table_: the two sides agree on
\* which arenas the next reply must be followed by.
QuiescentAgreement ==
  \A c \in Conns :
    pc[c] = Idle => /\ wire[c] = <<>>
                    /\ DOMAIN mmapTable[c] = usedFds[c]

=============================================================================
