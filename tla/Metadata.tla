------------------------------ MODULE Metadata ------------------------------
(***************************************************************************)
(* The metadata plane of one vineyardd session: the socket handlers of     *)
(* get_data, list_data, create_data, persist, if_persist, exists,          *)
(* shallow_copy, del_data, put_name, get_name and drop_name, the           *)
(* VineyardServer methods they call, and the list of deferred requests     *)
(* (VineyardServer::deferred_) that a get_data or get_name with wait=true  *)
(* joins when what it asks for is not there yet.                           *)
(*                                                                         *)
(* A handler reads the request and calls the server, which either answers  *)
(* at once (a failed check, a blob asked on the fast path) or hands a      *)
(* callback to the meta service (RequestToGetData, RequestToBulkUpdate,    *)
(* RequestToPersist, RequestToShallowCopy, RequestToDelete) or posts it to *)
(* the server's context; the handler returns and the connection reads its  *)
(* next message.  The callback runs later, as one step of its own, on the  *)
(* current metadata.  After a change of the metadata the meta service     *)
(* calls ProcessDeferred with the new tree (spec.md section 5).            *)
(*                                                                         *)
(* The metadata tree is abstracted to what the handlers test: the objects  *)
(* that exist, the persisted ones, the "names" index and each object's     *)
(* "__name" field.  The bulk store is the set of blob ids it holds.        *)
(***************************************************************************)
EXTENDS Naturals, Sequences, FiniteSets

CONSTANTS
    Clients,        \* client processes, one connection each
    Objects,        \* ids GenerateObjectID may return (non-blob objects)
    Blobs,          \* ids the bulk store may give to a new blob
    Names,          \* names put_name may bind
    NoObject,       \* a name bound to nothing
    NoName,         \* an object without a "__name" field
    NoReq,          \* no request (on the wire, or awaited by the client)
    NoTask,         \* no callback of the connection waiting to run
    MetaSyncFails,  \* whether a read synced from etcd may fail
    CallRequests    \* the requests the clients send, a subset of Requests

AllIds == Objects \cup Blobs
IdSets == (SUBSET AllIds) \ {{}}

\* The requests of protocols.cc the handlers read, with the fields that the
\* server tests; a create_data tree is classified by the checks of
\* VineyardServer::CreateData: well formed, no "typename", typename
\* "vineyard::Blob", or no "instance_id".
Requests ==
    [op : {"get_data"}, ids : IdSets, sync : BOOLEAN, wait : BOOLEAN] \cup
    [op : {"list_data"}] \cup
    [op : {"create_data"}, tree : {"object", "untyped", "blob", "no_instance"}] \cup
    [op : {"persist", "if_persist", "exists", "shallow_copy"}, id : AllIds] \cup
    [op : {"del_data"}, ids : IdSets, fastpath : BOOLEAN, feedbacks : BOOLEAN] \cup
    [op : {"put_name"}, id : AllIds, name : Names] \cup
    [op : {"get_name"}, name : Names, wait : BOOLEAN] \cup
    [op : {"drop_name"}, name : Names] \cup
    [op : {"create_buffer"}]

\* A callback handed to the meta service or posted to the context: the
\* request, and the id GenerateObjectID chose for it, if any.
Tasks == [req : Requests, target : Objects \cup {NoObject}]

VARIABLES
    data,       \* the objects the metadata tree holds
    persisted,  \* the objects whose "persist" field is set
    names,      \* the "names" index: name -> object
    objname,    \* the "__name" field of each object
    used,       \* ids GenerateObjectID has handed out
    blobs,      \* the blob ids the bulk store holds
    open,       \* the client's socket is open
    running,    \* SocketConnection::running_
    req,        \* the request written by the client, not yet handled
    inflight,   \* the request the client is blocked on, awaiting a reply
    task,       \* the connection's callback waiting to run
    deferred    \* VineyardServer::deferred_: <<client, request>> records

vars == <<data, persisted, names, objname, used, blobs, open, running, req,
          inflight, task, deferred>>

TypeOK ==
    /\ data \subseteq Objects /\ persisted \subseteq data
    /\ names \in [Names -> Objects \cup {NoObject}]
    /\ objname \in [Objects -> Names \cup {NoName}]
    /\ used \subseteq Objects /\ blobs \subseteq Blobs
    /\ open \in [Clients -> BOOLEAN] /\ running \in [Clients -> BOOLEAN]
    /\ req \in [Clients -> Requests \cup {NoReq}]
    /\ inflight \in [Clients -> Requests \cup {NoReq}]
    /\ task \in [Clients -> Tasks \cup {NoTask}]
    /\ deferred \in Seq([c : Clients, req : Requests])

\* The metadata tree a callback of the meta service is given.
Meta == [data |-> data, persisted |-> persisted, names |-> names]

IsBlob(id) == id \in Blobs

\* doWrite of replies to the clients S: a client whose connection still
\* runs reads it and returns from its call.
Reply(S) ==
    inflight' = [c \in Clients |-> IF c \in S /\ running[c] THEN NoReq
                                                            ELSE inflight[c]]

-----------------------------------------------------------------------------
(* Deferred requests.                                                      *)

\* The test_task of GetData and of GetName on the tree m with the bulk
\* store holding bs: every id exists (a blob in the bulk store, any other
\* in the tree), or the name is in the "names" index.
TestTask(r, m, bs) ==
    IF r.op = "get_data"
      THEN \A id \in r.ids : IF IsBlob(id) THEN id \in bs ELSE id \in m.data
      ELSE m.names[r.name] # NoObject

\* DeferredReq::Alive: the alive_fn of the handler, self->running_.
Alive(d) == running[d.c]

\* Mutant: the scan stops at the first request it completes.
ProcessDeferredFirstOnly(m, bs) ==
    LET hit(i) == Alive(deferred[i]) /\ TestTask(deferred[i].req, m, bs)
        hits   == {i \in 1..Len(deferred) : hit(i)}
        first  == IF hits = {} THEN 0 ELSE CHOOSE i \in hits : \A j \in hits : i <= j
        alive(d) == Alive(d)
    IN  IF first = 0
          THEN [rest |-> SelectSeq(deferred, alive), woken |-> {}]
          ELSE [rest  |-> SelectSeq(SubSeq(deferred, 1, first - 1), alive)
                          \o SelectSeq(SubSeq(deferred, first + 1,
                                              Len(deferred)), alive),
                woken |-> {deferred[first].c}]

\* VineyardServer::ProcessDeferred(m): every request whose connection is
\* gone, or whose test_task holds and whose eval_task is then called, is
\* erased; the others stay, in order.  Returns what stays and the clients
\* the eval_tasks answer.
ProcessDeferred(m, bs) ==
    [rest  |-> SelectSeq(deferred,
                         LAMBDA d : Alive(d) /\ ~TestTask(d.req, m, bs)),
     woken |-> {deferred[i].c : i \in {i \in 1..Len(deferred) :
                   Alive(deferred[i]) /\ TestTask(deferred[i].req, m, bs)}}]

\* Mutant: the deferred requests are scanned before the ops are applied.
CommitProcessFirst(c, d2, p2, n2, o2, b2) ==
    LET pd == ProcessDeferred(Meta, blobs)
    IN  /\ data' = d2 /\ persisted' = p2 /\ names' = n2 /\ objname' = o2
        /\ blobs' = b2
        /\ deferred' = pd.rest
        /\ Reply({c} \cup pd.woken)

\* The meta service applies the ops a callback computed, leaving the tree
\* d2, p2, n2, o2 and the bulk store b2, calls ProcessDeferred on the new
\* tree, and runs the handler's callback, which answers c.
Commit(c, d2, p2, n2, o2, b2) ==
    LET pd == ProcessDeferred([data |-> d2, persisted |-> p2, names |-> n2], b2)
    IN  /\ data' = d2 /\ persisted' = p2 /\ names' = n2 /\ objname' = o2
        /\ blobs' = b2
        /\ deferred' = pd.rest
        /\ Reply({c} \cup pd.woken)

-----------------------------------------------------------------------------
(* Every client is connected to a server whose metadata and bulk store are *)
(* empty.                                                                  *)
Init ==
    /\ data = {} /\ persisted = {} /\ used = {} /\ blobs = {}
    /\ names = [n \in Names |-> NoObject]
    /\ objname = [o \in Objects |-> NoName]
    /\ open = [c \in Clients |-> TRUE] /\ running = [c \in Clients |-> TRUE]
    /\ req = [c \in Clients |-> NoReq] /\ inflight = [c \in Clients |-> NoReq]
    /\ task = [c \in Clients |-> NoTask]
    /\ deferred = <<>>

MetaVars == <<data, persisted, names, objname, blobs>>

-----------------------------------------------------------------------------
(* Clients (ClientBase, which is not under src/): a call writes one        *)
(* request and blocks until its reply.                                     *)

\* Model bound: the requests that will call GenerateObjectID, and the ids
\* left for them.
Creating(r) == r.op = "shallow_copy" \/ (r.op = "create_data" /\ r.tree = "object")
IdsLeft ==
    Cardinality(Objects \ used) >
        Cardinality({c \in Clients : req[c] # NoReq /\ Creating(req[c])})

Call(c, r) ==
    /\ open[c] /\ inflight[c] = NoReq
    /\ Creating(r) => IdsLeft
    /\ req' = [req EXCEPT ![c] = r]
    /\ inflight' = [inflight EXCEPT ![c] = r]
    /\ UNCHANGED <<MetaVars, used, open, running, task, deferred>>

\* The client closes its socket, in a call or between calls.
Disconnect(c) ==
    /\ open[c]
    /\ open' = [open EXCEPT ![c] = FALSE]
    /\ inflight' = [inflight EXCEPT ![c] = NoReq]
    /\ UNCHANGED <<MetaVars, used, running, req, task, deferred>>

-----------------------------------------------------------------------------
(* Handlers: SocketConnection::processMessage on the request of c, with    *)
(* the synchronous part of the VineyardServer method it calls.             *)

Handled(c) == req' = [req EXCEPT ![c] = NoReq]

\* The server hands the callback to the meta service or the context.
Post(c, t) ==
    /\ Handled(c)
    /\ task' = [task EXCEPT ![c] = [req |-> req[c], target |-> t]]
    /\ UNCHANGED <<MetaVars, used, open, running, inflight, deferred>>

\* A check fails before anything is posted: the error reply is written.
Refuse(c) ==
    /\ Handled(c) /\ Reply({c})
    /\ UNCHANGED <<MetaVars, used, open, running, task, deferred>>

DoGetData(c) == req[c].op = "get_data" /\ Post(c, NoObject)

DoListData(c) == req[c].op = "list_data" /\ Post(c, NoObject)

\* Mutant: the id is drawn from the ids the tree does not hold, so an id
\* whose object was deleted is handed out again.
DoCreateDataReuseId(c) ==
    /\ req[c].op = "create_data"
    /\ \/ req[c].tree \in {"untyped", "blob", "no_instance"} /\ Refuse(c)
       \/ /\ req[c].tree = "object"
          /\ \E o \in Objects \ data :
                /\ Handled(c)
                /\ used' = used \cup {o}
                /\ task' = [task EXCEPT ![c] = [req |-> req[c], target |-> o]]
                /\ UNCHANGED <<MetaVars, open, running, inflight, deferred>>

\* CreateData: a tree without typename is answered MetaTreeInvalid through

\* the callback; a Blob typename or a missing instance_id fails the
\* RETURN_ON_ASSERTs; otherwise an id is generated and the update posted.
DoCreateData(c) ==
    /\ req[c].op = "create_data"
    /\ \/ req[c].tree \in {"untyped", "blob", "no_instance"} /\ Refuse(c)
       \/ /\ req[c].tree = "object"
          /\ \E o \in Objects \ used :
                /\ Handled(c)
                /\ used' = used \cup {o}
                /\ task' = [task EXCEPT ![c] = [req |-> req[c], target |-> o]]
                /\ UNCHANGED <<MetaVars, open, running, inflight, deferred>>

\* Persist: blobs cannot be persisted.
DoPersist(c) ==
    /\ req[c].op = "persist"
    /\ IF IsBlob(req[c].id) THEN Refuse(c) ELSE Post(c, NoObject)

\* IfPersist and Exists of a blob are posted to the context; of an object,
\* handed to the meta service.
DoIfPersist(c) == req[c].op = "if_persist" /\ Post(c, NoObject)

DoExists(c) == req[c].op = "exists" /\ Post(c, NoObject)

\* ShallowCopy: blobs cannot be copied; otherwise a target id is generated.
DoShallowCopy(c) ==
    /\ req[c].op = "shallow_copy"
    /\ \/ IsBlob(req[c].id) /\ Refuse(c)
       \/ /\ ~IsBlob(req[c].id)
          /\ \E o \in Objects \ used :
                /\ Handled(c)
                /\ used' = used \cup {o}
                /\ task' = [task EXCEPT ![c] = [req |-> req[c], target |-> o]]
                /\ UNCHANGED <<MetaVars, open, running, inflight, deferred>>

\* The synchronous part of VineyardServer::DelData: the fast path takes
\* blobs only, and posts their deletion to the context; otherwise the
\* deletion is handed to the meta service.
PostDelData(c) ==
    IF req[c].fastpath /\ ~(req[c].ids \subseteq Blobs)
      THEN Refuse(c) ELSE Post(c, NoObject)

DoDelData(c) ==
    /\ req[c].op = "del_data" /\ ~req[c].feedbacks /\ PostDelData(c)

DoDelDataWithFeedbacks(c) ==
    /\ req[c].op = "del_data" /\ req[c].feedbacks /\ PostDelData(c)

DoPutName(c) == req[c].op = "put_name" /\ Post(c, NoObject)

DoGetName(c) == req[c].op = "get_name" /\ Post(c, NoObject)

DoDropName(c) == req[c].op = "drop_name" /\ Post(c, NoObject)

\* doCreateBuffer: the bulk store creates a blob and the reply is written;
\* when it holds every id it may give, the creation fails.
DoCreateBuffer(c) ==
    /\ req[c].op = "create_buffer"
    /\ IF blobs = Blobs
         THEN Refuse(c)
         ELSE /\ \E b \in Blobs \ blobs : blobs' = blobs \cup {b}
              /\ Handled(c) /\ Reply({c})
              /\ UNCHANGED <<data, persisted, names, objname, used, open,
                             running, task, deferred>>

\* The read loop of c finds EOF after the last request: doStop.
ReadEOF(c) ==
    /\ ~open[c] /\ running[c] /\ req[c] = NoReq
    /\ running' = [running EXCEPT ![c] = FALSE]
    /\ UNCHANGED <<MetaVars, used, open, req, inflight, task, deferred>>

-----------------------------------------------------------------------------
(* Callbacks: one step of the meta service, or of the context, running the *)
(* callback that the handler of c left.                                    *)

T(c) == task[c].req
Done(c) == task' = [task EXCEPT ![c] = NoTask]

\* The callback answers c from the tree as it is, changing nothing.
Answer(c) ==
    /\ Done(c) /\ Reply({c})
    /\ UNCHANGED <<MetaVars, used, open, running, req, deferred>>

\* RequestToGetData(sync_remote) passes an error status when the sync from
\* etcd fails; the callbacks of GetData, GetName and Exists then return the
\* status without calling the handler's callback, and nothing is written.
SyncFailure(c) ==
    /\ MetaSyncFails
    /\ Done(c)
    /\ UNCHANGED <<MetaVars, used, open, running, req, inflight, deferred>>

\* The callbacks of GetData and GetName: with wait unset, or when the
\* test_task holds, eval_task answers; otherwise the request is deferred.
EvalOrDefer(c) ==
    /\ Done(c)
    /\ IF ~T(c).wait \/ TestTask(T(c), Meta, blobs)
         THEN Reply({c}) /\ UNCHANGED deferred
         ELSE /\ deferred' = Append(deferred, [c |-> c, req |-> T(c)])
              /\ UNCHANGED inflight
    /\ UNCHANGED <<MetaVars, used, open, running, req>>

\* VineyardServer::GetData.
GetData(c) ==
    /\ T(c).op = "get_data"
    /\ \/ T(c).sync /\ SyncFailure(c)
       \/ EvalOrDefer(c)

\* VineyardServer::GetName, which always syncs.
GetName(c) ==
    /\ T(c).op = "get_name"
    /\ \/ SyncFailure(c)
       \/ EvalOrDefer(c)

\* VineyardServer::Exists: a blob is looked up in the bulk store on the
\* context; an object in the tree synced from etcd.
Exists(c) ==
    /\ T(c).op = "exists"
    /\ \/ ~IsBlob(T(c).id) /\ SyncFailure(c)
       \/ Answer(c)

\* VineyardServer::IfPersist (a blob is never persisted) and ListData read
\* the local tree.
IfPersist(c) == T(c).op = "if_persist" /\ Answer(c)

ListData(c) == T(c).op = "list_data" /\ Answer(c)

\* VineyardServer::CreateData: PutDataOps adds the generated id, transient.
CreateData(c) ==
    /\ T(c).op = "create_data" /\ Done(c)
    /\ Commit(c, data \cup {task[c].target}, persisted, names, objname, blobs)
    /\ UNCHANGED <<used, open, running, req>>

\* Mutant: the failure of PersistOps is returned without the callback.
PersistNoReplyOnError(c) ==
    /\ T(c).op = "persist" /\ Done(c)
    /\ IF T(c).id \in data
         THEN Commit(c, data, persisted \cup {T(c).id}, names, objname, blobs)
         ELSE UNCHANGED <<MetaVars, deferred, inflight>>
    /\ UNCHANGED <<used, open, running, req>>

\* VineyardServer::Persist: PersistOps fails on an object the tree lacks.
Persist(c) ==
    /\ T(c).op = "persist" /\ Done(c)
    /\ IF T(c).id \in data
         THEN Commit(c, data, persisted \cup {T(c).id}, names, objname, blobs)
         ELSE Reply({c}) /\ UNCHANGED <<MetaVars, deferred>>
    /\ UNCHANGED <<used, open, running, req>>

\* VineyardServer::ShallowCopy: ShallowCopyOps puts a transient copy of an
\* existing object under the target id.
ShallowCopy(c) ==
    /\ T(c).op = "shallow_copy" /\ Done(c)
    /\ IF T(c).id \in data
         THEN Commit(c, data \cup {task[c].target}, persisted, names, objname,
                     blobs)
         ELSE Reply({c}) /\ UNCHANGED <<MetaVars, deferred>>
    /\ UNCHANGED <<used, open, running, req>>

\* Mutant: DelDataOps deletes the objects but keeps their "persist" marks.
DelDataKeepPersisted(c) ==
    /\ T(c).op = "del_data" /\ Done(c)
    /\ LET objs == T(c).ids \ Blobs
       IN  \/ /\ T(c).fastpath
              /\ blobs' = blobs \ T(c).ids /\ Reply({c})
              /\ UNCHANGED <<data, persisted, names, objname, deferred>>
           \/ /\ ~T(c).fastpath /\ ~(objs \subseteq data)
              /\ Reply({c}) /\ UNCHANGED <<MetaVars, deferred>>
           \/ /\ ~T(c).fastpath /\ objs \subseteq data
              /\ Commit(c, data \ objs, persisted, names,
                        [o \in Objects |-> IF o \in objs THEN NoName
                                                         ELSE objname[o]],
                        blobs \ T(c).ids)
    /\ UNCHANGED <<used, open, running, req>>

\* VineyardServer::DelData.  The fast path deletes the blobs from the bulk

\* store on the context (BulkStore::OnDelete) and answers.  Otherwise
\* RequestToDelete: DelDataOps fails with ObjectNotExists on an object the
\* tree lacks; else the objects leave the tree (their "__name" with them)
\* and the blobs are dropped from the bulk store.
DelData(c) ==
    /\ T(c).op = "del_data" /\ Done(c)
    /\ LET objs == T(c).ids \ Blobs
       IN  \/ /\ T(c).fastpath
              /\ blobs' = blobs \ T(c).ids /\ Reply({c})
              /\ UNCHANGED <<data, persisted, names, objname, deferred>>
           \/ /\ ~T(c).fastpath /\ ~(objs \subseteq data)
              /\ Reply({c}) /\ UNCHANGED <<MetaVars, deferred>>
           \/ /\ ~T(c).fastpath /\ objs \subseteq data
              /\ Commit(c, data \ objs, persisted \ objs, names,
                        [o \in Objects |-> IF o \in objs THEN NoName
                                                         ELSE objname[o]],
                        blobs \ T(c).ids)
    /\ UNCHANGED <<used, open, running, req>>

\* VineyardServer::PutName: a blob, an object the tree lacks, or a
\* transient one cannot have a name; otherwise "/names/<name>" and the
\* object's "__name" are put.
PutName(c) ==
    /\ T(c).op = "put_name" /\ Done(c)
    /\ LET o == T(c).id  n == T(c).name
       IN  IF ~IsBlob(o) /\ o \in data /\ o \in persisted
             THEN Commit(c, data, persisted, [names EXCEPT ![n] = o],
                         [objname EXCEPT ![o] = n], blobs)
             ELSE Reply({c}) /\ UNCHANGED <<MetaVars, deferred>>
    /\ UNCHANGED <<used, open, running, req>>

\* VineyardServer::DropName: a bound name is deleted, and the "__name" of
\* its object if the object still exists; an unbound one puts no ops.
DropName(c) ==
    /\ T(c).op = "drop_name" /\ Done(c)
    /\ LET n == T(c).name  o == names[n]
       IN  Commit(c, data, persisted, [names EXCEPT ![n] = NoObject],
                  IF o # NoObject /\ o \in data
                    THEN [objname EXCEPT ![o] = NoName] ELSE objname,
                  blobs)
    /\ UNCHANGED <<used, open, running, req>>

-----------------------------------------------------------------------------
Handle(c) ==
    /\ req[c] # NoReq
    /\ \/ DoGetData(c) \/ DoListData(c) \/ DoCreateData(c) \/ DoPersist(c)
       \/ DoIfPersist(c) \/ DoExists(c) \/ DoShallowCopy(c) \/ DoDelData(c)
       \/ DoDelDataWithFeedbacks(c) \/ DoPutName(c) \/ DoGetName(c)
       \/ DoDropName(c) \/ DoCreateBuffer(c)


RunTask(c) ==
    /\ task[c] # NoTask
    /\ \/ GetData(c) \/ GetName(c) \/ Exists(c) \/ IfPersist(c)
       \/ ListData(c) \/ CreateData(c) \/ Persist(c) \/ ShallowCopy(c)
       \/ DelData(c) \/ PutName(c) \/ DropName(c)

Next ==
    \E c \in Clients :
        \/ \E r \in CallRequests : Call(c, r)
        \/ Disconnect(c)
        \/ Handle(c)
        \/ RunTask(c)
        \/ ReadEOF(c)

\* The worker threads run every handler whose message has arrived and
\* every callback posted; the read loop of a closed socket reaches EOF.
Fairness ==
    \A c \in Clients : WF_vars(Handle(c)) /\ WF_vars(RunTask(c))
                       /\ WF_vars(ReadEOF(c))

Spec == Init /\ [][Next]_vars /\ Fairness

-----------------------------------------------------------------------------
(* Properties.                                                             *)

IsDeferred(c) == \E i \in 1..Len(deferred) : deferred[i].c = c

\* The reads whose meta service request syncs from etcd.
SyncRead(r) ==
    \/ r.op = "get_data" /\ r.sync
    \/ r.op = "get_name"
    \/ r.op = "exists" /\ ~IsBlob(r.id)

\* A deferred request waits only for the metadata: every change of the
\* tree (CreateData, Persist, ShallowCopy, DelData, PutName, DropName) runs
\* ProcessDeferred, so no live get_name, and no live get_data of objects
\* only, stays in deferred_ while its test_task holds.
NoSatisfiedMetaRequestDeferred ==
    \A i \in 1..Len(deferred) :
        LET d == deferred[i]
        IN  (Alive(d) /\ ~(d.req.op = "get_data" /\ d.req.ids \cap Blobs # {}))
                => ~TestTask(d.req, Meta, blobs)

\* The same for every deferred request, a get_data that waits for blobs
\* included: what a request waits for is there, and it is still deferred.
NoSatisfiedRequestDeferred ==
    \A i \in 1..Len(deferred) :
        Alive(deferred[i]) => ~TestTask(deferred[i].req, Meta, blobs)

\* Every call of a client whose request is not a synced read returns, or
\* is parked in deferred_: each handler, and each callback it posts,
\* writes a reply on every path.
AnsweredUnlessSyncRead ==
    \A c \in Clients :
        (inflight[c] # NoReq /\ ~SyncRead(inflight[c]))
            ~> (inflight[c] = NoReq \/ IsDeferred(c))

\* Every call of a client returns or is parked in deferred_ (spec.md: each
\* request has its reply).
RequestAnswered ==
    \A c \in Clients :
        inflight[c] # NoReq ~> (inflight[c] = NoReq \/ IsDeferred(c))

\* The deferred request of a closed connection is dropped: alive_fn turns
\* false when doStop runs, and ProcessDeferred erases it (spec.md, scenario
\* 6: closing the socket cancels the request without leaking it).
DeadRequestCollected ==
    \A c \in Clients : (~running[c] /\ IsDeferred(c)) ~> ~IsDeferred(c)

\* The "__name" field of an object and the "names" index agree: an object
\* that carries a name is the object the name is bound to.
NameBackReference ==
    \A o \in Objects : objname[o] # NoName => names[objname[o]] = o

-----------------------------------------------------------------------------
(* Refinement of MetaStore.  An object is live while the tree holds it; an *)
(* id GenerateObjectID handed out is fresh while the callback that will    *)
(* create it is queued, and retired once it is neither queued nor live.    *)

AbsObjects ==
    [o \in Objects |->
        IF o \in data
          THEN IF o \in persisted THEN "persistent" ELSE "transient"
        ELSE IF o \in used /\ ~\E c \in Clients : task[c] # NoTask /\ task[c].target = o
          THEN "retired"
        ELSE "fresh"]

Abstract == INSTANCE MetaStore WITH objects <- AbsObjects, binding <- names

\* Every step of the handlers and callbacks is a step of MetaStore or
\* leaves its state alone: ids are never reused, names bind persisted
\* objects only, and deleted objects do not come back.
MetaStoreSpec == Abstract!Spec

====
