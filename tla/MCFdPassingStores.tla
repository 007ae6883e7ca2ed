------------------------- MODULE MCFdPassingStores -------------------------
(***************************************************************************)
(* The two bulk stores in one model: the run starts in either store (the   *)
(* server's bulk_store_type, fixed for its lifetime) and then behaves as  *)
(* FdPassing with the application of that store: every fd-passing call   *)
(* of Client for the default store, and the plasma calls that read        *)
(* buffers through PlasmaClient::GetBuffers for the plasma store.  The     *)
(* constants are those of MCFdPassing.                                     *)
(***************************************************************************)
EXTENDS Integers, FiniteSets, TLC

CONSTANTS c1, c2, a3, a4

VARIABLES store, arenaKind, usedFds, req, wire, mmapTable, inUse, pc,
          bulkStoreType

MCConns == {c1, c2}
\* The two arenas' store fds.  FdPassing only tests fds for membership and
\* equality, never orders them, so they are interchangeable.
MCArenas == {a3, a4}

Default == INSTANCE FdPassing WITH
             Conns <- MCConns, Arenas <- MCArenas, Blobs <- {1, 2},
             EmptyBlob <- 0, NoFd <- -1, BadFd <- -2,
             ClientCalls <- {"CreateBuffer", "GetBuffers", "Seal",
                              "CreateArena"}

Plasma == INSTANCE FdPassing WITH
            Conns <- MCConns, Arenas <- MCArenas, Blobs <- {1, 2},
            EmptyBlob <- 0, NoFd <- -1, BadFd <- -2,
            ClientCalls <- {"PlasmaCreateBuffer", "PlasmaGetBuffers",
                             "PlasmaSeal"}

Init ==
  /\ bulkStoreType \in {"Normal", "Plasma"}
  /\ Default!Init

Next ==
  /\ \/ bulkStoreType = "Normal" /\ Default!Next
     \/ bulkStoreType = "Plasma" /\ Plasma!Next
  /\ UNCHANGED bulkStoreType

Spec == Init /\ [][Next]_<<Default!vars, bulkStoreType>>

\* No call of the default client reads object_in_use_ (only the plasma
\* GetPayloads looks it up), so default-store states that differ only in
\* it are identified.
StoresView ==
  IF bulkStoreType = "Normal"
  THEN <<bulkStoreType, store, arenaKind, usedFds, req, wire, mmapTable, pc>>
  ELSE <<bulkStoreType, Default!vars>>

Symmetry == Permutations(MCConns) \cup Permutations(MCArenas)

StoresTypeOK ==
  /\ bulkStoreType \in {"Normal", "Plasma"}
  /\ bulkStoreType = "Normal" => Default!TypeOK
  /\ bulkStoreType = "Plasma" => Plasma!TypeOK

\* FdPassing!FdTableFaithful for both stores: every fd in a client's
\* mmap_table_ maps to the arena the server meant by it.
StoresFdTableFaithful == Default!FdTableFaithful

\* FdPassing!QuiescentAgreement for both stores: once a call returned, the
\* server's used_fds_ equals the fds of the client's mmap_table_.
StoresQuiescentAgreement == Default!QuiescentAgreement
=============================================================================
