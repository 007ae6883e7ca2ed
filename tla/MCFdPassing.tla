---------------------------- MODULE MCFdPassing ----------------------------
(***************************************************************************)
(* Model-checking instance of FdPassing: two client connections, two      *)
(* arenas (store fds 3 and 4), two allocatable blob ids and the empty      *)
(* blob 0.  Two arenas and two blobs are the least that let one reply      *)
(* reference an arena the connection holds and one it does not, and let  *)
(* two payloads share an arena (the dedup paths).                          *)
(***************************************************************************)
EXTENDS FdPassing

CONSTANTS c1, c2

MCConns  == {c1, c2}
\* One connection: what stray fds do to the connection that receives them
\* does not depend on the others (which only share the store).
MCOneConn == {c1}
MCArenas == {3, 4}
MCBlobs  == {1, 2}

\* A plasma application that also calls GetPayloads directly (as
\* Client::ShallowCopy does on its source PlasmaClient).
MCAllPlasmaCalls == PlasmaCalls

MCNoFd  == -1
MCBadFd == -2

Symmetry == Permutations(MCConns)
=============================================================================
