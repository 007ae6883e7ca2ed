--------------------------- MODULE MCBlobLifecycle ---------------------------
(* Model-checking instance of BlobLifecycle: two local clients, one remote *)
(* writer, two blob ids.                                                   *)
EXTENDS BlobLifecycle

CONSTANTS c1, c2, w1, b1, b2

MCClients == {c1, c2}
MCWriters == {w1}
MCNoWriters == {}
MCOneClient == {c1}
MCBlobs   == {b1, b2}

\* Clients are interchangeable: nothing in the server orders connections
\* (connection ids are numbers and stay ordered).  Blob ids are
\* interchangeable: the store only compares them.
Symmetry == Permutations(MCClients) \cup Permutations(MCBlobs)
=============================================================================
