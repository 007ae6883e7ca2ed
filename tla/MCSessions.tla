----------------------------- MODULE MCSessions -----------------------------
EXTENDS Sessions

CONSTANTS c1, c2, r0, s1, s2, b1

MCClients == {c1, c2}
MCSessionIDs == {s1, s2}
MCBlobs == {b1}

=============================================================================
