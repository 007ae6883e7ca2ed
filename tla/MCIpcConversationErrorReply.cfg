\* Every client function except PlasmaClient::OnDelete, in a build
\* without GPU: the reply side of the wire, error replies included.
CONSTANTS
    ClientCalls <- MCAnsweredCalls
    EnableGPU = FALSE
    MaxItems = 2
SPECIFICATION Spec
INVARIANTS ErrorReplyAgreement
