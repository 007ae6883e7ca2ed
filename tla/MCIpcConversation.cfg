\* Every client function of client.cc and of ClientBase, in a build
\* without GPU, with up to two items per message.
CONSTANTS
    ClientCalls <- MCAnsweredCalls
    EnableGPU = FALSE
    MaxItems = 2
SPECIFICATION Spec
INVARIANTS TypeOK WireAgreement
PROPERTIES CallReturns
