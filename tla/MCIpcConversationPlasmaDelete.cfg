\* A plasma client that deletes a blob.
CONSTANTS
    ClientCalls <- MCDeleteCalls
    EnableGPU = FALSE
    MaxItems = 2
SPECIFICATION Spec
PROPERTIES CallReturns
