\* The trainer: one client, a data set longer than two buffers.
SPECIFICATION FairSpec
CONSTANTS
    Clients = {main}
    Loop = loader
    BufSize = 3
    NumBatches = 8
    Spurious = FALSE
INVARIANTS
    JoinAfterExit
PROPERTIES
    TerminateReturns
    StreamIsServed
