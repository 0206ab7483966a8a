\* One client, as in data_iterator_test.cc, and a spurious wakeup.
SPECIFICATION FairSpec
CONSTANTS
    Clients = {main}
    Loop = loader
    BufSize = 3
    NumBatches = 4
    Spurious = TRUE
CHECK_DEADLOCK FALSE
PROPERTIES
    TerminateReturns
