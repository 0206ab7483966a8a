\* Two clients share the iterator and cond_.wait may wake spuriously.
SPECIFICATION Spec
CONSTANTS
    Clients = {main, worker}
    Loop = loader
    BufSize = 2
    NumBatches = 5
    Spurious = TRUE
CHECK_DEADLOCK FALSE
INVARIANTS
    TypeOK
    StreamInOrder
    EndIsTruthful
    NoLostWakeup
PROPERTIES
    NothingPushedAfterFinish
    StreamIsSafe
