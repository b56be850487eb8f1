\* A superseded worker meets a claim with the same attempt number.
CONSTANTS
    Docs = {d1}
    Workers = {w1, w2}
    NoDoc = NoDoc
    NoWorker = NoWorker
    MaxAttempts = 2
    MaxPending = 1
    MaxChunks = 2
    MaxGen = 2
    ConnectionsDrop = FALSE
SPECIFICATION Spec
SYMMETRY Symmetry
PROPERTIES LeaseRespected
\* Once every document of the bound is settled or deleted the queue is idle.
CHECK_DEADLOCK FALSE
