\* A worker whose lock is gone keeps writing to Qdrant.
CONSTANTS
    Docs = {d1}
    Workers = {w1, w2}
    NoDoc = NoDoc
    NoWorker = NoWorker
    MaxAttempts = 2
    MaxPending = 1
    MaxChunks = 2
    MaxGen = 2
    ConnectionsDrop = TRUE
SPECIFICATION Spec
SYMMETRY Symmetry
INVARIANTS DeletedLeavesNothing
\* Once every document of the bound is settled or deleted the queue is idle.
CHECK_DEADLOCK FALSE
