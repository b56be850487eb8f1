\* Liveness: no symmetry; two workers, crashes without limit, dropped connections.
CONSTANTS
    Docs = {d1}
    Workers = {w1, w2}
    NoDoc = NoDoc
    NoWorker = NoWorker
    MaxAttempts = 2
    MaxPending = 1
    MaxChunks = 1
    MaxGen = 2
    ConnectionsDrop = TRUE
SPECIFICATION FairSpec
PROPERTIES PendingResolves
\* Once every document of the bound is settled or deleted the queue is idle.
CHECK_DEADLOCK FALSE
