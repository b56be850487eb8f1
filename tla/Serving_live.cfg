\* One document, and a rebuild beside writers as reindex.py describes it.
CONSTANTS
    Docs = {d1}
    Workers = {w1}
    NoDoc = NoDoc
    NoWorker = NoWorker
    MaxAttempts = 1
    MaxPending = 1
    MaxChunks = 1
    MaxGen = 2
    ConnectionsDrop = FALSE
    Searches = {s1}
    MaxHits = 1
    BatchSize = 1
    Quiesced = FALSE
    Overlap = FALSE
SPECIFICATION ServingSpec
INVARIANTS ReadyIsIndexed
\* Once every document of the bound is settled or deleted the queue is idle.
CHECK_DEADLOCK FALSE
