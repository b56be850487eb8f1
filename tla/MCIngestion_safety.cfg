\* One document, two workers, three attempts; Postgres keeps a row lock for as
\* long as its worker lives.
CONSTANTS
    Docs = {d1}
    Workers = {w1, w2}
    NoDoc = NoDoc
    NoWorker = NoWorker
    MaxAttempts = 3
    MaxPending = 1
    MaxChunks = 2
    MaxGen = 2
    ConnectionsDrop = FALSE
SPECIFICATION Spec
SYMMETRY Symmetry
INVARIANTS TypeOK RowsAgree ReadyIsIndexed DeletedLeavesNothing
PROPERTIES LockFences RefinesLifecycle
\* Once every document of the bound is settled or deleted the queue is idle.
CHECK_DEADLOCK FALSE
