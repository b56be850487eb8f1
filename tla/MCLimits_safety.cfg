\* Documents of up to four words, cut into sentences and paragraphs in every way;
\* sizes below and above the overlap and the budget, and one that just fits.  Or up to
\* four relationships in force among four entities, with at most one row more than are
\* loaded.  Or two files, two allowances of two.
CONSTANTS
    Budget = 20
    BatchBudget = 9
    WordTokens <- MCWordTokens
    ChunkChars <- MCChunkChars
    MaxWords = 4
    Entities = {e1, e2, e3, e4}
    Predicates = {uses}
    Limit = 3
    RowCap = 4
    MaxEdges = 4
    MaxExpired = 1
    MaxSeeds = 2
    Uploads = {u1, u2}
    Files = {d1, d2}
    MaxFiles = 2
    MaxStorage = 3
    MaxUpload = 2
    Allowance = 2
    Minute = 3
    LastTick = 6
SPECIFICATION LimitsSpec
INVARIANTS NothingLost OneBatchEach KeptWhole WithinBudget Advances
INVARIANTS WithinTwoHops NothingNearMissed RateBounded QuotaKept
PROPERTIES Ends
\* The loops end.
CHECK_DEADLOCK FALSE
