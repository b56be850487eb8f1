\* Two documents and one pending slot, one worker, one search, one rebuild; or one
\* account with two tokens and two calls (named like the documents, which keeps
\* the symmetry group small), one document, and its backups; or two people who may
\* both become owners (named so too), two requests of theirs, three keys.
CONSTANTS
    Docs = {d1, d2}
    Workers = {w1}
    NoDoc = NoDoc
    NoWorker = NoWorker
    MaxAttempts = 1
    MaxPending = 1
    MaxChunks = 1
    MaxGen = 2
    ConnectionsDrop = FALSE
    Searches = {s1}
    MaxHits = 2
    BatchSize = 1
    Quiesced = TRUE
    Overlap = FALSE
    People = {p1}
    Tokens = {d1, d2}
    Calls = {d1, d2}
    NoPerson = NoPerson
    Company = Company
    MaxPasswords = 2
    Papers = {f1}
    Users = {d1, d2}
    Requests = {d1, d2}
    Keys = {1, 2, 3}
    Invitations = {i1}
    NoUser = NoUser
    NoKey = NoKey
    NoInvitation = NoInvitation
    GrantedRoles = {"owner", "member"}
    MaxInvitations = 1
SPECIFICATION OperationsSpec
SYMMETRY Symmetry
INVARIANTS ServingTypeOK PendingBounded ReadyIsIndexed UntouchedIsExact NeverOlder VerifiedIsExact
INVARIANTS SessionsTypeOK NoOldPassword RowsKeepFiles
INVARIANTS OrganizationTypeOK IssuerIsOwner ReplacedOnce
PROPERTIES EndedStaysEnded KeepsOwner RevokedIsFinal NoWayBack
\* Once every document of the bound is settled or deleted the queue is idle; an
\* organisation whose accounts and keys are used up is at rest.
CHECK_DEADLOCK FALSE
