\* Two requests review one proposal.
CONSTANTS
    Docs = {d1}
    Entities = {e1, e2}
    Relationships = {}
    Ingesters = {i1}
    Extractors = {x1}
    Reviewers = {r1, r2}
    NoDoc = NoDoc
    NoFact = NoFact
    NoProposal = NoProposal
    MaxAttempts = 1
    Corrections = {"ARCHIVED"}
    MaxGen = 1
    MaxRuns = 0
SPECIFICATION Spec
SYMMETRY Symmetry
PROPERTIES ReviewedOnce
\* Once every document is deleted and no fact id is left, nothing remains to do.
CHECK_DEADLOCK FALSE
