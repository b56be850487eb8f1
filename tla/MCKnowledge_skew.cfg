\* Two ingestion workers withdraw the two sources of one fact.
CONSTANTS
    Docs = {d1, d2}
    Entities = {e1}
    Relationships = {}
    Ingesters = {i1, i2}
    Extractors = {x1}
    Reviewers = {r1}
    NoDoc = NoDoc
    NoFact = NoFact
    NoProposal = NoProposal
    MaxAttempts = 1
    Corrections = {}
    MaxGen = 2
    MaxRuns = 0
SPECIFICATION Spec
SYMMETRY Symmetry
INVARIANTS SupportedFacts
\* Once every document is deleted and no fact id is left, nothing remains to do.
CHECK_DEADLOCK FALSE
