\* Liveness: no symmetry, one entity, the extraction of one document retried.
CONSTANTS
    Docs = {d1}
    Entities = {e1}
    Relationships = {}
    Ingesters = {i1}
    Extractors = {x1, x2}
    Reviewers = {r1}
    NoDoc = NoDoc
    NoFact = NoFact
    NoProposal = NoProposal
    MaxAttempts = 2
    Corrections = {"ARCHIVED"}
    MaxGen = 2
    MaxRuns = 2
SPECIFICATION FairSpec
INVARIANTS OneRunProposed
PROPERTIES ExtractionResolves
\* Once every document is deleted and no fact id is left, nothing remains to do.
CHECK_DEADLOCK FALSE
