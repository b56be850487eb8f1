\* Two sources for a fact, two entities and a relationship between them.  One
\* ingestion worker, one reviewer at a time and no correction back to CONFIRMED:
\* the deployment in which evidence and status cannot part.
CONSTANTS
    Docs = {d1, d2}
    Entities = {e1, e2}
    Relationships = {f1}
    Ingesters = {i1}
    Extractors = {x1}
    Reviewers = {r1}
    NoDoc = NoDoc
    NoFact = NoFact
    NoProposal = NoProposal
    MaxAttempts = 1
    Corrections = {"ARCHIVED"}
    MaxGen = 1
    MaxRuns = 1
SPECIFICATION Spec
SYMMETRY Symmetry
INVARIANTS TypeOK SupportedFacts AcceptedIsCited
PROPERTIES CitesReady ReviewedOnce
\* Once every document is deleted and no fact id is left, nothing remains to do.
CHECK_DEADLOCK FALSE
