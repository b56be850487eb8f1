----------------------------- MODULE Knowledge -----------------------------
(***************************************************************************)
(* What a company knows: facts (entities and relationships) that human     *)
(* reviewers confirm, each backed by chunks of documents, and the          *)
(* proposals a language model extracts from a document.  Three kinds of    *)
(* process meet here: ingestion workers, which withdraw what a reindexed   *)
(* or deleted document supported (knowledge_service.py, worker.py),        *)
(* knowledge workers, which extract proposals (knowledge_worker.py), and   *)
(* HTTP requests, which review proposals and edit facts (api/knowledge.py).*)
(*                                                                         *)
(* One organisation; one chunk per document, so a document stands for its  *)
(* chunk.  Of the ingestion queue, which Ingestion models in full, only    *)
(* what withdraws knowledge is kept.  Postgres runs at READ COMMITTED: a   *)
(* transaction that holds a document row across other steps is two actions,*)
(* what it reads at the first and what becomes visible at the second.      *)
(* SQLAlchemy sessions keep what they loaded: a reviewer's second SELECT   *)
(* of a proposal, though FOR UPDATE, returns the object it already has.    *)
(*                                                                         *)
(* A definition whose comment begins with "Variant" is the next definition *)
(* with a slip in it: the runs show which property notices the slip.       *)
(***************************************************************************)
EXTENDS Naturals, FiniteSets

CONSTANTS
    Docs,           \* documents of the organisation
    Entities,       \* ids of entities ...
    Relationships,  \* ... and of relationships, each used for one creation
    Ingesters,      \* ingestion worker processes
    Extractors,     \* knowledge worker processes
    Reviewers,      \* HTTP requests that review a proposal at the same time
    NoDoc, NoFact, NoProposal,
    MaxAttempts,    \* settings.job_max_attempts
    Corrections,    \* the statuses a PATCH sets
    MaxGen,         \* bound: how often a document is indexed
    MaxRuns         \* bound: how many extractions of a document commit

Facts == Entities \union Relationships
Kinds == {"entity", "relationship"}

ASSUME KnowledgeAssumption ==
    /\ NoDoc \notin Docs
    /\ NoFact \notin Facts
    /\ NoProposal \notin Docs \X Nat \X Kinds
    /\ Entities \intersect Relationships = {}
    /\ Corrections \subseteq {"CONFIRMED", "ARCHIVED", "WITHDRAWN"}
    /\ MaxAttempts \in Nat \ {0}
    /\ MaxGen \in Nat \ {0}
    /\ MaxRuns \in Nat

VARIABLES
    doc,        \* documents: status and index_generation
    kjob,       \* knowledge_jobs: generation, status, attempts, ripe, runs
    fact,       \* entities.status and relationships.status
    evidence,   \* entity_evidence and relationship_evidence: <<fact, document>>
    proposals,  \* extraction_proposals
    ingester,   \* an ingestion worker's open transaction
    extractor,  \* a knowledge worker's program state
    reviewer    \* a review request's session: the proposal and job it has loaded

vars == <<doc, kjob, fact, evidence, proposals, ingester, extractor, reviewer>>
-----------------------------------------------------------------------------
(* Values *)

DocStatus == {"QUEUED", "READY", "FAILED", "DELETING", "GONE"}
JobStatus == {"NONE", "QUEUED", "PROCESSING", "SUCCEEDED", "FAILED"}
FactStatus == {"NONE", "CONFIRMED", "ARCHIVED", "WITHDRAWN"}

NoJob == [gen |-> 0, status |-> "NONE", attempts |-> 0, ripe |-> FALSE, runs |-> 0]
NoWork == [doc |-> NoDoc, drop |-> {}]
Resting == [pc |-> "idle", doc |-> NoDoc, attempt |-> 0]
NoReview == [id |-> NoProposal, gen |-> 0]

\* What identifies a proposal row: the run of the document's job and its kind.
Id(p) == <<p.doc, p.run, p.kind>>

Extracts(x, d) == extractor[x].pc = "extracting" /\ extractor[x].doc = d

\* Who has the document row FOR UPDATE.
Unlocked(d) ==
    /\ \A i \in Ingesters : ingester[i].doc # d
    /\ \A x \in Extractors : ~Extracts(x, d)

EvidenceOf(f) == {d \in Docs : <<f, d>> \in evidence}
Proposed(d) == {p \in proposals : p.doc = d /\ p.status = "PROPOSED"}

Init ==
    /\ doc = [d \in Docs |-> [status |-> "QUEUED", gen |-> 1]]
    /\ kjob = [d \in Docs |-> NoJob]
    /\ fact = [f \in Facts |-> "NONE"]
    /\ evidence = {}
    /\ proposals = {}
    /\ ingester = [i \in Ingesters |-> NoWork]
    /\ extractor = [x \in Extractors |-> Resting]
    /\ reviewer = [r \in Reviewers |-> NoReview]
-----------------------------------------------------------------------------
(* Ingestion: reindexing and deleting documents withdraws knowledge *)

\* queue_existing, as far as knowledge is concerned.
RequestReindex(d) ==
    /\ Unlocked(d)
    /\ doc[d].status \in {"READY", "FAILED"}
    /\ doc[d].gen < MaxGen
    /\ doc' = [doc EXCEPT ![d] = [status |-> "QUEUED", gen |-> @.gen + 1]]
    /\ UNCHANGED <<kjob, fact, evidence, proposals, ingester, extractor, reviewer>>

RequestDelete(d) ==
    /\ Unlocked(d)
    /\ doc[d].status \in {"QUEUED", "READY", "FAILED"}
    /\ doc' = [doc EXCEPT ![d].status = "DELETING"]
    /\ UNCHANGED <<kjob, fact, evidence, proposals, ingester, extractor, reviewer>>

\* Variant: entities are not looked at.
UnsupportedRelationships(d) ==
    {f \in Relationships : EvidenceOf(f) = {d} /\ fact[f] = "CONFIRMED"}

\* The facts withdraw_document_knowledge finds without other evidence.
UnsupportedWithout(d) ==
    {f \in Facts : EvidenceOf(f) = {d} /\ fact[f] = "CONFIRMED"}

\* A worker executes the document's job: it locks the row, deletes what the
\* document supported and decides which facts go with it.  Nobody else sees
\* any of this before it commits.
Withdraw(i, d) ==
    /\ ingester[i] = NoWork
    /\ doc[d].status \in {"QUEUED", "DELETING"}
    /\ Unlocked(d)
    /\ ingester' = [ingester EXCEPT ![i] = [doc |-> d, drop |-> UnsupportedWithout(d)]]
    /\ UNCHANGED <<doc, kjob, fact, evidence, proposals, extractor, reviewer>>

\* Variant: the proposals stay although the evidence goes.
WithdrawnForgetsProposals(d, drop) ==
    /\ evidence' = {e \in evidence : e[2] # d}
    /\ fact' = [f \in Facts |-> IF f \notin drop THEN fact[f]
                  ELSE IF f \in Entities THEN "ARCHIVED" ELSE "WITHDRAWN"]
    /\ proposals' = proposals

Withdrawn(d, drop) ==
    /\ evidence' = {e \in evidence : e[2] # d}
    /\ fact' = [f \in Facts |-> IF f \notin drop THEN fact[f]
                  ELSE IF f \in Entities THEN "ARCHIVED" ELSE "WITHDRAWN"]
    /\ proposals' = {p \in proposals : p.doc # d}

\* enqueue_knowledge, also reached through retry_extraction.
EnqueueKnowledge(d) ==
    kjob' = [kjob EXCEPT ![d] = [gen |-> doc[d].gen, status |-> "QUEUED",
                                 attempts |-> 0, ripe |-> TRUE, runs |-> @.runs]]

CommitReindexed(i) ==
    LET d == ingester[i].doc IN
    /\ d \in Docs
    /\ doc[d].status = "QUEUED"
    /\ doc' = [doc EXCEPT ![d].status = "READY"]
    /\ Withdrawn(d, ingester[i].drop)
    /\ EnqueueKnowledge(d)
    /\ ingester' = [ingester EXCEPT ![i] = NoWork]
    /\ UNCHANGED <<extractor, reviewer>>

CommitDeleted(i) ==
    LET d == ingester[i].doc IN
    /\ d \in Docs
    /\ doc[d].status = "DELETING"
    /\ doc' = [doc EXCEPT ![d].status = "GONE"]
    /\ Withdrawn(d, ingester[i].drop)
    /\ kjob' = [kjob EXCEPT ![d] = NoJob]
    /\ ingester' = [ingester EXCEPT ![i] = NoWork]
    /\ UNCHANGED <<extractor, reviewer>>

\* The transaction fails or its process dies; the job is retried or given up.
RollBack(i) ==
    LET d == ingester[i].doc IN
    /\ d \in Docs
    /\ \E s \in {doc[d].status, "FAILED"} : doc' = [doc EXCEPT ![d].status = s]
    /\ ingester' = [ingester EXCEPT ![i] = NoWork]
    /\ UNCHANGED <<kjob, fact, evidence, proposals, extractor, reviewer>>
-----------------------------------------------------------------------------
(* Knowledge workers *)

Claimable(d) ==
    /\ kjob[d].status \in {"QUEUED", "PROCESSING"}
    /\ kjob[d].ripe
    /\ Unlocked(d)

Stale(d) == doc[d].status # "READY" \/ doc[d].gen # kjob[d].gen

\* STALE_DOCUMENT or RETRIES_EXHAUSTED.
GiveUp(x, d) ==
    /\ extractor[x].pc = "idle"
    /\ Claimable(d)
    /\ Stale(d) \/ kjob[d].attempts >= MaxAttempts
    /\ kjob' = [kjob EXCEPT ![d].status = "FAILED", ![d].ripe = FALSE]
    /\ UNCHANGED <<doc, fact, evidence, proposals, ingester, extractor, reviewer>>

\* Variant: attempts are not counted.
ClaimUncounted(x, d) ==
    /\ extractor[x].pc = "idle"
    /\ Claimable(d)
    /\ ~Stale(d) /\ kjob[d].attempts < MaxAttempts
    /\ kjob' = [kjob EXCEPT ![d].status = "PROCESSING", ![d].ripe = FALSE]
    /\ extractor' = [extractor EXCEPT ![x] =
           [pc |-> "claimed", doc |-> d, attempt |-> kjob[d].attempts]]
    /\ UNCHANGED <<doc, fact, evidence, proposals, ingester, reviewer>>

TakeJob(x, d) ==
    /\ kjob' = [kjob EXCEPT ![d].status = "PROCESSING",
                            ![d].attempts = @ + 1, ![d].ripe = FALSE]
    /\ extractor' = [extractor EXCEPT ![x] =
           [pc |-> "claimed", doc |-> d, attempt |-> kjob[d].attempts + 1]]
    /\ UNCHANGED <<doc, fact, evidence, proposals, ingester, reviewer>>

\* Variant: attempts are not limited.
ClaimPastBudget(x, d) ==
    extractor[x].pc = "idle" /\ Claimable(d) /\ ~Stale(d) /\ TakeJob(x, d)

Claim(x, d) ==
    /\ extractor[x].pc = "idle"
    /\ Claimable(d)
    /\ ~Stale(d) /\ kjob[d].attempts < MaxAttempts
    /\ TakeJob(x, d)

Current(x) ==
    /\ kjob[extractor[x].doc].status = "PROCESSING"
    /\ kjob[extractor[x].doc].attempts = extractor[x].attempt

Rest(x) == extractor' = [extractor EXCEPT ![x] = Resting]

\* The document row is locked until the model has answered.
BeginExtraction(x) ==
    LET d == extractor[x].doc IN
    /\ extractor[x].pc = "claimed"
    /\ Unlocked(d)
    /\ Current(x) /\ kjob[d].gen = doc[d].gen
    /\ extractor' = [extractor EXCEPT ![x].pc = "extracting"]
    /\ UNCHANGED <<doc, kjob, fact, evidence, proposals, ingester, reviewer>>

\* Someone else settled the job, or the document moved on.
AbandonClaim(x) ==
    LET d == extractor[x].doc IN
    /\ \/ /\ extractor[x].pc = "claimed" /\ Unlocked(d)
          /\ ~Current(x) \/ kjob[d].gen # doc[d].gen
       \/ extractor[x].pc = "failed" /\ ~Current(x)
    /\ Rest(x)
    /\ UNCHANGED <<doc, kjob, fact, evidence, proposals, ingester, reviewer>>

\* Variant: a repeated extraction adds to what the last one proposed.
ReplacedByAdding(d, new) == proposals \union new

\* The proposals nobody has reviewed give way to those of this run.
Replaced(d, new) == (proposals \ Proposed(d)) \union new

CommitExtraction(x) ==
    LET d == extractor[x].doc
        run == kjob[d].runs + 1
    IN
    /\ extractor[x].pc = "extracting"
    /\ \E kinds \in SUBSET Kinds :
          proposals' = Replaced(d,
             {[doc |-> d, run |-> run, kind |-> k, status |-> "PROPOSED",
               fact |-> NoFact] : k \in kinds})
    /\ kjob' = [kjob EXCEPT ![d].status = "SUCCEEDED", ![d].ripe = FALSE, ![d].runs = run]
    /\ Rest(x)
    /\ UNCHANGED <<doc, fact, evidence, ingester, reviewer>>

\* The model is unavailable, or its answer cites what it was not shown or is
\* too long, or the document has no chunks; the transaction rolls back.
FailExtraction(x) ==
    /\ extractor[x].pc = "extracting"
    /\ extractor' = [extractor EXCEPT ![x].pc = "failed"]
    /\ UNCHANGED <<doc, kjob, fact, evidence, proposals, ingester, reviewer>>

\* This transaction locks the job only.
RecordFailure(x) ==
    LET d == extractor[x].doc IN
    /\ extractor[x].pc = "failed"
    /\ Current(x)
    /\ kjob' = [kjob EXCEPT
           ![d].status = IF extractor[x].attempt < MaxAttempts THEN "QUEUED" ELSE "FAILED",
           ![d].ripe = FALSE]
    /\ Rest(x)
    /\ UNCHANGED <<doc, fact, evidence, proposals, ingester, reviewer>>

\* The process dies; serve() does not survive an exception of claim() either.
CrashExtractor(x) ==
    /\ extractor[x].pc # "idle"
    /\ Rest(x)
    /\ UNCHANGED <<doc, kjob, fact, evidence, proposals, ingester, reviewer>>

TimePasses(d) ==
    /\ kjob[d].status \in {"QUEUED", "PROCESSING"}
    /\ ~kjob[d].ripe
    /\ kjob' = [kjob EXCEPT ![d].ripe = TRUE]
    /\ UNCHANGED <<doc, fact, evidence, proposals, ingester, extractor, reviewer>>
-----------------------------------------------------------------------------
(* HTTP requests *)

RetryExtraction(d) ==
    /\ Unlocked(d)
    /\ doc[d].status = "READY"
    /\ kjob[d].runs < MaxRuns
    /\ EnqueueKnowledge(d)
    /\ UNCHANGED <<doc, fact, evidence, proposals, ingester, extractor, reviewer>>

\* require_evidence: the documents are locked and READY.
Citable(ds) == ds # {} /\ \A d \in ds : Unlocked(d) /\ doc[d].status = "READY"

\* A relationship connects two different confirmed entities.  (The code reads
\* them just before it locks the evidence; that wait is not modelled.)
Endpoints == Cardinality({e \in Entities : fact[e] = "CONFIRMED"}) >= 2

Create(f, ds) ==
    /\ fact[f] = "NONE"
    /\ f \in Relationships => Endpoints
    /\ Citable(ds)
    /\ fact' = [fact EXCEPT ![f] = "CONFIRMED"]
    /\ evidence' = evidence \union ({f} \X ds)

\* create_entity and create_relationship.
CreateFact(f) ==
    /\ \E ds \in SUBSET Docs : Create(f, ds)
    /\ UNCHANGED <<doc, kjob, proposals, ingester, extractor, reviewer>>

\* update_entity and update_relationship.
Correct(f, s) ==
    /\ fact[f] # "NONE"
    /\ s = "WITHDRAWN" => f \in Relationships
    /\ fact' = [fact EXCEPT ![f] = s]
    /\ UNCHANGED <<doc, kjob, evidence, proposals, ingester, extractor, reviewer>>

\* Variant: whether the proposal is decided is not looked at.
OpenReviewOfAny(r, p) ==
    /\ reviewer[r] = NoReview
    /\ reviewer' = [reviewer EXCEPT ![r] = [id |-> Id(p), gen |-> kjob[p.doc].gen]]
    /\ UNCHANGED <<doc, kjob, fact, evidence, proposals, ingester, extractor>>

\* review_proposal begins by reading the proposal and its job, without a lock.
OpenReview(r, p) ==
    /\ reviewer[r] = NoReview
    /\ p \in proposals /\ p.status = "PROPOSED"
    /\ reviewer' = [reviewer EXCEPT ![r] = [id |-> Id(p), gen |-> kjob[p.doc].gen]]
    /\ UNCHANGED <<doc, kjob, fact, evidence, proposals, ingester, extractor>>

CloseReview(r) == reviewer' = [reviewer EXCEPT ![r] = NoReview]

\* Variant: the generation is compared, the status is not.
ReviewableUnready(p, gen) == Unlocked(p.doc) /\ gen = doc[p.doc].gen

Reviewable(p, gen) ==
    /\ Unlocked(p.doc)
    /\ doc[p.doc].status = "READY" /\ gen = doc[p.doc].gen

Decide(p, status, f) ==
    proposals' = (proposals \ {p}) \union {[p EXCEPT !.status = status, !.fact = f]}

\* The branch of a rejection ends in the assignment all branches share.
Reject(r) ==
    \E p \in proposals :
        /\ Id(p) = reviewer[r].id
        /\ Reviewable(p, reviewer[r].gen)
        /\ Decide(p, "ACCEPTED", p.fact)
        /\ CloseReview(r)
        /\ UNCHANGED <<doc, kjob, fact, evidence, ingester, extractor>>

\* The proposal becomes a new fact.
Accept(r) ==
    \E p \in proposals, f \in Facts :
        /\ Id(p) = reviewer[r].id
        /\ Reviewable(p, reviewer[r].gen)
        /\ f \in Entities <=> p.kind = "entity"
        /\ Create(f, {p.doc})
        /\ Decide(p, "ACCEPTED", f)
        /\ CloseReview(r)
        /\ UNCHANGED <<doc, kjob, ingester, extractor>>

\* An entity proposal is resolved to an entity that exists, archived or not.
Resolve(r) ==
    \E p \in proposals, f \in Entities :
        /\ Id(p) = reviewer[r].id
        /\ Reviewable(p, reviewer[r].gen)
        /\ p.kind = "entity" /\ fact[f] # "NONE"
        /\ evidence' = evidence \union {<<f, p.doc>>}
        /\ fact' = [fact EXCEPT ![f] = "CONFIRMED"]
        /\ Decide(p, "ACCEPTED", f)
        /\ CloseReview(r)
        /\ UNCHANGED <<doc, kjob, ingester, extractor>>

\* 404, 409 and 400: nothing is written.
Refuse(r) ==
    /\ reviewer[r] # NoReview
    /\ CloseReview(r)
    /\ UNCHANGED <<doc, kjob, fact, evidence, proposals, ingester, extractor>>
-----------------------------------------------------------------------------
Ingest(i) ==
    \/ \E d \in Docs : Withdraw(i, d)
    \/ CommitReindexed(i) \/ CommitDeleted(i) \/ RollBack(i)

\* What a knowledge worker does by itself once it has a claim.
Extract(x) ==
    \/ BeginExtraction(x) \/ AbandonClaim(x) \/ CommitExtraction(x)
    \/ FailExtraction(x) \/ RecordFailure(x)

Request(d) == RequestReindex(d) \/ RequestDelete(d) \/ RetryExtraction(d)

Review(r) ==
    \/ \E p \in proposals : OpenReview(r, p)
    \/ Reject(r) \/ Accept(r) \/ Resolve(r) \/ Refuse(r)

Next ==
    \/ \E d \in Docs : Request(d) \/ TimePasses(d)
    \/ \E i \in Ingesters : Ingest(i)
    \/ \E x \in Extractors, d \in Docs : Claim(x, d) \/ GiveUp(x, d)
    \/ \E x \in Extractors : Extract(x) \/ CrashExtractor(x)
    \/ \E f \in Facts : CreateFact(f)
    \/ \E f \in Facts, s \in Corrections : Correct(f, s)
    \/ \E r \in Reviewers : Review(r)

Spec == Init /\ [][Next]_vars

\* Fairness.  Worker processes keep going and are restarted when they exit
\* (restart: unless-stopped); the oldest available job is claimed first; a
\* transaction waiting for a row is granted it in its turn, however often others
\* lock it, hence the strong fairness of Extract.
Fairness ==
    /\ \A i \in Ingesters : WF_vars(CommitReindexed(i) \/ CommitDeleted(i) \/ RollBack(i))
    /\ \A x \in Extractors : SF_vars(Extract(x))
    /\ \A d \in Docs :
          /\ WF_vars(TimePasses(d))
          /\ SF_vars(\E x \in Extractors : Claim(x, d) \/ GiveUp(x, d))

FairSpec == Spec /\ Fairness
-----------------------------------------------------------------------------
(* Properties *)

Runs == 0..(MaxGen + MaxRuns)
Proposal == [doc : Docs, run : Runs, kind : Kinds,
             status : {"PROPOSED", "ACCEPTED", "REJECTED"}, fact : Facts \union {NoFact}]

JobRow == [gen : 0..MaxGen, status : JobStatus, attempts : 0..MaxAttempts,
           ripe : BOOLEAN, runs : Runs]

TypeOK ==
    /\ doc \in [Docs -> [status : DocStatus, gen : 1..MaxGen]]
    /\ kjob \in [Docs -> JobRow]
    /\ fact \in [Facts -> FactStatus]
    /\ evidence \subseteq Facts \X Docs
    /\ proposals \subseteq Proposal
    /\ ingester \in [Ingesters -> [doc : Docs \union {NoDoc}, drop : SUBSET Facts]]
    /\ extractor \in [Extractors -> [pc : {"idle", "claimed", "extracting", "failed"},
                          doc : Docs \union {NoDoc}, attempt : 0..MaxAttempts]]
    /\ reviewer \in [Reviewers -> [id : (Docs \X Runs \X Kinds) \union {NoProposal},
                                   gen : 0..MaxGen]]

\* The unreviewed proposals of a document are one run's, however often its
\* extraction is retried or its lease reclaimed (knowledge_worker.py:77, "A
\* reclaimed lease repeats the whole transaction, never a partial proposal set").
OneRunProposed ==
    \A p, q \in proposals :
        p.doc = q.doc /\ p.status = "PROPOSED" /\ q.status = "PROPOSED" => p.run = q.run

\* A confirmed fact has a chunk that supports it (info.md:1405, "Reindex/delete
\* withdraws facts that lose their last supporting chunk").
SupportedFacts == \A f \in Facts : fact[f] = "CONFIRMED" => EvidenceOf(f) # {}

\* An accepted claim stays linked to the chunk it was extracted from for as long
\* as its proposal exists: reindexing and deletion remove both or neither.
AcceptedIsCited == \A p \in proposals : p.fact # NoFact => <<p.fact, p.doc>> \in evidence

\* Evidence is only ever taken from a READY document nobody is rewriting
\* (api/knowledge.py:62, "Evidence documents must be READY"), although the review
\* that adds it looked at the proposal before it held the document.
CitesReady ==
    [][\A e \in evidence' \ evidence :
          Unlocked(e[2]) /\ doc[e[2]].status = "READY"]_vars

\* A proposal that was decided is not decided again, by whichever request
\* (api/knowledge.py:173, "Proposal was already reviewed").
ReviewedOnce ==
    [][\A p \in proposals, q \in proposals' :
          p.status # "PROPOSED" /\ Id(q) = Id(p) => q = p]_vars

\* Every accepted proposal is resolved to the fact it became; a rejected one is
\* not accepted (README.md:382, "Accept, resolve or reject a proposal").
AcceptedIsResolved == \A p \in proposals : p.status = "ACCEPTED" => p.fact # NoFact

\* Once nothing enqueues extractions any more, every job is settled, however
\* often knowledge workers crash and the model fails.
ExtractionResolves ==
    <>[][\A d \in Docs : ~RetryExtraction(d) /\ \A i \in Ingesters : ~CommitReindexed(i)]_vars
        => \A d \in Docs : []<>(kjob[d].status \notin {"QUEUED", "PROCESSING"})
-----------------------------------------------------------------------------
(* The inductive invariant behind them *)

\* A document row has one holder.  An ingestion worker holds what is queued or
\* to be deleted, a knowledge worker nothing that is gone.
RowInv ==
    /\ \A i, j \in Ingesters : ingester[i].doc = ingester[j].doc => i = j \/ ingester[i] = NoWork
    /\ \A x \in Extractors : extractor[x].pc # "idle" => extractor[x].doc \in Docs
    /\ \A x, y \in Extractors :
          Extracts(x, extractor[x].doc) /\ Extracts(y, extractor[x].doc) => x = y
    /\ \A x \in Extractors, i \in Ingesters : ~Extracts(x, ingester[i].doc)
    /\ \A i \in Ingesters : ingester[i] # NoWork =>
          ingester[i].doc \in Docs /\ doc[ingester[i].doc].status \in {"QUEUED", "DELETING"}
    /\ \A x \in Extractors, d \in Docs : Extracts(x, d) => doc[d].status # "GONE"

\* An extraction may still commit.
Open(d) ==
    \/ kjob[d].status \in {"QUEUED", "PROCESSING"}
    \/ \E x \in Extractors : Extracts(x, d)

\* A job is about a generation there has been, and one enqueuing leads to one
\* committed run at most.
JobOf(d) ==
    /\ kjob[d].gen <= doc[d].gen
    /\ doc[d].status = "QUEUED" => kjob[d].gen < doc[d].gen
    /\ doc[d].status = "GONE" => kjob[d] = NoJob
    /\ kjob[d].runs <= MaxRuns + kjob[d].gen
    /\ Open(d) => kjob[d].runs < MaxRuns + kjob[d].gen

JobInv == \A d \in Docs : JobOf(d)

\* Run and kind identify a proposal, and later runs have new numbers.
ProposalsInv ==
    /\ \A p, q \in proposals : Id(p) = Id(q) => p = q
    /\ \A p \in proposals : p.run <= kjob[p.doc].runs

KnowledgeInv ==
    /\ TypeOK /\ RowInv /\ JobInv /\ ProposalsInv
    /\ OneRunProposed /\ AcceptedIsCited

\* With one ingestion worker: what it will drop at its commit is still all that
\* nothing else supports.
WithdrawalInv ==
    \A i \in Ingesters : ingester[i] # NoWork =>
        UnsupportedWithout(ingester[i].doc) \subseteq ingester[i].drop

\* With one reviewer: the proposal it has open is undecided as long as it exists.
ReviewsInv ==
    \A r \in Reviewers, p \in proposals : reviewer[r].id = Id(p) => p.status = "PROPOSED"
=============================================================================
