-------------------------- MODULE KnowledgeProofs --------------------------
(***************************************************************************)
(* What a company knows stays consistent, for every number of documents,   *)
(* facts, workers and reviewers: proposals of two runs never mix, accepted *)
(* claims keep their citation, evidence comes from READY documents.  And   *)
(* what holds only without concurrency: with one ingestion worker no       *)
(* confirmed fact loses its support, with one reviewer no proposal is      *)
(* decided twice (the runs knowledge_skew and knowledge_twice show why).   *)
(***************************************************************************)
EXTENDS Knowledge, TLAPS

USE KnowledgeAssumption
-----------------------------------------------------------------------------
(* Types *)

LEMMA InitType == Init => TypeOK
BY DEF Init, TypeOK, DocStatus, JobRow, JobStatus, FactStatus, NoJob, NoWork, Resting,
       NoReview, Runs

\* A commit of an extraction has a run number left.
LEMMA RunsLeft ==
    ASSUME TypeOK, JobInv, NEW d \in Docs, Open(d)
    PROVE  kjob[d].runs + 1 \in Runs
<1>1. kjob[d].runs < MaxRuns + kjob[d].gen
  BY DEF JobInv, JobOf
<1>2. kjob[d].runs \in Nat /\ kjob[d].gen \in 0..MaxGen
  BY DEF TypeOK, JobRow, Runs
<1> QED  BY <1>1, <1>2 DEF Runs

\* A job row changes in few ways.
LEMMA EnqueuedType ==
    ASSUME TypeOK, NEW d \in Docs, EnqueueKnowledge(d)
    PROVE  kjob' \in [Docs -> JobRow]
BY DEF TypeOK, EnqueueKnowledge, JobStatus, JobRow

LEMMA SettledRow ==
    ASSUME TypeOK, NEW d \in Docs, NEW s \in JobStatus,
           kjob' = [kjob EXCEPT ![d].status = s, ![d].ripe = FALSE]
    PROVE  /\ kjob' \in [Docs -> JobRow]
           /\ kjob'[d].status = s
           /\ \A e \in Docs : /\ kjob'[e].gen = kjob[e].gen
                              /\ kjob'[e].runs = kjob[e].runs
                              /\ e # d => kjob'[e] = kjob[e]
<1>1. kjob \in [Docs -> JobRow]  BY DEF TypeOK
<1>2. kjob' = [kjob EXCEPT ![d] = [kjob[d] EXCEPT !.status = s, !.ripe = FALSE]]
  BY <1>1 DEF JobRow
<1>3. [kjob[d] EXCEPT !.status = s, !.ripe = FALSE] \in JobRow
  BY <1>1 DEF JobRow
<1> QED  BY <1>1, <1>2, <1>3 DEF JobRow

LEMMA RipeRow ==
    ASSUME TypeOK, NEW d \in Docs, kjob' = [kjob EXCEPT ![d].ripe = TRUE]
    PROVE  /\ kjob' \in [Docs -> JobRow]
           /\ \A e \in Docs : /\ kjob'[e].gen = kjob[e].gen
                              /\ kjob'[e].runs = kjob[e].runs
                              /\ kjob'[e].status = kjob[e].status
                              /\ e # d => kjob'[e] = kjob[e]
<1>1. kjob \in [Docs -> JobRow]  BY DEF TypeOK
<1>2. [kjob[d] EXCEPT !.ripe = TRUE] \in JobRow
  BY <1>1 DEF JobRow
<1> QED  BY <1>1, <1>2 DEF JobRow

LEMMA TakenRow ==
    ASSUME TypeOK, NEW x \in Extractors, NEW d \in Docs, Claim(x, d)
    PROVE  /\ kjob' \in [Docs -> JobRow]
           /\ kjob[d].attempts + 1 \in 0..MaxAttempts
           /\ kjob'[d].status = "PROCESSING"
           /\ \A e \in Docs : /\ kjob'[e].gen = kjob[e].gen
                              /\ kjob'[e].runs = kjob[e].runs
                              /\ e # d => kjob'[e] = kjob[e]
<1> DEFINE row == [kjob[d] EXCEPT !.status = "PROCESSING",
                                  !.attempts = kjob[d].attempts + 1, !.ripe = FALSE]
<1>1. kjob \in [Docs -> JobRow]  BY DEF TypeOK
<1>2. kjob' = [kjob EXCEPT ![d] = row]
  BY <1>1 DEF Claim, TakeJob, JobRow
<1>3. kjob[d].attempts + 1 \in 0..MaxAttempts
  BY <1>1 DEF Claim, JobRow
<1>4. row \in JobRow
  BY <1>1, <1>3 DEF JobRow, JobStatus
<1> QED  BY <1>1, <1>2, <1>3, <1>4 DEF JobRow

LEMMA ExtractedRow ==
    ASSUME TypeOK, NEW d \in Docs, kjob[d].runs + 1 \in Runs,
           kjob' = [kjob EXCEPT ![d].status = "SUCCEEDED", ![d].ripe = FALSE,
                                ![d].runs = kjob[d].runs + 1]
    PROVE  /\ kjob' \in [Docs -> JobRow]
           /\ kjob'[d].status = "SUCCEEDED" /\ kjob'[d].runs = kjob[d].runs + 1
           /\ \A e \in Docs : kjob'[e].gen = kjob[e].gen /\ (e # d => kjob'[e] = kjob[e])
<1> DEFINE row == [kjob[d] EXCEPT !.status = "SUCCEEDED", !.ripe = FALSE,
                                  !.runs = kjob[d].runs + 1]
<1>1. kjob \in [Docs -> JobRow]  BY DEF TypeOK
<1>2. kjob' = [kjob EXCEPT ![d] = row]
  BY <1>1 DEF JobRow
<1>3. row \in JobRow
  BY <1>1 DEF JobRow, JobStatus
<1> QED  BY <1>1, <1>2, <1>3 DEF JobRow

LEMMA WithdrawnType ==
    ASSUME TypeOK, NEW d \in Docs, NEW drop \in SUBSET Facts, Withdrawn(d, drop)
    PROVE  /\ evidence' \subseteq Facts \X Docs
           /\ fact' \in [Facts -> FactStatus]
           /\ proposals' \subseteq Proposal
BY DEF TypeOK, Withdrawn, FactStatus

LEMMA RequestType ==
    ASSUME TypeOK, NEW d \in Docs, Request(d) \/ TimePasses(d)
    PROVE  TypeOK'
<1>1. CASE RequestReindex(d)
  BY <1>1 DEF RequestReindex, TypeOK, DocStatus
<1>2. CASE RequestDelete(d)
  BY <1>2 DEF RequestDelete, TypeOK, DocStatus
<1>3. CASE RetryExtraction(d)
  BY <1>3, EnqueuedType DEF RetryExtraction, TypeOK
<1>4. CASE TimePasses(d)
  BY <1>4, RipeRow DEF TimePasses, TypeOK
<1> QED  BY <1>1, <1>2, <1>3, <1>4 DEF Request

LEMMA IngestType ==
    ASSUME TypeOK, NEW i \in Ingesters, Ingest(i)
    PROVE  TypeOK'
<1>1. ASSUME NEW d \in Docs, Withdraw(i, d) PROVE TypeOK'
  BY <1>1 DEF Withdraw, UnsupportedWithout, TypeOK
<1>2. CASE CommitReindexed(i)
  BY <1>2, WithdrawnType, EnqueuedType DEF CommitReindexed, NoWork, TypeOK, DocStatus
<1>3. CASE CommitDeleted(i)
  <2>1. NoJob \in JobRow
    BY DEF NoJob, JobRow, JobStatus, Runs
  <2> QED  BY <1>3, <2>1, WithdrawnType DEF CommitDeleted, NoWork, TypeOK, DocStatus
<1>4. CASE RollBack(i)
  BY <1>4 DEF RollBack, NoWork, TypeOK, DocStatus
<1> QED  BY <1>1, <1>2, <1>3, <1>4 DEF Ingest

LEMMA ClaimType ==
    ASSUME TypeOK, NEW x \in Extractors, NEW d \in Docs, Claim(x, d) \/ GiveUp(x, d)
    PROVE  TypeOK'
<1>1. CASE Claim(x, d)
  BY <1>1, TakenRow DEF Claim, TakeJob, TypeOK
<1>2. CASE GiveUp(x, d)
  BY <1>2, SettledRow DEF GiveUp, TypeOK, JobStatus
<1> QED  BY <1>1, <1>2

LEMMA ExtractType ==
    ASSUME TypeOK, RowInv, JobInv, NEW x \in Extractors, Extract(x) \/ CrashExtractor(x)
    PROVE  TypeOK'
<1>1. CASE BeginExtraction(x)
  BY <1>1 DEF BeginExtraction, TypeOK
<1>2. CASE AbandonClaim(x) \/ CrashExtractor(x)
  BY <1>2 DEF AbandonClaim, CrashExtractor, Rest, Resting, TypeOK
<1>3. CASE CommitExtraction(x)
  <2> DEFINE d == extractor[x].doc
  <2>1. d \in Docs /\ Open(d)
    BY <1>3 DEF CommitExtraction, RowInv, Open, Extracts
  <2>2. kjob[d].runs + 1 \in Runs
    BY <2>1, RunsLeft
  <2>3. proposals' \subseteq Proposal
    BY <1>3, <2>1, <2>2 DEF CommitExtraction, Replaced, Proposed, Proposal, TypeOK, Kinds
  <2>4. kjob' = [kjob EXCEPT ![d].status = "SUCCEEDED", ![d].ripe = FALSE,
                             ![d].runs = kjob[d].runs + 1]
    BY <1>3 DEF CommitExtraction
  <2>5. kjob' \in [Docs -> JobRow]
    BY <2>1, <2>2, <2>4, ExtractedRow
  <2> QED  BY <1>3, <2>3, <2>5 DEF CommitExtraction, Rest, Resting, TypeOK
<1>4. CASE FailExtraction(x)
  BY <1>4 DEF FailExtraction, TypeOK
<1>5. CASE RecordFailure(x)
  <2>1. extractor[x].doc \in Docs
    BY <1>5 DEF RecordFailure, RowInv
  <2>2. (IF extractor[x].attempt < MaxAttempts THEN "QUEUED" ELSE "FAILED") \in JobStatus
    BY DEF JobStatus
  <2>3. kjob' \in [Docs -> JobRow]
    BY <1>5, <2>1, <2>2, SettledRow DEF RecordFailure
  <2> QED  BY <1>5, <2>3 DEF RecordFailure, Rest, Resting, TypeOK
<1> QED  BY <1>1, <1>2, <1>3, <1>4, <1>5 DEF Extract

LEMMA CreateType ==
    ASSUME TypeOK, NEW f \in Facts, NEW ds \in SUBSET Docs, Create(f, ds)
    PROVE  fact' \in [Facts -> FactStatus] /\ evidence' \subseteq Facts \X Docs
BY DEF Create, TypeOK, FactStatus

LEMMA DecideType ==
    ASSUME TypeOK, NEW p \in proposals, NEW f \in Facts \union {NoFact},
           Decide(p, "ACCEPTED", f)
    PROVE  proposals' \subseteq Proposal
BY DEF Decide, TypeOK, Proposal

LEMMA FactType ==
    ASSUME TypeOK, NEW f \in Facts,
           CreateFact(f) \/ \E s \in Corrections : Correct(f, s)
    PROVE  TypeOK'
<1>1. CASE CreateFact(f)
  BY <1>1, CreateType DEF CreateFact, TypeOK
<1>2. ASSUME NEW s \in Corrections, Correct(f, s) PROVE TypeOK'
  BY <1>2 DEF Correct, TypeOK, FactStatus
<1> QED  BY <1>1, <1>2

LEMMA ReviewType ==
    ASSUME TypeOK, NEW r \in Reviewers, Review(r)
    PROVE  TypeOK'
<1>1. ASSUME NEW p \in proposals, OpenReview(r, p) PROVE TypeOK'
  <2>1. p.doc \in Docs /\ Id(p) \in Docs \X Runs \X Kinds
    BY DEF TypeOK, Proposal, Id
  <2>2. kjob[p.doc].gen \in 0..MaxGen
    BY <2>1 DEF TypeOK, JobRow
  <2> QED  BY <1>1, <2>1, <2>2 DEF OpenReview, TypeOK
<1>2. CASE Reject(r)
  BY <1>2, DecideType DEF Reject, CloseReview, NoReview, TypeOK, Proposal
<1>3. CASE Accept(r)
  BY <1>3, DecideType, CreateType DEF Accept, CloseReview, NoReview, TypeOK, Proposal
<1>4. CASE Resolve(r)
  BY <1>4, DecideType DEF Resolve, CloseReview, NoReview, TypeOK, Proposal, Facts, FactStatus
<1>5. CASE Refuse(r)
  BY <1>5 DEF Refuse, CloseReview, NoReview, TypeOK
<1> QED  BY <1>1, <1>2, <1>3, <1>4, <1>5 DEF Review

LEMMA NextType ==
    ASSUME TypeOK, RowInv, JobInv, [Next]_vars
    PROVE  TypeOK'
<1>1. CASE UNCHANGED vars
  BY <1>1 DEF vars, TypeOK
<1>2. CASE Next
  BY <1>2, RequestType, IngestType, ClaimType, ExtractType, FactType, ReviewType DEF Next
<1> QED  BY <1>1, <1>2
-----------------------------------------------------------------------------
(* Row locks *)

\* Requests and corrections change only documents whose row nobody holds.
LEMMA HoldersStay ==
    ASSUME RowInv, UNCHANGED <<ingester, extractor>>,
           \A d \in Docs : doc'[d] = doc[d] \/ Unlocked(d)
    PROVE  RowInv'
BY DEF RowInv, Unlocked, Extracts

\* Somebody who held a row, or none, lets go of it.
LEMMA ExtractorLetsGo ==
    ASSUME TypeOK, RowInv, NEW x \in Extractors, UNCHANGED <<doc, ingester>>,
           NEW row, extractor' = [extractor EXCEPT ![x] = row],
           row.pc # "extracting", row.pc # "idle" => row.doc \in Docs
    PROVE  RowInv'
<1>1. \A y \in Extractors : extractor'[y] = IF y = x THEN row ELSE extractor[y]
  BY DEF TypeOK
<1>2. \A y \in Extractors, d \in Docs \union {NoDoc} : Extracts(y, d)' => Extracts(y, d)
  BY <1>1 DEF Extracts
<1>3. \A y \in Extractors : extractor'[y].pc = "extracting" => y # x
  BY <1>1
<1> QED  BY <1>1, <1>2, <1>3 DEF RowInv, Extracts

LEMMA IngesterLetsGo ==
    ASSUME TypeOK, RowInv, NEW i \in Ingesters, ingester[i].doc \in Docs,
           UNCHANGED extractor, ingester' = [ingester EXCEPT ![i] = NoWork],
           NEW s, doc' = [doc EXCEPT ![ingester[i].doc].status = s]
    PROVE  RowInv'
<1>1. \A j \in Ingesters : ingester'[j] = IF j = i THEN NoWork ELSE ingester[j]
  BY DEF TypeOK
<1>2. ingester[i] # NoWork
  BY DEF NoWork
<1>3. \A d \in Docs : d # ingester[i].doc => doc'[d] = doc[d]
  BY DEF TypeOK
<1>4. \A j \in Ingesters : ingester'[j] # NoWork =>
        j # i /\ ingester[j] # NoWork /\ ingester[j].doc # ingester[i].doc
  BY <1>1, <1>2 DEF RowInv
<1>5. \A j, k \in Ingesters :
        ingester'[j].doc = ingester'[k].doc => j = k \/ ingester'[j] = NoWork
  <2> SUFFICES ASSUME NEW j \in Ingesters, NEW k \in Ingesters, j # k,
                      ingester'[j].doc = ingester'[k].doc, ingester'[j] # NoWork
               PROVE  FALSE
    OBVIOUS
  <2>1. ingester[j].doc \in Docs /\ ingester'[j] = ingester[j]
    BY <1>1, <1>4 DEF RowInv
  <2>2. CASE k = i
    BY <1>1, <2>1, <2>2 DEF NoWork
  <2>3. CASE k # i
    BY <1>1, <1>4, <2>1, <2>3 DEF RowInv
  <2> QED  BY <2>2, <2>3
<1>6. \A x \in Extractors, j \in Ingesters : ~Extracts(x, ingester'[j].doc)
  <2>1. \A x \in Extractors : ~Extracts(x, NoDoc)
    BY DEF RowInv, Extracts
  <2> QED  BY <1>1, <2>1 DEF RowInv, NoWork
<1>7. \A j \in Ingesters : ingester'[j] # NoWork =>
        ingester'[j].doc \in Docs /\ doc'[ingester'[j].doc].status \in {"QUEUED", "DELETING"}
  BY <1>1, <1>3, <1>4 DEF RowInv
<1>8. \A x \in Extractors, d \in Docs : Extracts(x, d) => doc'[d].status # "GONE"
  BY <1>3 DEF RowInv
<1> QED  BY <1>5, <1>6, <1>7, <1>8 DEF RowInv, Extracts

LEMMA WithdrawTakes ==
    ASSUME TypeOK, RowInv, NEW i \in Ingesters, NEW d \in Docs, Withdraw(i, d)
    PROVE  RowInv'
<1>1. \A j \in Ingesters : j # i => ingester'[j] = ingester[j]
  BY DEF TypeOK, Withdraw
<1>2. ingester'[i].doc = d
  BY DEF TypeOK, Withdraw
<1>3. \A j \in Ingesters : ingester[j].doc # d
  BY DEF Withdraw, Unlocked
<1>4. \A j, k \in Ingesters :
        ingester'[j].doc = ingester'[k].doc => j = k \/ ingester'[j] = NoWork
  BY <1>1, <1>2, <1>3 DEF RowInv
<1>5. \A x \in Extractors, j \in Ingesters : ~Extracts(x, ingester'[j].doc)
  BY <1>1, <1>2 DEF RowInv, Withdraw, Unlocked
<1>6. \A j \in Ingesters : ingester'[j] # NoWork =>
        ingester'[j].doc \in Docs /\ doc[ingester'[j].doc].status \in {"QUEUED", "DELETING"}
  BY <1>1, <1>2 DEF RowInv, Withdraw
<1> QED  BY <1>4, <1>5, <1>6 DEF RowInv, Extracts, Withdraw

LEMMA BeginTakes ==
    ASSUME TypeOK, RowInv, JobInv, NEW x \in Extractors, BeginExtraction(x)
    PROVE  RowInv'
<1>1. \A y \in Extractors : y # x => extractor'[y] = extractor[y]
  BY DEF TypeOK, BeginExtraction
<1>2. extractor'[x].doc = extractor[x].doc /\ extractor[x].doc \in Docs
  BY DEF TypeOK, RowInv, BeginExtraction
<1>3. doc[extractor[x].doc].status # "GONE"
  BY <1>2 DEF JobInv, JobOf, BeginExtraction, Current, NoJob
<1> QED  BY <1>1, <1>2, <1>3 DEF RowInv, Extracts, Unlocked, BeginExtraction

LEMMA NextRow ==
    ASSUME TypeOK, RowInv, JobInv, [Next]_vars
    PROVE  RowInv'
<1>1. ASSUME NEW d \in Docs, Request(d) \/ TimePasses(d) PROVE RowInv'
  BY <1>1, HoldersStay DEF TypeOK, Request, RequestReindex, RequestDelete, RetryExtraction,
                           TimePasses
<1>2. ASSUME NEW i \in Ingesters, Ingest(i) PROVE RowInv'
  BY <1>2, WithdrawTakes, IngesterLetsGo
     DEF Ingest, CommitReindexed, CommitDeleted, RollBack
<1>3. ASSUME NEW x \in Extractors, NEW d \in Docs, Claim(x, d) \/ GiveUp(x, d)
      PROVE  RowInv'
  <2>1. CASE Claim(x, d)
    <3> DEFINE row == [pc |-> "claimed", doc |-> d, attempt |-> kjob[d].attempts + 1]
    <3>1. extractor' = [extractor EXCEPT ![x] = row] /\ UNCHANGED <<doc, ingester>>
      BY <2>1 DEF Claim, TakeJob
    <3>2. row.pc = "claimed" /\ row.doc \in Docs
      OBVIOUS
    <3> HIDE DEF row
    <3> QED  BY <1>3, <3>1, <3>2, ExtractorLetsGo
  <2>2. CASE GiveUp(x, d)
    BY <2>2, HoldersStay DEF GiveUp
  <2> QED  BY <1>3, <2>1, <2>2
<1>4. ASSUME NEW x \in Extractors, Extract(x) \/ CrashExtractor(x) PROVE RowInv'
  <2>1. CASE BeginExtraction(x)
    BY <1>4, <2>1, BeginTakes
  <2>2. CASE FailExtraction(x)
    <3> DEFINE row == [extractor[x] EXCEPT !.pc = "failed"]
    <3>1. extractor' = [extractor EXCEPT ![x] = row]
      BY <2>2 DEF FailExtraction
    <3>2. row.pc = "failed" /\ row.doc \in Docs
      BY <1>4, <2>2 DEF FailExtraction, RowInv, TypeOK
    <3> HIDE DEF row
    <3> QED  BY <1>4, <2>2, <3>1, <3>2, ExtractorLetsGo DEF FailExtraction
  <2>3. CASE AbandonClaim(x) \/ CommitExtraction(x) \/ RecordFailure(x) \/ CrashExtractor(x)
    <3>1. extractor' = [extractor EXCEPT ![x] = Resting] /\ UNCHANGED <<doc, ingester>>
      BY <2>3 DEF AbandonClaim, CommitExtraction, RecordFailure, CrashExtractor, Rest
    <3>2. Resting.pc = "idle"
      BY DEF Resting
    <3> QED  BY <1>4, <3>1, <3>2, ExtractorLetsGo
  <2> QED  BY <1>4, <2>1, <2>2, <2>3 DEF Extract
<1>5. ASSUME NEW f \in Facts, CreateFact(f) \/ \E s \in Corrections : Correct(f, s)
      PROVE  RowInv'
  BY <1>5, HoldersStay DEF CreateFact, Correct
<1>6. ASSUME NEW r \in Reviewers, Review(r) PROVE RowInv'
  BY <1>6, HoldersStay DEF Review, OpenReview, Reject, Accept, Resolve, Refuse
<1>7. CASE UNCHANGED vars
  BY <1>7, HoldersStay DEF vars
<1> QED  BY <1>1, <1>2, <1>3, <1>4, <1>5, <1>6, <1>7 DEF Next
-----------------------------------------------------------------------------
(* Extraction jobs *)

\* A step that neither enqueues nor commits a run leaves a job in order.
LEMMA JobKept ==
    ASSUME NEW d \in Docs, JobOf(d), doc'[d] = doc[d],
           kjob'[d].gen = kjob[d].gen, kjob'[d].runs = kjob[d].runs,
           doc[d].status = "GONE" => kjob'[d] = kjob[d],
           Open(d)' => Open(d)
    PROVE  JobOf(d)'
BY DEF JobOf

LEMMA OpenStays ==
    ASSUME UNCHANGED extractor, NEW d \in Docs, kjob'[d].status = kjob[d].status
    PROVE  Open(d)' <=> Open(d)
BY DEF Open, Extracts

\* A job just enqueued for the document's generation.
LEMMA EnqueuedJob ==
    ASSUME TypeOK, NEW d \in Docs, JobOf(d), EnqueueKnowledge(d),
           doc'[d].gen = doc[d].gen, doc'[d].status = "READY",
           kjob[d].runs < MaxRuns + doc[d].gen
    PROVE  JobOf(d)'
<1>1. kjob'[d] = [gen |-> doc[d].gen, status |-> "QUEUED", attempts |-> 0, ripe |-> TRUE,
                  runs |-> kjob[d].runs]
  BY DEF TypeOK, EnqueueKnowledge
<1>2. doc[d].gen \in Nat /\ kjob[d].runs \in Nat
  BY DEF TypeOK, JobRow, Runs
<1> QED  BY <1>1, <1>2 DEF JobOf

LEMMA RequestJob ==
    ASSUME TypeOK, JobInv, NEW d \in Docs, Request(d) \/ TimePasses(d)
    PROVE  JobInv'
<1>1. \A e \in Docs : kjob'[e].status = kjob[e].status => (Open(e)' <=> Open(e))
  BY OpenStays DEF Request, RequestReindex, RequestDelete, RetryExtraction, TimePasses
<1>2. \A e \in Docs : e # d => doc'[e] = doc[e] /\ kjob'[e] = kjob[e]
  BY DEF Request, RequestReindex, RequestDelete, RetryExtraction, TimePasses,
         EnqueueKnowledge, TypeOK
<1>3. \A e \in Docs : e # d => JobOf(e)'
  BY <1>1, <1>2, JobKept DEF JobInv
<1>4. JobOf(d) /\ kjob[d].gen \in Nat /\ kjob[d].runs \in Nat /\ doc[d].gen \in Nat
  BY DEF JobInv, TypeOK, JobRow, Runs
<1>5. ASSUME RequestReindex(d) PROVE JobOf(d)'
  <2>1. doc'[d] = [status |-> "QUEUED", gen |-> doc[d].gen + 1] /\ kjob' = kjob
    BY <1>5 DEF RequestReindex, TypeOK
  <2> QED  BY <1>1, <1>4, <2>1 DEF JobOf
<1>6. ASSUME RequestDelete(d) PROVE JobOf(d)'
  <2>1. doc'[d].status = "DELETING" /\ doc'[d].gen = doc[d].gen /\ kjob' = kjob
    BY <1>6 DEF RequestDelete, TypeOK
  <2> QED  BY <1>1, <1>4, <2>1 DEF JobOf
<1>7. ASSUME RetryExtraction(d) PROVE JobOf(d)'
  <2>1. kjob[d].runs < MaxRuns + doc[d].gen
    BY <1>4, <1>7 DEF RetryExtraction
  <2> QED  BY <1>4, <1>7, <2>1, EnqueuedJob DEF RetryExtraction
<1>8. ASSUME TimePasses(d) PROVE JobOf(d)'
  <2>1. Open(d)
    BY <1>8 DEF TimePasses, Open
  <2>2. doc[d].status # "GONE"
    BY <1>4, <1>8 DEF TimePasses, JobOf, NoJob
  <2>3. doc' = doc /\ kjob'[d].gen = kjob[d].gen /\ kjob'[d].runs = kjob[d].runs
    BY <1>8, RipeRow DEF TimePasses
  <2> QED  BY <1>4, <2>1, <2>2, <2>3, JobKept
<1>9. JobOf(d)'
  BY <1>5, <1>6, <1>7, <1>8 DEF Request
<1> QED  BY <1>3, <1>9 DEF JobInv

LEMMA IngestJob ==
    ASSUME TypeOK, RowInv, JobInv, NEW i \in Ingesters, Ingest(i)
    PROVE  JobInv'
<1>1. UNCHANGED extractor
  BY DEF Ingest, Withdraw, CommitReindexed, CommitDeleted, RollBack
<1>2. ASSUME NEW d \in Docs, Withdraw(i, d) PROVE JobInv'
  BY <1>2 DEF Withdraw, JobInv, JobOf, Open, Extracts
<1>3. ASSUME NEW d \in Docs, ingester[i].doc = d,
             CommitReindexed(i) \/ CommitDeleted(i) \/ RollBack(i)
      PROVE  JobInv'
  <2>1. \A x \in Extractors : ~Extracts(x, d)'
    BY <1>1, <1>3 DEF RowInv, Extracts
  <2>2. \A e \in Docs : e # d => doc'[e] = doc[e] /\ kjob'[e] = kjob[e]
    BY <1>3 DEF CommitReindexed, CommitDeleted, RollBack, EnqueueKnowledge, TypeOK
  <2>3. \A e \in Docs : e # d => JobOf(e)'
    BY <1>1, <2>2, JobKept DEF JobInv, Open, Extracts
  <2>4. JobOf(d) /\ kjob[d].gen \in Nat /\ kjob[d].runs \in Nat /\ doc[d].gen \in Nat
    BY <1>3 DEF JobInv, TypeOK, JobRow, Runs
  <2>5. ASSUME CommitReindexed(i) PROVE JobOf(d)'
    <3>1. doc'[d].gen = doc[d].gen /\ doc'[d].status = "READY"
      BY <1>3, <2>5 DEF CommitReindexed, TypeOK
    <3>2. kjob[d].runs < MaxRuns + doc[d].gen
      BY <1>3, <2>4, <2>5 DEF CommitReindexed, JobOf
    <3>3. EnqueueKnowledge(d)
      BY <1>3, <2>5 DEF CommitReindexed
    <3> QED  BY <2>4, <3>1, <3>2, <3>3, EnqueuedJob
  <2>6. ASSUME CommitDeleted(i) PROVE JobOf(d)'
    <3>1. kjob'[d] = NoJob /\ doc'[d].status = "GONE" /\ doc'[d].gen = doc[d].gen
      BY <1>3, <2>6 DEF CommitDeleted, TypeOK
    <3> QED  BY <2>1, <2>4, <3>1 DEF JobOf, Open, NoJob
  <2>7. ASSUME RollBack(i) PROVE JobOf(d)'
    <3>1. kjob' = kjob /\ doc'[d].gen = doc[d].gen /\ doc'[d].status \in {doc[d].status, "FAILED"}
      BY <1>3, <2>7 DEF RollBack, TypeOK
    <3>2. Open(d)' => Open(d)
      BY <1>1, <3>1 DEF Open, Extracts
    <3> QED  BY <2>4, <3>1, <3>2 DEF JobOf
  <2> QED  BY <1>3, <2>3, <2>5, <2>6, <2>7 DEF JobInv
<1> QED  BY <1>2, <1>3 DEF Ingest, CommitReindexed, CommitDeleted, RollBack

\* Knowledge workers leave the documents alone.
LEMMA ClaimJob ==
    ASSUME TypeOK, JobInv, NEW x \in Extractors, NEW d \in Docs, Claim(x, d) \/ GiveUp(x, d)
    PROVE  JobInv'
<1>1. doc' = doc /\ Open(d) /\ doc[d].status # "GONE"
  BY DEF Claim, TakeJob, GiveUp, Claimable, Open, JobInv, JobOf, NoJob
<1>2. \A y \in Extractors, e \in Docs : Extracts(y, e)' => Extracts(y, e)
  BY DEF Claim, TakeJob, GiveUp, Extracts, TypeOK
<1>3. \A e \in Docs : /\ kjob'[e].gen = kjob[e].gen
                      /\ kjob'[e].runs = kjob[e].runs
                      /\ e # d => kjob'[e] = kjob[e]
  BY TakenRow, SettledRow DEF GiveUp, JobStatus
<1>4. \A e \in Docs : Open(e)' => Open(e)
  BY <1>1, <1>2, <1>3 DEF Open
<1> QED  BY <1>1, <1>3, <1>4, JobKept DEF JobInv

LEMMA ExtractJob ==
    ASSUME TypeOK, RowInv, JobInv, NEW x \in Extractors, Extract(x) \/ CrashExtractor(x)
    PROVE  JobInv'
<1>1. ASSUME BeginExtraction(x) PROVE JobInv'
  <2>1. doc' = doc /\ kjob' = kjob /\ Open(extractor[x].doc)
    BY <1>1 DEF BeginExtraction, Current, Open
  <2>2. \A y \in Extractors, e \in Docs :
          Extracts(y, e)' => Extracts(y, e) \/ e = extractor[x].doc
    BY <1>1 DEF BeginExtraction, Extracts, TypeOK
  <2>3. \A e \in Docs : Open(e)' => Open(e)
    BY <2>1, <2>2 DEF Open
  <2> QED  BY <2>1, <2>3, JobKept DEF JobInv
<1>2. ASSUME AbandonClaim(x) \/ FailExtraction(x) \/ CrashExtractor(x) PROVE JobInv'
  <2>1. doc' = doc /\ kjob' = kjob
    BY <1>2 DEF AbandonClaim, FailExtraction, CrashExtractor
  <2>2. \A y \in Extractors, e \in Docs : Extracts(y, e)' => Extracts(y, e)
    BY <1>2 DEF AbandonClaim, FailExtraction, CrashExtractor, Rest, Resting, Extracts, TypeOK
  <2>3. \A e \in Docs : Open(e)' => Open(e)
    BY <2>1, <2>2 DEF Open
  <2> QED  BY <2>1, <2>3, JobKept DEF JobInv
<1>3. ASSUME NEW d \in Docs, extractor[x].doc = d, RecordFailure(x) PROVE JobInv'
  <2>1. doc' = doc /\ Open(d) /\ doc[d].status # "GONE"
    BY <1>3 DEF RecordFailure, Current, Open, JobInv, JobOf, NoJob
  <2>2. \A y \in Extractors, e \in Docs : Extracts(y, e)' => Extracts(y, e)
    BY <1>3 DEF RecordFailure, Rest, Resting, Extracts, TypeOK
  <2>3. (IF extractor[x].attempt < MaxAttempts THEN "QUEUED" ELSE "FAILED") \in JobStatus
    BY DEF JobStatus
  <2>4. \A e \in Docs : /\ kjob'[e].gen = kjob[e].gen
                        /\ kjob'[e].runs = kjob[e].runs
                        /\ e # d => kjob'[e] = kjob[e]
    BY <1>3, <2>3, SettledRow DEF RecordFailure
  <2>5. \A e \in Docs : Open(e)' => Open(e)
    BY <2>1, <2>2, <2>4 DEF Open
  <2> QED  BY <2>1, <2>4, <2>5, JobKept DEF JobInv
<1>4. ASSUME NEW d \in Docs, extractor[x].doc = d, CommitExtraction(x) PROVE JobInv'
  <2>1. doc' = doc /\ Extracts(x, d) /\ Open(d) /\ doc[d].status # "GONE"
    BY <1>4 DEF CommitExtraction, Extracts, Open, RowInv
  <2>2. \A y \in Extractors, e \in Docs : Extracts(y, e)' => y # x /\ Extracts(y, e)
    BY <1>4 DEF CommitExtraction, Rest, Resting, Extracts, TypeOK
  <2>3. \A y \in Extractors : ~Extracts(y, d)'
    BY <1>4, <2>1, <2>2 DEF RowInv
  <2>4. /\ kjob'[d].status = "SUCCEEDED" /\ kjob'[d].runs = kjob[d].runs + 1
        /\ \A e \in Docs : kjob'[e].gen = kjob[e].gen /\ (e # d => kjob'[e] = kjob[e])
    BY <1>4, <2>1, RunsLeft, ExtractedRow DEF CommitExtraction
  <2>5. \A e \in Docs : e # d => JobOf(e)'
    <3>1. \A e \in Docs : e # d /\ Open(e)' => Open(e)
      BY <2>2, <2>4 DEF Open
    <3> QED  BY <2>1, <2>4, <3>1, JobKept DEF JobInv
  <2>6. JobOf(d)'
    <3>1. JobOf(d) /\ kjob[d].runs \in Nat /\ kjob[d].gen \in Nat
      BY DEF JobInv, TypeOK, JobRow, Runs
    <3>2. ~Open(d)'
      BY <2>3, <2>4 DEF Open
    <3> QED  BY <2>1, <2>4, <3>1, <3>2 DEF JobOf
  <2> QED  BY <2>5, <2>6 DEF JobInv
<1> QED  BY <1>1, <1>2, <1>3, <1>4 DEF Extract, RowInv, RecordFailure, CommitExtraction

LEMMA NextJob ==
    ASSUME TypeOK, RowInv, JobInv, [Next]_vars
    PROVE  JobInv'
<1>1. ASSUME UNCHANGED <<doc, kjob, extractor>> PROVE JobInv'
  BY <1>1, OpenStays, JobKept DEF JobInv
<1>2. ASSUME NEW f \in Facts, CreateFact(f) \/ \E s \in Corrections : Correct(f, s)
      PROVE  JobInv'
  BY <1>1, <1>2 DEF CreateFact, Correct
<1>3. ASSUME NEW r \in Reviewers, Review(r) PROVE JobInv'
  BY <1>1, <1>3 DEF Review, OpenReview, Reject, Accept, Resolve, Refuse
<1>4. CASE UNCHANGED vars
  BY <1>1, <1>4 DEF vars
<1> QED  BY <1>2, <1>3, <1>4, RequestJob, IngestJob, ClaimJob, ExtractJob DEF Next
-----------------------------------------------------------------------------
(* Proposals: what a step may do to the set of them *)

\* What a step that is neither a commit of an extraction nor a review does.
LEMMA ProposalsOnlyGo ==
    ASSUME TypeOK, RowInv, [Next]_vars,
           ~\E x \in Extractors : CommitExtraction(x),
           ~\E r \in Reviewers : Review(r)
    PROVE  /\ proposals' \subseteq proposals
           /\ \A p \in proposals' : /\ kjob'[p.doc].runs = kjob[p.doc].runs
                                    /\ <<p.fact, p.doc>> \in evidence =>
                                          <<p.fact, p.doc>> \in evidence'
<1> DEFINE Kept == /\ proposals' \subseteq proposals
                   /\ \A p \in proposals' : /\ kjob'[p.doc].runs = kjob[p.doc].runs
                                            /\ <<p.fact, p.doc>> \in evidence =>
                                                  <<p.fact, p.doc>> \in evidence'
<1>1. ASSUME NEW d \in Docs, Request(d) \/ TimePasses(d) PROVE Kept
  <2>1. \A e \in Docs : kjob'[e].runs = kjob[e].runs
    BY <1>1, RipeRow DEF Request, RequestReindex, RequestDelete, RetryExtraction, TimePasses,
                         EnqueueKnowledge, TypeOK
  <2>2. proposals' = proposals /\ evidence' = evidence
    BY <1>1 DEF Request, RequestReindex, RequestDelete, RetryExtraction, TimePasses
  <2> QED  BY <2>1, <2>2 DEF TypeOK, Proposal
<1>2. ASSUME NEW i \in Ingesters, Ingest(i) PROVE Kept
  <2>1. ASSUME NEW d \in Docs, ingester[i].doc = d, CommitReindexed(i) \/ CommitDeleted(i)
        PROVE  Kept
    <3>1. /\ proposals' = {p \in proposals : p.doc # d}
          /\ evidence' = {e \in evidence : e[2] # d}
      BY <2>1 DEF CommitReindexed, CommitDeleted, Withdrawn
    <3>2. \A e \in Docs : e # d => kjob'[e] = kjob[e]
      BY <2>1 DEF CommitReindexed, CommitDeleted, EnqueueKnowledge, TypeOK
    <3> QED  BY <3>1, <3>2 DEF TypeOK, Proposal
  <2>2. ASSUME UNCHANGED <<kjob, evidence, proposals>> PROVE Kept
    BY <2>2
  <2> QED  BY <1>2, <2>1, <2>2 DEF Ingest, CommitReindexed, CommitDeleted, Withdraw, RollBack
<1>3. ASSUME NEW x \in Extractors, NEW d \in Docs, Claim(x, d) \/ GiveUp(x, d) PROVE Kept
  <2>1. \A e \in Docs : kjob'[e].runs = kjob[e].runs
    BY <1>3, TakenRow, SettledRow DEF GiveUp, JobStatus
  <2>2. proposals' = proposals /\ evidence' = evidence
    BY <1>3 DEF Claim, TakeJob, GiveUp
  <2> QED  BY <2>1, <2>2 DEF TypeOK, Proposal
<1>4. ASSUME NEW x \in Extractors, Extract(x) \/ CrashExtractor(x) PROVE Kept
  <2>1. \A e \in Docs : kjob'[e].runs = kjob[e].runs
    <3>1. ASSUME RecordFailure(x) PROVE \A e \in Docs : kjob'[e].runs = kjob[e].runs
      <4>1. (IF extractor[x].attempt < MaxAttempts THEN "QUEUED" ELSE "FAILED") \in JobStatus
        BY DEF JobStatus
      <4> QED  BY <3>1, <4>1, SettledRow DEF RecordFailure, RowInv
    <3> QED  BY <1>4, <3>1 DEF Extract, BeginExtraction, AbandonClaim, FailExtraction,
                               CrashExtractor
  <2>2. proposals' = proposals /\ evidence' = evidence
    BY <1>4 DEF Extract, BeginExtraction, AbandonClaim, FailExtraction, RecordFailure,
                CrashExtractor
  <2> QED  BY <2>1, <2>2 DEF TypeOK, Proposal
<1>5. ASSUME NEW f \in Facts, CreateFact(f) \/ \E s \in Corrections : Correct(f, s) PROVE Kept
  BY <1>5 DEF CreateFact, Create, Correct
<1>6. CASE UNCHANGED vars
  BY <1>6 DEF vars
<1> QED  BY <1>1, <1>2, <1>3, <1>4, <1>5, <1>6 DEF Next

\* A run of the document d becomes visible: its proposals replace the undecided ones.
NewRun(d, kinds) ==
    /\ proposals' = (proposals \ Proposed(d)) \union
          {[doc |-> d, run |-> kjob[d].runs + 1, kind |-> k, status |-> "PROPOSED",
            fact |-> NoFact] : k \in kinds}
    /\ kjob'[d].runs = kjob[d].runs + 1
    /\ \A e \in Docs : e # d => kjob'[e].runs = kjob[e].runs
    /\ UNCHANGED <<doc, evidence, reviewer>>

LEMMA CommitIsNewRun ==
    ASSUME TypeOK, RowInv, JobInv, NEW x \in Extractors, CommitExtraction(x)
    PROVE  \E d \in Docs, kinds \in SUBSET Kinds : Extracts(x, d) /\ NewRun(d, kinds)
<1>1. PICK d \in Docs : d = extractor[x].doc
  BY DEF RowInv, CommitExtraction
<1>2. Extracts(x, d) /\ Open(d)
  BY <1>1 DEF CommitExtraction, Extracts, Open
<1>3. /\ kjob'[d].runs = kjob[d].runs + 1
      /\ \A e \in Docs : e # d => kjob'[e].runs = kjob[e].runs
  BY <1>1, <1>2, RunsLeft, ExtractedRow DEF CommitExtraction
<1> QED  BY <1>1, <1>2, <1>3 DEF CommitExtraction, Replaced, NewRun

\* A review decides the proposal p, which becomes q.
Decides(r, p, q) ==
    /\ Id(p) = reviewer[r].id
    /\ q.doc = p.doc /\ q.run = p.run /\ q.kind = p.kind /\ q.status = "ACCEPTED"
    /\ q.fact = p.fact \/ <<q.fact, q.doc>> \in evidence'
    /\ proposals' = (proposals \ {p}) \union {q}
    /\ reviewer' = [reviewer EXCEPT ![r] = NoReview]

LEMMA ReviewDecides ==
    ASSUME TypeOK, NEW r \in Reviewers, Review(r)
    PROVE  /\ UNCHANGED <<doc, kjob>> /\ evidence \subseteq evidence'
           /\ \/ proposals' = proposals
              \/ \E p \in proposals, q \in Proposal : Decides(r, p, q)
<1>1. ASSUME NEW p \in proposals, NEW f \in Facts \union {NoFact}, Decide(p, "ACCEPTED", f),
             Id(p) = reviewer[r].id, CloseReview(r),
             f = p.fact \/ <<f, p.doc>> \in evidence'
      PROVE  \E q \in Proposal : Decides(r, p, q)
  <2> DEFINE q == [p EXCEPT !.status = "ACCEPTED", !.fact = f]
  <2>0. p \in Proposal
    BY DEF TypeOK
  <2>1. q \in Proposal /\ q.status = "ACCEPTED" /\ q.fact = f
        /\ q.doc = p.doc /\ q.run = p.run /\ q.kind = p.kind
    BY <2>0 DEF Proposal
  <2>2. proposals' = (proposals \ {p}) \union {q}
    BY <1>1 DEF Decide
  <2> HIDE DEF q
  <2>3. Decides(r, p, q)
    BY <1>1, <2>1, <2>2 DEF Decides, CloseReview
  <2> QED  BY <2>1, <2>3
<1>2. CASE Reject(r)
  <2>1. \A p \in proposals : p.fact \in Facts \union {NoFact}
    BY DEF TypeOK, Proposal
  <2> QED  BY <1>1, <1>2, <2>1 DEF Reject
<1>3. CASE Accept(r)
  BY <1>1, <1>3 DEF Accept, Create
<1>4. CASE Resolve(r)
  BY <1>1, <1>4 DEF Resolve, Facts
<1> QED  BY <1>2, <1>3, <1>4 DEF Review, OpenReview, Refuse
-----------------------------------------------------------------------------
(* Proposals: what holds of the set of them *)

LEMMA NextProposals ==
    ASSUME TypeOK, RowInv, JobInv, ProposalsInv, [Next]_vars
    PROVE  ProposalsInv'
<1>1. ASSUME NEW x \in Extractors, CommitExtraction(x) PROVE ProposalsInv'
  <2>1. PICK d \in Docs, kinds \in SUBSET Kinds : NewRun(d, kinds)
    BY <1>1, CommitIsNewRun
  <2>2. \A p \in proposals : p.doc \in Docs /\ p.run \in Nat /\ p.run <= kjob[p.doc].runs
    BY DEF ProposalsInv, TypeOK, Proposal, Runs
  <2>3. \A e \in Docs : kjob[e].runs \in Nat
    BY DEF TypeOK, JobRow, Runs
  <2>4. \A p \in proposals' : p \in proposals \/ (p.doc = d /\ p.run = kjob[d].runs + 1)
    BY <2>1 DEF NewRun
  <2>5. \A p \in proposals' : p.run <= kjob'[p.doc].runs
    BY <2>1, <2>2, <2>3, <2>4 DEF NewRun
  <2>6. \A p, q \in proposals' : Id(p) = Id(q) => p = q
    <3> SUFFICES ASSUME NEW p \in proposals', NEW q \in proposals', Id(p) = Id(q)
                 PROVE  p = q
      OBVIOUS
    <3>1. p.doc = q.doc /\ p.run = q.run /\ p.kind = q.kind
      BY DEF Id
    <3>2. CASE p \in proposals
      <4>1. q \in proposals
        BY <2>2, <2>3, <2>4, <3>1, <3>2
      <4> QED  BY <3>2, <4>1 DEF ProposalsInv
    <3>3. CASE p \notin proposals
      <4>1. q \notin proposals
        BY <2>2, <2>3, <2>4, <3>1, <3>3
      <4>2. \A o \in {p, q} : o = [doc |-> d, run |-> kjob[d].runs + 1, kind |-> o.kind,
                                   status |-> "PROPOSED", fact |-> NoFact]
        BY <2>1, <3>3, <4>1 DEF NewRun
      <4> QED  BY <3>1, <4>2
    <3> QED  BY <3>2, <3>3
  <2> QED  BY <2>5, <2>6 DEF ProposalsInv, Id
<1>2. ASSUME NEW r \in Reviewers, Review(r) PROVE ProposalsInv'
  <2>1. kjob' = kjob
    BY <1>2, ReviewDecides
  <2>2. ASSUME NEW p \in proposals, NEW q, Decides(r, p, q) PROVE ProposalsInv'
    BY <2>1, <2>2 DEF Decides, ProposalsInv, Id
  <2> QED  BY <1>2, <2>1, <2>2, ReviewDecides DEF ProposalsInv, Id
<1>3. CASE /\ ~\E x \in Extractors : CommitExtraction(x)
           /\ ~\E r \in Reviewers : Review(r)
  BY <1>3, ProposalsOnlyGo DEF ProposalsInv, Id
<1> QED  BY <1>1, <1>2, <1>3

LEMMA NextOneRun ==
    ASSUME TypeOK, RowInv, JobInv, OneRunProposed, [Next]_vars
    PROVE  OneRunProposed'
<1>1. ASSUME NEW x \in Extractors, CommitExtraction(x) PROVE OneRunProposed'
  <2>1. PICK d \in Docs, kinds \in SUBSET Kinds : NewRun(d, kinds)
    BY <1>1, CommitIsNewRun
  <2>2. \A p \in proposals' : p.status = "PROPOSED" =>
          \/ p.doc = d /\ p.run = kjob[d].runs + 1
          \/ p.doc # d /\ p \in proposals
    BY <2>1 DEF NewRun, Proposed
  <2> QED  BY <2>2 DEF OneRunProposed
<1>2. ASSUME NEW r \in Reviewers, Review(r) PROVE OneRunProposed'
  <2>1. \A p \in proposals' : p.status = "PROPOSED" => p \in proposals
    BY <1>2, ReviewDecides DEF Decides
  <2> QED  BY <2>1 DEF OneRunProposed
<1>3. CASE /\ ~\E x \in Extractors : CommitExtraction(x)
           /\ ~\E r \in Reviewers : Review(r)
  BY <1>3, ProposalsOnlyGo DEF OneRunProposed
<1> QED  BY <1>1, <1>2, <1>3

LEMMA NextCited ==
    ASSUME TypeOK, RowInv, JobInv, AcceptedIsCited, [Next]_vars
    PROVE  AcceptedIsCited'
<1>1. ASSUME NEW x \in Extractors, CommitExtraction(x) PROVE AcceptedIsCited'
  <2>1. PICK d \in Docs, kinds \in SUBSET Kinds : NewRun(d, kinds)
    BY <1>1, CommitIsNewRun
  <2>2. \A p \in proposals' : p \in proposals \/ p.fact = NoFact
    BY <2>1 DEF NewRun
  <2> QED  BY <2>1, <2>2 DEF AcceptedIsCited, NewRun
<1>2. ASSUME NEW r \in Reviewers, Review(r) PROVE AcceptedIsCited'
  <2>1. evidence \subseteq evidence'
    BY <1>2, ReviewDecides
  <2>2. ASSUME NEW p \in proposals, NEW q, Decides(r, p, q) PROVE AcceptedIsCited'
    BY <2>1, <2>2 DEF Decides, AcceptedIsCited
  <2> QED  BY <1>2, <2>1, <2>2, ReviewDecides DEF AcceptedIsCited
<1>3. CASE /\ ~\E x \in Extractors : CommitExtraction(x)
           /\ ~\E r \in Reviewers : Review(r)
  BY <1>3, ProposalsOnlyGo DEF AcceptedIsCited
<1> QED  BY <1>1, <1>2, <1>3
-----------------------------------------------------------------------------
(* The invariant *)

LEMMA InitInv == Init => KnowledgeInv
<1> SUFFICES ASSUME Init PROVE KnowledgeInv
  OBVIOUS
<1>1. RowInv /\ JobInv
  BY DEF Init, RowInv, JobInv, JobOf, Open, Extracts, NoJob, NoWork, Resting
<1>2. ProposalsInv /\ OneRunProposed /\ AcceptedIsCited
  BY DEF Init, ProposalsInv, OneRunProposed, AcceptedIsCited
<1> QED  BY <1>1, <1>2, InitType DEF KnowledgeInv

LEMMA NextInv ==
    ASSUME KnowledgeInv, [Next]_vars
    PROVE  KnowledgeInv'
<1>1. TypeOK' /\ RowInv' /\ JobInv'
  BY NextType, NextRow, NextJob DEF KnowledgeInv
<1>2. ProposalsInv' /\ OneRunProposed' /\ AcceptedIsCited'
  BY NextProposals, NextOneRun, NextCited DEF KnowledgeInv
<1> QED  BY <1>1, <1>2 DEF KnowledgeInv

\* Rows have one holder, jobs one run to commit, proposals one run and their
\* citation, for any number of workers and reviewers.
THEOREM Inductive == Spec => []KnowledgeInv
BY InitInv, NextInv, PTL DEF Spec

\* Every variable has its type; no job runs out of run numbers.
THEOREM TypeCorrect == Spec => []TypeOK
<1>1. KnowledgeInv => TypeOK
  BY DEF KnowledgeInv
<1> QED  BY <1>1, Inductive, PTL

\* The undecided proposals of a document come from one extraction, however leases
\* are reclaimed and extractions retried (run_once, knowledge_worker.py:77).
THEOREM OneRunAlways == Spec => []OneRunProposed
<1>1. KnowledgeInv => OneRunProposed
  BY DEF KnowledgeInv
<1> QED  BY <1>1, Inductive, PTL

\* Proposal and citation go together, whatever reviewers and ingestion workers do
\* (withdraw_document_knowledge, knowledge_service.py:54).
THEOREM AcceptedStaysCited == Spec => []AcceptedIsCited
<1>1. KnowledgeInv => AcceptedIsCited
  BY DEF KnowledgeInv
<1> QED  BY <1>1, Inductive, PTL
-----------------------------------------------------------------------------
(* Facts and evidence *)

\* f becomes or stays a fact and is backed by the documents ds.
Backs(f, ds) ==
    /\ Citable(ds)
    /\ evidence' = evidence \union ({f} \X ds)
    /\ fact' = [fact EXCEPT ![f] = "CONFIRMED"]
    /\ UNCHANGED ingester

Corrects(f, s) ==
    /\ fact' = [fact EXCEPT ![f] = s]
    /\ UNCHANGED <<evidence, ingester>>

\* Worker i commits what it withdrew.
Commits(i) ==
    /\ ingester[i].doc \in Docs
    /\ evidence' = {e \in evidence : e[2] # ingester[i].doc}
    /\ fact' = [f \in Facts |-> IF f \notin ingester[i].drop THEN fact[f]
                   ELSE IF f \in Entities THEN "ARCHIVED" ELSE "WITHDRAWN"]
    /\ ingester' = [ingester EXCEPT ![i] = NoWork]

\* Facts and their evidence change in three ways.
LEMMA FactChanges ==
    ASSUME TypeOK, [Next]_vars
    PROVE  \/ /\ UNCHANGED <<fact, evidence>>
              /\ \/ UNCHANGED ingester
                 \/ \E i \in Ingesters : RollBack(i) \/ \E d \in Docs : Withdraw(i, d)
           \/ \E f \in Facts, ds \in SUBSET Docs : Backs(f, ds)
           \/ \E f \in Facts, s \in Corrections : Corrects(f, s)
           \/ \E i \in Ingesters : Commits(i)
<1> DEFINE Quiet == UNCHANGED <<fact, evidence, ingester>>
<1>1. ASSUME NEW d \in Docs, Request(d) \/ TimePasses(d) PROVE Quiet
  BY <1>1 DEF Request, RequestReindex, RequestDelete, RetryExtraction, TimePasses
<1>2. ASSUME NEW x \in Extractors, NEW d \in Docs, Claim(x, d) \/ GiveUp(x, d) PROVE Quiet
  BY <1>2 DEF Claim, TakeJob, GiveUp
<1>3. ASSUME NEW x \in Extractors, Extract(x) \/ CrashExtractor(x) PROVE Quiet
  BY <1>3 DEF Extract, BeginExtraction, AbandonClaim, CommitExtraction, FailExtraction,
              RecordFailure, CrashExtractor
<1>4. ASSUME NEW i \in Ingesters, CommitReindexed(i) \/ CommitDeleted(i) PROVE Commits(i)
  BY <1>4 DEF CommitReindexed, CommitDeleted, Withdrawn, Commits
<1>5. ASSUME NEW f \in Facts, CreateFact(f)
      PROVE  \E ds \in SUBSET Docs : Backs(f, ds)
  BY <1>5 DEF CreateFact, Create, Backs
<1>6. ASSUME NEW f \in Facts, NEW s \in Corrections, Correct(f, s) PROVE Corrects(f, s)
  BY <1>6 DEF Correct, Corrects
<1>7. ASSUME NEW r \in Reviewers, Review(r)
      PROVE  Quiet \/ \E f \in Facts, ds \in SUBSET Docs : Backs(f, ds)
  <2>1. ASSUME NEW p \in proposals, NEW f \in Facts, Create(f, {p.doc}), UNCHANGED ingester
        PROVE  \E ds \in SUBSET Docs : Backs(f, ds)
    <3>1. {p.doc} \in SUBSET Docs
      BY DEF TypeOK, Proposal
    <3> QED  BY <2>1, <3>1 DEF Create, Backs
  <2>2. CASE Accept(r)
    BY <2>1, <2>2 DEF Accept
  <2>3. CASE Resolve(r)
    <3>1. PICK p \in proposals, f \in Entities :
             /\ Reviewable(p, reviewer[r].gen)
             /\ evidence' = evidence \union {<<f, p.doc>>}
             /\ fact' = [fact EXCEPT ![f] = "CONFIRMED"]
             /\ UNCHANGED ingester
      BY <2>3 DEF Resolve
    <3>2. {p.doc} \in SUBSET Docs /\ f \in Facts
      BY DEF TypeOK, Proposal, Facts
    <3>3. {<<f, p.doc>>} = {f} \X {p.doc}
      OBVIOUS
    <3> QED  BY <3>1, <3>2, <3>3 DEF Reviewable, Citable, Backs
  <2> QED  BY <1>7, <2>2, <2>3 DEF Review, OpenReview, Reject, Refuse
<1>8. CASE UNCHANGED vars
  BY <1>8 DEF vars
<1> QED
  BY <1>1, <1>2, <1>3, <1>4, <1>5, <1>6, <1>7, <1>8 DEF Next, Ingest, RollBack, Withdraw

\* New evidence comes from a READY document that nobody holds (require_evidence
\* and review_proposal, api/knowledge.py:47, 188).
THEOREM CitesReadyAlways == Spec => CitesReady
<1>1. ASSUME TypeOK, [Next]_vars, NEW e \in evidence' \ evidence
      PROVE  Unlocked(e[2]) /\ doc[e[2]].status = "READY"
  BY <1>1, FactChanges DEF Backs, Citable, Corrects, Commits
<1>2. ASSUME TypeOK, [Next]_vars
      PROVE  [\A e \in evidence' \ evidence :
                 Unlocked(e[2]) /\ doc[e[2]].status = "READY"]_vars
  BY <1>1, <1>2
<1> QED  BY <1>2, TypeCorrect, PTL DEF Spec, CitesReady
-----------------------------------------------------------------------------
(* What holds without concurrency *)

LEMMA NextWithdrawal ==
    ASSUME \A i, j \in Ingesters : i = j, "CONFIRMED" \notin Corrections,
           TypeOK, RowInv, WithdrawalInv, [Next]_vars
    PROVE  WithdrawalInv'
<1>1. ASSUME UNCHANGED <<fact, evidence>>, NEW i \in Ingesters,
             RollBack(i) \/ \E d \in Docs : Withdraw(i, d)
      PROVE  WithdrawalInv'
  <2>1. ASSUME NEW d \in Docs
        PROVE  (UnsupportedWithout(d))' = UnsupportedWithout(d)
    BY <1>1 DEF UnsupportedWithout, EvidenceOf
  <2>2. CASE RollBack(i)
    BY <2>2 DEF RollBack, TypeOK, WithdrawalInv
  <2>3. ASSUME NEW d \in Docs, Withdraw(i, d) PROVE WithdrawalInv'
    <3>1. ingester'[i] = [doc |-> d, drop |-> UnsupportedWithout(d)]
      BY <2>3 DEF Withdraw, TypeOK
    <3>2. ingester'[i].doc = d /\ ingester'[i].drop = UnsupportedWithout(d)
      BY <3>1
    <3>3. (UnsupportedWithout(ingester[i].doc))' \subseteq ingester'[i].drop
      BY <1>1, <3>2 DEF UnsupportedWithout, EvidenceOf
    <3> QED  BY <3>3 DEF WithdrawalInv
  <2> QED  BY <1>1, <2>2, <2>3
<1>2. ASSUME UNCHANGED <<fact, evidence, ingester>> PROVE WithdrawalInv'
  BY <1>2 DEF WithdrawalInv, UnsupportedWithout, EvidenceOf
<1>3. ASSUME NEW f \in Facts, NEW ds \in SUBSET Docs, Backs(f, ds) PROVE WithdrawalInv'
  <2> SUFFICES ASSUME NEW i \in Ingesters, ingester[i] # NoWork,
                      NEW g \in Facts, (EvidenceOf(g))' = {ingester[i].doc},
                      fact'[g] = "CONFIRMED"
               PROVE  g \in ingester[i].drop
    BY <1>3 DEF Backs, WithdrawalInv, UnsupportedWithout
  <2>1. ingester[i].doc \notin ds
    BY <1>3 DEF Backs, Citable, Unlocked
  <2>2. g # f
    <3>1. PICK e \in ds : e # ingester[i].doc
      BY <1>3, <2>1 DEF Backs, Citable
    <3>2. <<f, e>> \in evidence' /\ e \in Docs
      BY <1>3, <3>1 DEF Backs
    <3>3. e \in (EvidenceOf(f))'
      BY <3>2 DEF EvidenceOf
    <3> QED  BY <3>1, <3>3
  <2>3. EvidenceOf(g) = {ingester[i].doc} /\ fact[g] = "CONFIRMED"
    BY <1>3, <2>2 DEF Backs, EvidenceOf, TypeOK
  <2> QED  BY <2>3 DEF WithdrawalInv, UnsupportedWithout
<1>4. ASSUME NEW f \in Facts, NEW s \in Corrections, Corrects(f, s) PROVE WithdrawalInv'
  <2>1. \A g \in Facts : fact'[g] = "CONFIRMED" => fact[g] = "CONFIRMED"
    BY <1>4 DEF Corrects, TypeOK
  <2> QED  BY <1>4, <2>1 DEF Corrects, WithdrawalInv, UnsupportedWithout, EvidenceOf
<1>5. ASSUME NEW i \in Ingesters, Commits(i) PROVE WithdrawalInv'
  BY <1>5 DEF Commits, WithdrawalInv, TypeOK
<1> QED  BY <1>1, <1>2, <1>3, <1>4, <1>5, FactChanges

LEMMA NextSupported ==
    ASSUME "CONFIRMED" \notin Corrections,
           TypeOK, RowInv, WithdrawalInv, SupportedFacts, [Next]_vars
    PROVE  SupportedFacts'
<1>1. ASSUME UNCHANGED <<fact, evidence>> PROVE SupportedFacts'
  BY <1>1 DEF SupportedFacts, EvidenceOf
<1>2. ASSUME NEW f \in Facts, NEW ds \in SUBSET Docs, Backs(f, ds) PROVE SupportedFacts'
  <2>1. \A g \in Facts : EvidenceOf(g) \subseteq (EvidenceOf(g))'
    BY <1>2 DEF Backs, EvidenceOf
  <2>2. (EvidenceOf(f))' # {}
    BY <1>2 DEF Backs, Citable, EvidenceOf
  <2>3. \A g \in Facts : g # f => fact'[g] = fact[g]
    BY <1>2 DEF Backs, TypeOK
  <2> QED  BY <2>1, <2>2, <2>3 DEF SupportedFacts
<1>3. ASSUME NEW f \in Facts, NEW s \in Corrections, Corrects(f, s) PROVE SupportedFacts'
  <2>1. \A g \in Facts : fact'[g] = "CONFIRMED" => fact[g] = "CONFIRMED"
    BY <1>3 DEF Corrects, TypeOK
  <2> QED  BY <1>3, <2>1 DEF Corrects, SupportedFacts, EvidenceOf
<1>4. ASSUME NEW i \in Ingesters, Commits(i) PROVE SupportedFacts'
  <2> SUFFICES ASSUME NEW f \in Facts, fact'[f] = "CONFIRMED"
               PROVE  (EvidenceOf(f))' # {}
    BY DEF SupportedFacts
  <2>1. f \notin ingester[i].drop /\ fact[f] = "CONFIRMED"
    BY <1>4 DEF Commits
  <2>2. ingester[i] # NoWork
    BY <1>4 DEF Commits, NoWork
  <2>3. EvidenceOf(f) # {ingester[i].doc} /\ EvidenceOf(f) # {}
    BY <2>1, <2>2 DEF WithdrawalInv, UnsupportedWithout, SupportedFacts
  <2>4. PICK e \in EvidenceOf(f) : e # ingester[i].doc
    BY <2>3
  <2> QED  BY <1>4, <2>4 DEF Commits, EvidenceOf
<1> QED  BY <1>1, <1>2, <1>3, <1>4, FactChanges

\* With one ingestion worker and no correction back to CONFIRMED, a confirmed fact
\* has a source: what the worker found unsupported when it looked is what is
\* unsupported when it commits, since nobody may cite the document it holds
\* (withdraw_document_knowledge, knowledge_service.py:74).
THEOREM SupportedWithOneWorker ==
    ASSUME \A i, j \in Ingesters : i = j, "CONFIRMED" \notin Corrections
    PROVE  Spec => []SupportedFacts
<1>1. Init => WithdrawalInv /\ SupportedFacts
  BY DEF Init, WithdrawalInv, SupportedFacts
<1>2. KnowledgeInv /\ WithdrawalInv /\ SupportedFacts /\ [Next]_vars
        => WithdrawalInv' /\ SupportedFacts'
  BY NextWithdrawal, NextSupported DEF KnowledgeInv
<1> QED  BY <1>1, <1>2, Inductive, PTL DEF Spec

LEMMA NextReviews ==
    ASSUME \A r, s \in Reviewers : r = s, TypeOK, RowInv, ProposalsInv, JobInv,
           ReviewsInv, [Next]_vars
    PROVE  ReviewsInv'
<1>0. \A p \in proposals : Id(p) # NoProposal
  BY DEF TypeOK, Proposal, Id, Runs
<1>1. ASSUME NEW r \in Reviewers, Review(r) PROVE ReviewsInv'
  <2>1. CASE \E p \in proposals : OpenReview(r, p)
    <3>1. PICK p \in proposals : OpenReview(r, p)
      BY <2>1
    <3>2. proposals' = proposals /\ reviewer'[r].id = Id(p) /\ p.status = "PROPOSED"
      BY <3>1 DEF OpenReview, TypeOK
    <3> QED  BY <3>2 DEF ReviewsInv, ProposalsInv, Id
  <2>2. CASE reviewer' = [reviewer EXCEPT ![r] = NoReview]
    <3>1. \A s \in Reviewers : reviewer'[s].id = NoProposal
      BY <2>2 DEF TypeOK, NoReview
    <3>2. \A p \in proposals' : \E q \in proposals : Id(p) = Id(q)
      BY <1>1, ReviewDecides DEF Decides, Id
    <3>3. \A p \in proposals' : Id(p) # NoProposal
      BY <1>0, <3>2
    <3> QED  BY <3>1, <3>3 DEF ReviewsInv, Id
  <2> QED  BY <1>1, <2>1, <2>2 DEF Review, Reject, Accept, Resolve, Refuse, CloseReview
<1>2. ASSUME ~\E r \in Reviewers : Review(r) PROVE reviewer' = reviewer
  BY <1>2 DEF Next, vars, Request, RequestReindex, RequestDelete, RetryExtraction, TimePasses,
              Ingest, Withdraw, CommitReindexed, CommitDeleted, RollBack, Claim, TakeJob,
              GiveUp, Extract, BeginExtraction, AbandonClaim, CommitExtraction,
              FailExtraction, RecordFailure, CrashExtractor, CreateFact, Correct
<1>3. ASSUME NEW x \in Extractors, CommitExtraction(x) PROVE ReviewsInv'
  <2>1. PICK d \in Docs, kinds \in SUBSET Kinds : NewRun(d, kinds)
    BY <1>3, CommitIsNewRun
  <2>2. \A p \in proposals' : p \in proposals \/ p.status = "PROPOSED"
    BY <2>1 DEF NewRun
  <2>3. reviewer' = reviewer
    BY <1>3 DEF CommitExtraction
  <2> QED  BY <2>2, <2>3 DEF ReviewsInv, Id
<1>4. CASE /\ ~\E x \in Extractors : CommitExtraction(x)
           /\ ~\E r \in Reviewers : Review(r)
  <2>1. proposals' \subseteq proposals
    BY <1>4, ProposalsOnlyGo
  <2> QED  BY <1>2, <1>4, <2>1 DEF ReviewsInv, Id
<1> QED  BY <1>1, <1>3, <1>4

\* With one reviewer at a time a decision is final: a new extraction's proposals
\* have identities of their own, and the one proposal the reviewer has open is
\* still undecided (review_proposal, api/knowledge.py:173).
THEOREM ReviewedOnceByOne ==
    ASSUME \A r, s \in Reviewers : r = s
    PROVE  Spec => ReviewedOnce
<1>1. Init => ReviewsInv
  BY DEF Init, ReviewsInv
<1>2. KnowledgeInv /\ ReviewsInv /\ [Next]_vars => ReviewsInv'
  BY NextReviews DEF KnowledgeInv
<1>3. ASSUME KnowledgeInv, ReviewsInv, [Next]_vars,
             NEW p \in proposals, NEW q \in proposals', p.status # "PROPOSED", Id(q) = Id(p)
      PROVE  q = p
  <2>1. q \in proposals => q = p
    BY <1>3 DEF KnowledgeInv, ProposalsInv
  <2>2. ASSUME NEW x \in Extractors, CommitExtraction(x) PROVE q \in proposals
    <3>1. PICK d \in Docs, kinds \in SUBSET Kinds : NewRun(d, kinds)
      BY <1>3, <2>2, CommitIsNewRun DEF KnowledgeInv
    <3>2. p.run \in Nat /\ p.run <= kjob[p.doc].runs /\ kjob[d].runs \in Nat
      BY <1>3 DEF KnowledgeInv, ProposalsInv, TypeOK, Proposal, Runs, JobRow
    <3>3. q.doc = p.doc /\ q.run = p.run
      BY <1>3 DEF Id
    <3> QED  BY <3>1, <3>2, <3>3 DEF NewRun
  <2>3. ASSUME NEW r \in Reviewers, Review(r) PROVE q \in proposals
    <3>1. ASSUME NEW o \in proposals, NEW o2, Decides(r, o, o2) PROVE q \in proposals
      <4>1. o.status = "PROPOSED"
        BY <1>3, <3>1 DEF Decides, ReviewsInv
      <4>2. o # p
        BY <1>3, <4>1
      <4>3. Id(o) # Id(p)
        BY <1>3, <4>2 DEF KnowledgeInv, ProposalsInv
      <4>4. Id(o2) = Id(o)
        BY <3>1 DEF Decides, Id
      <4> QED  BY <1>3, <3>1, <4>3, <4>4 DEF Decides
    <3> QED  BY <1>3, <2>3, <3>1, ReviewDecides DEF KnowledgeInv
  <2>4. CASE /\ ~\E x \in Extractors : CommitExtraction(x)
             /\ ~\E r \in Reviewers : Review(r)
    BY <1>3, <2>1, <2>4, ProposalsOnlyGo DEF KnowledgeInv
  <2> QED  BY <2>1, <2>2, <2>3, <2>4
<1>4. KnowledgeInv /\ ReviewsInv /\ [Next]_vars =>
        [\A p \in proposals, q \in proposals' :
            p.status # "PROPOSED" /\ Id(q) = Id(p) => q = p]_vars
  BY <1>3
<1> QED  BY <1>1, <1>2, <1>4, Inductive, PTL DEF Spec, ReviewedOnce
=============================================================================
