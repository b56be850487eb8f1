# Verification of Sentineth

TLA+ models of the Sentineth backend (`src/backend/app`), TLC configurations that
check them on small instances, and theorems proved with TLAPS for every instance.
`PROJECT.json` is the machine-readable index: components, runs, the lines each
definition stands for, mutants (a slip in the code each property notices),
findings, hazards and theorems.

    tlc -workers 2 -config MCIngestion_safety.cfg MCIngestion    # one of the runs
    tlapm IngestionStoreProofs.tla                               # one of the proof modules

## 1. The system

Sentineth is a FastAPI service over Postgres, a Qdrant collection and a directory
of stored files. Two kinds of worker process poll Postgres for jobs. There is no
message broker: processes interact only through rows, row locks and the two other
stores, so almost every hard behaviour is about what one transaction sees of another.

| Component | State it keeps | Operations | What makes it correct | Here |
| --- | --- | --- | --- | --- |
| Document admission and life cycle (`document_service.py`, `source_service.py`, `api/documents.py`) | `documents`, `sources`, `ingestion_jobs` rows; the stored PDF | upload, reindex, delete, the pending limit; quotas and rates | the three rows agree; the limit is never exceeded; nothing is queued that nobody will process | `Ingestion`, `DocumentLifecycle`, `Admission`, `LimitsProofs` |
| Ingestion worker (`worker.py`, `ingestion_service.py`) | a claim: job, attempt number, open transaction | claim, dead-letter, execute (clean, chunk, upsert, remove, commit), failure handler | READY means completely indexed; deletion leaves nothing; a dead worker's job is taken over; a live one's is not | `Ingestion`, `IngestionProofs`, `IngestionStoreProofs` |
| Stored files and vectors (`providers/storage`, `providers/vector`) | files; points | save stream, delete; upsert, delete by document | what an interrupted call leaves is repaired or removed | `Ingestion`, `Serving` (effects only) |
| Company knowledge (`knowledge_service.py`, `knowledge_worker.py`, `api/knowledge.py`) | facts, evidence, mentions, proposals, `knowledge_jobs` | enqueue, claim, extract, create, correct, review, withdraw; the graph walk of a query | a confirmed fact has evidence; proposals of two runs never mix; a proposal is decided once; the walk returns what is near | `Knowledge` (without mentions), `KnowledgeProofs`, `GraphRetrieval`, `LimitsProofs` |
| Identity and organisations (`api/organizations.py`, `api/auth.py`, `security.py`, `admin.py`) | users, memberships, invitations, API keys, sessions | log in and out, change a password, invite, accept, revoke, change and remove members, create, rotate and revoke keys, operator commands | an organisation keeps an owner; revocation is final; a removed owner's invitations die; a key is replaced once; an old password opens nothing | `Organization`, `Sessions`, `OrganizationProofs`, `BackupProofs` |
| Search and answers (`retrieval_service.py`, `query_service.py`, `lexical_service.py`) | none; reads rows, then points | vector search, lexical search, fusion, answer | nothing older than the list of documents is returned, and what nobody touched is returned as it is | `Serving`, `ServingProofs` (without scoring and prompts) |
| Chunking and extraction (`chunking_service.py`, `extraction_service.py`) | none | split into paragraphs, sentences, words; overlapping windows; batches | nothing lost, what fits stays whole, only single words exceed the budget, the window advances and ends | `Chunking`, `ChunkingProofs` (without PDF parsing) |
| Index rebuild (`scripts/reindex.py`) | a second Qdrant collection | fill, verify, switch, roll back | nothing is missing or left over at the cutover | `Serving`, `ServingProofs` |
| Backup, restore, storage relocation (`backup.py`, `relocate_storage.py`) | a dump, a file archive | back up, verify, restore, relocate | rows keep their files; a restore revives no credential | `Backup`, `BackupProofs` (without relocation) |
| Embedding and answer providers | none | HTTP calls that answer or fail | | a choice in the models |
| Sources API, HTTP shell, schemas, settings, body limit, clock | none | | | not modelled: no state; their limits are CONSTANTS |
| Audit, usage, observability | append-only rows | record | | not modelled: nothing reads them to decide |
| Database schema | tables | migrations | | the tables above are the modules' variables |
| Evaluation harness, deployment files | none | | | not modelled; the restart policy is what fairness rests on |

How they interact:

* An HTTP handler changes rows in one transaction. Handlers that admit work lock
  the organisation row first, handlers that touch a document lock its row with
  `NOWAIT` and answer 409 when somebody has it.
* `claim()` takes one job with `FOR UPDATE SKIP LOCKED`, marks it PROCESSING with a
  lease and commits. `execute_once` locks the document row in a *second*
  transaction, compares status and attempt number, and holds that lock across
  minutes of provider calls. Its failure handler is a *third* transaction.
* Ingestion and deletion call `withdraw_document_knowledge` in their transaction;
  a committed ingestion enqueues a knowledge job. Knowledge workers follow the same
  claim, execute, fail pattern and hold the document row while the model answers.
* Requests are authorised before their handler waits for a lock. Handlers that
  need it read the membership, invitation or key again once they have the lock.
  An acceptance finds its invitation by the token first and locks afterwards.

The hard behaviours are therefore: a crash between any two of these transactions
or calls; a lease that runs out under a slow worker; a commit whose
acknowledgement is lost; a database session that ends while its owner awaits a
provider; calls to Qdrant or the file store that are half done; a reindex or a
deletion arriving at every point; a search whose list of documents is older than
the index it asks; a rebuild beside all of this; two workers withdrawing the support of one fact;
two reviews of one proposal; two owners removing each other; a login that commits while
the password changes; a backup taken at three different moments. `hazards` in
`PROJECT.json` lists each at its line, with the property that watches it or the
reason none does.

## 2. The modules

### Ingestion: the document queue

One organisation, its documents, the worker processes, and the three stores.

| Variable | In the code |
| --- | --- |
| `doc`, `job`, `source` | the rows: status and `index_generation`; operation, status, attempts; `sync_state` |
| `job.ripe` | `available_at <= now` of a QUEUED job, `lease_until <= now` of a PROCESSING one: all the code tests of the clock |
| `chunks`, `vectors` | committed chunk rows, points in Qdrant, both by (generation, index) |
| `file` | the stored PDF; `doomed` while an upload handler that failed after its commit will still remove it |
| `lock` | who holds the document row `FOR UPDATE` |
| `worker` | the worker's program point, its claim, the chunks it has flushed but not committed |

A transaction that only touches Postgres is one action (`Upload`, `Reindex`,
`Delete`, `Claim`, `DeadLetter`, `RecordFailure`). An execution is one action per
external call, because other processes run between them: `Begin`, `CleanVectors`,
`Chunk`, `Upsert` or `UpsertPartly`, `RemoveFile`, `CommitIngest` or
`CommitDelete`, with `Abort` at every point. The environment crashes workers,
kills an upload between the file and the commit, loses the acknowledgement of a
commit (`Finish`), lets time pass, and, when `ConnectionsDrop` is TRUE, ends a
session whose worker is waiting for a provider. Such a worker does not notice
until its next statement, so its calls to Qdrant and the file store still happen.

`DocumentLifecycle` is the abstract specification: phases none, waiting, ready,
failed, deleting, gone; the entries a search may return; the admission limit.
Claims, leases, retries and crashes do not exist in it. `Ingestion` defines the
refinement mapping (`Phase`, `Generation`, `Index`) and `RefinesLifecycle`.

### Knowledge: facts, evidence, proposals

Facts (entities and relationships), the evidence relation between facts and
documents, proposals identified by document, run and kind, knowledge jobs, and
three kinds of process. A transaction that holds a document row while others run
is two actions: `Withdraw`, what it reads, and `CommitReindexed` or
`CommitDeleted`, what becomes visible. That is READ COMMITTED: the evidence a
second worker deletes is still there for the first. A review is also two:
`OpenReview` loads the proposal and its job without a lock; `Reject`, `Accept`,
`Resolve` and `Refuse` act on that session's *object*. The query in between is
`FOR UPDATE` but has no `populate_existing`, and SQLAlchemy returns the object it
already has, so a status read before the wait is the status tested after it. The
object stays loaded because the handler still refers to it.

Abstractions: one chunk per document, so a document stands for its chunk; of the
ingestion queue only what withdraws knowledge is kept; entity mentions follow their
proposal and are left out; names, quotes and validity dates are data no property
tells apart; a relationship connects any two different confirmed entities.

### Organization: members, invitations, keys

One organisation. `request` holds what each HTTP request in flight was authorised
as (`AuthoriseUser`, `AuthoriseKey`), or the invitation it found by its token, with
the row as it was then (`FindInvitation`). Handling it is one later action under the
organisation's row lock (`Accept` for an acceptance), or a refusal, and other requests
commit in between. What
is read again under the lock is current: `ensure_owner` and `edit_membership` use
`populate_existing`, `accept_invitation` refreshes the invitation, and the key
object of `authenticate` is no longer referenced when `rotate_key` selects it, so
the session's weak identity map reads it anew. `create_key` does not look at the caller's
membership again, and neither does the model. The operator's `create-user` takes no
lock; `attach-owner` does.

### Chunking: units, windows and batches

`_split_units`, `chunk_pages` and `extraction_batches` as a state machine. A document
is built word by word (`AddWord`), each word possibly the last of its sentence or of
its paragraph. `SplitParagraphs` makes the paragraphs the first units; `Split` is a
round of the loop over `_SENTENCE.split` and `str.split`: if every unit fits it is the
last, otherwise the units that are too long, and only those, are divided at the
sentences, and in the second round at every word. Then a chunk is emitted and the
window stepped back (`NextChunk`), or a batch closed (`NextBatch`), one round of the
code's outer loop at a time.

Units are the set of the positions they end at (`ends`), and a list of sizes is the
function of its cumulative sizes (`tokens`, `chars`), so that "as many as fit"
(`Filled`) and "the tail that fits the overlap" (`StepsBack`) are conditions on
positions instead of inner loops. How many tokens a word has, where sentences and
paragraphs end, and how long the joined text of a chunk is are chosen freely. That a
text counts what its words count is how the code itself adds units up; a tokenizer that
merges across a space may count a little differently.

A window may be the shared tail alone, when the next unit does not fit beside it (units
of 10, 3 and 18 tokens, a budget of 20): that chunk is wholly contained in the one
before. Nothing in the repository contradicts it, so `Advances` says that ends do not go
back, not that they grow.

### Serving: searches and the rebuild of the index

`Serving` EXTENDS `Ingestion`: every step of the queue may come between two steps of
a reader. A search is `BeginSearch` (the list of READY documents, `ready_documents`),
`Find` (Qdrant, asked with that list as its filter) and `Answer`, or `SearchFails`; it
holds no lock. `search[s].listed` remembers each listed document's generation at that
time, which the code does not: it is history, for the properties. Scores are data, so
any selection of the allowed size may be the best one.

`other` is the second collection. `scripts/reindex.py` is `StartRebuild` (one snapshot
of the chunk rows), `FillBatch`, `VerifyFill`, and its second invocation `VerifyOnly`;
`RebuildFails` leaves in the target what was written, and the next rebuild fills it
again. `Cutover`, `Rollback` and `Reopen` (the new collection is kept, or is used while a
rollback is still possible) are the operator's: all processes restart with the other
collection. `rebuild.quiet` says that writers are stopped. The script neither asks for
that nor notices, and its header says the contrary; the recovery procedure
(`docs/OPERATIONS.md:243`) demands it. Hence the constant `Quiesced`: TRUE means that
operators switch only after a quiet rebuild and start writers when they keep its
collection, FALSE that they follow the header. `operations_safety` and the proofs take
it to be TRUE, `serving_live` shows what happens if it is not.

### Admission: rates and quotas

`consume_rate`, the quota checks of `queue_document` and the limits of `save_stream`.
The organisation's row is locked from `Admit` until `CommitUpload` or `FailUpload`,
that is for as long as the client streams; `RemoveRow`, a worker's deletion, does not
need it. A minute is `Minute` ticks, a byte is a block. `granted` is history. The sum of
the sizes of the files (`func.sum` in the code) is the number of blocks they have
(`Total`), which is a cardinality: so it can be computed by TLC and reasoned about
without induction.

### Sessions and Backup

`Sessions` has accounts, tokens (sessions, and "grants": API keys and invitations,
which `Organization` models in detail and which are here only issued and ended), and
`call`, the requests that carry a password. Comparing a password takes long by design,
so `VerifyLogin` and `VerifyChange` are steps of their own: they take the user's row
lock and read the row anew, and `IssueSession` or `ChangePassword` commits later.
Passwords are numbered as they are chosen.

`Backup` EXTENDS `Sessions`, because what a restore must not do is to revive a
credential. Documents are reduced to a row, its file and a job in PROCESSING. An upload
stores the file (`StoreFile`), commits the row (`CommitRow`), and may at any point until
it answers run its cleanup (`UndoUpload`, `document_service.py:88`), which deletes the
file also when the row is committed: `lost` marks such a row. A backup is `BeginBackup`
(list of rows, refused beside a job in PROCESSING), `CopyFile` for each, `Dump`,
`WriteManifest`. Nothing enforces that writers are stopped meanwhile, so in the model
they are not. `Restore` compares the documents of manifest and database and ends all
credentials before its one commit, `StartService` lets the restored place take over. A
restore that dies half-way leaves a place that the next one refuses, so it is not kept.

### GraphRetrieval: the walk over the knowledge graph

`retrieve_graph` from the rows it loads to the facts it returns. At most `RowCap`
confirmed relationships are loaded, 2000 in the code, by a query without ORDER BY and
before those not in force are filtered out: `inForce` is what the database has, `edges`
what was loaded of it, any selection the cap leaves room for (`LoadedRows`). `Look` is
one turn of the inner loop, `EndRound` its end, by the break at the limit or not; the
next row is any row, and the second round may see another order than the first.
`Present` drops from what was selected, *after* the limit, what has no loaded name for
an end or no evidence from the sources asked for: any selected relationship may be
dropped. The cap of 5000 on entities decides only which entities can be seeds and have
names, and both are free here. An edge has two different ends (`models.py:329`) and a
predicate, so that two edges may join the same entities.

### Modules for TLC and for proofs

`MCIngestion` and `MCKnowledge` add the symmetry sets. `MCOperations`
unites `Serving`, `Backup` and `Organization`, `MCLimits` unites `Chunking`, `GraphRetrieval` and
`Admission`. The united modules share no variable: `part` is chosen in the initial state
and says whose steps are taken, the others rest, so each run explores the sum of its
parts and not their product. In `MCOperations` tokens, calls, users and requests are given
the names of the documents, so that one small symmetry group serves all parts.

The proofs are in `IngestionProofs` and `IngestionStoreProofs` (with the refinement of
`DocumentLifecycle`), `KnowledgeProofs`, `OrganizationProofs`, `ChunkingProofs`,
`BackupProofs` (with the theorems about `Sessions`), `ServingProofs`, and `LimitsProofs`
for `GraphRetrieval` and `Admission`. No module declares a RECURSIVE operator. A definition whose
comment begins with "Variant" is not part of any specification: it is the next
definition with a plausible slip, and `mutants` records which property notices it.

## 3. The runs

State counts are TLC's, after symmetry reduction.

| Run | Instance | What it shows |
| --- | --- | --- |
| `ingestion_safety` | 1 document, 2 workers, 3 attempts, 2 chunks, 2 generations, sessions kept; 44 thousand states, depth 46 | `TypeOK`; `RowsAgree` (job, document and source show one of nine combinations); `ReadyIsIndexed` (points = chunk rows of the current generation, after retries, partial upserts and a changed chunker); `DeletedLeavesNothing`; `LockFences`; `RefinesLifecycle` |
| `ingestion_recovery` | 1 document, 2 workers, 2 attempts, sessions may end; 64 thousand states | `PendingResolves`: once clients are quiet, no document stays pending for ever |
| `ingestion_zombie` (violation) | sessions may end | `DeletedLeavesNothing` fails, see findings |
| `ingestion_lease` (violation) | sessions kept | `LeaseRespected` fails, see findings |
| `knowledge_safety` | 2 documents, 2 entities, 1 relationship, 1 process of each kind; 1.4 million states | `SupportedFacts`, `AcceptedIsCited`, `CitesReady`, `ReviewedOnce`, `TypeOK` |
| `knowledge_recovery` | 1 document, 2 generations, 2 retried extractions, 2 knowledge workers; 294 thousand states | `OneRunProposed`; `ExtractionResolves` |
| `knowledge_skew`, `knowledge_twice`, `knowledge_reject` (violations) | one hazard each | see findings |
| `operations_safety`, queue part | 2 documents, 1 pending slot, 1 worker, 1 search of at most 2 hits, 1 rebuild in batches of one, `Quiesced` | `PendingBounded` (no order of uploads, reindexes, deletions and requeues exceeds the limit); `ReadyIsIndexed`, now also across cutover and rollback; `UntouchedIsExact`, `NeverOlder` (what a search returns of documents that change meanwhile); `VerifiedIsExact` (two equal counts do mean equal collections); `ServingTypeOK` |
| `operations_safety`, backup part | 1 person, 2 tokens, 2 calls, 2 passwords, 1 document, backups without limit | `NoOldPassword`; `EndedStaysEnded` (no step, a restore included, revives a credential); `RowsKeepFiles` (no row without a file comes out of a backup); `SessionsTypeOK` |
| `operations_safety`, organisation part | 2 people, 1 invitation, 3 keys, 2 requests; all parts 3.0 million states | `KeepsOwner`, `IssuerIsOwner`; `RevokedIsFinal` and `NoWayBack` (an acceptance that loaded its invitation before a revocation, a removal or another acceptance); `ReplacedOnce`, `OrganizationTypeOK` |
| `serving_live` (violation) | 1 document, 1 worker, writers beside a rebuild | `ReadyIsIndexed` fails, see findings |
| `limits_safety`, chunking part | up to 4 words, every way to end sentences and paragraphs, budgets of 20 tokens (overlap 3) and 9 characters; 348 thousand states | `NothingLost`, `KeptWhole` (what fits is whole in some chunk), `WithinBudget` (only single words are longer), `Advances`, `OneBatchEach`, `Ends` |
| `limits_safety`, graph part | every graph of up to 4 relationships in force among 4 entities, a confirmed one that is not, 4 rows loaded, 1 or 2 seeds, limit 3, every order of the rows | `WithinTwoHops`, `NothingNearMissed` |
| `limits_safety`, admission part | 2 uploads, 2 files, 3 units of storage and 2 per upload, allowance 2, a minute of 3 ticks, 6 ticks; all parts 1.5 million states | `RateBounded` (any minute grants fewer than two allowances), `QuotaKept` |

Why the bounds are enough to be interesting. Two workers are what a superseded
worker and its successor need; three attempts give a first try, a retry and a last
one; two chunks let an upsert be half done and a chunker produce fewer points than
before; two generations give a reindex of an indexed document; two documents and
one slot make admission a race. Two documents are the two sources of a fact. One search
suffices because searches write nothing; one worker suffices beside readers because
`ingestion_safety` and the proofs are about several. `Overlap` is FALSE: searches and
the rebuild write nothing the other reads, so only the queue need run beside either
(the cutover kills searches under way). `SearchesBounded` goes further in the same
spirit: a search never looks at the collection that is not in use, so searches run while
that one is empty and after a switch, not again for everything it may contain. Two tokens and two calls are a login overlapping
a password change, or two changes; the second password is the one that retires the
first; one document is enough for a backup to disagree with the files. A graph of four
edges has paths of three hops, edges parallel to each other, and more within reach than
the limit of three; with the one that has expired it has one row more than are loaded.
Six ticks are two windows of three and every minute across them. Two people who may both
become owners can remove each other while an invitation of one is accepted, and three keys
let two rotations of one key overlap. Words of 1, 3, 17 and 21 tokens are below and at
the overlap, fill a budget of 20 exactly with one of 3, and exceed it; with four of them
there are units of several words that are too long beside some that fit, and windows that
step back over one or two units; chunks of 3 and 10 characters fill a prompt of 9 exactly
and exceed it. `MaxWords`, `MaxGen`, `MaxRuns`, `MaxPasswords`, `MaxEdges`, `MaxExpired`,
`MaxSeeds`, `LastTick`, `Overlap` and `SearchesBounded` are the bounds
the code does not have: they cap a document's length and counters
(`index_generation`, the number of extractions), and ids are each used once as
`uuid4` ids are. The theorems of section 4 hold for all values.

`knowledge_safety` has one ingestion worker because with two `SupportedFacts` fails
(`knowledge_skew`), one reviewer because with two proposals are decided twice
(`knowledge_twice`), and `Corrections` is {"ARCHIVED"} because a PATCH may set an
unsupported fact back to CONFIRMED: the code allows a human that, and nothing
promises otherwise, so the property is about everything except that decision.

All configurations say `CHECK_DEADLOCK FALSE`: in a bounded instance the ids run
out, and an idle system is a legitimate end; the loops of `Chunking` and `GraphRetrieval` are meant to end.

### Fairness

`FairSpec` is used by the liveness runs only. Time passes (`WF` of `TimePasses`). A
live worker goes on executing its claim (`WF` of `Execute`; `SF` of `Extract`,
because it waits for a row others lock again and again, and Postgres grants row
locks in turn). A job that is claimable again and again is eventually claimed
(`SF`): `claim()` orders by `available_at`, so later jobs cannot overtake it for
ever, and workers poll. A dead worker is replaced: the compose files say
`restart: unless-stopped`. Nothing is assumed about crashes, which may recur
without limit, or about clients; the properties begin with "once clients are quiet".
In `Chunking` (`FairSpec`, and `LimitsSpec` of `MCLimits`) the loops of one process run
on, and nothing else is assumed.

### Findings

Each is a `violation` run: the property states what the repository says, and TLC
shows a behaviour of the code against it.

* `ingestion_zombie`: a worker whose session ended while it embedded still upserts.
  Another worker has meanwhile deleted the document, whose points are then in Qdrant
  for good. `worker.py:3` promises that the row lock fences the worker.
* `ingestion_lease`: a worker's commit succeeds but is reported as an error; a
  reindex resets the attempt counter; another worker claims with attempt 1; the
  first worker's handler takes the claim for its own and requeues or fails it.
* `knowledge_skew`: two workers withdraw the two sources of one fact at the same
  time, each sees the other's evidence, and the fact stays CONFIRMED without any.
* `knowledge_twice`: two overlapping reviews both decide one proposal.
* `knowledge_reject`: a rejected proposal is stored as ACCEPTED. The branch that
  sets REJECTED falls through to the assignment that all branches share.
* `serving_live`: while a new collection is filled, a document is reindexed to as many
  chunks as before. Both checks count the same number, and after the cutover everybody
  searches the superseded chunks. `scripts/reindex.py:1` says "without downtime", `:24`
  "while the old one keeps serving". The claim of `:18` that the old collection is "still
  correct" for a rollback ends the same way, with the first write after the cutover.

### Observed

What the models show and no property contradicts, because the repository does not
promise otherwise or says two things:

* With more than 2000 confirmed relationships, which of them a question can use is up to
  the database: the query has a limit and no order, and rows not in force count too
  (`knowledge_service.py:190`).
* What the walk over the graph selects and then drops for want of a name or of evidence
  has counted towards its limit, so fewer facts than the limit may be returned although
  more are near.
* An upload whose `refresh` fails after the commit, or whose commit is not acknowledged,
  leaves a queued document without its file (`document_service.py:88`). Backups are then
  refused until it is deleted.
* A search under way may return chunks of a document that failed or was deleted after
  the list was read. `docs/ROADMAP.md:124` reads stronger than that.
* A restore that dies between `pg_restore` and its last commit leaves live credentials
  in a database that only the operator keeps from being served.
* A deletion that failed after the file was removed makes every later backup fail until
  the document is deleted again.
* A slow upload holds the organisation's lock for as long as it streams: other uploads,
  queries and reindexes of that organisation are answered 409 meanwhile.

## 4. The proofs

TLAPS checks every step; the assumptions are the named ones of the modules
(`IngestionAssumption`, `KnowledgeAssumption`, `OrganizationAssumption`,
`ChunkingAssumption`, `SessionsAssumption`, `GraphAssumption`, `ServingAssumption`,
`AdmissionAssumption`): sets of ids and their "none" values are disjoint, documents,
files and users are finitely many, limits are numbers, `MaxAttempts`, the token budget,
the limit of the graph walk, the allowance and the length of a minute are positive, and
a PATCH sets a fact to one of the three statuses its schema has
(`knowledge_schemas.py:47`, `:109`).

**Ingestion.** The properties are not inductive by themselves. `IngestionInv` is
the conjunction of

1. `TypeOK` and `RowsAgree`;
2. `LockInv`: a row lock belongs to the one worker whose transaction is open on that
   row, and whose claim is the current one;
3. `ExecutionInv`: a worker in the middle of an execution holds the lock, and its
   program point tells what the stores contain (no points before the upsert, exactly
   its own after it, no file after the removal);
4. `StoresInv`: what settled and deleted documents have in the stores.

`TypeCorrect`, `RowsAlwaysAgree` and `PendingAlwaysBounded` need only 1 and 2 and
hold whether or not sessions end. `ReadyAlwaysIndexed`, `DeletionIsComplete`,
`LockAlwaysFences` and `QueueImplementsLifecycle` need 3 and 4, and assume
`~ConnectionsDrop`. That assumption is what `ingestion_zombie` shows to be
necessary: the step that fails without it is precisely "while a worker is in the
middle of an execution it holds the lock". `PendingAlwaysBounded` argues by
cardinality: a request adds one document to the pending ones only below the limit,
and no worker step adds any. The refinement proof has one lemma per kind of step;
it uses the invariant to show that a commit publishes one complete generation.

**Serving.** `ServingInv` is `IngestionInv` together with

1. `ListsInv`: a generation that was READY when a list or a rebuild read it is never on
   its way to READY again, and Qdrant holds nothing older than it;
2. `FillInv`: there is a set of points, the snapshot, of which the part not yet loaded
   into the target is still to be written; it has as many members as were counted;
3. `QuietInv`: while writers are stopped nothing moves, and after a cutover either
   collection serves the READY documents.

A step of the queue changes a document in few ways (`DocStep`), and each keeps 1. That
two equal counts suffice follows from 2: the snapshot is inside the target, both are
finite and of the same size, so they are the same set (`CountedPoints`). The five
theorems hold for any numbers of documents, workers and searches, and for searches
beside a rebuild (`Overlap` TRUE, which no run explores). They assume `Quiesced`, since
the collection that a switch puts into use is as good as its rebuild was quiet: without
it the step that fails is `Cutover`, which `serving_live` shows, or a `Rollback` after
writers have started. And they assume `~ConnectionsDrop`, as `IngestionInv` does: a
worker whose session ended may leave points of a superseded generation, and a search
would return them.

**Knowledge.** None of the properties is inductive. `KnowledgeInv` is the conjunction of
them and

1. `RowInv`: a document row has one holder; an ingestion worker holds what is queued or
   to be deleted, and no knowledge worker holds what is gone;
2. `JobInv`: a job is about a generation there has been, an older one than that of a
   queued document; one enqueuing leads to one committed run at most, so that as long as
   an extraction may still commit (`Open`) there is a run number left;
3. `ProposalsInv`: document, run and kind identify a proposal, and no proposal has a run
   number that is still to come.

That an enqueuing leads to one commit is the interesting part: `RetryExtraction`, the
commit of a reindex and a reclaimed lease may each put a job back, but only the worker
that holds the row commits, and it settles the job by that. From there
`OneRunProposed` follows, because a commit replaces what was undecided by proposals
that share its number (`NewRun`), and everything else only decides or removes proposals
(`ReviewDecides`, `ProposalsOnlyGo`). `AcceptedIsCited` holds because `Withdrawn`
removes both sides of it, and `CitesReady` because there are only three ways in which
facts and evidence change (`FactChanges`). These four theorems hold for any numbers of
workers and reviewers.

Two theorems hold only without concurrency, and say so in their hypotheses.
`SupportedWithOneWorker` assumes that there are no two ingestion workers and that no
correction sets a fact to CONFIRMED. Its invariant `WithdrawalInv` says that what the
worker found unsupported when it looked includes what is unsupported when it commits:
the row it holds cannot be cited meanwhile. With two workers the step that fails is the
other's commit, which takes evidence away (`knowledge_skew`). `ReviewedOnceByOne` assumes
one reviewer at a time; its invariant is `ReviewsInv`, that an open proposal is
undecided, and the step that fails with two is the other's decision (`knowledge_twice`).

**Organization.** `OrganizationTypeOK` says beside the types that members have accounts and
that sent invitations have an addressee and an issuer. `IssuersAreOwners` is
inductive with it: a new invitation is issued under the lock by a current owner, and
whoever stops being an owner takes the outstanding invitations along.
`RotationsReplaceOnce` needs that a key in use, and one that was replaced, has been
issued (`KeysIssued`): otherwise an id a rotation takes might already have a
successor. `OwnerIsKept` rests on a lemma about cardinality, that an owner who is
not the last one has company. `RevocationIsFinal` and `RemovedStayOut` hold for requests
that have loaded anything before: `AcceptedWasOpen` says that what is accepted is open
when it is accepted, whatever `request` remembers of it.

**Chunking.** The safety properties are conjuncts of `ChunkingInv` or follow from it. The
splitting is `UnitsInv`: after a round no unit that is too long has one of the round's
marks inside (`NoneInside`, from `DividedOnce`), so after the second one it is a single
word, which is what `WithinBudget` needs of the chunks later; and no sentence or paragraph
that fits has been cut (`Uncut`, from `StaysUncut`: whatever is divided is too long, and a
part of what fits is not). `KeptWhole` follows with the fact that a chunk ends where a unit
ends. The windows need that the runs leave no gap up to where the last one ends
(`Gapless`), and that the next window begins in the tail of the last one (`LoopInv`). The
lemma `ChunkBegins` is the heart of that part: the shared tail is at most 15% of the
budget, so the next window, which takes all that fits, ends no earlier than the last one.
The theorems hold for every budget and for documents of any length, without induction
over the sizes, because a step adds one word, chunk or batch.

**Sessions and Backup.** `NoOldPassword` is a consequence of `SessionsInv`: a working
session was opened with what is *still* its owner's password (`LiveInv`), and a call
that has compared a password holds the row until it commits, so that what it compared
stays current (`CallsInv`); no two accounts share a password (`PasswordsInv`). A restore
keeps this because it ends every session and disables every account, and an account
enabled again has a new password. `DumpInv` carries the facts about passwords from the
moment of the dump to that of the restore. `RowsAlwaysKeepFiles` needs `PlaceInv`: a
backup is restored only if its files are those of its rows, and an upload that has not
committed still has its file. It says of the running place who may take a file from
a row, a deletion or the cleanup of an upload, and of a restored one that it begins
without such rows. The theorems hold for any
number of people, calls, tokens and documents, and for any sequence of backups.

**GraphRetrieval.** `RoundInv` says that what a round has selected is exactly what it
has looked at and could reach, in terms of what was loaded (`Near`, `Beyond`);
`FoundInv` is what is left of it at the end of the walk, when a round has looked at
everything or is full. If every row was loaded (`AllLoaded`) this is about the
relationships in force, which is `NothingNearMissed`. The theorems hold for every graph,
every limit and cap and every order of the rows.

**Admission.** `AdmissionInv` has two ideas. `LockInv`: the one upload that holds the
organisation's lock still finds what it was admitted with, room for its bytes, for one
more document and for one more request; workers without the lock only make more room.
`QuotaKept` follows, with lemmas about `Total`: sums over disjoint sets add up, and one
changed summand changes the sum by as much. `RateInv`: requests are granted in the order
of time although uploads commit late (`InOrder`), and a window counts every grant since
its first, while those within a minute *before* it are fewer than an allowance
(`Fits`), since the first grant of the window before is further away. An interval that
holds a new grant lies in these two parts (`OneMoreBounded`), so it has fewer than two
allowances. The theorems hold for every allowance, quota and length of a minute.

**Only model-checked**: the liveness properties (`PendingResolves`, `ExtractionResolves`,
`Ends`), which depend on fairness and ENABLED and are out of this prover's reach; and the
violations, which are counterexamples. Every invariant and every action property of a
passing run is a theorem.

## 5. What the models assume

* Postgres: READ COMMITTED, row locks, `SKIP LOCKED` and `NOWAIT` as documented. A
  session that ends releases its locks and rolls back.
* A call to Qdrant that failed has been applied in part or not at all by the time
  the worker takes its next step; it is not delayed beyond that.
* SQLAlchemy sessions do not autoflush, keep the objects still referenced and
  re-read only with `populate_existing`, `refresh` or after a commit.
* The operator: a quiet rebuild is really quiet, both of its checks precede the cutover,
  writers stay stopped until its collection is kept (`Quiesced`, except in `serving_live`),
  and a restore that failed is discarded (`docs/OPERATIONS.md:238`). `pg_dump` writes a
  snapshot and `pg_restore` is one transaction, as `backup.py` asks of them.
* One organisation: rows of different organisations are never joined, and every
  query of the modelled handlers is restricted to one.

## 6. Not modelled, and why

Configuration, HTTP routing and error mapping, validation schemas, logging, audit
and usage rows hold no state that decides anything. Embedding, reranking, prompts
and PDF parsing are computation or libraries: the models keep only whether they
succeed. The evaluation harness and the deployment files are not part of the running
system. Of the modelled components these operations are left out: `relocate_storage`
and the rehearsal script (a drill that calls backup and restore), the optional Qdrant
snapshot of a backup and the checksums of its files; the login throttle, the limit on
organisations per user and `initialize-vectors`; `--dry-run` of the rebuild; entity
mentions and `parse_extraction`; the regular expressions that find sentences and
paragraphs, and page numbers. Files left by an upload killed before its commit are a step
of the model (`UploadKilled`), but nothing in the repository promises to collect them.

## 7. Plan

What is left, in this order:

1. Storage relocation and the login throttle, as modules of their own.
2. An abstract specification of `Knowledge` (facts that have sources, proposals that are
   decided) and the refinement, under the hypotheses of the theorems above.

There are eight proof modules; theorems about a new module go into one of them.
