----------------------------- MODULE Ingestion -----------------------------
(***************************************************************************)
(* The durable document queue of the backend: the HTTP handlers that       *)
(* upload, reindex and delete a document (services/document_service.py),   *)
(* the worker processes that claim and execute its job (worker.py), and    *)
(* the ingestion they run (services/ingestion_service.py), over the three  *)
(* stores a document lives in: Postgres rows, stored file, Qdrant points.  *)
(*                                                                         *)
(* One organisation.  A database transaction is one action where it only   *)
(* touches Postgres; a worker's execution is one action per external call, *)
(* because its transaction stays open (and its row lock held) across them. *)
(* The clock is abstracted to the one fact the code tests: `ripe` says     *)
(* that available_at (of a QUEUED job) or lease_until (of a PROCESSING     *)
(* one) has passed.                                                        *)
(*                                                                         *)
(* A definition whose comment begins with "Variant" is the next definition *)
(* with a slip in it: the runs show which property notices the slip.       *)
(***************************************************************************)
EXTENDS Naturals, FiniteSets

CONSTANTS
    Docs,            \* document ids, each used for one upload (uuid4)
    Workers,         \* worker processes
    NoDoc, NoWorker, \* "no document" and "no worker"
    MaxAttempts,     \* settings.job_max_attempts
    MaxPending,      \* settings.max_pending_jobs_per_org
    MaxChunks,       \* settings.max_chunks
    MaxGen,          \* bound: how often a document is indexed anew
    ConnectionsDrop  \* may Postgres drop a connection its worker still uses?

ASSUME IngestionAssumption ==
    /\ NoDoc \notin Docs
    /\ NoWorker \notin Workers
    /\ IsFiniteSet(Docs)
    /\ MaxAttempts \in Nat \ {0}
    /\ MaxPending \in Nat
    /\ MaxChunks \in Nat
    /\ MaxGen \in Nat
    /\ ConnectionsDrop \in BOOLEAN

VARIABLES
    doc,      \* documents row: status and index_generation
    job,      \* ingestion_jobs row: operation, status, attempts, ripe
    source,   \* sources.sync_state
    chunks,   \* committed document_chunks ids: <<generation, index>>
    vectors,  \* points in Qdrant, by the chunk id they were built from
    file,     \* the stored PDF; "doomed": an upload handler will remove it
    lock,     \* who holds the documents row FOR UPDATE
    worker    \* each worker's program state

vars == <<doc, job, source, chunks, vectors, file, lock, worker>>

rows == <<doc, job, source>>
-----------------------------------------------------------------------------
(* Values *)

DocStatus == {"ABSENT", "QUEUED", "PROCESSING", "READY", "FAILED", "DELETING"}
JobStatus == {"NONE", "QUEUED", "PROCESSING", "SUCCEEDED", "FAILED"}
SyncState == {"NONE", "PENDING", "PROCESSING", "SYNCED", "FAILED",
              "DELETING", "DELETED"}
Operation == {"INGEST", "DELETE"}

ChunkIds == (0..MaxGen) \X (1..MaxChunks)

\* Program points of execute_once.  In Running the worker's transaction is open.
Running == {"cleaning", "chunking", "upserting", "removing", "committing"}
Idle == [pc |-> "idle", doc |-> NoDoc, attempt |-> 0, chunks |-> {},
         retryable |-> FALSE]
NoJob == [op |-> "INGEST", status |-> "NONE", attempts |-> 0, ripe |-> FALSE]

Pending == {"QUEUED", "PROCESSING", "DELETING"}
PendingDocs == {d \in Docs : doc[d].status \in Pending}

\* Variant: off by one.
HasCapacityOffByOne == Cardinality(PendingDocs) <= MaxPending

\* check_job_capacity, evaluated under the organisation's row lock.
HasCapacity == Cardinality(PendingDocs) < MaxPending

Unlocked(d) == lock[d] = NoWorker
Holds(w) == worker[w].doc \in Docs /\ lock[worker[w].doc] = w

\* What documents.status and sources.sync_state show while an operation is
\* queued, and while it is claimed.  Variant first: a retried deletion.
QueuedStatusForgetsDelete(op) == "QUEUED"
QueuedStatus(op) == IF op = "DELETE" THEN "DELETING" ELSE "QUEUED"
QueuedSync(op) == IF op = "DELETE" THEN "DELETING" ELSE "PENDING"
ClaimedStatus(op) == IF op = "DELETE" THEN "DELETING" ELSE "PROCESSING"

\* Variant: the row is locked but its job is not read again.
CurrentUnchecked(w) == TRUE

\* The fencing test a worker makes once it holds the document row.
Current(w) ==
    /\ job[worker[w].doc].status = "PROCESSING"
    /\ job[worker[w].doc].attempts = worker[w].attempt
-----------------------------------------------------------------------------
Init ==
    /\ doc = [d \in Docs |-> [status |-> "ABSENT", gen |-> 0]]
    /\ job = [d \in Docs |-> NoJob]
    /\ source = [d \in Docs |-> "NONE"]
    /\ chunks = [d \in Docs |-> {}]
    /\ vectors = [d \in Docs |-> {}]
    /\ file = [d \in Docs |-> "none"]
    /\ lock = [d \in Docs |-> NoWorker]
    /\ worker = [w \in Workers |-> Idle]
-----------------------------------------------------------------------------
(* HTTP handlers *)

\* The job row as queue_document inserts it and queue_existing rewrites it,
\* and the document and source beside it.
Enqueue(d, op, gen) ==
    /\ job' = [job EXCEPT ![d] =
           [op |-> op, status |-> "QUEUED", attempts |-> 0, ripe |-> TRUE]]
    /\ doc' = [doc EXCEPT ![d] = [status |-> QueuedStatus(op), gen |-> gen]]
    /\ source' = [source EXCEPT ![d] = QueuedSync(op)]

\* The streamed file is in place, then document, job and source commit
\* together.  If the handler fails after its commit (db.refresh), its except
\* branch still removes the file: until it does, the file is "doomed".
Upload(d) ==
    /\ source[d] = "NONE" /\ file[d] = "none"
    /\ HasCapacity
    /\ MaxGen > 0
    /\ \E f \in {"stored", "doomed"} : file' = [file EXCEPT ![d] = f]
    /\ Enqueue(d, "INGEST", 1)
    /\ UNCHANGED <<chunks, vectors, lock, worker>>

\* The API process is killed between save_stream and the commit.
UploadKilled(d) ==
    /\ source[d] = "NONE" /\ file[d] = "none"
    /\ HasCapacity
    /\ file' = [file EXCEPT ![d] = "stored"]
    /\ UNCHANGED <<rows, chunks, vectors, lock, worker>>

UploadCleanup(d) ==
    /\ file[d] = "doomed"
    /\ file' = [file EXCEPT ![d] = "none"]
    /\ UNCHANGED <<rows, chunks, vectors, lock, worker>>

\* queue_existing, operation INGEST.  NOWAIT: a locked row is answered 409.
Reindex(d) ==
    /\ Unlocked(d)
    /\ job[d].status # "PROCESSING"
    /\ doc[d].status \notin Pending \union {"ABSENT"}
    /\ HasCapacity
    /\ doc[d].gen < MaxGen
    /\ Enqueue(d, "INGEST", doc[d].gen + 1)
    /\ UNCHANGED <<chunks, vectors, file, lock, worker>>

\* queue_existing, operation DELETE: also on a document still queued.
Delete(d) ==
    /\ Unlocked(d)
    /\ doc[d].status # "ABSENT"
    /\ job[d].status # "PROCESSING"
    /\ doc[d].status \in Pending \/ HasCapacity
    /\ Enqueue(d, "DELETE", doc[d].gen)
    /\ UNCHANGED <<chunks, vectors, file, lock, worker>>
-----------------------------------------------------------------------------
(* Claiming a job *)

\* Variant: FOR UPDATE without SKIP LOCKED's effect, a locked row is taken.
ClaimableThoughLocked(d) ==
    job[d].status \in {"QUEUED", "PROCESSING"} /\ job[d].ripe

\* Variant: an expired lease is never taken over.
ClaimableOnlyQueued(d) ==
    job[d].status = "QUEUED" /\ job[d].ripe /\ Unlocked(d)

\* The candidate row of claim(): FOR UPDATE SKIP LOCKED.
Claimable(d) ==
    /\ job[d].status \in {"QUEUED", "PROCESSING"}
    /\ job[d].ripe
    /\ Unlocked(d)

TakeJob(w, d) ==
    /\ job' = [job EXCEPT ![d].status = "PROCESSING",
                          ![d].attempts = @ + 1,
                          ![d].ripe = FALSE]
    /\ doc' = [doc EXCEPT ![d].status = ClaimedStatus(job[d].op)]
    /\ source' = [source EXCEPT ![d] = ClaimedStatus(job[d].op)]
    /\ worker' = [worker EXCEPT ![w] =
           [pc |-> "claimed", doc |-> d, attempt |-> job[d].attempts + 1,
            chunks |-> {}, retryable |-> FALSE]]
    /\ UNCHANGED <<chunks, vectors, file, lock>>

\* Variant: the attempts are counted but not limited.
ClaimPastBudget(w, d) ==
    worker[w].pc = "idle" /\ Claimable(d) /\ TakeJob(w, d)

Claim(w, d) ==
    /\ worker[w].pc = "idle"
    /\ Claimable(d)
    /\ job[d].attempts < MaxAttempts
    /\ TakeJob(w, d)

\* claim() finds the attempts used up: RETRIES_EXHAUSTED.
DeadLetter(w, d) ==
    /\ worker[w].pc = "idle"
    /\ Claimable(d)
    /\ job[d].attempts >= MaxAttempts
    /\ job' = [job EXCEPT ![d].status = "FAILED", ![d].ripe = FALSE]
    /\ doc' = [doc EXCEPT ![d].status = "FAILED"]
    /\ source' = [source EXCEPT ![d] = "FAILED"]
    /\ UNCHANGED <<chunks, vectors, file, lock, worker>>
-----------------------------------------------------------------------------
(* Executing a claim: one transaction, open across the external calls *)

Goto(w, pc) == worker' = [worker EXCEPT ![w].pc = pc]

\* The transaction rolls back; `retry` is what the exception's class decides.
Fail(w, retry) ==
    worker' = [worker EXCEPT ![w].pc = "failed", ![w].chunks = {},
                             ![w].retryable = retry]

\* A later statement on a connection that is gone raises, which is retryable.
Continue(w, pc) == IF Holds(w) THEN Goto(w, pc) ELSE Fail(w, TRUE)

Release(w) == lock' = [d \in Docs |-> IF lock[d] = w THEN NoWorker ELSE lock[d]]

Begin(w) ==
    /\ worker[w].pc = "claimed"
    /\ Unlocked(worker[w].doc)
    /\ Current(w)
    /\ lock' = [lock EXCEPT ![worker[w].doc] = w]
    /\ Goto(w, "cleaning")
    /\ UNCHANGED <<rows, chunks, vectors, file>>

\* Someone else finished, cancelled or claimed the job in the meantime.
Superseded(w) ==
    /\ worker[w].pc \in {"claimed", "failed"}
    /\ Unlocked(worker[w].doc)
    /\ ~Current(w)
    /\ worker' = [worker EXCEPT ![w] = Idle]
    /\ UNCHANGED <<rows, chunks, vectors, file, lock>>

\* Variant: point ids are deterministic, so an upsert is taken to replace them.
CleanVectorsOnlyToDelete(w) ==
    LET d == worker[w].doc IN
    /\ worker[w].pc = "cleaning"
    /\ vectors' = [vectors EXCEPT ![d] = IF job[d].op = "DELETE" THEN {} ELSE @]
    /\ Continue(w, IF job[d].op = "DELETE" THEN "removing" ELSE "chunking")
    /\ UNCHANGED <<rows, chunks, file, lock>>

\* store.delete_document; the chunk rows go with the commit.
CleanVectors(w) ==
    /\ worker[w].pc = "cleaning"
    /\ vectors' = [vectors EXCEPT ![worker[w].doc] = {}]
    /\ Continue(w, IF job[worker[w].doc].op = "DELETE" THEN "removing"
                                                       ELSE "chunking")
    /\ UNCHANGED <<rows, chunks, file, lock>>

\* ingest_document up to the upsert: read the file, cut it into n chunks (the
\* chunker may have changed since the last time), flush their rows, embed.
Chunk(w) ==
    /\ worker[w].pc = "chunking"
    /\ Holds(w)
    /\ file[worker[w].doc] # "none"
    /\ \E n \in 1..MaxChunks :
           worker' = [worker EXCEPT ![w].pc = "upserting",
                      ![w].chunks = {doc[worker[w].doc].gen} \X (1..n)]
    /\ UNCHANGED <<rows, chunks, vectors, file, lock>>

Upsert(w) ==
    /\ worker[w].pc = "upserting"
    /\ vectors' = [vectors EXCEPT ![worker[w].doc] = @ \union worker[w].chunks]
    /\ Continue(w, "committing")
    /\ UNCHANGED <<rows, chunks, file, lock>>

\* The upsert times out with only some of the points written.
UpsertPartly(w) ==
    /\ worker[w].pc = "upserting"
    /\ \E some \in SUBSET worker[w].chunks :
           vectors' = [vectors EXCEPT ![worker[w].doc] = @ \union some]
    /\ Fail(w, TRUE)
    /\ Release(w)
    /\ UNCHANGED <<rows, chunks, file>>

\* Variant: the stored file is left for some other collector.
RemoveFileNever(w) ==
    /\ worker[w].pc = "removing"
    /\ Continue(w, "committing")
    /\ UNCHANGED <<rows, chunks, vectors, file, lock>>

RemoveFile(w) ==
    /\ worker[w].pc = "removing"
    /\ file' = [file EXCEPT ![worker[w].doc] = "none"]
    /\ Continue(w, "committing")
    /\ UNCHANGED <<rows, chunks, vectors, lock>>

\* After a commit the worker is done, unless the acknowledgement is lost: then
\* it runs its failure handler over a job that has moved on.
Finish(w) ==
    /\ \/ worker' = [worker EXCEPT ![w] = Idle]
       \/ Fail(w, TRUE)
    /\ Release(w)

CommitIngest(w) ==
    LET d == worker[w].doc IN
    /\ worker[w].pc = "committing"
    /\ Holds(w)
    /\ job[d].op = "INGEST"
    /\ doc' = [doc EXCEPT ![d].status = "READY"]
    /\ job' = [job EXCEPT ![d].status = "SUCCEEDED", ![d].ripe = FALSE]
    /\ source' = [source EXCEPT ![d] = "SYNCED"]
    /\ chunks' = [chunks EXCEPT ![d] = worker[w].chunks]
    /\ Finish(w)
    /\ UNCHANGED <<vectors, file>>

CommitDelete(w) ==
    LET d == worker[w].doc IN
    /\ worker[w].pc = "committing"
    /\ Holds(w)
    /\ job[d].op = "DELETE"
    /\ doc' = [doc EXCEPT ![d].status = "ABSENT"]
    /\ job' = [job EXCEPT ![d] = NoJob]
    /\ source' = [source EXCEPT ![d] = "DELETED"]
    /\ chunks' = [chunks EXCEPT ![d] = {}]
    /\ Finish(w)
    /\ UNCHANGED <<vectors, file>>

\* Any step of the execution may raise.  Only ingest_document's own errors
\* (unreadable or missing file, too large, a database error while flushing)
\* are final; a provider, a store or the commit failing is retried.
Abort(w) ==
    /\ worker[w].pc \in Running
    /\ \/ Fail(w, TRUE)
       \/ worker[w].pc = "chunking" /\ Fail(w, FALSE)
    /\ Release(w)
    /\ UNCHANGED <<rows, chunks, vectors, file>>

\* The failure handler, in a transaction of its own.
RecordFailure(w) ==
    LET d == worker[w].doc
        retry == worker[w].retryable /\ worker[w].attempt < MaxAttempts
        After(queued) == IF retry THEN queued ELSE "FAILED"
    IN
    /\ worker[w].pc = "failed"
    /\ Unlocked(d)
    /\ Current(w)
    /\ job' = [job EXCEPT ![d].status = After("QUEUED"), ![d].ripe = FALSE]
    /\ doc' = [doc EXCEPT ![d].status = After(QueuedStatus(job[d].op))]
    /\ source' = [source EXCEPT ![d] = After(QueuedSync(job[d].op))]
    /\ worker' = [worker EXCEPT ![w] = Idle]
    /\ UNCHANGED <<chunks, vectors, file, lock>>
-----------------------------------------------------------------------------
(* The environment *)

\* The process dies (or its failure handler raises and serve() goes on): the
\* open transaction is rolled back and its row lock released.
Crash(w) ==
    /\ worker[w].pc # "idle"
    /\ worker' = [worker EXCEPT ![w] = Idle]
    /\ Release(w)
    /\ UNCHANGED <<rows, chunks, vectors, file>>

\* Postgres ends the session while the worker awaits an external call: the
\* lock is gone, and the worker learns of it at its next statement.
DropConnection(w) ==
    /\ ConnectionsDrop
    /\ Holds(w)
    /\ Release(w)
    /\ UNCHANGED <<rows, chunks, vectors, file, worker>>

\* A backoff or a lease runs out.
TimePasses(d) ==
    /\ job[d].status \in {"QUEUED", "PROCESSING"}
    /\ ~job[d].ripe
    /\ job' = [job EXCEPT ![d].ripe = TRUE]
    /\ UNCHANGED <<doc, source, chunks, vectors, file, lock, worker>>
-----------------------------------------------------------------------------
\* What a worker does by itself once it has a claim.
Execute(w) ==
    \/ Begin(w) \/ Superseded(w)
    \/ CleanVectors(w) \/ Chunk(w) \/ Upsert(w) \/ UpsertPartly(w) \/ RemoveFile(w)
    \/ CommitIngest(w) \/ CommitDelete(w)
    \/ Abort(w) \/ RecordFailure(w)

Request(d) == Upload(d) \/ UploadKilled(d) \/ Reindex(d) \/ Delete(d)

Next ==
    \/ \E d \in Docs : Request(d) \/ UploadCleanup(d) \/ TimePasses(d)
    \/ \E w \in Workers, d \in Docs : Claim(w, d) \/ DeadLetter(w, d)
    \/ \E w \in Workers : Execute(w) \/ Crash(w) \/ DropConnection(w)

Spec == Init /\ [][Next]_vars

\* Fairness.  A live worker keeps executing its claim; time passes.  The oldest
\* available job is claimed first (ORDER BY available_at), so a job that is
\* claimable again and again is claimed by one of the workers polling for it.
Fairness ==
    /\ \A w \in Workers : WF_vars(Execute(w))
    /\ \A d \in Docs :
          /\ WF_vars(TimePasses(d))
          /\ SF_vars(\E w \in Workers : Claim(w, d) \/ DeadLetter(w, d))

FairSpec == Spec /\ Fairness
-----------------------------------------------------------------------------
(* Properties *)

DocRow == [status : DocStatus, gen : 0..MaxGen]
JobRow == [op : Operation, status : JobStatus, attempts : 0..MaxAttempts,
           ripe : BOOLEAN]
Worker == [pc : {"idle", "claimed", "failed"} \union Running,
           doc : Docs \union {NoDoc},
           attempt : 0..MaxAttempts,
           chunks : SUBSET ChunkIds,
           retryable : BOOLEAN]

TypeOK ==
    /\ doc \in [Docs -> DocRow]
    /\ job \in [Docs -> JobRow]
    /\ source \in [Docs -> SyncState]
    /\ chunks \in [Docs -> SUBSET ChunkIds]
    /\ vectors \in [Docs -> SUBSET ChunkIds]
    /\ file \in [Docs -> {"none", "stored", "doomed"}]
    /\ lock \in [Docs -> Workers \union {NoWorker}]
    /\ worker \in [Workers -> Worker]

\* The only combinations of job status, operation, document status and source
\* state a document may show.  docs/ROADMAP.md:94: "queued job with no document"
\* and "document nothing will process" are unreachable.
AgreeingRows ==
    { <<"NONE", "INGEST", "ABSENT", "NONE">>,
      <<"NONE", "INGEST", "ABSENT", "DELETED">>,
      <<"QUEUED", "INGEST", "QUEUED", "PENDING">>,
      <<"QUEUED", "DELETE", "DELETING", "DELETING">>,
      <<"PROCESSING", "INGEST", "PROCESSING", "PROCESSING">>,
      <<"PROCESSING", "DELETE", "DELETING", "DELETING">>,
      <<"SUCCEEDED", "INGEST", "READY", "SYNCED">>,
      <<"FAILED", "INGEST", "FAILED", "FAILED">>,
      <<"FAILED", "DELETE", "FAILED", "FAILED">> }

\* The three rows a document has agree after every transaction, whichever
\* handler, worker, recovery or superseded worker committed it.
RowsAgree ==
    \A d \in Docs :
        <<job[d].status, job[d].op, doc[d].status, source[d]>> \in AgreeingRows

\* A READY document is indexed completely and under its current generation
\* only: its points are exactly its chunk rows, after any number of retries,
\* partial upserts and chunker changes (worker.py:83, "Repeated cleanup is safe").
ReadyIsIndexed ==
    \A d \in Docs : doc[d].status = "READY" =>
        /\ chunks[d] # {}
        /\ vectors[d] = chunks[d]
        /\ \A c \in chunks[d] : c[1] = doc[d].gen

\* A completed deletion leaves nothing in Postgres, the file store or Qdrant,
\* and nothing comes back later (docs/ROADMAP.md:122).
DeletedLeavesNothing ==
    \A d \in Docs : source[d] = "DELETED" =>
        /\ doc[d].status = "ABSENT" /\ job[d] = NoJob
        /\ chunks[d] = {} /\ vectors[d] = {} /\ file[d] = "none"

\* Admission: no interleaving of requests and workers takes the organisation
\* over max_pending_jobs_per_org (document_service.py:46).
PendingBounded == Cardinality(PendingDocs) <= MaxPending

\* While a worker holds the document row, only that worker's own steps change
\* the document, its chunk rows and its points, and nobody else claims, requeues
\* or fails its job (worker.py:3, "a row lock fences the worker").
LockFences ==
    [][\A d \in Docs, w \in Workers :
         (lock[d] = w /\ worker'[w] = worker[w]) =>
            /\ doc'[d] = doc[d] /\ chunks'[d] = chunks[d] /\ vectors'[d] = vectors[d]
            /\ [job'[d] EXCEPT !.ripe = FALSE] = [job[d] EXCEPT !.ripe = FALSE]]_vars

\* A claim whose lease still runs is requeued or failed by its claimant only
\* (document_service.py:119, "A claimed worker may be between transactions. Do
\* not cancel its lease.").
LeaseRespected ==
    [][\A w \in Workers :
         (/\ worker[w].pc = "claimed" /\ Current(w) /\ ~job[worker[w].doc].ripe
          /\ worker'[w] = worker[w])
            => job'[worker[w].doc].status \notin {"QUEUED", "FAILED"}]_vars

\* Once clients stop sending requests, every document leaves the pending states,
\* however often workers crash, fail or lose their lease: the budget is finite
\* (worker.py:47) and a dead worker's claim is taken over.
PendingResolves ==
    <>[][~\E d \in Docs : Request(d)]_vars =>
        \A d \in Docs : []<>(doc[d].status \notin Pending)

\* The queue seen by its clients: worker, lease, retry and cleanup steps vanish.
PhaseOf(d) ==
    CASE doc[d].status = "ABSENT" -> IF source[d] = "DELETED" THEN "gone" ELSE "none"
      [] doc[d].status \in {"QUEUED", "PROCESSING"} -> "waiting"
      [] doc[d].status = "READY" -> "ready"
      [] doc[d].status = "FAILED" -> "failed"
      [] doc[d].status = "DELETING" -> "deleting"

\* What a search may return: ready_documents hides everything else.
IndexOf(d) == IF doc[d].status = "READY" THEN vectors[d] ELSE {}

Phase == [d \in Docs |-> PhaseOf(d)]
Generation == [d \in Docs |-> doc[d].gen]
Index == [d \in Docs |-> IndexOf(d)]

Lifecycle == INSTANCE DocumentLifecycle WITH
    phase <- Phase, generation <- Generation, index <- Index

\* The detailed queue implements the client's view of it.
RefinesLifecycle == Lifecycle!Spec
-----------------------------------------------------------------------------
(* The inductive invariant behind the safety properties *)

\* A row lock is held by the one worker whose transaction is open on that row
\* and whose claim is the job's current one.
LockInv ==
    /\ \A w \in Workers : worker[w].pc # "idle" => worker[w].doc \in Docs
    /\ \A d \in Docs : lock[d] # NoWorker =>
          /\ worker[lock[d]].pc \in Running
          /\ worker[lock[d]].doc = d
          /\ Current(lock[d])

\* S is a complete set of chunk ids of one generation.
Complete(S, gen) == \E n \in 1..MaxChunks : S = {gen} \X (1..n)

\* How far an execution has come, told by what the stores hold.  This is where
\* a row lock that outlives its worker's transaction is needed.
ExecutionInv ==
    \A w \in Workers : worker[w].pc \in Running =>
        LET d == worker[w].doc
            pc == worker[w].pc
            ingest == job[d].op = "INGEST"
        IN  /\ lock[d] = w
            /\ pc \in {"chunking", "upserting"} => ingest /\ vectors[d] = {}
            /\ pc = "upserting" \/ (pc = "committing" /\ ingest) =>
                  Complete(worker[w].chunks, doc[d].gen)
            /\ pc = "committing" /\ ingest => vectors[d] = worker[w].chunks
            /\ pc = "removing" => ~ingest /\ vectors[d] = {}
            /\ pc = "committing" /\ ~ingest => vectors[d] = {} /\ file[d] = "none"

\* What settled documents have in the stores.
StoresInv ==
    \A d \in Docs :
        /\ source[d] = "NONE" => doc[d].gen = 0
        /\ doc[d].status = "READY" =>
              Complete(chunks[d], doc[d].gen) /\ vectors[d] = chunks[d]
        /\ source[d] = "DELETED" =>
              job[d] = NoJob /\ chunks[d] = {} /\ vectors[d] = {} /\ file[d] = "none"

IngestionInv == TypeOK /\ RowsAgree /\ LockInv /\ ExecutionInv /\ StoresInv
=============================================================================
