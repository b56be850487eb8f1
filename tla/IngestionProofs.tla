-------------------------- MODULE IngestionProofs --------------------------
(***************************************************************************)
(* Proofs about Ingestion for every number of documents, workers, attempts *)
(* and chunks.                                                             *)
(***************************************************************************)
EXTENDS Ingestion, FiniteSetTheorems, TLAPS

USE IngestionAssumption
-----------------------------------------------------------------------------
(* Type correctness *)

LEMMA InitTypeOK == Init => TypeOK
BY DEF Init, TypeOK, DocRow, JobRow, DocStatus, JobStatus, SyncState, Operation,
       NoJob, Idle, Worker, Running

\* Every status a handler or a worker writes is one of its column's values.
LEMMA StatusTypes ==
    /\ "FAILED" \in DocStatus /\ "READY" \in DocStatus /\ "ABSENT" \in DocStatus
    /\ "FAILED" \in JobStatus /\ "QUEUED" \in JobStatus
    /\ "PROCESSING" \in JobStatus /\ "SUCCEEDED" \in JobStatus
    /\ "FAILED" \in SyncState /\ "SYNCED" \in SyncState /\ "DELETED" \in SyncState
    /\ "INGEST" \in Operation /\ "DELETE" \in Operation
    /\ NoJob \in JobRow
    /\ \A op \in Operation :
          /\ QueuedStatus(op) \in DocStatus /\ QueuedSync(op) \in SyncState
          /\ ClaimedStatus(op) \in DocStatus /\ ClaimedStatus(op) \in SyncState
BY DEF DocStatus, JobStatus, SyncState, Operation, NoJob, JobRow, QueuedStatus,
       QueuedSync, ClaimedStatus

\* Writing one column of one row keeps the tables well typed.
LEMMA RowUpdates ==
    ASSUME TypeOK, NEW d \in Docs
    PROVE  /\ \A s \in DocStatus : [doc EXCEPT ![d].status = s] \in [Docs -> DocRow]
           /\ \A s \in JobStatus :
                 [job EXCEPT ![d].status = s, ![d].ripe = FALSE] \in [Docs -> JobRow]
           /\ \A s \in SyncState : [source EXCEPT ![d] = s] \in [Docs -> SyncState]
<1>1. \A s \in DocStatus : [doc EXCEPT ![d].status = s] \in [Docs -> DocRow]
  BY DEF TypeOK, DocRow
<1>2. ASSUME NEW s \in JobStatus
      PROVE  [job EXCEPT ![d].status = s, ![d].ripe = FALSE] \in [Docs -> JobRow]
  <2>1. job \in [Docs -> JobRow]  BY DEF TypeOK
  <2> QED  BY <2>1 DEF JobRow
<1>3. \A s \in SyncState : [source EXCEPT ![d] = s] \in [Docs -> SyncState]
  BY DEF TypeOK
<1> QED  BY <1>1, <1>2, <1>3

LEMMA EnqueueType ==
    ASSUME TypeOK, NEW d \in Docs, NEW op \in Operation, NEW gen \in 0..MaxGen,
           Enqueue(d, op, gen)
    PROVE  /\ doc' \in [Docs -> DocRow]
           /\ job' \in [Docs -> JobRow]
           /\ source' \in [Docs -> SyncState]
<1>1. [op |-> op, status |-> "QUEUED", attempts |-> 0, ripe |-> TRUE] \in JobRow
  BY StatusTypes DEF JobRow
<1>2. [status |-> QueuedStatus(op), gen |-> gen] \in DocRow
  BY StatusTypes DEF DocRow
<1> QED  BY <1>1, <1>2, StatusTypes DEF TypeOK, Enqueue

\* What a worker does to its own state, and to its lock, keeps both well typed.
LEMMA WorkerUpdates ==
    ASSUME TypeOK, NEW w \in Workers
    PROVE  /\ \A pc \in Running : Goto(w, pc) => worker' \in [Workers -> Worker]
           /\ \A retry \in BOOLEAN : Fail(w, retry) => worker' \in [Workers -> Worker]
           /\ \A pc \in Running : Continue(w, pc) => worker' \in [Workers -> Worker]
           /\ worker' = [worker EXCEPT ![w] = Idle] => worker' \in [Workers -> Worker]
           /\ Release(w) => lock' \in [Docs -> Workers \union {NoWorker}]
<1>0. worker \in [Workers -> Worker]
  BY DEF TypeOK
<1>1. ASSUME NEW pc \in Running, Goto(w, pc)  PROVE worker' \in [Workers -> Worker]
  BY <1>0, <1>1 DEF Goto, Worker
<1>2. ASSUME NEW retry \in BOOLEAN, Fail(w, retry)
      PROVE  worker' \in [Workers -> Worker]
  <2>1. [worker[w] EXCEPT !.pc = "failed", !.chunks = {}, !.retryable = retry] \in Worker
    BY <1>0 DEF Worker
  <2>2. worker' = [worker EXCEPT ![w] =
            [worker[w] EXCEPT !.pc = "failed", !.chunks = {}, !.retryable = retry]]
    BY <1>0, <1>2 DEF Fail
  <2> QED  BY <1>0, <2>1, <2>2
<1>3. Idle \in Worker
  BY DEF Idle, Worker
<1>4. Release(w) => lock' \in [Docs -> Workers \union {NoWorker}]
  BY DEF TypeOK, Release
<1> QED
  BY <1>0, <1>1, <1>2, <1>3, <1>4 DEF Continue

LEMMA RequestType ==
    ASSUME TypeOK, NEW d \in Docs, Request(d) \/ UploadCleanup(d) \/ TimePasses(d)
    PROVE  TypeOK'
<1>1. CASE Upload(d)
  <2>1. Enqueue(d, "INGEST", 1) /\ 1 \in 0..MaxGen
    BY <1>1 DEF Upload
  <2> QED  BY <1>1, <2>1, EnqueueType, StatusTypes DEF TypeOK, Upload
<1>2. CASE UploadKilled(d)
  BY <1>2 DEF UploadKilled, TypeOK, rows
<1>3. CASE Reindex(d)
  <2>1. doc[d] \in DocRow
    BY DEF TypeOK
  <2>2. Enqueue(d, "INGEST", doc[d].gen + 1) /\ doc[d].gen + 1 \in 0..MaxGen
    BY <1>3, <2>1 DEF Reindex, DocRow
  <2> QED  BY <1>3, <2>2, EnqueueType, StatusTypes DEF TypeOK, Reindex
<1>4. CASE Delete(d)
  <2>1. Enqueue(d, "DELETE", doc[d].gen) /\ doc[d].gen \in 0..MaxGen
    BY <1>4 DEF Delete, TypeOK, DocRow
  <2> QED  BY <1>4, <2>1, EnqueueType, StatusTypes DEF TypeOK, Delete
<1>5. CASE UploadCleanup(d)
  BY <1>5 DEF UploadCleanup, TypeOK, rows
<1>6. CASE TimePasses(d)
  <2>1. job \in [Docs -> JobRow]
    BY DEF TypeOK
  <2>2. job' \in [Docs -> JobRow]
    BY <1>6, <2>1 DEF TimePasses, JobRow
  <2> QED  BY <1>6, <2>2 DEF TimePasses, TypeOK
<1> QED  BY <1>1, <1>2, <1>3, <1>4, <1>5, <1>6 DEF Request

LEMMA ClaimType ==
    ASSUME TypeOK, NEW w \in Workers, NEW d \in Docs, Claim(w, d) \/ DeadLetter(w, d)
    PROVE  TypeOK'
<1>0. job[d] \in JobRow /\ job[d].op \in Operation
  BY DEF TypeOK, JobRow
<1>1. CASE Claim(w, d)
  <2>1. job[d].attempts + 1 \in 0..MaxAttempts
    BY <1>0, <1>1 DEF JobRow, Claim
  <2>2. worker' \in [Workers -> Worker]
    BY <1>1, <2>1 DEF TypeOK, Claim, TakeJob, Worker
  <2>3. job' \in [Docs -> JobRow]
    BY <1>1, <2>1, StatusTypes DEF Claim, TakeJob, TypeOK, JobRow
  <2>4. doc' \in [Docs -> DocRow] /\ source' \in [Docs -> SyncState]
    BY <1>0, <1>1, StatusTypes, RowUpdates DEF Claim, TakeJob
  <2> QED  BY <1>1, <2>2, <2>3, <2>4 DEF TypeOK, Claim, TakeJob
<1>2. CASE DeadLetter(w, d)
  BY <1>2, StatusTypes, RowUpdates DEF TypeOK, DeadLetter
<1> QED  BY <1>1, <1>2

\* A worker past its claim is at work on one document.
LEMMA BusyWorker ==
    ASSUME TypeOK, NEW w \in Workers
    PROVE  /\ worker[w] \in Worker
           /\ worker[w].chunks \in SUBSET ChunkIds
           /\ worker[w].attempt \in 0..MaxAttempts
           /\ worker[w].retryable \in BOOLEAN
BY DEF TypeOK, Worker

LEMMA ExternalType ==
    ASSUME TypeOK, NEW w \in Workers,
           \/ Begin(w) \/ Superseded(w) \/ CleanVectors(w) \/ Chunk(w)
           \/ Upsert(w) \/ UpsertPartly(w) \/ RemoveFile(w)
    PROVE  TypeOK'
<1>0. /\ {"cleaning", "chunking", "upserting", "removing", "committing"} \subseteq Running
      /\ vectors \in [Docs -> SUBSET ChunkIds]
  BY DEF Running, TypeOK
<1>1. CASE Begin(w)
  BY <1>0, <1>1, WorkerUpdates DEF TypeOK, Begin, rows
<1>2. CASE Superseded(w)
  BY <1>2, WorkerUpdates DEF TypeOK, Superseded, rows
<1>3. CASE CleanVectors(w)
  <2>1. vectors' \in [Docs -> SUBSET ChunkIds]
    BY <1>0, <1>3 DEF CleanVectors
  <2>2. worker' \in [Workers -> Worker]
    BY <1>0, <1>3, WorkerUpdates DEF CleanVectors
  <2> QED  BY <1>3, <2>1, <2>2 DEF TypeOK, CleanVectors, rows
<1>4. CASE Chunk(w)
  <2>1. PICK n \in 1..MaxChunks :
            worker' = [worker EXCEPT ![w].pc = "upserting",
                       ![w].chunks = {doc[worker[w].doc].gen} \X (1..n)]
    BY <1>4 DEF Chunk
  <2>. DEFINE new == {doc[worker[w].doc].gen} \X (1..n)
  <2>2. new \in SUBSET ChunkIds
    <3>1. doc[worker[w].doc].gen \in 0..MaxGen
      BY <1>4 DEF Chunk, Holds, TypeOK, DocRow
    <3> QED  BY <3>1 DEF ChunkIds
  <2>. HIDE DEF new
  <2>3. [worker[w] EXCEPT !.pc = "upserting", !.chunks = new] \in Worker
    BY <1>0, <2>2, BusyWorker DEF Worker
  <2>4. worker' \in [Workers -> Worker]
    BY <2>1, <2>3 DEF TypeOK, new
  <2> QED  BY <1>4, <2>4 DEF TypeOK, Chunk, rows
<1>5. CASE Upsert(w)
  <2>1. vectors' \in [Docs -> SUBSET ChunkIds]
    BY <1>0, <1>5, BusyWorker DEF Upsert
  <2>2. worker' \in [Workers -> Worker]
    BY <1>0, <1>5, WorkerUpdates DEF Upsert
  <2> QED  BY <1>5, <2>1, <2>2 DEF TypeOK, Upsert, rows
<1>6. CASE UpsertPartly(w)
  <2>1. vectors' \in [Docs -> SUBSET ChunkIds]
    BY <1>0, <1>6, BusyWorker DEF UpsertPartly
  <2> QED  BY <1>6, <2>1, WorkerUpdates DEF TypeOK, UpsertPartly, rows
<1>7. CASE RemoveFile(w)
  <2>1. worker' \in [Workers -> Worker]
    BY <1>0, <1>7, WorkerUpdates DEF RemoveFile
  <2> QED  BY <1>7, <2>1 DEF TypeOK, RemoveFile, rows
<1> QED  BY <1>1, <1>2, <1>3, <1>4, <1>5, <1>6, <1>7

LEMMA CommitType ==
    ASSUME TypeOK, NEW w \in Workers,
           \/ CommitIngest(w) \/ CommitDelete(w) \/ Abort(w) \/ RecordFailure(w)
           \/ Crash(w) \/ DropConnection(w)
    PROVE  TypeOK'
<1>1. Finish(w) => /\ worker' \in [Workers -> Worker]
                   /\ lock' \in [Docs -> Workers \union {NoWorker}]
  BY WorkerUpdates DEF Finish
<1>2. CASE CommitIngest(w)
  <2>1. worker[w].doc \in Docs
    BY <1>2 DEF CommitIngest, Holds
  <2>2. chunks' \in [Docs -> SUBSET ChunkIds]
    BY <1>2, BusyWorker DEF TypeOK, CommitIngest
  <2> QED  BY <1>1, <1>2, <2>1, <2>2, RowUpdates, StatusTypes DEF TypeOK, CommitIngest
<1>3. CASE CommitDelete(w)
  <2>1. worker[w].doc \in Docs
    BY <1>3 DEF CommitDelete, Holds
  <2>2. chunks' \in [Docs -> SUBSET ChunkIds] /\ job' \in [Docs -> JobRow]
    BY <1>3, <2>1, StatusTypes DEF TypeOK, CommitDelete
  <2> QED  BY <1>1, <1>3, <2>1, <2>2, RowUpdates, StatusTypes DEF TypeOK, CommitDelete
<1>4. CASE Abort(w)
  BY <1>4, WorkerUpdates DEF TypeOK, Abort, rows
<1>5. CASE RecordFailure(w)
  <2>. DEFINE d == worker[w].doc
              retry == worker[w].retryable /\ worker[w].attempt < MaxAttempts
  <2>1. CASE d \in Docs
    <3>1. job[d].op \in Operation
      BY <2>1 DEF TypeOK, JobRow
    <3>2. doc' \in [Docs -> DocRow] /\ source' \in [Docs -> SyncState]
      BY <1>5, <2>1, <3>1, RowUpdates, StatusTypes DEF RecordFailure
    <3>3. job' \in [Docs -> JobRow]
      BY <1>5, <2>1, RowUpdates, StatusTypes DEF RecordFailure
    <3> QED  BY <1>5, <3>2, <3>3, WorkerUpdates DEF TypeOK, RecordFailure
  <2>2. CASE d \notin Docs
    <3>1. doc' = doc /\ job' = job /\ source' = source
      BY <1>5, <2>2 DEF RecordFailure, TypeOK
    <3> QED  BY <1>5, <3>1, WorkerUpdates DEF TypeOK, RecordFailure
  <2> QED  BY <2>1, <2>2
<1>6. CASE Crash(w)
  BY <1>6, WorkerUpdates DEF TypeOK, Crash, rows
<1>7. CASE DropConnection(w)
  BY <1>7, WorkerUpdates DEF TypeOK, DropConnection, rows
<1> QED  BY <1>2, <1>3, <1>4, <1>5, <1>6, <1>7

LEMMA NextTypeOK == TypeOK /\ [Next]_vars => TypeOK'
<1> SUFFICES ASSUME TypeOK, [Next]_vars  PROVE TypeOK'
  OBVIOUS
<1>1. CASE UNCHANGED vars
  BY <1>1 DEF TypeOK, vars
<1>2. CASE Next
  BY <1>2, RequestType, ClaimType, ExternalType, CommitType DEF Next, Execute
<1> QED  BY <1>1, <1>2

\* Every row, stored set and worker keeps its type; in particular no job is ever
\* attempted more than MaxAttempts times (worker.py:47).
THEOREM TypeCorrect == Spec => []TypeOK
<1>1. Spec => Init /\ [][Next]_vars
  BY DEF Spec
<1> QED  BY <1>1, InitTypeOK, NextTypeOK, PTL
-----------------------------------------------------------------------------
(* The three rows of a document agree *)

Agrees(d) == <<job[d].status, job[d].op, doc[d].status, source[d]>> \in AgreeingRows

LEMMA RowsAgreeIsAgrees == RowsAgree <=> \A d \in Docs : Agrees(d)
BY DEF RowsAgree, Agrees

\* Rows nobody wrote still agree.
LEMMA UnwrittenAgree ==
    ASSUME NEW d, Agrees(d), job'[d].status = job[d].status, job'[d].op = job[d].op,
           doc'[d].status = doc[d].status, source'[d] = source[d]
    PROVE  Agrees(d)'
BY DEF Agrees

LEMMA EnqueueAgrees ==
    ASSUME TypeOK, NEW d \in Docs, NEW op \in Operation, NEW gen, RowsAgree,
           Enqueue(d, op, gen)
    PROVE  RowsAgree'
<1> SUFFICES ASSUME NEW e \in Docs  PROVE Agrees(e)'
  BY RowsAgreeIsAgrees DEF RowsAgree, Agrees
<1>1. CASE e = d
  <2>1. /\ job'[d].status = "QUEUED" /\ job'[d].op = op
        /\ doc'[d].status = QueuedStatus(op) /\ source'[d] = QueuedSync(op)
    BY DEF Enqueue, TypeOK
  <2> QED
    BY <1>1, <2>1 DEF Agrees, AgreeingRows, QueuedStatus, QueuedSync, Operation
<1>2. CASE e # d
  <2>1. job'[e] = job[e] /\ doc'[e] = doc[e] /\ source'[e] = source[e]
    BY <1>2 DEF Enqueue, TypeOK
  <2> QED  BY <2>1, UnwrittenAgree, RowsAgreeIsAgrees
<1> QED  BY <1>1, <1>2

LEMMA UnchangedAgree ==
    ASSUME RowsAgree, UNCHANGED rows
    PROVE  RowsAgree'
BY DEF RowsAgree, rows

\* One document's rows are written, and what is written agrees.
LEMMA WrittenAgree ==
    ASSUME TypeOK, RowsAgree, NEW d \in Docs, Agrees(d)',
           NEW newJob, job' = [job EXCEPT ![d] = newJob],
           NEW newDoc, doc' = [doc EXCEPT ![d] = newDoc],
           NEW newSource, source' = [source EXCEPT ![d] = newSource]
    PROVE  RowsAgree'
<1> SUFFICES ASSUME NEW e \in Docs  PROVE Agrees(e)'
  BY DEF RowsAgree, Agrees
<1>1. CASE e = d
  BY <1>1
<1>2. CASE e # d
  <2>1. job'[e] = job[e] /\ doc'[e] = doc[e] /\ source'[e] = source[e]
    BY <1>2
  <2> QED  BY <2>1, UnwrittenAgree, RowsAgreeIsAgrees
<1> QED  BY <1>1, <1>2

\* The four places that settle or requeue a job write these three columns.
LEMMA SettledAgree ==
    ASSUME TypeOK, RowsAgree, NEW d \in Docs, NEW js, NEW ds, NEW ss,
           job' = [job EXCEPT ![d].status = js, ![d].ripe = FALSE],
           doc' = [doc EXCEPT ![d].status = ds],
           source' = [source EXCEPT ![d] = ss],
           <<js, job[d].op, ds, ss>> \in AgreeingRows
    PROVE  RowsAgree'
<1> SUFFICES ASSUME NEW e \in Docs  PROVE Agrees(e)'
  BY DEF RowsAgree, Agrees
<1>1. job[e] \in JobRow /\ doc[e] \in DocRow
  BY DEF TypeOK
<1>2. CASE e = d
  <2>1. /\ job'[e].status = js /\ job'[e].op = job[d].op
        /\ doc'[e].status = ds /\ source'[e] = ss
    BY <1>1, <1>2 DEF TypeOK, JobRow, DocRow
  <2> QED  BY <2>1 DEF Agrees
<1>3. CASE e # d
  <2>1. job'[e] = job[e] /\ doc'[e] = doc[e] /\ source'[e] = source[e]
    BY <1>3 DEF TypeOK
  <2> QED  BY <2>1, UnwrittenAgree, RowsAgreeIsAgrees
<1> QED  BY <1>2, <1>3

LEMMA ClaimAgrees ==
    ASSUME TypeOK, RowsAgree, NEW w \in Workers, NEW d \in Docs,
           Claim(w, d) \/ DeadLetter(w, d)
    PROVE  RowsAgree'
<1>0. job[d] \in JobRow /\ doc[d] \in DocRow /\ job[d].op \in Operation
  BY DEF TypeOK, JobRow
<1>1. CASE Claim(w, d)
  <2>1. job' = [job EXCEPT ![d] = [job[d] EXCEPT !.status = "PROCESSING",
                                      !.attempts = @ + 1, !.ripe = FALSE]]
    BY <1>1 DEF Claim, TakeJob, TypeOK
  <2>2. doc' = [doc EXCEPT ![d] = [doc[d] EXCEPT !.status = ClaimedStatus(job[d].op)]]
    BY <1>1 DEF Claim, TakeJob, TypeOK
  <2>3. source' = [source EXCEPT ![d] = ClaimedStatus(job[d].op)]
    BY <1>1 DEF Claim, TakeJob
  <2>4. /\ job'[d].status = "PROCESSING" /\ job'[d].op = job[d].op
        /\ doc'[d].status = ClaimedStatus(job[d].op)
        /\ source'[d] = ClaimedStatus(job[d].op)
    BY <1>0, <2>1, <2>2, <2>3 DEF TypeOK, JobRow, DocRow
  <2>5. Agrees(d)'
    BY <1>0, <2>4 DEF Agrees, AgreeingRows, ClaimedStatus, Operation
  <2> QED  BY <2>1, <2>2, <2>3, <2>5, WrittenAgree
<1>2. CASE DeadLetter(w, d)
  <2>1. <<"FAILED", job[d].op, "FAILED", "FAILED">> \in AgreeingRows
    BY <1>0 DEF AgreeingRows, Operation
  <2> QED  BY <1>2, <2>1, SettledAgree DEF DeadLetter
<1> QED  BY <1>1, <1>2

LEMMA CommitAgrees ==
    ASSUME TypeOK, RowsAgree, NEW w \in Workers,
           NEW d \in Docs, worker[w].doc = d,
           CommitIngest(w) \/ CommitDelete(w) \/ RecordFailure(w)
    PROVE  RowsAgree'
<1>0. job[d].op \in Operation
  BY DEF TypeOK, JobRow
<1>1. CASE CommitIngest(w)
  <2>1. <<"SUCCEEDED", job[d].op, "READY", "SYNCED">> \in AgreeingRows
    BY <1>1 DEF CommitIngest, AgreeingRows
  <2> QED  BY <1>1, <2>1, SettledAgree DEF CommitIngest
<1>2. CASE CommitDelete(w)
  <2>1. doc' = [doc EXCEPT ![d] = [doc[d] EXCEPT !.status = "ABSENT"]]
    BY <1>2 DEF CommitDelete, TypeOK
  <2>2. job' = [job EXCEPT ![d] = NoJob] /\ source' = [source EXCEPT ![d] = "DELETED"]
    BY <1>2 DEF CommitDelete
  <2>3. /\ job'[d].status = "NONE" /\ job'[d].op = "INGEST"
        /\ doc'[d].status = "ABSENT" /\ source'[d] = "DELETED"
    <3>1. d \in DOMAIN doc /\ d \in DOMAIN job /\ d \in DOMAIN source /\ doc[d] \in DocRow
      BY DEF TypeOK
    <3>2. job'[d] = NoJob /\ source'[d] = "DELETED"
      BY <2>2, <3>1
    <3>3. doc'[d].status = "ABSENT"
      BY <2>1, <3>1 DEF DocRow
    <3> QED  BY <3>2, <3>3 DEF NoJob
  <2>4. Agrees(d)'
    BY <2>3 DEF Agrees, AgreeingRows
  <2> QED  BY <2>1, <2>2, <2>4, WrittenAgree
<1>3. CASE RecordFailure(w)
  <2>. DEFINE retry == worker[w].retryable /\ worker[w].attempt < MaxAttempts
  <2>1. CASE retry
    <3>1. <<"QUEUED", job[d].op, QueuedStatus(job[d].op), QueuedSync(job[d].op)>>
              \in AgreeingRows
      BY <1>0 DEF AgreeingRows, QueuedStatus, QueuedSync, Operation
    <3> QED  BY <1>3, <2>1, <3>1, SettledAgree DEF RecordFailure
  <2>2. CASE ~retry
    <3>1. <<"FAILED", job[d].op, "FAILED", "FAILED">> \in AgreeingRows
      BY <1>0 DEF AgreeingRows, Operation
    <3> QED  BY <1>3, <2>2, <3>1, SettledAgree DEF RecordFailure
  <2> QED  BY <2>1, <2>2
<1> QED  BY <1>1, <1>2, <1>3

LEMMA NextRowsAgree == TypeOK /\ LockInv /\ RowsAgree /\ [Next]_vars => RowsAgree'
<1> SUFFICES ASSUME TypeOK, LockInv, RowsAgree, [Next]_vars  PROVE RowsAgree'
  OBVIOUS
<1>1. CASE UNCHANGED vars
  BY <1>1, UnchangedAgree DEF vars, rows
<1>2. ASSUME NEW d \in Docs, Request(d)  PROVE RowsAgree'
  BY <1>2, EnqueueAgrees, UnchangedAgree, StatusTypes
     DEF Request, Upload, UploadKilled, Reindex, Delete
<1>3. ASSUME NEW d \in Docs, UploadCleanup(d)  PROVE RowsAgree'
  BY <1>3, UnchangedAgree DEF UploadCleanup
<1>4. ASSUME NEW d \in Docs, TimePasses(d)  PROVE RowsAgree'
  <2>1. job \in [Docs -> JobRow]
    BY DEF TypeOK
  <2>2. \A e \in Docs : job'[e].status = job[e].status /\ job'[e].op = job[e].op
    BY <1>4, <2>1 DEF TimePasses, JobRow
  <2> QED  BY <1>4, <2>2 DEF TimePasses, RowsAgree
<1>5. ASSUME NEW w \in Workers, Execute(w)  PROVE RowsAgree'
  <2>1. CASE CommitIngest(w) \/ CommitDelete(w) \/ RecordFailure(w)
    <3>1. worker[w].doc \in Docs
      BY <2>1 DEF LockInv, CommitIngest, CommitDelete, RecordFailure
    <3> QED  BY <2>1, <3>1, CommitAgrees
  <2>2. CASE ~(CommitIngest(w) \/ CommitDelete(w) \/ RecordFailure(w))
    BY <1>5, <2>2, UnchangedAgree
       DEF Execute, Begin, Superseded, CleanVectors, Chunk, Upsert, UpsertPartly,
           RemoveFile, Abort
  <2> QED  BY <2>1, <2>2
<1>6. ASSUME NEW w \in Workers, Crash(w) \/ DropConnection(w)  PROVE RowsAgree'
  BY <1>6, UnchangedAgree DEF Crash, DropConnection
<1> QED  BY <1>1, <1>2, <1>3, <1>4, <1>5, <1>6, ClaimAgrees DEF Next
-----------------------------------------------------------------------------
(* Who holds a row lock *)

Locked(d) ==
    lock[d] # NoWorker =>
        /\ worker[lock[d]].pc \in Running
        /\ worker[lock[d]].doc = d
        /\ job[d].status = "PROCESSING"
        /\ job[d].attempts = worker[lock[d]].attempt

Busy(w) == worker[w].pc # "idle" => worker[w].doc \in Docs

LEMMA LockInvParts ==
    LockInv <=> (\A w \in Workers : Busy(w)) /\ (\A d \in Docs : Locked(d))
BY DEF LockInv, Busy, Locked, Current

\* Nothing happened to the holder of d's row, nor to its job.
LEMMA LockKept ==
    ASSUME NEW d, Locked(d), lock'[d] = lock[d],
           lock[d] # NoWorker =>
              /\ worker'[lock[d]].pc \in Running
              /\ worker'[lock[d]].doc = worker[lock[d]].doc
              /\ worker'[lock[d]].attempt = worker[lock[d]].attempt
              /\ job'[d].status = job[d].status
              /\ job'[d].attempts = job[d].attempts
    PROVE  Locked(d)'
BY DEF Locked

\* Requests, claims and failure records only write the job of an unlocked row.
LEMMA JobWriteLock ==
    ASSUME TypeOK, LockInv, NEW d \in Docs, Unlocked(d), lock' = lock, worker' = worker,
           \A e \in Docs : e # d => job'[e] = job[e]
    PROVE  LockInv'
<1>1. ASSUME NEW e \in Docs  PROVE Locked(e)'
  <2>1. CASE e = d
    BY <2>1 DEF Unlocked, Locked
  <2>2. CASE e # d
    BY <2>2, LockInvParts DEF Locked
  <2> QED  BY <2>1, <2>2
<1> QED  BY <1>1, LockInvParts DEF LockInv, Busy, Locked, Current

LEMMA RequestLock ==
    ASSUME TypeOK, RowsAgree, LockInv, NEW d \in Docs,
           Request(d) \/ UploadCleanup(d) \/ TimePasses(d)
    PROVE  LockInv'
<1>1. CASE Upload(d)
  <2>1. job[d].status # "PROCESSING"
    BY <1>1 DEF Upload, RowsAgree, AgreeingRows
  <2>2. Unlocked(d)
    BY <2>1, LockInvParts DEF Locked, Unlocked
  <2> QED  BY <1>1, <2>2, JobWriteLock DEF Upload, Enqueue, TypeOK
<1>2. CASE UploadKilled(d) \/ UploadCleanup(d)
  BY <1>2 DEF UploadKilled, UploadCleanup, rows, LockInv, Current
<1>3. CASE Reindex(d) \/ Delete(d)
  BY <1>3, JobWriteLock DEF Reindex, Delete, Enqueue, TypeOK
<1>4. CASE TimePasses(d)
  <2>1. job \in [Docs -> JobRow]
    BY DEF TypeOK
  <2>2. \A e \in Docs : job'[e].status = job[e].status /\ job'[e].attempts = job[e].attempts
    BY <1>4, <2>1 DEF TimePasses, JobRow
  <2>3. ASSUME NEW e \in Docs  PROVE Locked(e)'
    BY <1>4, <2>2, LockInvParts DEF TimePasses, Locked
  <2> QED  BY <1>4, <2>3, LockInvParts DEF LockInv, Busy, Locked, Current, TimePasses
<1> QED  BY <1>1, <1>2, <1>3, <1>4 DEF Request

LEMMA ClaimLock ==
    ASSUME TypeOK, LockInv, NEW w \in Workers, NEW d \in Docs,
           Claim(w, d) \/ DeadLetter(w, d)
    PROVE  LockInv'
<1>1. CASE Claim(w, d)
  <2>0. \A v \in Workers : v # w => worker'[v] = worker[v]
    BY <1>1 DEF Claim, TakeJob, TypeOK
  <2>1. worker'[w].doc = d
    BY <1>1 DEF Claim, TakeJob, TypeOK
  <2>2. ASSUME NEW e \in Docs  PROVE Locked(e)'
    <3>1. CASE lock[e] = NoWorker
      BY <1>1, <3>1 DEF Claim, TakeJob, Locked
    <3>2. CASE lock[e] # NoWorker
      <4>1. e # d
        BY <1>1, <3>2 DEF Claim, Claimable, Unlocked
      <4>2. lock[e] \in Workers /\ lock[e] # w
        BY <1>1, <3>2, LockInvParts DEF Claim, Locked, TypeOK, Running
      <4>3. job'[e] = job[e] /\ lock'[e] = lock[e]
        BY <1>1, <4>1 DEF Claim, TakeJob, TypeOK
      <4> QED  BY <2>0, <4>2, <4>3, LockInvParts DEF Locked
    <3> QED  BY <3>1, <3>2
  <2>3. \A v \in Workers : Busy(v)'
    BY <2>0, <2>1, LockInvParts DEF Busy
  <2>4. (\A v \in Workers : Busy(v)') /\ (\A e \in Docs : Locked(e)')
    BY <2>2, <2>3
  <2> QED  BY <2>4 DEF LockInv, Busy, Locked, Current
<1>2. CASE DeadLetter(w, d)
  <2>1. Unlocked(d)
    BY <1>2 DEF DeadLetter, Claimable
  <2> QED  BY <1>2, <2>1, JobWriteLock DEF DeadLetter, TypeOK
<1> QED  BY <1>1, <1>2

\* A worker that goes on with its transaction keeps the lock it holds.
LEMMA GoOnLock ==
    ASSUME TypeOK, LockInv, NEW w \in Workers, worker[w].pc # "idle",
           NEW pc \in Running, Continue(w, pc), lock' = lock, job' = job
    PROVE  LockInv'
<1>1. /\ \A v \in Workers : v # w => worker'[v] = worker[v]
      /\ worker'[w].doc = worker[w].doc /\ worker'[w].attempt = worker[w].attempt
      /\ Holds(w) => worker'[w].pc = pc
  BY DEF Continue, Goto, Fail, TypeOK, Worker
<1>2. ASSUME NEW e \in Docs  PROVE Locked(e)'
  <2>1. lock[e] = w => Holds(w)
    BY LockInvParts DEF Locked, Holds
  <2>2. lock[e] \in Workers \union {NoWorker}
    BY DEF TypeOK
  <2> QED  BY <1>1, <2>1, <2>2, LockInvParts DEF Locked
<1>3. ASSUME NEW v \in Workers  PROVE Busy(v)'
  BY <1>1, LockInvParts DEF Busy
<1> QED  BY <1>2, <1>3 DEF LockInv, Busy, Locked, Current

\* A worker that ends its transaction, one way or the other, lets go of its lock.
LEMMA EndLock ==
    ASSUME TypeOK, LockInv, NEW w \in Workers, worker[w].pc # "idle", Release(w),
           \/ worker' = [worker EXCEPT ![w] = Idle]
           \/ \E retry \in BOOLEAN : Fail(w, retry)
           \/ worker' = worker,
           \A e \in Docs : job'[e] = job[e] \/ lock[e] = w
    PROVE  LockInv'
<1>1. \A v \in Workers : v # w => worker'[v] = worker[v]
  BY DEF Fail, TypeOK
<1>2. worker'[w].pc # "idle" => worker'[w].doc = worker[w].doc
  BY DEF Fail, TypeOK, Worker, Idle
<1>3. ASSUME NEW e \in Docs  PROVE Locked(e)'
  <2>1. lock'[e] = IF lock[e] = w THEN NoWorker ELSE lock[e]
    BY DEF Release
  <2>2. lock[e] \in Workers \union {NoWorker}
    BY DEF TypeOK
  <2>3. CASE lock[e] = w
    BY <2>1, <2>3 DEF Locked
  <2>4. CASE lock[e] # w
    BY <1>1, <2>1, <2>2, <2>4, LockInvParts DEF Locked
  <2> QED  BY <2>3, <2>4
<1>4. ASSUME NEW v \in Workers  PROVE Busy(v)'
  BY <1>1, <1>2, LockInvParts DEF Busy
<1> QED  BY <1>3, <1>4 DEF LockInv, Busy, Locked, Current

LEMMA ExecuteLock ==
    ASSUME TypeOK, LockInv, NEW w \in Workers,
           Execute(w) \/ Crash(w) \/ DropConnection(w)
    PROVE  LockInv'
<1>0. {"cleaning", "chunking", "upserting", "removing", "committing"} \subseteq Running
  BY DEF Running
<1>1. CASE Begin(w)
  <2>1. PICK c \in Docs : c = worker[w].doc
    BY <1>1 DEF Begin, LockInv
  <2>2. /\ \A v \in Workers : v # w => worker'[v] = worker[v]
        /\ worker'[w].doc = worker[w].doc /\ worker'[w].attempt = worker[w].attempt
        /\ worker'[w].pc = "cleaning" /\ lock'[c] = w
        /\ \A e \in Docs : e # c => lock'[e] = lock[e]
    BY <1>1, <2>1 DEF Begin, Goto, TypeOK, Worker
  <2>3. ASSUME NEW e \in Docs  PROVE Locked(e)'
    <3>1. CASE e = c
      BY <1>0, <1>1, <2>1, <2>2, <3>1 DEF Locked, Begin, Current, rows
    <3>2. CASE e # c
      <4>1. lock[e] # w
        BY <1>1, LockInvParts DEF Begin, Locked, Running
      <4>2. lock[e] \in Workers \union {NoWorker}
        BY DEF TypeOK
      <4> QED
        BY <1>1, <2>2, <3>2, <4>1, <4>2, LockInvParts DEF Locked, Begin, rows
    <3> QED  BY <3>1, <3>2
  <2>4. ASSUME NEW v \in Workers  PROVE Busy(v)'
    BY <2>2, LockInvParts, <1>1 DEF Busy, Begin
  <2> QED  BY <2>3, <2>4 DEF LockInv, Busy, Locked, Current
<1>2. CASE Superseded(w) \/ RecordFailure(w)
  <2>1. worker[w].doc \in Docs /\ Unlocked(worker[w].doc)
    BY <1>2 DEF Superseded, RecordFailure, LockInv
  <2>2. \A e \in Docs : lock[e] # w
    BY <1>2, LockInvParts DEF Superseded, RecordFailure, Locked, Running
  <2>3. /\ \A v \in Workers : v # w => worker'[v] = worker[v]
        /\ worker'[w].pc = "idle" /\ lock' = lock
        /\ \A e \in Docs : e # worker[w].doc => job'[e] = job[e]
    BY <1>2 DEF Superseded, RecordFailure, TypeOK, Idle, rows
  <2>4. ASSUME NEW e \in Docs  PROVE Locked(e)'
    <3>1. lock[e] \in Workers \union {NoWorker}
      BY DEF TypeOK
    <3> QED  BY <2>1, <2>2, <2>3, <3>1, LockInvParts DEF Locked, Unlocked
  <2>5. ASSUME NEW v \in Workers  PROVE Busy(v)'
    BY <2>3, LockInvParts DEF Busy
  <2> QED  BY <2>4, <2>5 DEF LockInv, Busy, Locked, Current
<1>3. CASE CleanVectors(w) \/ Upsert(w) \/ RemoveFile(w)
  BY <1>0, <1>3, GoOnLock DEF CleanVectors, Upsert, RemoveFile, rows
<1>4. CASE Chunk(w)
  <2>0. lock' = lock /\ job' = job
    BY <1>4 DEF Chunk, rows
  <2>1. /\ \A v \in Workers : v # w => worker'[v] = worker[v]
        /\ worker'[w].doc = worker[w].doc /\ worker'[w].attempt = worker[w].attempt
        /\ worker'[w].pc = "upserting"
    BY <1>4 DEF Chunk, TypeOK, Worker
  <2>2. ASSUME NEW e \in Docs  PROVE Locked(e)'
    <3>1. lock[e] \in Workers \union {NoWorker}
      BY DEF TypeOK
    <3> QED  BY <1>0, <2>0, <2>1, <3>1, LockInvParts DEF Locked
  <2>3. ASSUME NEW v \in Workers  PROVE Busy(v)'
    BY <2>1, <1>4, LockInvParts DEF Busy, Chunk, Holds
  <2> QED  BY <2>2, <2>3 DEF LockInv, Busy, Locked, Current
<1>5. CASE UpsertPartly(w) \/ Abort(w) \/ Crash(w) \/ DropConnection(w)
  <2>1. worker[w].pc # "idle"
    <3>1. CASE DropConnection(w)
      BY <3>1, LockInvParts DEF DropConnection, Holds, Locked, Running
    <3>2. CASE UpsertPartly(w) \/ Abort(w) \/ Crash(w)
      BY <3>2 DEF UpsertPartly, Abort, Crash, Running
    <3> QED  BY <1>5, <3>1, <3>2
  <2> QED
    BY <1>5, <2>1, EndLock DEF UpsertPartly, Abort, Crash, DropConnection, rows
<1>6. CASE CommitIngest(w) \/ CommitDelete(w)
  <2>1. \A e \in Docs : job'[e] = job[e] \/ lock[e] = w
    BY <1>6 DEF CommitIngest, CommitDelete, Holds, TypeOK
  <2>2. /\ worker[w].pc # "idle" /\ Release(w)
        /\ \/ worker' = [worker EXCEPT ![w] = Idle]
           \/ \E retry \in BOOLEAN : Fail(w, retry)
    BY <1>6 DEF CommitIngest, CommitDelete, Finish
  <2> QED  BY <2>1, <2>2, EndLock
<1> QED  BY <1>1, <1>2, <1>3, <1>4, <1>5, <1>6 DEF Execute

LEMMA NextLockInv == TypeOK /\ RowsAgree /\ LockInv /\ [Next]_vars => LockInv'
<1> SUFFICES ASSUME TypeOK, RowsAgree, LockInv, [Next]_vars  PROVE LockInv'
  OBVIOUS
<1>1. CASE UNCHANGED vars
  BY <1>1 DEF vars, LockInv, Current
<1>2. CASE Next
  BY <1>2, RequestLock, ClaimLock, ExecuteLock DEF Next
<1> QED  BY <1>1, <1>2
-----------------------------------------------------------------------------
(* The rows agree whatever crashes, drops its connection or comes too late *)

LEMMA InitRows == Init => RowsAgree /\ LockInv
BY DEF Init, RowsAgree, AgreeingRows, NoJob, LockInv, Idle

LEMMA RowsAndLocks == Spec => [](TypeOK /\ RowsAgree /\ LockInv)
<1>1. TypeOK /\ RowsAgree /\ LockInv /\ [Next]_vars => (RowsAgree /\ LockInv)'
  BY NextRowsAgree, NextLockInv
<1> QED  BY <1>1, InitTypeOK, InitRows, NextTypeOK, PTL DEF Spec

\* "Queued job with no document" and "document nothing will process" are
\* unreachable (docs/ROADMAP.md:94), with or without dropped connections.
THEOREM RowsAlwaysAgree == Spec => []RowsAgree
BY RowsAndLocks, PTL
-----------------------------------------------------------------------------
(* Admission *)

LEMMA PendingFinite == IsFiniteSet(PendingDocs) /\ Cardinality(PendingDocs) \in Nat
<1>1. PendingDocs \in SUBSET Docs
  BY DEF PendingDocs
<1>2. IsFiniteSet(PendingDocs)
  BY <1>1, FS_Subset
<1> QED  BY <1>2, FS_CardinalityType

\* A step that admits nothing keeps the bound.
LEMMA NoneAdmitted ==
    ASSUME PendingBounded, PendingDocs' \subseteq PendingDocs
    PROVE  PendingBounded'
<1>1. Cardinality(PendingDocs') <= Cardinality(PendingDocs)
  BY PendingFinite, FS_Subset
<1>2. Cardinality(PendingDocs') \in Nat
  BY PendingFinite, FS_Subset, FS_CardinalityType
<1> QED  BY <1>1, <1>2, PendingFinite DEF PendingBounded

\* A step that admits one document under HasCapacity keeps the bound.
LEMMA OneAdmitted ==
    ASSUME NEW d, HasCapacity, PendingDocs' \subseteq PendingDocs \union {d}
    PROVE  PendingBounded'
<1>1. /\ IsFiniteSet(PendingDocs \union {d})
      /\ Cardinality(PendingDocs \union {d}) <= Cardinality(PendingDocs) + 1
  <2>1. /\ IsFiniteSet(PendingDocs \union {d})
        /\ Cardinality(PendingDocs \union {d}) =
              IF d \in PendingDocs THEN Cardinality(PendingDocs)
                                   ELSE Cardinality(PendingDocs) + 1
    BY PendingFinite, FS_AddElement
  <2> QED  BY <2>1, PendingFinite
<1>2. /\ Cardinality(PendingDocs') <= Cardinality(PendingDocs \union {d})
      /\ IsFiniteSet(PendingDocs')
  BY <1>1, FS_Subset
<1>3. Cardinality(PendingDocs') \in Nat /\ Cardinality(PendingDocs \union {d}) \in Nat
  BY <1>1, <1>2, FS_CardinalityType
<1> QED  BY <1>1, <1>2, <1>3, PendingFinite DEF PendingBounded, HasCapacity

LEMMA RequestPending ==
    ASSUME TypeOK, PendingBounded, NEW d \in Docs, Request(d)
    PROVE  PendingBounded'
<1>1. \A e \in Docs : e # d => doc'[e] = doc[e]
  BY DEF Request, Upload, UploadKilled, Reindex, Delete, Enqueue, rows, TypeOK
<1>2. PendingDocs' \subseteq PendingDocs \union {d}
  BY <1>1 DEF PendingDocs
<1>3. CASE HasCapacity
  BY <1>2, <1>3, OneAdmitted
<1>4. CASE ~HasCapacity
  <2>1. Delete(d) /\ d \in PendingDocs
    BY <1>4 DEF Request, Upload, UploadKilled, Reindex, Delete, PendingDocs
  <2> QED  BY <1>2, <2>1, NoneAdmitted
<1> QED  BY <1>3, <1>4

\* Workers act on pending documents only, because the rows agree.
LEMMA WorkerPending ==
    ASSUME TypeOK, RowsAgree, LockInv, NEW w \in Workers, NEW d \in Docs,
           \/ Claim(w, d) \/ DeadLetter(w, d)
           \/ d = worker[w].doc /\ (CommitIngest(w) \/ CommitDelete(w) \/ RecordFailure(w))
    PROVE  PendingDocs' \subseteq PendingDocs
<1>1. job[d].status \in {"QUEUED", "PROCESSING"}
  <2>1. CASE Claim(w, d) \/ DeadLetter(w, d)
    BY <2>1 DEF Claim, DeadLetter, Claimable
  <2>2. CASE d = worker[w].doc /\ (CommitIngest(w) \/ CommitDelete(w))
    BY <2>2, LockInvParts DEF CommitIngest, CommitDelete, Holds, Locked
  <2>3. CASE d = worker[w].doc /\ RecordFailure(w)
    BY <2>3 DEF RecordFailure, Current
  <2> QED  BY <2>1, <2>2, <2>3
<1>2. d \in PendingDocs
  BY <1>1 DEF PendingDocs, Pending, RowsAgree, AgreeingRows
<1>3. \A e \in Docs : e # d => doc'[e] = doc[e]
  BY DEF Claim, TakeJob, DeadLetter, CommitIngest, CommitDelete, RecordFailure, TypeOK
<1> QED  BY <1>2, <1>3 DEF PendingDocs

LEMMA NextPending ==
    TypeOK /\ RowsAgree /\ LockInv /\ PendingBounded /\ [Next]_vars => PendingBounded'
<1> SUFFICES ASSUME TypeOK, RowsAgree, LockInv, PendingBounded, [Next]_vars
             PROVE  PendingBounded'
  OBVIOUS
<1>1. CASE doc' = doc
  BY <1>1, NoneAdmitted DEF PendingDocs
<1>2. ASSUME NEW d \in Docs, Request(d) \/ UploadCleanup(d) \/ TimePasses(d)
      PROVE  PendingBounded'
  BY <1>1, <1>2, RequestPending DEF UploadCleanup, TimePasses, rows
<1>3. ASSUME NEW w \in Workers, NEW d \in Docs, Claim(w, d) \/ DeadLetter(w, d)
      PROVE  PendingBounded'
  BY <1>3, WorkerPending, NoneAdmitted
<1>4. ASSUME NEW w \in Workers, Execute(w)  PROVE PendingBounded'
  <2>1. CASE CommitIngest(w) \/ CommitDelete(w) \/ RecordFailure(w)
    <3>1. worker[w].doc \in Docs
      BY <2>1 DEF LockInv, CommitIngest, CommitDelete, RecordFailure
    <3> QED  BY <2>1, <3>1, WorkerPending, NoneAdmitted
  <2>2. CASE ~(CommitIngest(w) \/ CommitDelete(w) \/ RecordFailure(w))
    BY <1>1, <1>4, <2>2
       DEF Execute, Begin, Superseded, CleanVectors, Chunk, Upsert, UpsertPartly,
           RemoveFile, Abort, rows
  <2> QED  BY <2>1, <2>2
<1>5. ASSUME NEW w \in Workers, Crash(w) \/ DropConnection(w)  PROVE PendingBounded'
  BY <1>1, <1>5 DEF Crash, DropConnection, rows
<1>6. CASE UNCHANGED vars
  BY <1>1, <1>6 DEF vars
<1> QED  BY <1>2, <1>3, <1>4, <1>5, <1>6 DEF Next

\* No interleaving takes an organisation over max_pending_jobs_per_org: requests
\* are counted under the organisation's lock, and workers never add to the count.
THEOREM PendingAlwaysBounded == Spec => []PendingBounded
<1>1. Init => PendingBounded
  <2> SUFFICES ASSUME Init  PROVE PendingBounded
    OBVIOUS
  <2>1. PendingDocs = {}
    BY DEF Init, PendingDocs, Pending
  <2> QED  BY <2>1, FS_EmptySet DEF PendingBounded
<1> QED  BY <1>1, RowsAndLocks, NextPending, PTL DEF Spec
=============================================================================
