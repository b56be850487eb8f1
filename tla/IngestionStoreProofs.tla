------------------------ MODULE IngestionStoreProofs ------------------------
(***************************************************************************)
(* What the three stores hold, and that the queue therefore implements the *)
(* life cycle its clients see, for every value of the constants, as long   *)
(* as Postgres keeps a worker's row lock until the worker's transaction    *)
(* ends (~ConnectionsDrop).                                                *)
(***************************************************************************)
EXTENDS IngestionProofs

USE IngestionAssumption
-----------------------------------------------------------------------------
(* The parts of the inductive invariant, one worker and one document at a time *)

Exec(w) ==
    worker[w].pc \in Running =>
        /\ lock[worker[w].doc] = w
        /\ worker[w].pc \in {"chunking", "upserting"} =>
              job[worker[w].doc].op = "INGEST" /\ vectors[worker[w].doc] = {}
        /\ worker[w].pc = "upserting" =>
              Complete(worker[w].chunks, doc[worker[w].doc].gen)
        /\ worker[w].pc = "committing" /\ job[worker[w].doc].op = "INGEST" =>
              /\ Complete(worker[w].chunks, doc[worker[w].doc].gen)
              /\ vectors[worker[w].doc] = worker[w].chunks
        /\ worker[w].pc = "removing" =>
              job[worker[w].doc].op # "INGEST" /\ vectors[worker[w].doc] = {}
        /\ worker[w].pc = "committing" /\ job[worker[w].doc].op # "INGEST" =>
              vectors[worker[w].doc] = {} /\ file[worker[w].doc] = "none"

Stores(d) ==
    /\ source[d] = "NONE" => doc[d].gen = 0
    /\ doc[d].status = "READY" =>
          Complete(chunks[d], doc[d].gen) /\ vectors[d] = chunks[d]
    /\ source[d] = "DELETED" =>
          job[d] = NoJob /\ chunks[d] = {} /\ vectors[d] = {} /\ file[d] = "none"

LEMMA ExecutionInvParts == ExecutionInv <=> \A w \in Workers : Exec(w)
BY DEF ExecutionInv, Exec

LEMMA StoresInvParts == StoresInv <=> \A d \in Docs : Stores(d)
BY DEF StoresInv, Stores

\* Everything below is about a state with these properties.
Base == TypeOK /\ RowsAgree /\ LockInv

\* A document somebody has locked is neither ready nor settled.
LEMMA LockedRows ==
    ASSUME Base, NEW d \in Docs, lock[d] # NoWorker
    PROVE  /\ job[d].status = "PROCESSING"
           /\ source[d] \in {"PROCESSING", "DELETING"}
           /\ doc[d].status \in {"PROCESSING", "DELETING"}
           /\ job[d].op \in Operation
<1>1. job[d].status = "PROCESSING"
  BY LockInvParts DEF Base, Locked
<1>2. job[d].op \in Operation
  BY DEF Base, TypeOK, JobRow
<1> QED  BY <1>1, <1>2 DEF Base, RowsAgree, AgreeingRows

\* A document not yet uploaded, or gone, is not locked.
LEMMA UnusedUnlocked ==
    ASSUME Base, NEW d \in Docs, source[d] \in {"NONE", "DELETED"}
    PROVE  Unlocked(d)
BY LockedRows DEF Unlocked

\* An execution is not disturbed by what happens to other documents.
LEMMA ExecKept ==
    ASSUME NEW w, Exec(w), worker'[w] = worker[w],
           worker[w].pc \in Running =>
              /\ lock'[worker[w].doc] = lock[worker[w].doc]
              /\ job'[worker[w].doc].op = job[worker[w].doc].op
              /\ doc'[worker[w].doc].gen = doc[worker[w].doc].gen
              /\ vectors'[worker[w].doc] = vectors[worker[w].doc]
              /\ file'[worker[w].doc] \in {file[worker[w].doc], "none"}
    PROVE  Exec(w)'
BY DEF Exec, Complete

\* A step on an unlocked document, or on its file.
LEMMA OutsideExec ==
    ASSUME Base, ExecutionInv, NEW d \in Docs, Unlocked(d),
           NEW w \in Workers, worker'[w] = worker[w], lock' = lock,
           \A e \in Docs : e # d =>
              job'[e] = job[e] /\ doc'[e] = doc[e] /\ vectors'[e] = vectors[e]
              /\ file'[e] = file[e]
    PROVE  Exec(w)'
<1>1. Exec(w)
  BY ExecutionInvParts
<1>2. worker[w].pc \in Running => worker[w].doc \in Docs /\ worker[w].doc # d
  BY <1>1 DEF Base, LockInv, Running, Exec, Unlocked
<1> QED  BY <1>1, <1>2, ExecKept

\* A step of one worker leaves the executions of the others alone: they hold
\* the rows of other documents.
LEMMA OtherExec ==
    ASSUME Base, ExecutionInv, NEW w \in Workers, NEW v \in Workers, v # w,
           NEW d \in Docs, lock[d] \in {w, NoWorker},
           worker'[v] = worker[v],
           \A e \in Docs : lock[e] = v => lock'[e] = lock[e],
           \A e \in Docs : e # d =>
              job'[e] = job[e] /\ doc'[e] = doc[e] /\ vectors'[e] = vectors[e]
              /\ file'[e] = file[e]
    PROVE  Exec(v)'
<1>1. Exec(v)
  BY ExecutionInvParts
<1>2. worker[v].pc \in Running =>
          worker[v].doc \in Docs /\ lock[worker[v].doc] = v /\ worker[v].doc # d
  BY <1>1 DEF Base, LockInv, Running, Exec
<1> QED  BY <1>1, <1>2, ExecKept
-----------------------------------------------------------------------------
LEMMA OutsideStep ==
    ASSUME Base, ExecutionInv, NEW d \in Docs,
           Request(d) \/ UploadCleanup(d) \/ TimePasses(d)
    PROVE  ExecutionInv'
<1> SUFFICES ASSUME NEW w \in Workers  PROVE Exec(w)'
  BY ExecutionInvParts DEF ExecutionInv, Exec
<1>1. CASE Request(d)
  <2>1. Unlocked(d)
    BY <1>1, UnusedUnlocked DEF Request, Upload, UploadKilled, Reindex, Delete
  <2>2. /\ worker' = worker /\ lock' = lock
        /\ \A e \in Docs : e # d =>
              job'[e] = job[e] /\ doc'[e] = doc[e] /\ vectors'[e] = vectors[e]
              /\ file'[e] = file[e]
    BY <1>1 DEF Request, Upload, UploadKilled, Reindex, Delete, Enqueue, rows, Base, TypeOK
  <2> QED  BY <2>1, <2>2, OutsideExec
<1>2. CASE UploadCleanup(d)
  <2>1. \A e \in Docs : file'[e] \in {file[e], "none"}
    BY <1>2 DEF UploadCleanup, Base, TypeOK
  <2>2. worker[w].pc \in Running => worker[w].doc \in Docs
    BY DEF Base, LockInv, Running
  <2> QED  BY <1>2, <2>1, <2>2, ExecutionInvParts, ExecKept DEF UploadCleanup, rows
<1>3. CASE TimePasses(d)
  <2>1. job \in [Docs -> JobRow]
    BY DEF Base, TypeOK
  <2>2. \A e \in Docs : job'[e].op = job[e].op
    BY <1>3, <2>1 DEF TimePasses, JobRow
  <2>3. worker[w].pc \in Running => worker[w].doc \in Docs
    BY DEF Base, LockInv, Running
  <2> QED  BY <1>3, <2>2, <2>3, ExecutionInvParts, ExecKept DEF TimePasses
<1> QED  BY <1>1, <1>2, <1>3

LEMMA ClaimStep ==
    ASSUME Base, ExecutionInv, NEW w \in Workers, NEW d \in Docs,
           Claim(w, d) \/ DeadLetter(w, d)
    PROVE  ExecutionInv'
<1> SUFFICES ASSUME NEW v \in Workers  PROVE Exec(v)'
  BY ExecutionInvParts DEF ExecutionInv, Exec
<1>1. /\ Unlocked(d) /\ lock' = lock
      /\ \A e \in Docs : e # d =>
            job'[e] = job[e] /\ doc'[e] = doc[e] /\ vectors'[e] = vectors[e]
            /\ file'[e] = file[e]
  BY DEF Claim, TakeJob, DeadLetter, Claimable, Base, TypeOK
<1>2. CASE worker'[v] = worker[v]
  BY <1>1, <1>2, OutsideExec
<1>3. CASE worker'[v] # worker[v]
  <2>1. v = w /\ Claim(w, d)
    BY <1>3 DEF Claim, TakeJob, DeadLetter, Base, TypeOK
  <2>2. worker'[v].pc = "claimed"
    BY <2>1 DEF Claim, TakeJob, Base, TypeOK
  <2> QED  BY <2>2 DEF Exec, Running
<1> QED  BY <1>2, <1>3
-----------------------------------------------------------------------------
\* What an execution step of w touches: its own document, in case somebody
\* else's execution is not in the way.
LEMMA ExecuteFrame ==
    ASSUME Base, ExecutionInv, NEW w \in Workers, NEW d \in Docs,
           d = worker[w].doc, Execute(w)
    PROVE  /\ lock[d] \in {w, NoWorker}
           /\ \A v \in Workers : v # w => worker'[v] = worker[v]
           /\ \A v \in Workers, e \in Docs :
                 v # w /\ lock[e] = v => lock'[e] = lock[e]
           /\ \A e \in Docs : e # d =>
                 job'[e] = job[e] /\ doc'[e] = doc[e] /\ vectors'[e] = vectors[e]
                 /\ file'[e] = file[e] /\ source'[e] = source[e] /\ chunks'[e] = chunks[e]
<1>1. worker[w].pc \in Running => lock[d] = w
  BY ExecutionInvParts DEF Exec
<1>2. TypeOK
  BY DEF Base
<1>3. NoWorker \notin Workers
  OBVIOUS
<1>4. CASE Begin(w)
  BY <1>2, <1>3, <1>4 DEF Begin, Goto, Unlocked, rows, TypeOK
<1>5. CASE Superseded(w)
  BY <1>2, <1>3, <1>5 DEF Superseded, Unlocked, rows, TypeOK
<1>6. CASE CleanVectors(w)
  BY <1>1, <1>2, <1>3, <1>6 DEF CleanVectors, Continue, Goto, Fail, Running, rows, TypeOK
<1>7. CASE Chunk(w)
  BY <1>1, <1>2, <1>3, <1>7 DEF Chunk, Running, rows, TypeOK
<1>8. CASE Upsert(w)
  BY <1>1, <1>2, <1>3, <1>8 DEF Upsert, Continue, Goto, Fail, Running, rows, TypeOK
<1>9. CASE UpsertPartly(w)
  BY <1>1, <1>2, <1>3, <1>9 DEF UpsertPartly, Fail, Release, Running, rows, TypeOK
<1>10. CASE RemoveFile(w)
  BY <1>1, <1>2, <1>3, <1>10 DEF RemoveFile, Continue, Goto, Fail, Running, rows, TypeOK
<1>11. CASE CommitIngest(w)
  BY <1>1, <1>2, <1>3, <1>11 DEF CommitIngest, Finish, Fail, Release, Running, TypeOK
<1>12. CASE CommitDelete(w)
  BY <1>1, <1>2, <1>3, <1>12 DEF CommitDelete, Finish, Fail, Release, Running, TypeOK
<1>13. CASE Abort(w)
  BY <1>1, <1>2, <1>3, <1>13 DEF Abort, Fail, Release, Running, rows, TypeOK
<1>14. CASE RecordFailure(w)
  BY <1>2, <1>3, <1>14 DEF RecordFailure, Unlocked, TypeOK
<1> QED  BY <1>4, <1>5, <1>6, <1>7, <1>8, <1>9, <1>10, <1>11, <1>12, <1>13, <1>14
         DEF Execute

LEMMA OwnExec ==
    ASSUME Base, ExecutionInv, NEW w \in Workers, NEW d \in Docs,
           d = worker[w].doc, Execute(w)
    PROVE  Exec(w)'
<1>1. Exec(w)
  BY ExecutionInvParts
<1>2. /\ worker \in [Workers -> Worker] /\ vectors \in [Docs -> SUBSET ChunkIds]
      /\ file \in [Docs -> {"none", "stored", "doomed"}]
      /\ lock \in [Docs -> Workers \union {NoWorker}]
  BY DEF Base, TypeOK
<1>3. worker[w].pc \in Running => Holds(w) /\ job[d].op \in Operation
  BY <1>1, LockedRows DEF Holds, Exec
<1>4. CASE Begin(w)
  <2>1. worker'[w].pc = "cleaning" /\ worker'[w].doc = d /\ lock'[d] = w
    BY <1>2, <1>4 DEF Begin, Goto, Worker
  <2> QED  BY <2>1 DEF Exec
<1>5. CASE CleanVectors(w)
  <2>1. /\ worker'[w].doc = d /\ vectors'[d] = {}
        /\ worker'[w].pc = IF job[d].op = "DELETE" THEN "removing" ELSE "chunking"
        /\ lock' = lock /\ job' = job
    BY <1>2, <1>3, <1>5 DEF CleanVectors, Continue, Goto, Running, Worker, rows
  <2> QED  BY <1>1, <1>3, <1>5, <2>1 DEF CleanVectors, Exec, Running, Operation
<1>6. CASE Chunk(w)
  <2>1. PICK n \in 1..MaxChunks :
            worker' = [worker EXCEPT ![w].pc = "upserting",
                         ![w].chunks = {doc[worker[w].doc].gen} \X (1..n)]
    BY <1>6 DEF Chunk
  <2>2. /\ worker'[w].pc = "upserting" /\ worker'[w].doc = d
        /\ worker'[w].chunks = {doc[d].gen} \X (1..n)
    BY <1>2, <2>1 DEF Worker
  <2>3. Complete(worker'[w].chunks, doc[d].gen)
    BY <2>2 DEF Complete
  <2> QED  BY <1>1, <1>6, <2>2, <2>3 DEF Chunk, Exec, Running, rows, Complete
<1>7. CASE Upsert(w)
  <2>1. /\ worker'[w].doc = d /\ vectors'[d] = vectors[d] \union worker[w].chunks
        /\ worker'[w].pc = "committing" /\ worker'[w].chunks = worker[w].chunks
        /\ lock' = lock /\ job' = job /\ doc' = doc
    BY <1>2, <1>3, <1>7 DEF Upsert, Continue, Goto, Running, Worker, rows
  <2>2. /\ job[d].op = "INGEST" /\ vectors[d] = {} /\ lock[d] = w
        /\ Complete(worker[w].chunks, doc[d].gen)
    BY <1>1, <1>7 DEF Upsert, Exec, Running
  <2>3. vectors'[d] = worker[w].chunks
    BY <2>1, <2>2
  <2> QED  BY <2>1, <2>2, <2>3 DEF Exec, Complete
<1>8. CASE RemoveFile(w)
  <2>1. /\ worker'[w].doc = d /\ worker'[w].pc = "committing"
        /\ file'[d] = "none" /\ lock' = lock /\ job' = job /\ vectors' = vectors
    BY <1>2, <1>3, <1>8 DEF RemoveFile, Continue, Goto, Running, Worker, rows
  <2> QED  BY <1>1, <1>8, <2>1 DEF RemoveFile, Exec, Running
<1>9. CASE \/ Superseded(w) \/ UpsertPartly(w) \/ CommitIngest(w) \/ CommitDelete(w)
           \/ Abort(w) \/ RecordFailure(w)
  <2>1. worker'[w].pc \in {"idle", "failed"}
    BY <1>2, <1>9 DEF Superseded, UpsertPartly, CommitIngest, CommitDelete, Finish,
         Abort, RecordFailure, Fail, Worker, Idle
  <2> QED  BY <2>1 DEF Exec, Running
<1> QED  BY <1>4, <1>5, <1>6, <1>7, <1>8, <1>9 DEF Execute

LEMMA ExecuteStep ==
    ASSUME Base, ExecutionInv, NEW w \in Workers, Execute(w)
    PROVE  ExecutionInv'
<1>1. PICK d \in Docs : d = worker[w].doc
  BY DEF Base, LockInv, Execute, Begin, Superseded, CleanVectors, Chunk, Upsert,
       UpsertPartly, RemoveFile, CommitIngest, CommitDelete, Abort, RecordFailure,
       Running
<1> SUFFICES ASSUME NEW v \in Workers  PROVE Exec(v)'
  BY ExecutionInvParts DEF ExecutionInv, Exec
<1>2. CASE v = w
  BY <1>1, <1>2, OwnExec
<1>3. CASE v # w
  BY <1>1, <1>3, ExecuteFrame, OtherExec
<1> QED  BY <1>2, <1>3

LEMMA CrashStep ==
    ASSUME Base, ExecutionInv, NEW w \in Workers, Crash(w)
    PROVE  ExecutionInv'
<1> SUFFICES ASSUME NEW v \in Workers  PROVE Exec(v)'
  BY ExecutionInvParts DEF ExecutionInv, Exec
<1>1. Exec(v) /\ (worker[v].pc \in Running => worker[v].doc \in Docs)
  BY ExecutionInvParts DEF Base, LockInv, Running
<1>2. CASE v = w
  <2>1. worker'[v].pc = "idle"
    BY <1>2 DEF Crash, Idle, Base, TypeOK
  <2> QED  BY <2>1 DEF Exec, Running
<1>3. CASE v # w
  <2>1. /\ worker'[v] = worker[v] /\ job' = job /\ doc' = doc /\ vectors' = vectors
        /\ file' = file
        /\ \A e \in Docs : lock[e] = v => lock'[e] = lock[e]
    BY <1>3 DEF Crash, Release, rows, Base, TypeOK
  <2>2. worker[v].pc \in Running => lock'[worker[v].doc] = lock[worker[v].doc]
    BY <1>1, <2>1 DEF Exec
  <2> QED  BY <1>1, <2>1, <2>2, ExecKept
<1> QED  BY <1>2, <1>3

LEMMA NextExecutionInv ==
    Base /\ ~ConnectionsDrop /\ ExecutionInv /\ [Next]_vars => ExecutionInv'
<1> SUFFICES ASSUME Base, ~ConnectionsDrop, ExecutionInv, [Next]_vars
             PROVE  ExecutionInv'
  OBVIOUS
<1>1. CASE UNCHANGED vars
  BY <1>1 DEF ExecutionInv, Complete, vars
<1>2. CASE Next
  BY <1>2, OutsideStep, ClaimStep, ExecuteStep, CrashStep DEF Next, DropConnection
<1> QED  BY <1>1, <1>2
-----------------------------------------------------------------------------
(* What settled documents have in the stores *)

\* A document a step does not touch.
LEMMA StoresKept ==
    ASSUME NEW d, Stores(d),
           doc'[d] = doc[d], source'[d] = source[d], job'[d] = job[d],
           chunks'[d] = chunks[d], vectors'[d] = vectors[d],
           file'[d] \in {file[d], "none"}
    PROVE  Stores(d)'
BY DEF Stores, Complete

\* A document that is, after the step, neither ready nor without rows.
LEMMA StoresVacuous ==
    ASSUME NEW d, source'[d] \notin {"NONE", "DELETED"}, doc'[d].status # "READY"
    PROVE  Stores(d)'
BY DEF Stores

LEMMA OutsideStores ==
    ASSUME Base, NEW d \in Docs, NEW e \in Docs, Stores(e),
           Request(d) \/ UploadCleanup(d) \/ TimePasses(d)
    PROVE  Stores(e)'
<1>1. TypeOK /\ doc \in [Docs -> DocRow] /\ job \in [Docs -> JobRow]
  BY DEF Base, TypeOK
<1>2. CASE e # d
  BY <1>1, <1>2, StoresKept
     DEF Request, Upload, UploadKilled, Reindex, Delete, Enqueue, UploadCleanup,
         TimePasses, rows, TypeOK
<1>3. CASE e = d /\ (Upload(d) \/ Reindex(d) \/ Delete(d))
  <2>1. source'[d] \in {"PENDING", "DELETING"} /\ doc'[d].status \in {"QUEUED", "DELETING"}
    BY <1>1, <1>3 DEF Upload, Reindex, Delete, Enqueue, QueuedSync, QueuedStatus, TypeOK
  <2> QED  BY <1>3, <2>1, StoresVacuous
<1>4. CASE e = d /\ UploadKilled(d)
  <2>1. source[d] = "NONE" /\ doc[d].status = "ABSENT"
    BY <1>4 DEF UploadKilled, Base, RowsAgree, AgreeingRows
  <2> QED  BY <1>4, <2>1 DEF UploadKilled, rows, Stores
<1>5. CASE e = d /\ UploadCleanup(d)
  BY <1>1, <1>5, StoresKept DEF UploadCleanup, rows, TypeOK
<1>6. CASE e = d /\ TimePasses(d)
  <2>1. job[d] # NoJob
    BY <1>6 DEF TimePasses, NoJob
  <2> QED  BY <1>6, <2>1 DEF TimePasses, Stores, Complete
<1> QED  BY <1>2, <1>3, <1>4, <1>5, <1>6 DEF Request

LEMMA ClaimStores ==
    ASSUME Base, NEW w \in Workers, NEW d \in Docs, NEW e \in Docs, Stores(e),
           Claim(w, d) \/ DeadLetter(w, d)
    PROVE  Stores(e)'
<1>1. /\ TypeOK /\ doc \in [Docs -> DocRow]
  BY DEF Base, TypeOK
<1>2. CASE e # d
  BY <1>1, <1>2, StoresKept DEF Claim, TakeJob, DeadLetter, TypeOK
<1>3. CASE e = d
  <2>1. /\ source'[d] \in {"PROCESSING", "DELETING", "FAILED"}
        /\ doc'[d].status \in {"PROCESSING", "DELETING", "FAILED"}
    BY <1>1 DEF Claim, TakeJob, DeadLetter, ClaimedStatus, TypeOK, DocRow
  <2> QED  BY <1>3, <2>1, StoresVacuous
<1> QED  BY <1>2, <1>3

LEMMA ExecuteStores ==
    ASSUME Base, ExecutionInv, NEW w \in Workers, NEW d \in Docs, Stores(d),
           d = worker[w].doc, Execute(w)
    PROVE  Stores(d)'
<1>1. /\ TypeOK /\ doc \in [Docs -> DocRow] /\ job \in [Docs -> JobRow] /\ Exec(w)
  BY ExecutionInvParts DEF Base, TypeOK
<1>2. CASE CommitIngest(w)
  <2>1. /\ doc'[d].status = "READY" /\ doc'[d].gen = doc[d].gen
        /\ source'[d] = "SYNCED" /\ chunks'[d] = worker[w].chunks
        /\ vectors' = vectors
    BY <1>1, <1>2 DEF CommitIngest, DocRow, TypeOK
  <2>2. Complete(worker[w].chunks, doc[d].gen) /\ vectors[d] = worker[w].chunks
    BY <1>1, <1>2 DEF CommitIngest, Exec, Running
  <2> QED  BY <2>1, <2>2 DEF Stores, Complete
<1>3. CASE CommitDelete(w)
  <2>1. /\ doc'[d].status = "ABSENT" /\ source'[d] = "DELETED" /\ job'[d] = NoJob
        /\ chunks'[d] = {} /\ vectors' = vectors /\ file' = file
    BY <1>1, <1>3 DEF CommitDelete, DocRow, TypeOK
  <2>2. vectors[d] = {} /\ file[d] = "none"
    BY <1>1, <1>3 DEF CommitDelete, Exec, Running
  <2> QED  BY <2>1, <2>2 DEF Stores
<1>4. CASE RecordFailure(w)
  <2>1. /\ source'[d] \in {"PENDING", "DELETING", "FAILED"}
        /\ doc'[d].status \in {"QUEUED", "DELETING", "FAILED"}
    BY <1>1, <1>4 DEF RecordFailure, QueuedSync, QueuedStatus, TypeOK, DocRow
  <2> QED  BY <2>1, StoresVacuous
<1>5. CASE Superseded(w) \/ Begin(w)
  BY <1>5, StoresKept DEF Superseded, Begin, rows
<1>6. CASE \/ CleanVectors(w) \/ Chunk(w) \/ Upsert(w) \/ UpsertPartly(w)
           \/ RemoveFile(w) \/ Abort(w)
  <2>1. worker[w].pc \in Running /\ UNCHANGED <<doc, source>>
    BY <1>6 DEF CleanVectors, Chunk, Upsert, UpsertPartly, RemoveFile, Abort, Running, rows
  <2>2. lock[d] # NoWorker
    BY <1>1, <2>1 DEF Exec
  <2> QED  BY <2>1, <2>2, LockedRows, StoresVacuous
<1> QED  BY <1>2, <1>3, <1>4, <1>5, <1>6 DEF Execute

LEMMA ExecutingDoc ==
    ASSUME Base, NEW w \in Workers, Execute(w)
    PROVE  worker[w].doc \in Docs
BY DEF Base, LockInv, Execute, Begin, Superseded, CleanVectors, Chunk, Upsert,
   UpsertPartly, RemoveFile, CommitIngest, CommitDelete, Abort, RecordFailure, Running

LEMMA NextStoresInv ==
    Base /\ ~ConnectionsDrop /\ ExecutionInv /\ StoresInv /\ [Next]_vars => StoresInv'
<1> SUFFICES ASSUME Base, ~ConnectionsDrop, ExecutionInv, [Next]_vars,
                    NEW e \in Docs, Stores(e)
             PROVE  Stores(e)'
  BY StoresInvParts DEF StoresInv, Stores
<1>1. ASSUME NEW w \in Workers, Execute(w)  PROVE Stores(e)'
  <2>1. PICK d \in Docs : d = worker[w].doc
    BY <1>1, ExecutingDoc
  <2>2. CASE e = d
    BY <1>1, <2>1, <2>2, ExecuteStores
  <2>3. CASE e # d
    BY <1>1, <2>1, <2>3, ExecuteFrame, StoresKept
  <2> QED  BY <2>2, <2>3
<1>2. ASSUME NEW w \in Workers, Crash(w)  PROVE Stores(e)'
  BY <1>2, StoresKept DEF Crash, rows
<1>3. CASE UNCHANGED vars
  BY <1>3, StoresKept DEF vars
<1> QED  BY <1>1, <1>2, <1>3, OutsideStores, ClaimStores DEF Next, DropConnection
-----------------------------------------------------------------------------
(* The theorems *)

LEMMA InitStores == Init => ExecutionInv /\ StoresInv
BY DEF Init, ExecutionInv, StoresInv, Idle, NoJob, Running

LEMMA Inductive ==
    ASSUME ~ConnectionsDrop
    PROVE  Spec => []IngestionInv
<1>1. TypeOK /\ RowsAgree /\ LockInv /\ ExecutionInv /\ StoresInv /\ [Next]_vars
          => (ExecutionInv /\ StoresInv)'
  BY NextExecutionInv, NextStoresInv DEF Base
<1>2. Init => ExecutionInv /\ StoresInv
  BY InitStores
<1>3. Spec => [](TypeOK /\ RowsAgree /\ LockInv)
  BY RowsAndLocks
<1>4. Spec => []((TypeOK /\ RowsAgree /\ LockInv) /\ (ExecutionInv /\ StoresInv))
  BY <1>1, <1>2, <1>3, PTL DEF Spec
<1>5. ((TypeOK /\ RowsAgree /\ LockInv) /\ (ExecutionInv /\ StoresInv)) => IngestionInv
  BY DEF IngestionInv
<1> QED  BY <1>4, <1>5, PTL

LEMMA IndexedByInv == IngestionInv => ReadyIsIndexed
<1> SUFFICES ASSUME TypeOK, StoresInv, NEW d \in Docs, doc[d].status = "READY"
             PROVE  /\ chunks[d] # {}
                    /\ vectors[d] = chunks[d]
                    /\ \A c \in chunks[d] : c[1] = doc[d].gen
  BY DEF IngestionInv, ReadyIsIndexed
<1>1. PICK n \in 1..MaxChunks : chunks[d] = {doc[d].gen} \X (1..n)
  BY DEF StoresInv, Complete
<1>2. <<doc[d].gen, 1>> \in chunks[d]
  BY <1>1
<1>3. vectors[d] = chunks[d]
  BY DEF StoresInv
<1> QED  BY <1>1, <1>2, <1>3

\* A READY document's points are exactly its chunk rows, one complete set of the
\* current generation, whatever retries, crashes and partial upserts went before.
THEOREM ReadyAlwaysIndexed ==
    ASSUME ~ConnectionsDrop
    PROVE  Spec => []ReadyIsIndexed
BY IndexedByInv, Inductive, PTL

\* A completed deletion leaves nothing in the three stores, for good.
THEOREM DeletionIsComplete ==
    ASSUME ~ConnectionsDrop
    PROVE  Spec => []DeletedLeavesNothing
<1>1. IngestionInv => DeletedLeavesNothing
  BY DEF IngestionInv, StoresInv, DeletedLeavesNothing, RowsAgree, AgreeingRows, NoJob
<1> QED  BY <1>1, Inductive, PTL
-----------------------------------------------------------------------------
(* The fence *)

\* Every step of an execution moves its worker on.
LEMMA ExecuteMoves ==
    ASSUME TypeOK, NEW w \in Workers, Execute(w)
    PROVE  worker'[w] # worker[w]
<1>1. worker \in [Workers -> Worker]
  BY DEF TypeOK
<1>2. worker'[w].pc # worker[w].pc
  <2>1. CASE \/ CleanVectors(w) \/ Upsert(w) \/ RemoveFile(w)
    BY <1>1, <2>1 DEF CleanVectors, Upsert, RemoveFile, Continue, Goto, Fail, Worker
  <2>2. CASE \/ UpsertPartly(w) \/ Abort(w) \/ CommitIngest(w) \/ CommitDelete(w)
    BY <1>1, <2>2 DEF UpsertPartly, Abort, CommitIngest, CommitDelete, Finish, Fail,
         Idle, Running, Worker
  <2>3. CASE Begin(w) \/ Chunk(w) \/ Superseded(w) \/ RecordFailure(w)
    BY <1>1, <2>3 DEF Begin, Goto, Chunk, Superseded, RecordFailure, Idle, Worker
  <2> QED  BY <2>1, <2>2, <2>3 DEF Execute
<1> QED  BY <1>2

Fenced(d) ==
    /\ doc'[d] = doc[d] /\ chunks'[d] = chunks[d] /\ vectors'[d] = vectors[d]
    /\ [job'[d] EXCEPT !.ripe = FALSE] = [job[d] EXCEPT !.ripe = FALSE]

LEMMA NextFences ==
    Base /\ ~ConnectionsDrop /\ ExecutionInv /\ Next =>
        \A d \in Docs, w \in Workers :
            lock[d] = w /\ worker'[w] = worker[w] => Fenced(d)
<1> SUFFICES ASSUME Base, ~ConnectionsDrop, ExecutionInv, Next,
                    NEW d \in Docs, NEW w \in Workers,
                    lock[d] = w, worker'[w] = worker[w]
             PROVE  Fenced(d)
  OBVIOUS
<1>1. TypeOK /\ doc \in [Docs -> DocRow] /\ job \in [Docs -> JobRow]
  BY DEF Base, TypeOK
<1>2. ~Unlocked(d)
  BY DEF Unlocked
<1>3. ASSUME NEW e \in Docs, Request(e)  PROVE Fenced(d)
  <2>1. Unlocked(e)
    BY <1>3, UnusedUnlocked DEF Request, Upload, UploadKilled, Reindex, Delete
  <2>2. e # d
    BY <1>2, <2>1
  <2> QED  BY <1>1, <1>3, <2>2 DEF Request, Upload, UploadKilled, Reindex, Delete, Enqueue,
           rows, Fenced, TypeOK
<1>4. ASSUME NEW e \in Docs, TimePasses(e)  PROVE Fenced(d)
  BY <1>1, <1>4 DEF TimePasses, Fenced, JobRow
<1>5. ASSUME NEW e \in Docs, NEW v \in Workers, Claim(v, e) \/ DeadLetter(v, e)
      PROVE  Fenced(d)
  <2>1. e # d
    BY <1>2, <1>5 DEF Claim, DeadLetter, Claimable
  <2> QED  BY <1>1, <1>5, <2>1 DEF Claim, TakeJob, DeadLetter, Fenced, TypeOK
<1>6. ASSUME NEW v \in Workers, Execute(v)  PROVE Fenced(d)
  <2>1. v # w
    BY <1>1, <1>6, ExecuteMoves
  <2>2. PICK e \in Docs : e = worker[v].doc
    BY <1>6, ExecutingDoc
  <2>3. lock[e] \in {v, NoWorker}
    BY <1>6, <2>2, ExecuteFrame
  <2>4. e # d
    BY <1>2, <2>1, <2>3 DEF Unlocked
  <2>5. /\ job'[d] = job[d] /\ doc'[d] = doc[d] /\ vectors'[d] = vectors[d]
        /\ chunks'[d] = chunks[d]
    BY <1>6, <2>2, <2>4, ExecuteFrame
  <2> QED  BY <2>5 DEF Fenced
<1>7. ASSUME UNCHANGED <<rows, chunks, vectors>>  PROVE Fenced(d)
  BY <1>7 DEF rows, Fenced
<1> QED  BY <1>3, <1>4, <1>5, <1>6, <1>7 DEF Next, UploadCleanup, Crash, DropConnection

\* While a worker holds the document row, only its own steps change the document,
\* its chunks and its points, or take its job away from it.
THEOREM LockAlwaysFences ==
    ASSUME ~ConnectionsDrop
    PROVE  Spec => LockFences
<1>1. IngestionInv /\ [Next]_vars =>
        [\A d \in Docs, w \in Workers :
           (lock[d] = w /\ worker'[w] = worker[w]) => Fenced(d)]_vars
  BY NextFences DEF Base, IngestionInv
<1>2. Spec => [][\A d \in Docs, w \in Workers :
           (lock[d] = w /\ worker'[w] = worker[w]) => Fenced(d)]_vars
  BY <1>1, Inductive, PTL DEF Spec
<1> QED  BY <1>2 DEF LockFences, Fenced
-----------------------------------------------------------------------------
(* The queue implements the life cycle its clients see: every step is a step *)
(* of DocumentLifecycle or invisible                                         *)

\* The state of one document as its clients see it, before and after a step.
Unseen(d) ==
    /\ PhaseOf(d)' = PhaseOf(d)
    /\ doc'[d].gen = doc[d].gen
    /\ IndexOf(d)' = IndexOf(d)

Seen(d, p, g, i) ==
    /\ PhaseOf(d)' = p
    /\ doc'[d].gen = g
    /\ IndexOf(d)' = i
    /\ \A e \in Docs : e # d => Unseen(e)

LEMMA Stutters ==
    ASSUME \A d \in Docs : Unseen(d)
    PROVE  UNCHANGED Lifecycle!lifecycleVars
BY DEF Unseen, Lifecycle!lifecycleVars, Phase, Generation, Index

LEMMA SeenFunctions ==
    ASSUME NEW d \in Docs, NEW p, NEW g, NEW i, Seen(d, p, g, i)
    PROVE  /\ Phase' = [Phase EXCEPT ![d] = p]
           /\ Generation' = [Generation EXCEPT ![d] = g]
           /\ Index' = [Index EXCEPT ![d] = i]
BY DEF Seen, Unseen, Phase, Generation, Index

\* A document whose row does not change, and whose points only change when it is
\* not ready, looks the same.
LEMMA UntouchedUnseen ==
    ASSUME NEW d, doc'[d] = doc[d], source'[d] = source[d],
           vectors'[d] = vectors[d] \/ doc[d].status # "READY"
    PROVE  Unseen(d)
BY DEF Unseen, PhaseOf, IndexOf

\* The abstract count of outstanding documents is the count the code makes.
LEMMA SameOutstanding ==
    ASSUME TypeOK
    PROVE  Lifecycle!Outstanding = PendingDocs
<1>1. ASSUME NEW d \in Docs
      PROVE  PhaseOf(d) \in {"waiting", "deleting"} <=> doc[d].status \in Pending
  <2>1. doc[d].status \in DocStatus
    BY DEF TypeOK, DocRow
  <2> QED  BY <2>1 DEF PhaseOf, Pending, DocStatus
<1>2. \A d \in Docs : Phase[d] = PhaseOf(d)
  BY DEF Phase
<1> QED  BY <1>1, <1>2 DEF Lifecycle!Outstanding, PendingDocs

LEMMA InitLifecycle == Init => Lifecycle!Init
BY DEF Init, Lifecycle!Init, Phase, PhaseOf, Generation, Index, IndexOf
-----------------------------------------------------------------------------
(* One lemma per kind of step *)

\* A request is admitted, or has no visible effect.
LEMMA RequestRefines ==
    ASSUME TypeOK, RowsAgree, StoresInv, NEW d \in Docs, Request(d)
    PROVE  Lifecycle!Step(d) \/ \A e \in Docs : Unseen(e)
<1>1. doc \in [Docs -> DocRow] /\ source \in [Docs -> SyncState]
  BY DEF TypeOK
<1>2. Phase[d] = PhaseOf(d) /\ Generation[d] = doc[d].gen
  BY DEF Phase, Generation
<1>3. HasCapacity => Lifecycle!Admits(d)
  BY SameOutstanding
     DEF HasCapacity, Lifecycle!Admits, Cardinality, Lifecycle!Cardinality
<1>4. CASE UploadKilled(d)
  BY <1>4, UntouchedUnseen DEF UploadKilled, rows
<1>5. CASE Upload(d)
  <2>1. PhaseOf(d) = "none" /\ doc[d].gen = 0
    BY <1>5, StoresInvParts DEF Upload, RowsAgree, AgreeingRows, PhaseOf, Stores
  <2>2. doc'[d] = [status |-> "QUEUED", gen |-> 1]
    BY <1>1, <1>5 DEF Upload, Enqueue, QueuedStatus
  <2>3. Seen(d, "waiting", doc[d].gen + 1, {})
    BY <1>1, <1>5, <2>1, <2>2, UntouchedUnseen
       DEF Upload, Enqueue, Seen, PhaseOf, IndexOf
  <2>4. doc[d].gen < MaxGen /\ HasCapacity
    BY <1>5, <2>1 DEF Upload
  <2> QED  BY <1>2, <1>3, <2>1, <2>3, <2>4, SeenFunctions
           DEF Lifecycle!Step, Lifecycle!Submit
<1>6. CASE Reindex(d)
  <2>1. PhaseOf(d) \in {"ready", "failed"}
    BY <1>1, <1>6 DEF Reindex, DocRow, DocStatus, Pending, PhaseOf
  <2>2. doc'[d] = [status |-> "QUEUED", gen |-> doc[d].gen + 1]
    BY <1>1, <1>6 DEF Reindex, Enqueue, QueuedStatus
  <2>3. Seen(d, "waiting", doc[d].gen + 1, {})
    BY <1>1, <1>6, <2>2, UntouchedUnseen DEF Reindex, Enqueue, Seen, PhaseOf, IndexOf
  <2>4. doc[d].gen < MaxGen /\ HasCapacity
    BY <1>6 DEF Reindex
  <2> QED  BY <1>2, <1>3, <2>1, <2>3, <2>4, SeenFunctions
           DEF Lifecycle!Step, Lifecycle!Submit
<1>7. CASE Delete(d)
  <2>1. doc'[d] = [status |-> "DELETING", gen |-> doc[d].gen]
    BY <1>1, <1>7 DEF Delete, Enqueue, QueuedStatus
  <2>2. Seen(d, "deleting", doc[d].gen, {})
    BY <1>1, <1>7, <2>1, UntouchedUnseen DEF Delete, Enqueue, Seen, PhaseOf, IndexOf
  <2>3. CASE doc[d].status = "DELETING"
    <3>1. PhaseOf(d) = "deleting" /\ IndexOf(d) = {}
      BY <2>3 DEF PhaseOf, IndexOf
    <3> QED  BY <2>2, <3>1 DEF Seen, Unseen
  <2>4. CASE doc[d].status # "DELETING"
    <3>1. PhaseOf(d) \in {"waiting", "ready", "failed"}
      BY <1>1, <1>7, <2>4 DEF Delete, DocRow, DocStatus, PhaseOf
    <3>2. Lifecycle!Admits(d)
      BY <1>3, <1>7, SameOutstanding DEF Delete, PendingDocs, Lifecycle!Admits
    <3>3. Generation' = Generation
      BY <2>2 DEF Seen, Unseen, Generation
    <3> QED  BY <1>2, <2>2, <3>1, <3>2, <3>3, SeenFunctions
             DEF Lifecycle!Step, Lifecycle!RequestDeletion
  <2> QED  BY <2>3, <2>4
<1> QED  BY <1>4, <1>5, <1>6, <1>7 DEF Request

\* A step that leaves a pending document pending in the same way, or fails it.
LEMMA PendingMoves ==
    ASSUME TypeOK, NEW d \in Docs, doc[d].status \in Pending,
           doc'[d].gen = doc[d].gen,
           \A e \in Docs : e # d => Unseen(e),
           \/ doc'[d].status = "FAILED"
           \/ doc'[d].status = "DELETING" /\ doc[d].status = "DELETING"
           \/ /\ doc'[d].status \in {"QUEUED", "PROCESSING"}
              /\ doc[d].status \in {"QUEUED", "PROCESSING"}
    PROVE  Lifecycle!Step(d) \/ \A e \in Docs : Unseen(e)
<1>1. IndexOf(d) = {} /\ IndexOf(d)' = {}
  BY DEF IndexOf, Pending
<1>2. CASE doc'[d].status = "FAILED"
  <2>1. PhaseOf(d)' = "failed"
    BY <1>2 DEF PhaseOf
  <2>2. Seen(d, "failed", doc[d].gen, {})
    BY <1>1, <2>1 DEF Seen
  <2>3. d \in Lifecycle!Outstanding
    BY SameOutstanding DEF PendingDocs
  <2>4. Generation' = Generation /\ Index' = Index
    BY <1>1, <2>2 DEF Seen, Unseen, Generation, Index
  <2> QED  BY <2>2, <2>3, <2>4, SeenFunctions DEF Lifecycle!Step, Lifecycle!GiveUp
<1>3. CASE doc'[d].status # "FAILED"
  <2>1. PhaseOf(d)' = PhaseOf(d)
    BY <1>3 DEF PhaseOf
  <2> QED  BY <1>1, <2>1 DEF Unseen
<1> QED  BY <1>2, <1>3

LEMMA ClaimRefines ==
    ASSUME TypeOK, RowsAgree, NEW w \in Workers, NEW d \in Docs,
           Claim(w, d) \/ DeadLetter(w, d)
    PROVE  Lifecycle!Step(d) \/ \A e \in Docs : Unseen(e)
<1>1. doc \in [Docs -> DocRow] /\ source \in [Docs -> SyncState]
  BY DEF TypeOK
<1>2. \/ job[d].op = "INGEST" /\ doc[d].status \in {"QUEUED", "PROCESSING"}
      \/ job[d].op = "DELETE" /\ doc[d].status = "DELETING"
  BY DEF Claim, DeadLetter, Claimable, RowsAgree, AgreeingRows
<1>3. \A e \in Docs : e # d => Unseen(e)
  BY <1>1, UntouchedUnseen DEF Claim, TakeJob, DeadLetter
<1>4. doc'[d].gen = doc[d].gen /\ doc'[d].status \in {"FAILED", ClaimedStatus(job[d].op)}
  BY <1>1 DEF Claim, TakeJob, DeadLetter, DocRow
<1>5. doc'[d].status = "FAILED" \/ doc'[d].status = ClaimedStatus(job[d].op)
  BY <1>4
<1> QED  BY <1>2, <1>3, <1>4, <1>5, PendingMoves DEF ClaimedStatus, Pending

LEMMA CommitIngestRefines ==
    ASSUME Base, ExecutionInv, NEW w \in Workers, NEW d \in Docs,
           d = worker[w].doc, CommitIngest(w)
    PROVE  Lifecycle!Step(d)
<1>1. doc \in [Docs -> DocRow] /\ source \in [Docs -> SyncState] /\ Exec(w)
  BY ExecutionInvParts DEF Base, TypeOK
<1>2. /\ lock[d] # NoWorker /\ job[d].op = "INGEST" /\ vectors' = vectors
      /\ Complete(worker[w].chunks, doc[d].gen) /\ vectors[d] = worker[w].chunks
      /\ doc' = [doc EXCEPT ![d].status = "READY"]
      /\ source' = [source EXCEPT ![d] = "SYNCED"]
  BY <1>1 DEF CommitIngest, Exec, Running
<1>3. PhaseOf(d) = "waiting"
  BY <1>2, LockedRows DEF PhaseOf, Base, RowsAgree, AgreeingRows
<1>4. doc'[d].status = "READY" /\ doc'[d].gen = doc[d].gen
  BY <1>1, <1>2 DEF DocRow
<1>5. Seen(d, "ready", doc[d].gen, vectors[d])
  BY <1>1, <1>2, <1>4, UntouchedUnseen DEF Seen, PhaseOf, IndexOf
<1>6. PICK n \in 1..MaxChunks : vectors[d] = {doc[d].gen} \X (1..n)
  BY <1>2 DEF Complete
<1>7. Generation' = Generation /\ Generation[d] = doc[d].gen /\ Phase[d] = "waiting"
  BY <1>3, <1>5 DEF Seen, Unseen, Generation, Phase
<1> QED  BY <1>5, <1>6, <1>7, SeenFunctions DEF Lifecycle!Step, Lifecycle!Publish

LEMMA CommitDeleteRefines ==
    ASSUME Base, ExecutionInv, NEW w \in Workers, NEW d \in Docs,
           d = worker[w].doc, CommitDelete(w)
    PROVE  Lifecycle!Step(d)
<1>1. doc \in [Docs -> DocRow] /\ source \in [Docs -> SyncState] /\ Exec(w)
  BY ExecutionInvParts DEF Base, TypeOK
<1>2. /\ lock[d] # NoWorker /\ job[d].op = "DELETE" /\ vectors' = vectors
      /\ doc' = [doc EXCEPT ![d].status = "ABSENT"]
      /\ source' = [source EXCEPT ![d] = "DELETED"]
  BY <1>1 DEF CommitDelete, Exec, Running
<1>3. doc[d].status = "DELETING"
  BY <1>2, LockedRows DEF Base, RowsAgree, AgreeingRows
<1>4. doc'[d].status = "ABSENT" /\ doc'[d].gen = doc[d].gen /\ source'[d] = "DELETED"
  BY <1>1, <1>2 DEF DocRow
<1>5. Seen(d, "gone", doc[d].gen, {})
  BY <1>1, <1>2, <1>4, UntouchedUnseen DEF Seen, PhaseOf, IndexOf
<1>6. PhaseOf(d) = "deleting" /\ IndexOf(d) = {}
  BY <1>3 DEF PhaseOf, IndexOf
<1>7. Generation' = Generation /\ Index' = Index /\ Phase[d] = "deleting"
  BY <1>5, <1>6 DEF Seen, Unseen, Generation, Index, Phase
<1> QED  BY <1>5, <1>7, SeenFunctions DEF Lifecycle!Step, Lifecycle!Remove

LEMMA RecordFailureRefines ==
    ASSUME Base, NEW w \in Workers, NEW d \in Docs,
           d = worker[w].doc, RecordFailure(w)
    PROVE  Lifecycle!Step(d) \/ \A e \in Docs : Unseen(e)
<1>1. TypeOK /\ doc \in [Docs -> DocRow] /\ source \in [Docs -> SyncState]
  BY DEF Base, TypeOK
<1>2. \/ job[d].op = "INGEST" /\ doc[d].status = "PROCESSING"
      \/ job[d].op = "DELETE" /\ doc[d].status = "DELETING"
  BY DEF RecordFailure, Current, Base, RowsAgree, AgreeingRows
<1>3. \A e \in Docs : e # d => Unseen(e)
  BY <1>1, UntouchedUnseen DEF RecordFailure
<1>4. /\ doc'[d].gen = doc[d].gen
      /\ doc'[d].status = "FAILED" \/ doc'[d].status = QueuedStatus(job[d].op)
  BY <1>1 DEF RecordFailure, DocRow
<1> QED  BY <1>1, <1>2, <1>3, <1>4, PendingMoves DEF QueuedStatus, Pending

LEMMA ExecuteRefines ==
    ASSUME Base, ExecutionInv, NEW w \in Workers, NEW d \in Docs,
           d = worker[w].doc, Execute(w)
    PROVE  Lifecycle!Step(d) \/ \A e \in Docs : Unseen(e)
<1>1. CASE Superseded(w) \/ Begin(w)
  BY <1>1, UntouchedUnseen DEF Superseded, Begin, rows
<1>2. CASE \/ CleanVectors(w) \/ Chunk(w) \/ Upsert(w) \/ UpsertPartly(w)
           \/ RemoveFile(w) \/ Abort(w)
  <2>1. worker[w].pc \in Running /\ UNCHANGED <<doc, source>>
    BY <1>2 DEF CleanVectors, Chunk, Upsert, UpsertPartly, RemoveFile, Abort, Running, rows
  <2>2. lock[d] # NoWorker
    BY <2>1, ExecutionInvParts DEF Exec
  <2>3. doc[d].status # "READY"
    BY <2>2, LockedRows
  <2> QED  BY <1>2, <2>1, <2>3, ExecuteFrame, UntouchedUnseen
<1> QED  BY <1>1, <1>2, CommitIngestRefines, CommitDeleteRefines, RecordFailureRefines
         DEF Execute
-----------------------------------------------------------------------------
LEMMA NextRefines ==
    IngestionInv /\ ~ConnectionsDrop /\ [Next]_vars
        => [Lifecycle!Next]_(Lifecycle!lifecycleVars)
<1> SUFFICES ASSUME IngestionInv, ~ConnectionsDrop, [Next]_vars
             PROVE  Lifecycle!Next \/ UNCHANGED Lifecycle!lifecycleVars
  OBVIOUS
<1> USE DEF IngestionInv
<1>1. Base
  BY DEF Base
<1>2. ASSUME NEW d \in Docs, Lifecycle!Step(d) \/ \A e \in Docs : Unseen(e)
      PROVE  Lifecycle!Next \/ UNCHANGED Lifecycle!lifecycleVars
  BY <1>2, Stutters DEF Lifecycle!Next
<1>3. ASSUME NEW d \in Docs, Request(d)
      PROVE  Lifecycle!Next \/ UNCHANGED Lifecycle!lifecycleVars
  BY <1>2, <1>3, RequestRefines
<1>4. ASSUME NEW w \in Workers, NEW d \in Docs, Claim(w, d) \/ DeadLetter(w, d)
      PROVE  Lifecycle!Next \/ UNCHANGED Lifecycle!lifecycleVars
  BY <1>2, <1>4, ClaimRefines
<1>5. ASSUME NEW w \in Workers, Execute(w)
      PROVE  Lifecycle!Next \/ UNCHANGED Lifecycle!lifecycleVars
  <2>1. PICK d \in Docs : d = worker[w].doc
    BY <1>1, <1>5, ExecutingDoc
  <2> QED  BY <1>1, <1>2, <1>5, <2>1, ExecuteRefines
<1>6. ASSUME UNCHANGED <<doc, source, vectors>>
      PROVE  UNCHANGED Lifecycle!lifecycleVars
  BY <1>6, UntouchedUnseen, Stutters
<1> QED  BY <1>3, <1>4, <1>5, <1>6
         DEF Next, UploadCleanup, TimePasses, Crash, DropConnection, rows, vars

\* The durable queue keeps the life cycle's promise to its clients.
THEOREM QueueImplementsLifecycle ==
    ASSUME ~ConnectionsDrop
    PROVE  Spec => RefinesLifecycle
<1>1. Init => Lifecycle!Init
  BY InitLifecycle
<1>2. IngestionInv /\ [Next]_vars => [Lifecycle!Next]_(Lifecycle!lifecycleVars)
  BY NextRefines
<1> QED  BY <1>1, <1>2, Inductive, PTL DEF Spec, RefinesLifecycle, Lifecycle!Spec
=============================================================================
