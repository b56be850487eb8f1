--------------------------- MODULE ServingProofs ---------------------------
(***************************************************************************)
(* Proofs about Serving: what a search returns, what a rebuild that passed *)
(* its checks holds, and that the index in use stays right across cutover  *)
(* and rollback where operators stop writers, for any number of documents, *)
(* workers and searches.                                                   *)
(***************************************************************************)
EXTENDS Serving, IngestionStoreProofs

USE IngestionAssumption, ServingAssumption
-----------------------------------------------------------------------------
(* Finitely many points *)

LEMMA FinitelyManyPoints ==
    ASSUME NEW S \in SUBSET (Docs \X ChunkIds)
    PROVE  IsFiniteSet(S) /\ Cardinality(S) \in Nat
<1>1. IsFiniteSet(0..MaxGen) /\ IsFiniteSet(1..MaxChunks)
  BY FS_Interval
<1>2. IsFiniteSet(ChunkIds)
  BY <1>1, FS_Product DEF ChunkIds
<1>3. IsFiniteSet(Docs \X ChunkIds)
  BY <1>2, FS_Product
<1> QED  BY <1>3, FS_Subset, FS_CardinalityType

\* As many points as it should have: they are the points it should have.
LEMMA CountedPoints ==
    ASSUME NEW S \in SUBSET (Docs \X ChunkIds), NEW T \in SUBSET S,
           Cardinality(S) = Cardinality(T)
    PROVE  S = T
BY FinitelyManyPoints, FS_Subset

LEMMA PointsOf ==
    ASSUME NEW c
    PROVE  /\ Points(c) \in SUBSET (Docs \X ChunkIds)
           /\ \A d \in Docs, i \in ChunkIds : <<d, i>> \in Points(c) <=> i \in c[d]
           /\ \A p \in Points(c) : p[1] \in Docs /\ p[2] \in c[p[1]]
BY DEF Points
-----------------------------------------------------------------------------
(* A step of the queue, for one document *)

LEMMA NextIngestionInv ==
    ASSUME ~ConnectionsDrop, IngestionInv, [Next]_vars
    PROVE  IngestionInv'
<1>1. TypeOK /\ RowsAgree /\ LockInv /\ ExecutionInv /\ StoresInv
  BY DEF IngestionInv
<1>2. TypeOK' /\ RowsAgree' /\ LockInv'
  BY <1>1, NextTypeOK, NextRowsAgree, NextLockInv
<1>3. ExecutionInv' /\ StoresInv'
  BY <1>1, NextExecutionInv, NextStoresInv DEF Base
<1> QED  BY <1>2, <1>3 DEF IngestionInv

Waiting == {"QUEUED", "PROCESSING"}

\* A generation is never left for an older one, is published once, and only its
\* own chunks are added to the index.
DocStep(d) ==
    /\ doc'[d].gen >= doc[d].gen
    /\ doc'[d].status # "ABSENT" => doc'[d].gen # 0
    /\ doc'[d].gen = doc[d].gen /\ doc'[d].status \in Waiting => doc[d].status \in Waiting
    /\ doc'[d].gen = doc[d].gen /\ doc'[d].status = "READY" =>
          \/ doc[d].status \in Waiting
          \/ doc[d].status = "READY" /\ chunks'[d] = chunks[d]
    /\ \A c \in vectors'[d] : c \in vectors[d] \/ c[1] = doc[d].gen

Numbered(d) == doc[d].status # "ABSENT" => doc[d].gen # 0

LEMMA SameDoc ==
    ASSUME TypeOK, NEW d \in Docs, Numbered(d),
           doc'[d] = doc[d], chunks'[d] = chunks[d], vectors'[d] = vectors[d]
    PROVE  DocStep(d)
BY DEF TypeOK, DocRow, DocStep, Numbered

\* Only the state of the row changes, and not to READY.
LEMMA SettledDoc ==
    ASSUME TypeOK, NEW d \in Docs, Numbered(d),
           doc'[d].gen = doc[d].gen, doc[d].status # "ABSENT",
           doc'[d].status \in Waiting => doc[d].status \in Waiting,
           doc'[d].status # "READY", vectors'[d] = vectors[d]
    PROVE  DocStep(d)
BY DEF TypeOK, DocRow, DocStep, Numbered

LEMMA RequestDoc ==
    ASSUME Base, NEW d \in Docs, Stores(d), Numbered(d), Request(d)
    PROVE  DocStep(d)
<1>1. TypeOK /\ doc \in [Docs -> DocRow] /\ doc[d].gen \in Nat
  BY DEF Base, TypeOK, DocRow
<1>2. CASE Upload(d)
  <2>1. doc'[d] = [status |-> "QUEUED", gen |-> 1] /\ vectors' = vectors
    BY <1>1, <1>2 DEF Upload, Enqueue, QueuedStatus
  <2>2. doc[d].gen = 0
    BY <1>2 DEF Upload, Stores
  <2> QED  BY <2>1, <2>2 DEF DocStep
<1>3. CASE Reindex(d)
  <2>1. doc'[d] = [status |-> "QUEUED", gen |-> doc[d].gen + 1] /\ vectors' = vectors
    BY <1>1, <1>3 DEF Reindex, Enqueue, QueuedStatus
  <2> QED  BY <1>1, <2>1 DEF DocStep
<1>4. CASE Delete(d)
  <2>1. /\ doc'[d] = [status |-> "DELETING", gen |-> doc[d].gen] /\ vectors' = vectors
        /\ doc[d].status # "ABSENT"
    BY <1>1, <1>4 DEF Delete, Enqueue, QueuedStatus
  <2> QED  BY <1>1, <2>1, SettledDoc DEF Waiting
<1>5. CASE UploadKilled(d)
  BY <1>1, <1>5, SameDoc DEF UploadKilled, rows
<1> QED  BY <1>2, <1>3, <1>4, <1>5 DEF Request

LEMMA ClaimDoc ==
    ASSUME Base, NEW w \in Workers, NEW d \in Docs, Numbered(d),
           Claim(w, d) \/ DeadLetter(w, d)
    PROVE  DocStep(d)
<1>1. TypeOK /\ doc \in [Docs -> DocRow] /\ doc[d].status \in DocStatus
  BY DEF Base, TypeOK, DocRow
<1>2. job[d].status \in {"QUEUED", "PROCESSING"}
  BY DEF Claim, DeadLetter, Claimable
<1>3. /\ doc[d].status \in {"QUEUED", "PROCESSING", "DELETING"}
      /\ job[d].op # "DELETE" => doc[d].status \in Waiting
  BY <1>2 DEF Base, RowsAgree, AgreeingRows, Waiting
<1>4. /\ doc'[d].gen = doc[d].gen /\ vectors' = vectors
      /\ doc'[d].status \in {"FAILED", "DELETING"}
            \/ (doc'[d].status = "PROCESSING" /\ job[d].op # "DELETE")
  BY <1>1 DEF Claim, TakeJob, DeadLetter, ClaimedStatus, DocRow
<1> QED  BY <1>1, <1>3, <1>4, SettledDoc DEF Waiting

LEMMA ExecuteDoc ==
    ASSUME Base, ExecutionInv, NEW w \in Workers, NEW d \in Docs, Numbered(d),
           d = worker[w].doc, Execute(w)
    PROVE  DocStep(d)
<1>1. /\ TypeOK /\ doc \in [Docs -> DocRow] /\ doc[d].gen \in Nat
      /\ vectors \in [Docs -> SUBSET ChunkIds] /\ Exec(w)
  BY ExecutionInvParts DEF Base, TypeOK, DocRow
<1>2. worker[w].pc \in Running => doc[d].status \in {"PROCESSING", "DELETING"}
                                  /\ job[d].status = "PROCESSING"
  BY <1>1, LockedRows DEF Exec
<1>3. CASE CleanVectors(w)
  BY <1>1, <1>2, <1>3 DEF CleanVectors, rows, Running, DocStep, Numbered
<1>4. CASE Upsert(w) \/ UpsertPartly(w)
  <2>1. /\ worker[w].pc = "upserting" /\ doc' = doc
        /\ \A c \in vectors'[d] : c \in vectors[d] \/ c \in worker[w].chunks
    BY <1>1, <1>4 DEF Upsert, UpsertPartly, rows
  <2>2. \A c \in worker[w].chunks : c[1] = doc[d].gen
    BY <1>1, <2>1 DEF Exec, Running, Complete
  <2> QED  BY <1>1, <1>2, <2>1, <2>2 DEF Running, DocStep, Numbered
<1>5. CASE CommitIngest(w)
  <2>1. /\ worker[w].pc = "committing" /\ job[d].op = "INGEST" /\ vectors' = vectors
        /\ doc'[d].status = "READY" /\ doc'[d].gen = doc[d].gen
    BY <1>1, <1>5 DEF CommitIngest, DocRow
  <2>2. doc[d].status \in Waiting
    BY <1>2, <2>1 DEF Running, Waiting, Base, RowsAgree, AgreeingRows
  <2> QED  BY <1>1, <2>1, <2>2 DEF DocStep, Numbered, Waiting
<1>6. CASE CommitDelete(w)
  <2>1. /\ doc'[d].status = "ABSENT" /\ doc'[d].gen = doc[d].gen /\ vectors' = vectors
    BY <1>1, <1>6 DEF CommitDelete, DocRow
  <2> QED  BY <1>1, <2>1 DEF DocStep, Waiting
<1>7. CASE RecordFailure(w)
  <2>1. /\ job[d].status = "PROCESSING" /\ vectors' = vectors
        /\ doc'[d].gen = doc[d].gen
        /\ doc'[d].status \in {"FAILED", QueuedStatus(job[d].op)}
    BY <1>1, <1>7 DEF RecordFailure, Current, DocRow
  <2>2. /\ doc[d].status \in {"PROCESSING", "DELETING"}
        /\ job[d].op # "DELETE" => doc[d].status = "PROCESSING"
    BY <2>1 DEF Base, RowsAgree, AgreeingRows
  <2>3. /\ doc'[d].status \in Waiting => doc[d].status \in Waiting
        /\ doc'[d].status # "READY" /\ doc[d].status # "ABSENT"
    BY <2>1, <2>2 DEF QueuedStatus, Waiting
  <2> QED  BY <1>1, <2>1, <2>3, SettledDoc
<1>8. CASE Begin(w) \/ Superseded(w) \/ Chunk(w) \/ RemoveFile(w) \/ Abort(w)
  <2>1. doc' = doc /\ chunks' = chunks /\ vectors' = vectors
    BY <1>8 DEF Begin, Superseded, Chunk, RemoveFile, Abort, rows
  <2> QED  BY <1>1, <2>1, SameDoc
<1> QED  BY <1>3, <1>4, <1>5, <1>6, <1>7, <1>8 DEF Execute

LEMMA NextDoc ==
    ASSUME ~ConnectionsDrop, IngestionInv, [Next]_vars, NEW d \in Docs, Numbered(d)
    PROVE  DocStep(d)
<1>1. Base /\ TypeOK /\ ExecutionInv /\ Stores(d)
  BY StoresInvParts DEF IngestionInv, Base
<1>2. ASSUME doc'[d] = doc[d], chunks'[d] = chunks[d], vectors'[d] = vectors[d]
      PROVE  DocStep(d)
  BY <1>1, <1>2, SameDoc
<1>3. ASSUME NEW e \in Docs, Request(e)  PROVE DocStep(d)
  <2>1. CASE e = d
    BY <1>1, <1>3, <2>1, RequestDoc
  <2>2. CASE e # d
    BY <1>1, <1>2, <1>3, <2>2 DEF Request, Upload, UploadKilled, Reindex, Delete, Enqueue,
       rows, TypeOK
  <2> QED  BY <2>1, <2>2
<1>4. ASSUME NEW w \in Workers, NEW e \in Docs, Claim(w, e) \/ DeadLetter(w, e)
      PROVE  DocStep(d)
  <2>1. CASE e = d
    BY <1>1, <1>4, <2>1, ClaimDoc
  <2>2. CASE e # d
    BY <1>1, <1>2, <1>4, <2>2 DEF Claim, TakeJob, DeadLetter, TypeOK
  <2> QED  BY <2>1, <2>2
<1>5. ASSUME NEW w \in Workers, Execute(w)  PROVE DocStep(d)
  <2>1. PICK e \in Docs : e = worker[w].doc
    BY <1>1, <1>5, ExecutingDoc
  <2>2. CASE e = d
    BY <1>1, <1>5, <2>1, <2>2, ExecuteDoc
  <2>3. CASE e # d
    BY <1>1, <1>2, <1>5, <2>1, <2>3, ExecuteFrame
  <2> QED  BY <2>2, <2>3
<1>6. CASE UNCHANGED <<doc, chunks, vectors>>
  BY <1>2, <1>6
<1> QED
  BY <1>3, <1>4, <1>5, <1>6
     DEF Next, UploadCleanup, TimePasses, Crash, DropConnection, rows, vars
-----------------------------------------------------------------------------
(* The invariant under the steps of the queue *)

LEMMA PublishedStep ==
    ASSUME NEW d \in Docs, TypeOK, TypeOK', DocStep(d), NEW g \in Nat, Published(d, g)
    PROVE  Published(d, g)'
<1>1. doc[d].gen \in Nat /\ doc'[d].gen \in Nat
  BY DEF TypeOK, DocRow
<1> QED  BY <1>1 DEF Published, DocStep, Waiting

LEMMA UntouchedStep ==
    ASSUME NEW d \in Docs, TypeOK, TypeOK', DocStep(d), NEW g \in Nat, g # 0, Published(d, g),
           Untouched(d, g)'
    PROVE  Untouched(d, g) /\ chunks'[d] = chunks[d]
<1>1. doc[d].gen \in Nat /\ doc'[d].gen \in Nat
  BY DEF TypeOK, DocRow
<1> QED  BY <1>1 DEF Published, Untouched, DocStep, Waiting

\* The types of what Serving adds.
LEMMA ServingTypes ==
    ASSUME ServingTypeOK
    PROVE  /\ TypeOK /\ search \in [Searches -> Search]
           /\ other \in [Docs -> SUBSET ChunkIds] /\ rebuild \in Rebuild
           /\ \A s \in Searches : search[s] \in Search
           /\ \A s \in Searches, d \in Docs : search[s].listed[d] \in Nat
           /\ \A d \in Docs : rebuild.loaded[d] \in Nat
           /\ vectors \in [Docs -> SUBSET ChunkIds]
           /\ chunks \in [Docs -> SUBSET ChunkIds]
           /\ doc \in [Docs -> DocRow] /\ \A d \in Docs : doc[d].gen \in 0..MaxGen
BY DEF ServingTypeOK, Search, Rebuild, TypeOK, DocRow

LEMMA WriteServing ==
    ASSUME ~ConnectionsDrop, ServingInv, ~WritersStopped, [Next]_vars,
           UNCHANGED <<search, other, rebuild>>
    PROVE  ServingInv'
<1>1. /\ IngestionInv /\ ServingTypeOK /\ ListsInv /\ UntouchedIsExact /\ NeverOlder
      /\ FillInv /\ QuietInv
  BY DEF ServingInv
<1>2. IngestionInv'
  BY <1>1, NextIngestionInv
<1>3. TypeOK /\ TypeOK'
  BY <1>1, <1>2 DEF IngestionInv
<1>4. ServingTypeOK'
  BY <1>1, <1>3 DEF ServingTypeOK
<1>5. \A d \in Docs : DocStep(d)
  BY <1>1, NextDoc DEF ListsInv, Numbered
<1>6. /\ \A s \in Searches, d \in Docs : search[s].listed[d] \in Nat
      /\ \A d \in Docs : rebuild.loaded[d] \in Nat
  BY <1>1, ServingTypes
<1>7. ListsInv'
  <2>1. \A d \in Docs : doc'[d].status # "ABSENT" => doc'[d].gen # 0
    BY <1>5 DEF DocStep
  <2>2. ASSUME NEW s \in Searches, NEW d \in Docs, search[s].listed[d] # 0
        PROVE  /\ Published(d, search[s].listed[d])'
               /\ \A c \in vectors'[d] : c[1] >= search[s].listed[d]
    <3>1. PICK g \in Nat : g = search[s].listed[d]
      BY <1>6
    <3>2. Published(d, g) /\ \A c \in vectors[d] : c[1] >= g
      BY <1>1, <2>2, <3>1 DEF ListsInv
    <3>3. Published(d, g)'
      BY <1>3, <1>5, <3>2, PublishedStep
    <3>4. doc[d].gen >= g
      BY <1>3, <3>2 DEF Published, TypeOK, DocRow
    <3>5. \A c \in vectors'[d] : c[1] >= g
      BY <1>5, <3>2, <3>4 DEF DocStep
    <3> QED  BY <3>1, <3>3, <3>5 DEF Published
  <2>3. ASSUME NEW d \in Docs, rebuild.loaded[d] # 0
        PROVE  Published(d, rebuild.loaded[d])'
    <3>1. PICK g \in Nat : g = rebuild.loaded[d]
      BY <1>6
    <3>2. Published(d, g)'
      BY <1>1, <1>3, <1>5, <2>3, <3>1, PublishedStep DEF ListsInv
    <3> QED  BY <3>1, <3>2 DEF Published
  <2> QED  BY <2>1, <2>2, <2>3 DEF ListsInv
<1>8. UntouchedIsExact'
  <2> SUFFICES ASSUME NEW s \in Searches, NEW d \in Docs, search[s].pc = "answering",
                      Untouched(d, search[s].listed[d])'
               PROVE  /\ HitsOf(s, d) \subseteq chunks'[d]
                      /\ Cardinality(search[s].hits) < MaxHits => HitsOf(s, d) = chunks'[d]
    BY DEF UntouchedIsExact, HitsOf
  <2>1. PICK g \in Nat : g = search[s].listed[d]
    BY <1>6
  <2>2. Untouched(d, g)' /\ g # 0
    BY <2>1 DEF Untouched
  <2>3. Untouched(d, g) /\ chunks'[d] = chunks[d]
    BY <1>1, <1>3, <1>5, <2>1, <2>2, UntouchedStep DEF ListsInv
  <2> QED  BY <1>1, <2>1, <2>3 DEF UntouchedIsExact
<1>9. NeverOlder'
  BY <1>1 DEF NeverOlder
<1>10. FillInv'
  <2> SUFFICES ASSUME rebuild.pc \in {"filling", "filled", "verified"}
               PROVE  \E S \in SUBSET (Docs \X ChunkIds) : Snapshot(S)'
    BY DEF FillInv
  <2>1. PICK S \in SUBSET (Docs \X ChunkIds) : Snapshot(S)
    BY <1>1 DEF FillInv
  <2>2. ASSUME NEW d \in Docs, Untouched(d, rebuild.loaded[d])'
        PROVE  \A c \in ChunkIds : <<d, c>> \in S <=> c \in chunks'[d]
    <3>1. PICK g \in Nat : g = rebuild.loaded[d]
      BY <1>6
    <3>2. Untouched(d, g)' /\ g # 0
      BY <2>2, <3>1 DEF Untouched
    <3>3. Untouched(d, g) /\ chunks'[d] = chunks[d]
      BY <1>1, <1>3, <1>5, <3>1, <3>2, UntouchedStep DEF ListsInv
    <3> QED  BY <2>1, <3>1, <3>3 DEF Snapshot
  <2>3. Snapshot(S)'
    BY <2>1, <2>2 DEF Snapshot, Points
  <2> QED  BY <2>3
<1>11. QuietInv'
  <2>1. ~WritersStopped'
    BY DEF WritersStopped
  <2>2. rebuild.pc # "switched"
    BY <1>1 DEF QuietInv, WritersStopped
  <2> QED  BY <2>1, <2>2 DEF QuietInv
<1> QED  BY <1>2, <1>4, <1>7, <1>8, <1>9, <1>10, <1>11 DEF ServingInv
-----------------------------------------------------------------------------
(* The invariant under the steps of a search *)

\* What a step that leaves the queue and the rebuild alone does not disturb.
LEMMA RebuildKept ==
    ASSUME ~ConnectionsDrop, ServingInv, UNCHANGED <<vars, other, rebuild>>
    PROVE  /\ IngestionInv' /\ FillInv' /\ QuietInv'
           /\ search' \in [Searches -> Search] => ServingTypeOK'
<1>1. IngestionInv /\ ServingTypeOK /\ FillInv /\ QuietInv
  BY DEF ServingInv
<1>2. IngestionInv'
  BY <1>1, NextIngestionInv
<1>3. FillInv'
  BY <1>1 DEF FillInv, Snapshot, Untouched, Points, vars
<1>4. QuietInv'
  BY <1>1 DEF QuietInv, WritersStopped, GenIf, ReadyDocs, Points, vars
<1>5. search' \in [Searches -> Search] => ServingTypeOK'
  BY <1>1, <1>2 DEF ServingTypeOK, IngestionInv
<1> QED  BY <1>2, <1>3, <1>4, <1>5

\* One search moves on: its list and its hits are as they should be.
LEMMA SearchMoves ==
    ASSUME ~ConnectionsDrop, ServingInv, UNCHANGED <<vars, other, rebuild>>,
           NEW s \in Searches, NEW now \in Search, search' = [search EXCEPT ![s] = now],
           \A d \in Docs : now.listed[d] # 0 =>
              /\ Published(d, now.listed[d])
              /\ \A c \in vectors[d] : c[1] >= now.listed[d],
           \A p \in now.hits : now.listed[p[1]] # 0 /\ p[2][1] >= now.listed[p[1]],
           \A d \in Docs : now.pc = "answering" /\ Untouched(d, now.listed[d]) =>
              LET mine == {p[2] : p \in {q \in now.hits : q[1] = d}} IN
              /\ mine \subseteq chunks[d]
              /\ Cardinality(now.hits) < MaxHits => mine = chunks[d]
    PROVE  ServingInv'
<1>1. ServingTypeOK /\ ListsInv /\ UntouchedIsExact /\ NeverOlder
  BY DEF ServingInv
<1>2. /\ search' \in [Searches -> Search] /\ search'[s] = now
      /\ \A t \in Searches : t # s => search'[t] = search[t]
  BY <1>1, ServingTypes
<1>3. ListsInv'
  BY <1>1, <1>2 DEF ListsInv, Published, vars
<1>4. NeverOlder'
  BY <1>1, <1>2 DEF NeverOlder
<1>5. UntouchedIsExact'
  <2> SUFFICES ASSUME NEW t \in Searches, NEW d \in Docs, search'[t].pc = "answering",
                      Untouched(d, search'[t].listed[d])
               PROVE  /\ HitsOf(t, d)' \subseteq chunks[d]
                      /\ Cardinality(search'[t].hits) < MaxHits => HitsOf(t, d)' = chunks[d]
    BY DEF UntouchedIsExact, Untouched, vars
  <2>1. CASE t = s
    BY <1>2, <2>1 DEF HitsOf
  <2>2. CASE t # s
    BY <1>1, <1>2, <2>2 DEF UntouchedIsExact, HitsOf
  <2> QED  BY <2>1, <2>2
<1> QED  BY <1>2, <1>3, <1>4, <1>5, RebuildKept DEF ServingInv

LEMMA SearchEnds ==
    ASSUME ~ConnectionsDrop, ServingInv, NEW s \in Searches, Answer(s) \/ SearchFails(s)
    PROVE  ServingInv'
<1>1. NoSearch \in Search
  BY DEF NoSearch, Search
<1>2. search' = [search EXCEPT ![s] = NoSearch] /\ UNCHANGED <<vars, other, rebuild>>
  BY DEF Answer, SearchFails
<1>3. /\ \A d \in Docs : NoSearch.listed[d] = 0
      /\ NoSearch.hits = {} /\ NoSearch.pc # "answering"
  BY DEF NoSearch
<1> QED  BY <1>1, <1>2, <1>3, SearchMoves

\* The generations on a list are those the documents have now.
LEMMA ListedGenerations ==
    ASSUME ServingInv, NEW asked \in SUBSET ReadyDocs
    PROVE  /\ GenIf(asked) \in [Docs -> 0..MaxGen]
           /\ \A d \in Docs : GenIf(asked)[d] # 0 <=> d \in asked
           /\ \A d \in Docs : GenIf(asked)[d] # 0 =>
                 /\ GenIf(asked)[d] = doc[d].gen /\ doc[d].status = "READY"
                 /\ Published(d, GenIf(asked)[d])
                 /\ \A c \in vectors[d] : c[1] >= GenIf(asked)[d]
<1>1. /\ \A d \in Docs : doc[d].gen \in 0..MaxGen
      /\ \A d \in Docs : doc[d].status # "ABSENT" => doc[d].gen # 0
  BY ServingTypes DEF ServingInv, ListsInv
<1>2. \A d \in asked : d \in Docs /\ doc[d].status = "READY"
  BY DEF ReadyDocs
<1>3. ASSUME NEW d \in asked
      PROVE  Published(d, doc[d].gen) /\ \A c \in vectors[d] : c[1] >= doc[d].gen
  <2>1. doc[d].status = "READY" /\ d \in Docs /\ doc[d].gen \in Nat
    BY <1>1, <1>2, <1>3
  <2>2. Complete(chunks[d], doc[d].gen) /\ vectors[d] = chunks[d]
    BY <2>1 DEF ServingInv, IngestionInv, StoresInv
  <2> QED  BY <2>1, <2>2 DEF Published, Complete
<1> QED  BY <1>1, <1>2, <1>3 DEF GenIf

LEMMA SearchBegins ==
    ASSUME ~ConnectionsDrop, ServingInv, NEW s \in Searches, BeginSearch(s)
    PROVE  ServingInv'
<1>1. PICK asked \in SUBSET ReadyDocs :
          search' = [search EXCEPT ![s] =
               [pc |-> IF asked = {} THEN "answering" ELSE "embedding",
                listed |-> GenIf(asked), hits |-> {}]]
  BY DEF BeginSearch
<1> DEFINE begun == [pc |-> IF asked = {} THEN "answering" ELSE "embedding",
                     listed |-> GenIf(asked), hits |-> {}]
<1>2. begun \in Search
  BY ListedGenerations DEF Search
<1>3. begun.pc = "answering" => \A d \in Docs : ~Untouched(d, begun.listed[d])
  BY ListedGenerations DEF Untouched
<1>4. \A d \in Docs : begun.listed[d] # 0 =>
          /\ Published(d, begun.listed[d])
          /\ \A c \in vectors[d] : c[1] >= begun.listed[d]
  BY ListedGenerations
<1>5. UNCHANGED <<vars, other, rebuild>> /\ begun.hits = {}
  BY DEF BeginSearch
<1>6. search' = [search EXCEPT ![s] = begun]
  BY <1>1
<1> HIDE DEF begun
<1> QED  BY <1>2, <1>3, <1>4, <1>5, <1>6, SearchMoves

LEMMA SearchFinds ==
    ASSUME ~ConnectionsDrop, ServingInv, NEW s \in Searches, Find(s)
    PROVE  ServingInv'
<1> DEFINE found == {p \in Docs \X ChunkIds : p[1] \in Matches(s) /\ p[2] \in vectors[p[1]]}
<1>1. PICK best \in SUBSET found :
          /\ Cardinality(best) <= MaxHits
          /\ best = found \/ Cardinality(best) = MaxHits
          /\ search' = [search EXCEPT ![s] =
                [pc |-> "answering", listed |-> @.listed, hits |-> best]]
  BY DEF Find
<1> DEFINE answer == [pc |-> "answering", listed |-> search[s].listed, hits |-> best]
<1>2. search[s] \in Search /\ search \in [Searches -> Search]
  BY ServingTypes DEF ServingInv
<1>3. search' = [search EXCEPT ![s] = answer] /\ answer \in Search
  <2>1. best \in SUBSET (Docs \X ChunkIds)
    BY <1>1
  <2>2. answer \in Search
    BY <1>2, <2>1 DEF Search
  <2> QED  BY <1>1, <1>2, <2>2
<1>4. \A d \in Docs : answer.listed[d] # 0 =>
          /\ Published(d, answer.listed[d])
          /\ \A c \in vectors[d] : c[1] >= answer.listed[d]
  BY DEF ServingInv, ListsInv
<1>5. \A p \in answer.hits : answer.listed[p[1]] # 0 /\ p[2][1] >= answer.listed[p[1]]
  BY <1>1, <1>4 DEF Matches
<1>6. ASSUME NEW d \in Docs, Untouched(d, answer.listed[d])
      PROVE  LET mine == {p[2] : p \in {q \in answer.hits : q[1] = d}} IN
             /\ mine \subseteq chunks[d]
             /\ Cardinality(answer.hits) < MaxHits => mine = chunks[d]
  <2>1. vectors[d] = chunks[d] /\ chunks[d] \subseteq ChunkIds
    BY <1>6, ServingTypes DEF Untouched, ServingInv, IngestionInv, StoresInv
  <2>2. d \in Matches(s)
    BY <1>6 DEF Matches, Untouched
  <2>3. {p[2] : p \in {q \in best : q[1] = d}} \subseteq chunks[d]
    BY <1>1, <2>1
  <2>4. ASSUME Cardinality(best) < MaxHits, NEW c \in chunks[d]
        PROVE  c \in {p[2] : p \in {q \in best : q[1] = d}}
    <3>1. best = found
      BY <1>1, <2>4
    <3>2. <<d, c>> \in found
      BY <2>1, <2>2, <2>4
    <3> QED  BY <3>1, <3>2
  <2> QED  BY <2>3, <2>4
<1>7. UNCHANGED <<vars, other, rebuild>>
  BY DEF Find
<1> HIDE DEF answer
<1> QED  BY <1>3, <1>4, <1>5, <1>6, <1>7, SearchMoves
-----------------------------------------------------------------------------
(* The invariant under the steps of a rebuild *)

\* What a step that leaves the queue and the searches alone does not disturb.
LEMMA RebuildMoves ==
    ASSUME ~ConnectionsDrop, ServingInv, UNCHANGED <<vars, search>>,
           other' \in [Docs -> SUBSET ChunkIds], rebuild' \in Rebuild,
           \A d \in Docs : rebuild'.loaded[d] # 0 => Published(d, rebuild'.loaded[d]),
           FillInv', QuietInv'
    PROVE  ServingInv'
<1>1. IngestionInv /\ ServingTypeOK /\ ListsInv /\ UntouchedIsExact /\ NeverOlder
  BY DEF ServingInv
<1>2. IngestionInv'
  BY <1>1, NextIngestionInv
<1>3. ServingTypeOK'
  BY <1>1, <1>2 DEF ServingTypeOK, IngestionInv
<1>4. ListsInv'
  BY <1>1 DEF ListsInv, Published, vars
<1>5. UntouchedIsExact' /\ NeverOlder'
  BY <1>1 DEF UntouchedIsExact, NeverOlder, Untouched, HitsOf, vars
<1> QED  BY <1>2, <1>3, <1>4, <1>5 DEF ServingInv

LEMMA RebuildParts ==
    ASSUME ServingInv
    PROVE  /\ other \in [Docs -> SUBSET ChunkIds] /\ rebuild \in Rebuild
           /\ \A d \in Docs : rebuild.loaded[d] # 0 => Published(d, rebuild.loaded[d])
           /\ FillInv /\ QuietInv
BY ServingTypes DEF ServingInv, ListsInv

LEMMA RebuildEnds ==
    ASSUME ~ConnectionsDrop, ServingInv, UNCHANGED <<vars, search, other>>,
           rebuild' = NoRebuild
    PROVE  ServingInv'
<1>1. rebuild' \in Rebuild /\ \A d \in Docs : rebuild'.loaded[d] = 0
  BY DEF NoRebuild, Rebuild
<1>2. rebuild'.pc = "idle"
  BY DEF NoRebuild
<1>3. FillInv' /\ QuietInv'
  BY <1>2 DEF FillInv, QuietInv, WritersStopped
<1> QED  BY <1>1, <1>3, RebuildParts, RebuildMoves

LEMMA RebuildStarts ==
    ASSUME ~ConnectionsDrop, ServingInv, NEW quiet \in BOOLEAN, StartRebuild(quiet)
    PROVE  ServingInv'
<1>1. /\ rebuild' = [pc |-> "filling", quiet |-> quiet, rows |-> ReadyChunks,
                     expected |-> Cardinality(ReadyChunks), loaded |-> GenIf(ReadyDocs)]
      /\ quiet => \A w \in Workers : worker[w] = Idle
      /\ UNCHANGED <<vars, search, other>>
  BY DEF StartRebuild
<1>2. ReadyChunks \in SUBSET (Docs \X ChunkIds)
  BY PointsOf DEF ReadyChunks
<1>3. Cardinality(ReadyChunks) \in Nat
  BY <1>2, FinitelyManyPoints
<1>4. /\ GenIf(ReadyDocs) \in [Docs -> 0..MaxGen]
      /\ \A d \in Docs : GenIf(ReadyDocs)[d] # 0 <=> d \in ReadyDocs
      /\ \A d \in Docs : GenIf(ReadyDocs)[d] # 0 => Published(d, GenIf(ReadyDocs)[d])
  BY ListedGenerations
<1>5. rebuild' \in Rebuild
  BY <1>1, <1>2, <1>3, <1>4 DEF Rebuild
<1>6. Snapshot(ReadyChunks)'
  <2>1. \A p \in ReadyChunks : p[1] \in ReadyDocs /\ p[1] \in Docs
    BY PointsOf DEF ReadyChunks
  <2>2. \A d \in Docs : d \in ReadyDocs =>
            \A c \in ChunkIds : <<d, c>> \in ReadyChunks <=> c \in chunks[d]
    BY PointsOf DEF ReadyChunks
  <2>3. \A p \in ReadyChunks : rebuild'.loaded[p[1]] # 0
    BY <1>1, <1>4, <2>1
  <2>4. \A d \in Docs : Untouched(d, rebuild'.loaded[d]) =>
            \A c \in ChunkIds : <<d, c>> \in ReadyChunks <=> c \in chunks[d]
    BY <2>2 DEF Untouched, ReadyDocs
  <2>5. /\ rebuild'.rows = ReadyChunks /\ rebuild'.expected = Cardinality(ReadyChunks)
        /\ rebuild'.pc = "filling"
    BY <1>1
  <2>6. ReadyChunks' = ReadyChunks
    BY <1>1 DEF ReadyChunks, ReadyDocs, Points, vars
  <2>7. \A d \in Docs : Untouched(d, rebuild.loaded[d])' <=> Untouched(d, rebuild'.loaded[d])
    BY <1>1 DEF Untouched, vars
  <2>8. chunks' = chunks
    BY <1>1 DEF vars
  <2>9. /\ (Cardinality(ReadyChunks) = rebuild.expected)'
        /\ (rebuild.rows \subseteq ReadyChunks)'
        /\ (ReadyChunks \ rebuild.rows \subseteq Points(other))'
    BY <2>5, <2>6
  <2> QED  BY <2>3, <2>4, <2>5, <2>6, <2>7, <2>8, <2>9 DEF Snapshot
<1>7. FillInv'
  <2>1. ReadyChunks' \in SUBSET (Docs \X ChunkIds)
    BY <1>1, <1>2 DEF ReadyChunks, ReadyDocs, Points, vars
  <2> QED  BY <1>6, <2>1 DEF FillInv
<1>8. QuietInv'
  BY <1>1 DEF QuietInv, WritersStopped, GenIf, ReadyDocs, vars
<1>9. other' \in [Docs -> SUBSET ChunkIds]
  BY <1>1, RebuildParts
<1>10. \A d \in Docs : rebuild'.loaded[d] # 0 => Published(d, rebuild'.loaded[d])
  BY <1>1, <1>4
<1> QED  BY <1>1, <1>5, <1>7, <1>8, <1>9, <1>10, RebuildMoves

LEMMA BatchFilled ==
    ASSUME ~ConnectionsDrop, ServingInv, FillBatch
    PROVE  ServingInv'
<1>1. PICK batch \in SUBSET rebuild.rows :
          /\ other' = [d \in Docs |-> other[d] \union {p[2] : p \in {q \in batch : q[1] = d}}]
          /\ rebuild' = [rebuild EXCEPT !.rows = @ \ batch]
  BY DEF FillBatch
<1>2. rebuild.pc = "filling" /\ UNCHANGED <<vars, search>>
  BY DEF FillBatch
<1>3. /\ other \in [Docs -> SUBSET ChunkIds] /\ rebuild \in Rebuild /\ FillInv /\ QuietInv
      /\ \A d \in Docs : rebuild.loaded[d] # 0 => Published(d, rebuild.loaded[d])
  BY RebuildParts
<1>4. batch \in SUBSET (Docs \X ChunkIds)
  BY <1>1, <1>3 DEF Rebuild
<1>5. /\ rebuild' \in Rebuild /\ rebuild'.pc = "filling" /\ rebuild'.rows = rebuild.rows \ batch
      /\ rebuild'.expected = rebuild.expected /\ rebuild'.loaded = rebuild.loaded
      /\ rebuild'.quiet = rebuild.quiet
  BY <1>1, <1>2, <1>3 DEF Rebuild
<1>6. other' \in [Docs -> SUBSET ChunkIds]
  BY <1>1, <1>3, <1>4
<1>7. Points(other) \union batch \subseteq Points(other')
  BY <1>1, <1>3, <1>4 DEF Points
<1>8. FillInv'
  <2>1. PICK S \in SUBSET (Docs \X ChunkIds) : Snapshot(S)
    BY <1>2, <1>3 DEF FillInv
  <2>2. S \ rebuild'.rows \subseteq Points(other')
    BY <1>5, <1>7, <2>1 DEF Snapshot
  <2>3. \A d \in Docs : Untouched(d, rebuild.loaded[d])' <=> Untouched(d, rebuild.loaded[d])
    BY <1>2, <1>5 DEF Untouched, vars
  <2>4. Snapshot(S)'
    BY <1>2, <1>5, <2>1, <2>2, <2>3 DEF Snapshot, vars, Points
  <2> QED  BY <2>4 DEF FillInv
<1>9. QuietInv'
  BY <1>2, <1>3, <1>5 DEF QuietInv, WritersStopped, GenIf, ReadyDocs, vars
<1> QED  BY <1>2, <1>3, <1>5, <1>6, <1>8, <1>9, RebuildMoves

\* Everything is written and as much is there as should be: nothing else is.
LEMMA FillVerified ==
    ASSUME ~ConnectionsDrop, ServingInv, VerifyFill \/ VerifyOnly
    PROVE  ServingInv'
<1>1. UNCHANGED <<vars, search, other>>
  BY DEF VerifyFill, VerifyOnly
<1>2. CASE rebuild' = NoRebuild
  BY <1>1, <1>2, RebuildEnds
<1>3. CASE rebuild' # NoRebuild
  <2>1. PICK pc \in {"filled", "verified"} : rebuild' = [rebuild EXCEPT !.pc = pc]
    BY <1>3 DEF VerifyFill, VerifyOnly
  <2>2. /\ other \in [Docs -> SUBSET ChunkIds] /\ rebuild \in Rebuild /\ FillInv /\ QuietInv
        /\ \A d \in Docs : rebuild.loaded[d] # 0 => Published(d, rebuild.loaded[d])
    BY RebuildParts
  <2>3. /\ rebuild' \in Rebuild /\ rebuild'.pc = pc /\ rebuild'.rows = rebuild.rows
        /\ rebuild'.expected = rebuild.expected /\ rebuild'.loaded = rebuild.loaded
        /\ rebuild'.quiet = rebuild.quiet
    BY <2>1, <2>2 DEF Rebuild
  <2>4. PICK S \in SUBSET (Docs \X ChunkIds) : Snapshot(S)
    BY <2>2 DEF FillInv, VerifyFill, VerifyOnly
  <2>5. S = Points(other) /\ rebuild.rows = {}
    <3>1. CASE VerifyOnly
      BY <2>4, <3>1 DEF VerifyOnly, Snapshot
    <3>2. CASE VerifyFill
      <4>1. rebuild.rows = {} /\ Cardinality(Points(other)) = rebuild.expected
        BY <1>3, <3>2 DEF VerifyFill, CountsMatch
      <4>2. S \subseteq Points(other) /\ Cardinality(S) = Cardinality(Points(other))
        BY <2>4, <4>1 DEF Snapshot
      <4> QED  BY <4>1, <4>2, CountedPoints, PointsOf
    <3> QED  BY <3>1, <3>2
  <2>6. \A d \in Docs : Untouched(d, rebuild.loaded[d])' <=> Untouched(d, rebuild.loaded[d])
    BY <1>1, <2>3 DEF Untouched, vars
  <2>7. Snapshot(S)'
    BY <1>1, <2>3, <2>4, <2>5, <2>6 DEF Snapshot, vars, Points
  <2>8. FillInv'
    BY <2>7 DEF FillInv
  <2>9. QuietInv'
    <3>1. WritersStopped' <=> WritersStopped
      BY <2>3 DEF WritersStopped, VerifyFill, VerifyOnly
    <3>2. rebuild'.pc # "switched"
      BY <2>3
    <3> QED  BY <1>1, <2>2, <2>3, <3>1, <3>2 DEF QuietInv, GenIf, ReadyDocs, vars
  <2> QED  BY <1>1, <2>2, <2>3, <2>8, <2>9, RebuildMoves
<1> QED  BY <1>2, <1>3
-----------------------------------------------------------------------------
(* The switch between the collections *)

\* What a checked rebuild holds.
LEMMA CheckedRebuild ==
    ASSUME ServingInv, rebuild.pc \in {"filled", "verified"}
    PROVE  /\ VerifiedIsExact
           /\ rebuild.rows = {} /\ Cardinality(Points(other)) = rebuild.expected
<1>1. PICK S \in SUBSET (Docs \X ChunkIds) : Snapshot(S)
  BY DEF ServingInv, FillInv
<1>2. /\ S = Points(other) /\ rebuild.rows = {} /\ Cardinality(S) = rebuild.expected
      /\ \A p \in S : rebuild.loaded[p[1]] # 0
  BY <1>1 DEF Snapshot
<1>3. /\ \A d \in Docs : other[d] \subseteq ChunkIds /\ chunks[d] \subseteq ChunkIds
  BY ServingTypes DEF ServingInv
<1>4. ASSUME NEW d \in Docs, Untouched(d, rebuild.loaded[d])
      PROVE  other[d] = chunks[d]
  <2>1. \A c \in ChunkIds : <<d, c>> \in S <=> c \in chunks[d]
    BY <1>1, <1>4 DEF Snapshot
  <2>2. \A c \in ChunkIds : <<d, c>> \in S <=> c \in other[d]
    BY <1>2, PointsOf
  <2> QED  BY <1>3, <2>1, <2>2
<1>5. ASSUME rebuild.quiet, NEW d \in Docs, d \notin ReadyDocs
      PROVE  other[d] = {}
  <2>1. rebuild.loaded[d] = 0
    BY <1>5 DEF ServingInv, QuietInv, WritersStopped, GenIf
  <2>2. \A c \in ChunkIds : <<d, c>> \notin S
    BY <1>2, <2>1
  <2> QED  BY <1>2, <1>3, <2>2, PointsOf
<1> QED  BY <1>2, <1>4, <1>5 DEF VerifiedIsExact

\* Another collection that holds what it must does not disturb the queue.
LEMMA SwitchIngestion ==
    ASSUME IngestionInv, \A w \in Workers : worker[w] = Idle,
           other \in [Docs -> SUBSET ChunkIds], vectors' = other,
           \A d \in Docs : doc[d].status = "READY" => other[d] = chunks[d],
           \A d \in Docs : source[d] = "DELETED" => other[d] = {},
           UNCHANGED <<rows, chunks, file, lock, worker>>
    PROVE  IngestionInv'
<1>1. TypeOK /\ RowsAgree /\ LockInv /\ StoresInv
  BY DEF IngestionInv
<1>2. UNCHANGED <<doc, job, source, chunks, file, lock, worker>>
  BY DEF rows
<1>3. TypeOK'
  BY <1>1, <1>2 DEF TypeOK
<1>4. RowsAgree' /\ LockInv'
  BY <1>1, <1>2 DEF RowsAgree, LockInv, Current
<1>5. ExecutionInv'
  BY <1>2 DEF ExecutionInv, Idle, Running
<1>6. StoresInv'
  BY <1>1, <1>2 DEF StoresInv, Complete
<1> QED  BY <1>3, <1>4, <1>5, <1>6 DEF IngestionInv

LEMMA SwitchServing ==
    ASSUME ServingInv, NEW pc \in {"verified", "switched"}, Switch(pc),
           \A w \in Workers : worker[w] = Idle, rebuild.quiet,
           rebuild.loaded = GenIf(ReadyDocs),
           \A d \in Docs : doc[d].status = "READY" => other[d] = chunks[d],
           \A d \in Docs : source[d] = "DELETED" => other[d] = {},
           pc = "verified" => rebuild.pc = "switched",
           pc = "switched" => rebuild.pc = "verified"
    PROVE  ServingInv'
<1>1. /\ vectors' = other /\ other' = vectors
      /\ rebuild' = [rebuild EXCEPT !.pc = pc]
      /\ search' = [s \in Searches |-> NoSearch]
      /\ UNCHANGED <<doc, job, source, chunks, file, lock, worker>>
  BY DEF Switch, rows
<1>2. /\ IngestionInv /\ ServingTypeOK /\ ListsInv /\ FillInv /\ QuietInv /\ StoresInv
      /\ \A d \in Docs : rebuild.loaded[d] # 0 => Published(d, rebuild.loaded[d])
  BY DEF ServingInv, IngestionInv, ListsInv
<1>3. /\ other \in [Docs -> SUBSET ChunkIds] /\ vectors \in [Docs -> SUBSET ChunkIds]
      /\ rebuild \in Rebuild /\ \A d \in Docs : chunks[d] \subseteq ChunkIds
  BY <1>2, ServingTypes
<1>4. IngestionInv'
  BY <1>1, <1>2, <1>3, SwitchIngestion DEF rows
<1>5. /\ rebuild' \in Rebuild /\ rebuild'.pc = pc /\ rebuild'.rows = rebuild.rows
      /\ rebuild'.expected = rebuild.expected /\ rebuild'.loaded = rebuild.loaded
      /\ rebuild'.quiet
  BY <1>1, <1>3 DEF Rebuild
<1>6. /\ \A s \in Searches : search'[s] = NoSearch
      /\ search' \in [Searches -> Search]
  BY <1>1 DEF NoSearch, Search
<1>7. ServingTypeOK'
  BY <1>1, <1>3, <1>4, <1>5, <1>6 DEF ServingTypeOK, IngestionInv
<1>8. ListsInv'
  BY <1>1, <1>2, <1>5, <1>6 DEF ListsInv, Published, NoSearch
<1>9. UntouchedIsExact' /\ NeverOlder'
  BY <1>6 DEF UntouchedIsExact, NeverOlder, NoSearch
<1>10. QuietInv'
  <2>1. rebuild'.loaded = GenIf(ReadyDocs)'
    BY <1>1, <1>5 DEF GenIf, ReadyDocs
  <2>2. ASSUME pc = "switched"
        PROVE  /\ rebuild'.rows = {} /\ Cardinality(Points(vectors')) = rebuild'.expected
               /\ \A d \in Docs : doc'[d].status # "READY" => vectors'[d] = {}
               /\ \A d \in Docs : doc'[d].status = "READY" => other'[d] = chunks'[d]
               /\ \A d \in Docs : source'[d] = "DELETED" => other'[d] = {}
    <3>1. rebuild.pc = "verified"
      BY <2>2
    <3>2. rebuild.rows = {} /\ Cardinality(Points(other)) = rebuild.expected
      BY <3>1, CheckedRebuild
    <3>3. \A d \in Docs : doc[d].status # "READY" => other[d] = {}
      BY <3>1, CheckedRebuild DEF VerifiedIsExact, ReadyDocs
    <3>4. \A d \in Docs : /\ doc[d].status = "READY" => vectors[d] = chunks[d]
                          /\ source[d] = "DELETED" => vectors[d] = {}
      BY <1>2 DEF StoresInv
    <3> QED  BY <1>1, <1>5, <3>2, <3>3, <3>4
  <2>3. (Points(vectors))' = Points(vectors')
    BY DEF Points
  <2> QED  BY <1>1, <1>5, <2>1, <2>2, <2>3 DEF QuietInv
<1>11. FillInv'
  <2> SUFFICES ASSUME pc = "verified"  PROVE Snapshot(Points(other))'
    BY <1>1, <1>3, <1>5, PointsOf DEF FillInv
  <2>1. /\ rebuild.rows = {} /\ Cardinality(Points(vectors)) = rebuild.expected
        /\ \A d \in Docs : doc[d].status # "READY" => vectors[d] = {}
    BY <1>2 DEF QuietInv
  <2>2. \A p \in Points(vectors) : rebuild.loaded[p[1]] # 0
    <3> SUFFICES ASSUME NEW p \in Points(vectors)  PROVE rebuild.loaded[p[1]] # 0
      OBVIOUS
    <3>1. p[1] \in Docs /\ p[2] \in vectors[p[1]]
      BY PointsOf
    <3>2. doc[p[1]].status = "READY"
      BY <2>1, <3>1
    <3> QED  BY <1>2, <3>1, <3>2 DEF GenIf, ReadyDocs, ListsInv
  <2>3. \A d \in Docs : doc[d].status = "READY" =>
            \A c \in ChunkIds : <<d, c>> \in Points(vectors) <=> c \in chunks[d]
    BY <1>2, PointsOf DEF StoresInv
  <2>4. \A d \in Docs : Untouched(d, rebuild.loaded[d])' => doc[d].status = "READY"
    BY <1>1 DEF Untouched
  <2>5. Points(other)' = Points(vectors)
    BY <1>1 DEF Points
  <2> QED  BY <1>1, <1>5, <2>1, <2>2, <2>3, <2>4, <2>5 DEF Snapshot
<1> QED  BY <1>4, <1>7, <1>8, <1>9, <1>10, <1>11 DEF ServingInv

LEMMA Switches ==
    ASSUME Quiesced, ServingInv, Cutover \/ Rollback
    PROVE  ServingInv'
<1>1. QuietInv /\ RowsAgree
  BY DEF ServingInv, IngestionInv
<1>2. rebuild.quiet /\ WritersStopped
  BY <1>1 DEF Cutover, Rollback, QuietInv, WritersStopped
<1>3. (\A w \in Workers : worker[w] = Idle) /\ rebuild.loaded = GenIf(ReadyDocs)
  BY <1>1, <1>2 DEF QuietInv
<1>4. CASE Cutover
  <2>1. rebuild.pc = "verified" /\ Switch("switched")
    BY <1>4 DEF Cutover
  <2>2. \A d \in Docs : doc[d].status = "READY" => other[d] = chunks[d]
    <3> SUFFICES ASSUME NEW d \in Docs, doc[d].status = "READY"  PROVE other[d] = chunks[d]
      OBVIOUS
    <3>1. rebuild.loaded[d] = doc[d].gen /\ doc[d].gen # 0
      BY <1>3 DEF GenIf, ReadyDocs, ServingInv, ListsInv
    <3> QED  BY <2>1, <3>1, CheckedRebuild DEF VerifiedIsExact, Untouched
  <2>3. \A d \in Docs : source[d] = "DELETED" => other[d] = {}
    BY <1>1, <1>2, <2>1, CheckedRebuild
       DEF VerifiedIsExact, ReadyDocs, RowsAgree, AgreeingRows
  <2> QED  BY <1>2, <1>3, <2>1, <2>2, <2>3, SwitchServing
<1>5. CASE Rollback
  <2>1. rebuild.pc = "switched" /\ Switch("verified")
    BY <1>5 DEF Rollback
  <2> QED  BY <1>1, <1>2, <1>3, <2>1, SwitchServing DEF QuietInv
<1> QED  BY <1>4, <1>5
-----------------------------------------------------------------------------
(* The theorems *)

LEMMA InitServing == ServingInit => ServingInv
<1> SUFFICES ASSUME ServingInit  PROVE ServingInv
  OBVIOUS
<1>1. /\ Init /\ \A s \in Searches : search[s] = NoSearch
      /\ search \in [Searches -> Search] /\ other = [d \in Docs |-> {}]
      /\ rebuild = NoRebuild /\ \A d \in Docs : doc[d].status = "ABSENT"
  BY DEF ServingInit, Init, NoSearch, Search
<1>2. IngestionInv
  BY <1>1, InitTypeOK, InitRows, InitStores DEF IngestionInv
<1>3. ServingTypeOK
  BY <1>1, <1>2 DEF ServingTypeOK, IngestionInv, NoRebuild, Rebuild
<1>4. ListsInv /\ UntouchedIsExact /\ NeverOlder
  BY <1>1 DEF ListsInv, UntouchedIsExact, NeverOlder, NoSearch, NoRebuild
<1>5. FillInv /\ QuietInv
  BY <1>1 DEF FillInv, QuietInv, WritersStopped, NoRebuild
<1> QED  BY <1>2, <1>3, <1>4, <1>5 DEF ServingInv

LEMMA StutterServing ==
    ASSUME ~ConnectionsDrop, ServingInv, UNCHANGED servingVars
    PROVE  ServingInv'
<1>1. UNCHANGED <<vars, search, other, rebuild>>
  BY DEF servingVars
<1>2. FillInv' /\ QuietInv' /\ IngestionInv'
  BY <1>1, RebuildKept
<1> QED  BY <1>1, <1>2, RebuildParts, RebuildMoves

\* Every step of the queue, of a search and of a rebuild keeps the invariant.
LEMMA ServingInductive ==
    ASSUME ~ConnectionsDrop, Quiesced
    PROVE  ServingSpec => []ServingInv
<1>1. ServingInv /\ [ServingNext]_servingVars => ServingInv'
  <2> SUFFICES ASSUME ServingInv, [ServingNext]_servingVars  PROVE ServingInv'
    OBVIOUS
  <2>1. CASE Write
    BY <2>1, WriteServing DEF Write
  <2>2. ASSUME NEW s \in Searches, BeginSearch(s) \/ Find(s) \/ Answer(s) \/ SearchFails(s)
        PROVE  ServingInv'
    BY <2>2, SearchBegins, SearchFinds, SearchEnds
  <2>3. ASSUME NEW quiet \in BOOLEAN, StartRebuild(quiet)  PROVE ServingInv'
    BY <2>3, RebuildStarts
  <2>4. CASE FillBatch
    BY <2>4, BatchFilled
  <2>5. CASE VerifyFill \/ VerifyOnly
    BY <2>5, FillVerified
  <2>6. CASE RebuildFails \/ Reopen
    BY <2>6, RebuildEnds DEF RebuildFails, Reopen
  <2>7. CASE Cutover \/ Rollback
    BY <2>7, Switches
  <2>8. CASE UNCHANGED servingVars
    BY <2>8, StutterServing
  <2> QED  BY <2>1, <2>2, <2>3, <2>4, <2>5, <2>6, <2>7, <2>8 DEF ServingNext
<1> QED  BY <1>1, InitServing, PTL DEF ServingSpec

\* Lists, hits, points and what the script keeps are well formed.
THEOREM ServingTypeCorrect ==
    ASSUME ~ConnectionsDrop, Quiesced
    PROVE  ServingSpec => []ServingTypeOK
BY ServingInductive, PTL DEF ServingInv

\* What a search returns of a document that nobody touched since the list was read
\* is exactly that document's chunks, as far as the limit goes.
THEOREM SearchesAreExact ==
    ASSUME ~ConnectionsDrop, Quiesced
    PROVE  ServingSpec => []UntouchedIsExact
BY ServingInductive, PTL DEF ServingInv

\* A search returns nothing that was not listed, and nothing older than its list.
THEOREM SearchesNeverOlder ==
    ASSUME ~ConnectionsDrop, Quiesced
    PROVE  ServingSpec => []NeverOlder
BY ServingInductive, PTL DEF ServingInv

\* A rebuild whose counts agree holds what it should, whatever was in the target.
THEOREM RebuildIsExact ==
    ASSUME ~ConnectionsDrop, Quiesced
    PROVE  ServingSpec => []VerifiedIsExact
<1>1. ServingInv => VerifiedIsExact
  <2>1. rebuild.pc \notin {"filled", "verified"} => VerifiedIsExact
    BY DEF VerifiedIsExact
  <2> QED  BY <2>1, CheckedRebuild
<1> QED  BY <1>1, ServingInductive, PTL

\* The index in use is right at every moment, also after cutover and rollback, where
\* writers are stopped for as long as two collections can be chosen.
THEOREM ServedIndexIsExact ==
    ASSUME ~ConnectionsDrop, Quiesced
    PROVE  ServingSpec => []ReadyIsIndexed
<1>1. IngestionInv => ReadyIsIndexed
  BY IndexedByInv
<1>2. ServingInv => IngestionInv
  BY DEF ServingInv
<1> QED  BY <1>1, <1>2, ServingInductive, PTL
=============================================================================
