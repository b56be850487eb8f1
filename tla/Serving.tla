------------------------------ MODULE Serving ------------------------------
(***************************************************************************)
(* What readers get while the queue of Ingestion works: a search           *)
(* (api/documents.py, retrieval_service.py, query_service.py and the       *)
(* search of providers/vector/qdrant.py), and the rebuild of the index     *)
(* into a second collection followed by the switch to it                   *)
(* (scripts/reindex.py, dependencies.py).                                  *)
(*                                                                         *)
(* `vectors` of Ingestion is the collection the processes use, `other` the *)
(* one they do not.  A search is one action per store or provider it       *)
(* waits for, and holds no lock: it reads the list of READY documents      *)
(* first, and everything may change before it asks Qdrant.  Scores are     *)
(* data: any selection of the allowed size may be the best one.            *)
(*                                                                         *)
(* A definition whose comment begins with "Variant" is the next definition *)
(* with a slip in it: the runs show which property notices the slip.       *)
(***************************************************************************)
EXTENDS Ingestion

CONSTANTS
    Searches,   \* search or query requests in flight at the same time
    MaxHits,    \* the limit of a request
    BatchSize,  \* BATCH of reindex.py
    Quiesced,   \* do operators keep writers stopped from before a rebuild they will
                \* use until it is decided to keep it (docs/OPERATIONS.md:243)?
                \* reindex.py does not ask for it
    Overlap     \* bound: may a request be under way while the script runs?  They
                \* write nothing that the other reads.

ASSUME ServingAssumption ==
    /\ MaxHits \in Nat \ {0}
    /\ BatchSize \in Nat \ {0}
    /\ Quiesced \in BOOLEAN
    /\ Overlap \in BOOLEAN

VARIABLES
    search,   \* how far each request is, and what it has read
    other,    \* points in the collection that is not in use
    rebuild   \* the rebuild script and the operator who runs it

servingVars == <<vars, search, other, rebuild>>

NoSearch == [pc |-> "idle", listed |-> [d \in Docs |-> 0], hits |-> {}]
NoRebuild == [pc |-> "idle", quiet |-> FALSE, rows |-> {}, expected |-> 0,
              loaded |-> [d \in Docs |-> 0]]

\* Generations start at 1: 0 says that a document was not on the list.
GenIf(S) == [d \in Docs |-> IF d \in S THEN doc[d].gen ELSE 0]

ServingInit ==
    /\ Init
    /\ search = [s \in Searches |-> NoSearch]
    /\ other = [d \in Docs |-> {}]
    /\ rebuild = NoRebuild
-----------------------------------------------------------------------------
(* A search *)

\* Variant: the list is built from everything that has a row.
ReadyDocsUnfiltered == {d \in Docs : doc[d].status # "ABSENT"}

\* ready_documents, before the filters of the request.
ReadyDocs == {d \in Docs : doc[d].status = "READY"}

\* The list is read; a request may ask for fewer sources.  Nothing to search in
\* is answered without asking anybody.
BeginSearch(s) ==
    /\ search[s].pc = "idle"
    /\ Overlap \/ rebuild.pc \in {"idle", "switched"}
    /\ \E asked \in SUBSET ReadyDocs :
           search' = [search EXCEPT ![s] =
               [pc |-> IF asked = {} THEN "answering" ELSE "embedding",
                listed |-> GenIf(asked), hits |-> {}]]
    /\ UNCHANGED <<vars, other, rebuild>>

\* Variant: the collection is asked for the organisation only.
MatchesUnlisted(s) == {d \in Docs : vectors[d] # {}}

\* The documents the filter of the search lets through.
Matches(s) == {d \in Docs : search[s].listed[d] # 0}

\* The query is embedded, and Qdrant returns the best points that match; the
\* reranker reorders a longer list and cuts it to the same limit.
Find(s) ==
    LET found == {p \in Docs \X ChunkIds : p[1] \in Matches(s) /\ p[2] \in vectors[p[1]]} IN
    /\ search[s].pc = "embedding"
    /\ \E best \in SUBSET found :
          /\ Cardinality(best) <= MaxHits
          /\ best = found \/ Cardinality(best) = MaxHits
          /\ search' = [search EXCEPT ![s] =
                [pc |-> "answering", listed |-> @.listed, hits |-> best]]
    /\ UNCHANGED <<vars, other, rebuild>>

\* The hits go out as results, or with the model's answer as its sources.
Answer(s) ==
    /\ search[s].pc = "answering"
    /\ search' = [search EXCEPT ![s] = NoSearch]
    /\ UNCHANGED <<vars, other, rebuild>>

\* A provider fails or the deadline passes: 503, and nothing is returned.
SearchFails(s) ==
    /\ search[s].pc # "idle"
    /\ search' = [search EXCEPT ![s] = NoSearch]
    /\ UNCHANGED <<vars, other, rebuild>>
-----------------------------------------------------------------------------
(* Rebuilding the index *)

\* Writers are stopped for the whole of a quiet rebuild.
WritersStopped == rebuild.pc # "idle" /\ rebuild.quiet

Points(c) == {p \in Docs \X ChunkIds : p[2] \in c[p[1]]}

\* load_chunks
ReadyChunks == {p \in Points(chunks) : p[1] \in ReadyDocs}

\* The script takes its snapshot of the chunk rows.  The target may be left over
\* from a rebuild that failed, or be the collection used before.
StartRebuild(quiet) ==
    /\ rebuild.pc = "idle"
    /\ Overlap \/ \A s \in Searches : search[s].pc = "idle"
    /\ quiet => \A w \in Workers : worker[w] = Idle
    /\ ReadyChunks # {}
    /\ rebuild' = [pc |-> "filling", quiet |-> quiet, rows |-> ReadyChunks,
                   expected |-> Cardinality(ReadyChunks), loaded |-> GenIf(ReadyDocs)]
    /\ UNCHANGED <<vars, search, other>>

\* One batch is embedded and upserted into the target.
FillBatch ==
    /\ rebuild.pc = "filling"
    /\ \E batch \in SUBSET rebuild.rows :
          /\ batch # {} /\ Cardinality(batch) <= BatchSize
          /\ other' = [d \in Docs |-> other[d] \union {p[2] : p \in {q \in batch : q[1] = d}}]
          /\ rebuild' = [rebuild EXCEPT !.rows = @ \ batch]
    /\ UNCHANGED <<vars, search>>

\* Variant: only missing points are looked for.
CountsMatchAtLeast(expected) == Cardinality(Points(other)) >= expected

\* verify: the count of the target against the count of the rows.
CountsMatch(expected) == Cardinality(Points(other)) = expected

\* The end of a run that wrote everything: exit code 0 or 1.
VerifyFill ==
    /\ rebuild.pc = "filling"
    /\ rebuild.rows = {}
    /\ rebuild' = IF CountsMatch(rebuild.expected)
                  THEN [rebuild EXCEPT !.pc = "filled"] ELSE NoRebuild
    /\ UNCHANGED <<vars, search, other>>

\* A second run, --verify-only, counts the rows anew.
VerifyOnly ==
    /\ rebuild.pc = "filled"
    /\ rebuild' = IF CountsMatch(Cardinality(ReadyChunks))
                  THEN [rebuild EXCEPT !.pc = "verified"] ELSE NoRebuild
    /\ UNCHANGED <<vars, search, other>>

\* The provider or Qdrant fails, or the operator gives up.  What has been
\* written stays in the target.
RebuildFails ==
    /\ rebuild.pc \in {"filling", "filled", "verified"}
    /\ rebuild' = NoRebuild
    /\ UNCHANGED <<vars, search, other>>

\* Every process restarts with the other collection: each builds its store once.  A
\* job that the restart interrupts is a crash of Ingestion.
Switch(pc) ==
    /\ \A w \in Workers : worker[w] = Idle
    /\ vectors' = other /\ other' = vectors
    /\ rebuild' = [rebuild EXCEPT !.pc = pc]
    /\ search' = [s \in Searches |-> NoSearch]
    /\ UNCHANGED <<rows, chunks, file, lock, worker>>

\* Variant: the switch follows a run that is still filling the target.
CutoverUnchecked ==
    /\ rebuild.pc = "filling"
    /\ Quiesced => rebuild.quiet
    /\ Switch("switched")

\* The operator switches after both checks.
Cutover ==
    /\ rebuild.pc = "verified"
    /\ Quiesced => rebuild.quiet
    /\ Switch("switched")

\* The previous values and another restart.
Rollback ==
    /\ rebuild.pc = "switched"
    /\ Switch("verified")

\* The new collection is kept, or writers start again while it is on trial.
Reopen ==
    /\ rebuild.pc = "switched"
    /\ \/ rebuild' = NoRebuild
       \/ /\ ~Quiesced /\ rebuild.quiet
          /\ rebuild' = [rebuild EXCEPT !.quiet = FALSE]
    /\ UNCHANGED <<vars, search, other>>
-----------------------------------------------------------------------------
\* The queue and its workers, unless they are stopped.
Write ==
    /\ ~WritersStopped
    /\ Next
    /\ UNCHANGED <<search, other, rebuild>>

ServingNext ==
    \/ Write
    \/ \E s \in Searches : BeginSearch(s) \/ Find(s) \/ Answer(s) \/ SearchFails(s)
    \/ \E quiet \in BOOLEAN : StartRebuild(quiet)
    \/ FillBatch \/ VerifyFill \/ VerifyOnly \/ RebuildFails
    \/ Cutover \/ Rollback \/ Reopen

ServingSpec == ServingInit /\ [][ServingNext]_servingVars
-----------------------------------------------------------------------------
(* Properties *)

Search == [pc : {"idle", "embedding", "answering"}, listed : [Docs -> 0..MaxGen],
           hits : SUBSET (Docs \X ChunkIds)]
Rebuild == [pc : {"idle", "filling", "filled", "verified", "switched"},
            quiet : BOOLEAN, rows : SUBSET (Docs \X ChunkIds), expected : Nat,
            loaded : [Docs -> 0..MaxGen]]

ServingTypeOK ==
    /\ TypeOK
    /\ search \in [Searches -> Search]
    /\ other \in [Docs -> SUBSET ChunkIds]
    /\ rebuild \in Rebuild

\* The document d is what it was when its generation was noted.
Untouched(d, gen) == gen # 0 /\ doc[d].status = "READY" /\ doc[d].gen = gen

HitsOf(s, d) == {p[2] : p \in {q \in search[s].hits : q[1] = d}}

\* What a search is about to return of a document that nobody reindexed or
\* deleted since the list was read is that document's committed chunks, all of
\* them unless the limit cut them off: the list is read before the query is
\* embedded, and nothing but the generation ties the two (api/documents.py:63,
\* "SQL is the authority on visibility").
UntouchedIsExact ==
    \A s \in Searches, d \in Docs :
        search[s].pc = "answering" /\ Untouched(d, search[s].listed[d]) =>
            /\ HitsOf(s, d) \subseteq chunks[d]
            /\ Cardinality(search[s].hits) < MaxHits => HitsOf(s, d) = chunks[d]

\* Whatever happens meanwhile, a search returns nothing of a document that was
\* not searchable when it began, and no chunk older than it read: the points of
\* a superseded generation are gone before newer ones appear (worker.py:83).
NeverOlder ==
    \A s \in Searches : \A p \in search[s].hits :
        search[s].listed[p[1]] # 0 /\ p[2][1] >= search[s].listed[p[1]]

\* A rebuild that passed its checks holds every untouched document as it is, and
\* when writers were stopped it holds nothing else, also if the target was not
\* empty: the script compares no more than two counts (reindex.py:159).
VerifiedIsExact ==
    rebuild.pc \in {"filled", "verified"} =>
        \A d \in Docs :
            /\ Untouched(d, rebuild.loaded[d]) => other[d] = chunks[d]
            /\ rebuild.quiet /\ d \notin ReadyDocs => other[d] = {}
-----------------------------------------------------------------------------
(* The inductive invariant behind them *)

\* What was READY in a generation is never on its way to READY in it again.
Published(d, gen) ==
    /\ gen <= doc[d].gen
    /\ doc[d].gen = gen => doc[d].status \notin {"QUEUED", "PROCESSING"}

ListsInv ==
    /\ \A d \in Docs : doc[d].status # "ABSENT" => doc[d].gen # 0
    /\ \A s \in Searches, d \in Docs : search[s].listed[d] # 0 =>
          /\ Published(d, search[s].listed[d])
          /\ \A c \in vectors[d] : c[1] >= search[s].listed[d]
    /\ \A d \in Docs : rebuild.loaded[d] # 0 => Published(d, rebuild.loaded[d])

\* The rows the script has loaded: written to the target, or still to be written.
Snapshot(S) ==
    /\ Cardinality(S) = rebuild.expected
    /\ rebuild.rows \subseteq S /\ S \ rebuild.rows \subseteq Points(other)
    /\ rebuild.pc # "filling" => S = Points(other) /\ rebuild.rows = {}
    /\ \A p \in S : rebuild.loaded[p[1]] # 0
    /\ \A d \in Docs : Untouched(d, rebuild.loaded[d]) =>
          \A c \in ChunkIds : <<d, c>> \in S <=> c \in chunks[d]

FillInv ==
    rebuild.pc \in {"filling", "filled", "verified"} =>
        \E S \in SUBSET (Docs \X ChunkIds) : Snapshot(S)

\* Where operators stop writers: the documents stay as they were loaded, and either
\* collection serves them.
QuietInv ==
    /\ WritersStopped =>
          /\ \A w \in Workers : worker[w] = Idle
          /\ rebuild.loaded = GenIf(ReadyDocs)
    /\ rebuild.pc = "switched" =>
          /\ rebuild.quiet /\ rebuild.rows = {}
          /\ Cardinality(Points(vectors)) = rebuild.expected
          /\ \A d \in Docs : doc[d].status # "READY" => vectors[d] = {}
          /\ \A d \in Docs : doc[d].status = "READY" => other[d] = chunks[d]
          /\ \A d \in Docs : source[d] = "DELETED" => other[d] = {}

ServingInv ==
    /\ IngestionInv /\ ServingTypeOK
    /\ ListsInv /\ UntouchedIsExact /\ NeverOlder
    /\ FillInv /\ QuietInv
=============================================================================
