------------------------------ MODULE Chunking ------------------------------
(***************************************************************************)
(* How a document is cut up: into units, which are paragraphs where those  *)
(* fit what the embedding model reads, their sentences where they do not,  *)
(* and words where those do not either; the units into chunks that overlap *)
(* (_split_units and chunk_pages of services/chunking_service.py); and the *)
(* stored chunks, by size, into the batches one extraction prompt each is  *)
(* made of (extraction_batches of services/knowledge_service.py).          *)
(*                                                                         *)
(* A document is its words, each with a size in tokens; a text counts what *)
(* its words count, as the code itself adds units up.  What counts is      *)
(* where a piece begins and ends, so units are the set of the positions    *)
(* they end at, and a run of words or of chunks is [from, to), counted     *)
(* from 0 as the code slices its lists.  One step is one round of the      *)
(* code's outer loops.                                                     *)
(*                                                                         *)
(* A definition whose comment begins with "Variant" is the next definition *)
(* with a slip in it: the runs show which property notices the slip.       *)
(***************************************************************************)
EXTENDS Integers, Sequences

CONSTANTS
    Budget,      \* tokens a chunk may have: the provider's, less a margin
    BatchBudget, \* settings.knowledge_batch_chars
    WordTokens,  \* what a word may count: more than Budget if it is a URL or a blob
    ChunkChars,  \* how long a chunk's text may be
    MaxWords     \* bound: words of a document

ASSUME ChunkingAssumption ==
    /\ Budget \in Nat \ {0}
    /\ BatchBudget \in Nat
    /\ WordTokens \subseteq Nat
    /\ ChunkChars \subseteq Nat \ {0}
    /\ MaxWords \in Nat

\* int(budget * OVERLAP_RATIO)
OverlapBudget == (Budget * 15) \div 100

VARIABLES
    stage,      \* reading, paragraphs, sentences, chunking, batching, done
    words,      \* how many words the document has
    tokens,     \* tokens[i]: what its first i words count
    sentences,  \* where its sentences end
    paragraphs, \* where its paragraphs end
    ends,       \* where the units end
    start,      \* where the next chunk begins
    chunks,     \* runs of words
    chars,      \* chars[i]: how long the first i chunks are
    batches     \* runs of chunks

document == <<words, tokens, sentences, paragraphs>>
vars == <<stage, document, ends, start, chunks, chars, batches>>
-----------------------------------------------------------------------------
\* The size of the pieces in [from, to), given the sizes of the first 0, 1, 2...
Size(sum, from, to) == sum[to] - sum[from]

Extended(sum, n, size) == [i \in 0..(n + 1) |-> IF i <= n THEN sum[i] ELSE sum[n] + size]

Run(from, to) == [from |-> from, to |-> to]
Reach(runs) == IF runs = <<>> THEN 0 ELSE runs[Len(runs)].to

\* From one cut to the next one.
Piece(cuts, from, to) ==
    /\ from \in cuts \union {0} /\ to \in cuts /\ from < to
    /\ \A e \in cuts : e <= from \/ to <= e

\* Variant: a piece that does not fit alone is no piece.
FilledIfFits(sum, cuts, budget, from, to) ==
    /\ to \in cuts /\ from < to
    /\ Size(sum, from, to) <= budget
    /\ \A e \in cuts : to < e => Size(sum, from, e) > budget

\* As many of the pieces behind from as fit, and at least one.
Filled(sum, cuts, budget, from, to) ==
    /\ to \in cuts /\ from < to
    /\ \/ Size(sum, from, to) <= budget
       \/ \A e \in cuts : e <= from \/ to <= e
    /\ \A e \in cuts : to < e => Size(sum, from, e) > budget

Init ==
    /\ stage = "reading"
    /\ words = 0 /\ tokens = [i \in {0} |-> 0]
    /\ sentences = {} /\ paragraphs = {}
    /\ ends = {} /\ start = 0 /\ chunks = <<>>
    /\ chars = [i \in {0} |-> 0] /\ batches = <<>>
-----------------------------------------------------------------------------
(* The document, and its units *)

\* One more word, which may be the last one of its sentence, or of its paragraph.
AddWord(n, last) ==
    /\ stage = "reading"
    /\ words < MaxWords
    /\ words' = words + 1
    /\ tokens' = Extended(tokens, words, n)
    /\ sentences' = IF last = "none" THEN sentences ELSE sentences \union {words + 1}
    /\ paragraphs' = IF last = "paragraph" THEN paragraphs \union {words + 1} ELSE paragraphs
    /\ UNCHANGED <<stage, ends, start, chunks, chars, batches>>

\* The text is all there, which ends its last paragraph, and is split into them.
SplitParagraphs ==
    LET last == {words} \ {0} IN
    /\ stage = "reading"
    /\ sentences' = sentences \union last
    /\ paragraphs' = paragraphs \union last
    /\ ends' = paragraphs'
    /\ stage' = IF words = 0 THEN "done" ELSE "paragraphs"
    /\ UNCHANGED <<words, tokens, start, chunks, chars, batches>>

Unit(from, to) == Piece(ends, from, to)
TooLong(from, to) == Size(tokens, from, to) > Budget

\* Variant: one unit that fits ends the splitting.
AnyFits == \E a, b \in 0..words : Unit(a, b) /\ ~TooLong(a, b)

AllFit == \A a, b \in 0..words : Unit(a, b) => ~TooLong(a, b)

\* Variant: once one unit is too long, every unit is divided.
DividedAll(marks) == ends \union marks

\* The units that are too long are divided at the marks.
Divided(marks) ==
    ends \union {p \in marks : \E a, b \in 0..words :
                     Unit(a, b) /\ TooLong(a, b) /\ a < p /\ p < b}

\* One round of _split_units: by sentences, then by words.
Split ==
    /\ stage \in {"paragraphs", "sentences"}
    /\ IF AllFit THEN stage' = "chunking" /\ ends' = ends
       ELSE \/ stage = "paragraphs" /\ stage' = "sentences" /\ ends' = Divided(sentences)
            \/ stage = "sentences" /\ stage' = "chunking" /\ ends' = Divided(1..words)
    /\ UNCHANGED <<document, start, chunks, chars, batches>>
-----------------------------------------------------------------------------
(* Chunks and batches *)

\* Variant: the next chunk may begin where this one did.
StepsBackToStart(from, to, next) ==
    /\ next \in ends \union {from} /\ from <= next /\ next <= to
    /\ Size(tokens, next, to) <= OverlapBudget
    /\ \A e \in ends : from <= e /\ e < next => Size(tokens, e, to) > OverlapBudget

\* Variant: with nothing to share, the word after this chunk is passed over.
StepsBackOffByOne(from, to, next) ==
    next = IF Size(tokens, to - 1, to) > OverlapBudget THEN to + 1 ELSE to

\* The next chunk begins with the trailing units of this one that fit the overlap.
StepsBack(from, to, next) ==
    /\ next \in ends /\ from < next /\ next <= to
    /\ Size(tokens, next, to) <= OverlapBudget
    /\ \A e \in ends : from < e /\ e < next => Size(tokens, e, to) > OverlapBudget

\* A chunk, and how long its text turns out to be.
NextChunk(to, size) ==
    /\ stage = "chunking"
    /\ Filled(tokens, ends, Budget, start, to)
    /\ chunks' = Append(chunks, Run(start, to))
    /\ chars' = Extended(chars, Len(chunks), size)
    /\ \/ to = words /\ stage' = "batching" /\ start' = start
       \/ to < words /\ stage' = stage /\ start' \in 1..words /\ StepsBack(start, to, start')
    /\ UNCHANGED <<document, ends, batches>>

\* Variant: the batch that is open when the chunks run out is dropped.
NextBatchUnflushed(to) ==
    /\ stage = "batching"
    /\ Filled(chars, 1..Len(chunks), BatchBudget, Reach(batches), to)
    /\ batches' = IF to = Len(chunks) THEN batches ELSE Append(batches, Run(Reach(batches), to))
    /\ stage' = IF to = Len(chunks) THEN "done" ELSE stage
    /\ UNCHANGED <<document, ends, start, chunks, chars>>

NextBatch(to) ==
    /\ stage = "batching"
    /\ Filled(chars, 1..Len(chunks), BatchBudget, Reach(batches), to)
    /\ batches' = Append(batches, Run(Reach(batches), to))
    /\ stage' = IF to = Len(chunks) THEN "done" ELSE stage
    /\ UNCHANGED <<document, ends, start, chunks, chars>>

Chunk == \E to \in 1..words, size \in ChunkChars : NextChunk(to, size)
Batch == \E to \in 1..Len(chunks) : NextBatch(to)

Next ==
    \/ \E n \in WordTokens, last \in {"none", "sentence", "paragraph"} : AddWord(n, last)
    \/ SplitParagraphs \/ Split \/ Chunk \/ Batch

Spec == Init /\ [][Next]_vars

\* Fairness: the text ends and the loops run; nobody else is there to stop them.
FairSpec == Spec /\ WF_vars(SplitParagraphs \/ Split \/ Chunk \/ Batch)
-----------------------------------------------------------------------------
(* Properties *)

Runs(n) == [from : 0..n, to : 0..n]

TypeOK ==
    /\ stage \in {"reading", "paragraphs", "sentences", "chunking", "batching", "done"}
    /\ words \in 0..MaxWords
    /\ tokens \in [0..words -> Nat]
    /\ paragraphs \subseteq sentences /\ sentences \subseteq 1..words
    /\ ends \subseteq 1..words /\ start \in 0..words
    /\ chunks \in Seq(Runs(words))
    /\ chars \in [0..Len(chunks) -> Nat]
    /\ batches \in Seq(Runs(Len(chunks)))

Within(i, run) == run.from <= i /\ i < run.to

\* Every word of the document is in some chunk, however it was split and however
\* the windows overlap (tests/test_chunking.py:42, "Every word survives").
NothingLost ==
    stage \in {"batching", "done"} =>
        \A w \in 0..(words - 1) : \E k \in DOMAIN chunks : Within(w, chunks[k])

\* A sentence or a paragraph that the model can read whole is whole in some chunk,
\* although longer ones beside it are cut, and whatever boundary it comes to lie on
\* (tests/test_chunking.py:46, "a sentence spanning a boundary is embedded whole in
\* at least one of them").
KeptWhole ==
    stage \in {"batching", "done"} =>
        \A marks \in {sentences, paragraphs} : \A a, b \in 0..words :
            Piece(marks, a, b) /\ ~TooLong(a, b) =>
                \E k \in DOMAIN chunks : chunks[k].from <= a /\ b <= chunks[k].to

\* A chunk is no longer than the model reads, unless it is one word: two rounds of
\* splitting suffice for whatever is longer (chunking_service.py:157, "One unit
\* larger than the whole budget survived every level of splitting").
WithinBudget ==
    \A k \in DOMAIN chunks :
        TooLong(chunks[k].from, chunks[k].to) => chunks[k].to = chunks[k].from + 1

\* Every chunk is in one batch and in no other, so no text is extracted twice
\* and none is left out (extraction_batches, knowledge_service.py:85).
OneBatchEach ==
    /\ stage = "done" =>
          \A c \in 0..(Len(chunks) - 1) : \E b \in DOMAIN batches : Within(c, batches[b])
    /\ \A b, d \in DOMAIN batches : b < d => batches[b].to <= batches[d].from

\* Each chunk begins behind the one before and does not end before it: there are
\* no more chunks than units, and retrieval sees them in reading order.
Advances ==
    \A j, k \in DOMAIN chunks : j < k =>
        chunks[j].from < chunks[k].from /\ chunks[j].to <= chunks[k].to

\* The loops end, also over words longer than the budget
\* (chunking_service.py:161, "rather than the chunker looping on it forever").
Ends == <>(stage = "done")
-----------------------------------------------------------------------------
(* The inductive invariant behind the safety properties *)

\* No unit that is too long has a mark inside.
NoneInside(marks) ==
    \A a, b \in 0..words : Unit(a, b) /\ TooLong(a, b) => \A p \in marks : p <= a \/ b <= p

\* No piece between marks that fits has been cut.
Uncut(marks) ==
    \A a, b \in 0..words : Piece(marks, a, b) /\ ~TooLong(a, b) =>
        \A e \in ends : e <= a \/ b <= e

\* What the rounds of splitting have done.
UnitsInv ==
    /\ stage = "reading" => ends = {}
    /\ stage \notin {"reading", "done"} => words \in ends /\ paragraphs \subseteq ends
    /\ stage \in {"paragraphs", "sentences"} => ends \subseteq sentences
    /\ stage = "sentences" => NoneInside(sentences)
    /\ stage \in {"chunking", "batching"} => NoneInside(1..words)
    /\ Uncut(sentences) /\ Uncut(paragraphs)

\* Runs are not empty and leave no gap up to where the last one ends.
Gapless(runs) ==
    /\ \A k \in DOMAIN runs : runs[k].from < runs[k].to /\ runs[k].to <= Reach(runs)
    /\ \A i \in 0..(Reach(runs) - 1) : \E k \in DOMAIN runs : Within(i, runs[k])

\* Where the loops stand: the next chunk begins in the tail of the last one.
LoopInv ==
    /\ start \in ends \union {0}
    /\ \A k \in DOMAIN chunks : chunks[k].to \in ends
    /\ stage \in {"reading", "paragraphs", "sentences"} => chunks = <<>> /\ start = 0
    /\ stage = "chunking" /\ chunks = <<>> => start = 0
    /\ stage = "chunking" /\ chunks # <<>> =>
          StepsBack(chunks[Len(chunks)].from, chunks[Len(chunks)].to, start)
    /\ stage \in {"batching", "done"} => Reach(chunks) = words
    /\ stage \notin {"batching", "done"} => batches = <<>>
    /\ stage = "done" => Reach(batches) = Len(chunks)

ChunkingInv ==
    /\ TypeOK /\ UnitsInv
    /\ Gapless(chunks) /\ Gapless(batches) /\ LoopInv
    /\ OneBatchEach /\ WithinBudget /\ Advances
=============================================================================
