--------------------------- MODULE ChunkingProofs ---------------------------
(***************************************************************************)
(* Cutting up a document loses nothing, keeps whole what can be kept       *)
(* whole, repeats no chunk in two batches, stays within its budget and     *)
(* always advances: for every budget and for documents of any length,      *)
(* whatever the sizes of their words and wherever they may be divided.     *)
(***************************************************************************)
EXTENDS Chunking, TLAPS

USE ChunkingAssumption
-----------------------------------------------------------------------------
(* Sizes and runs *)

LEMMA OverlapSmall == OverlapBudget \in Nat /\ OverlapBudget <= Budget
BY DEF OverlapBudget

\* One more piece.
LEMMA Extending ==
    ASSUME NEW n \in Nat, NEW sum \in [0..n -> Nat], NEW size \in Nat
    PROVE  /\ Extended(sum, n, size) \in [0..(n + 1) -> Nat]
           /\ \A i \in 0..n : Extended(sum, n, size)[i] = sum[i]
BY DEF Extended

\* How large the words between two positions are.
LEMMA SizeType ==
    ASSUME TypeOK, NEW a \in 0..words, NEW b \in 0..words
    PROVE  Size(tokens, a, b) \in Int
BY DEF TypeOK, Size

\* A run added at the end.
LEMMA Appending ==
    ASSUME NEW S, NEW runs \in Seq(S), NEW run \in S
    PROVE  /\ Append(runs, run) \in Seq(S)
           /\ Len(Append(runs, run)) = Len(runs) + 1
           /\ DOMAIN Append(runs, run) = 1..(Len(runs) + 1)
           /\ DOMAIN runs = 1..Len(runs) /\ Len(runs) \in Nat
           /\ \A k \in 1..Len(runs) : Append(runs, run)[k] = runs[k]
           /\ Append(runs, run)[Len(runs) + 1] = run
           /\ Reach(Append(runs, run)) = run.to
<1> DEFINE new == Append(runs, run)
<1>1. new \in Seq(S) /\ Len(new) = Len(runs) + 1 /\ Len(runs) \in Nat
  OBVIOUS
<1>2. DOMAIN new = 1..(Len(runs) + 1) /\ DOMAIN runs = 1..Len(runs)
  OBVIOUS
<1>3. (\A k \in 1..Len(runs) : new[k] = runs[k]) /\ new[Len(runs) + 1] = run
  OBVIOUS
<1>4. new # <<>>
  BY <1>1
<1>5. Reach(new) = run.to
  BY <1>1, <1>3, <1>4 DEF Reach
<1> QED  BY <1>1, <1>2, <1>3, <1>5

LEMMA ReachType ==
    ASSUME NEW n \in Nat, NEW runs \in Seq(Runs(n))
    PROVE  /\ Reach(runs) \in 0..n
           /\ \A k \in 1..Len(runs) : runs[k].from \in 0..n /\ runs[k].to \in 0..n
<1>1. \A k \in 1..Len(runs) : runs[k] \in Runs(n)
  OBVIOUS
<1>2. \A k \in 1..Len(runs) : runs[k].from \in 0..n /\ runs[k].to \in 0..n
  BY <1>1 DEF Runs
<1>3. runs # <<>> => Len(runs) \in 1..Len(runs)
  OBVIOUS
<1> QED  BY <1>2, <1>3 DEF Reach

\* Runs that begin no later than where the others end leave no gap.
LEMMA StaysGapless ==
    ASSUME NEW n \in Nat, NEW runs \in Seq(Runs(n)), Gapless(runs),
           NEW from \in 0..n, NEW to \in 0..n,
           from < to, from <= Reach(runs), Reach(runs) <= to
    PROVE  Gapless(Append(runs, Run(from, to)))
<1> DEFINE new == Append(runs, Run(from, to))
<1>1. Run(from, to) \in Runs(n)
  BY DEF Run, Runs
<1>2. /\ DOMAIN new = 1..(Len(runs) + 1) /\ DOMAIN runs = 1..Len(runs) /\ Len(runs) \in Nat
      /\ \A k \in 1..Len(runs) : new[k] = runs[k]
      /\ new[Len(runs) + 1] = Run(from, to)
      /\ Reach(new) = to
  <2>1. Run(from, to).to = to
    BY DEF Run
  <2> QED  BY <1>1, <2>1, Appending
<1>3. Reach(runs) \in 0..n /\ \A k \in 1..Len(runs) : runs[k].from \in 0..n /\ runs[k].to \in 0..n
  BY ReachType
<1> HIDE DEF new
<1>4. ASSUME NEW k \in DOMAIN new PROVE new[k].from < new[k].to /\ new[k].to <= Reach(new)
  <2>1. CASE k \in 1..Len(runs)
    BY <1>2, <1>3, <2>1 DEF Gapless
  <2>2. CASE k = Len(runs) + 1
    BY <1>2, <2>2 DEF Run
  <2> QED  BY <1>2, <2>1, <2>2
<1>5. ASSUME NEW i \in 0..(Reach(new) - 1) PROVE \E k \in DOMAIN new : Within(i, new[k])
  <2>1. CASE i < Reach(runs)
    <3>1. PICK k \in 1..Len(runs) : Within(i, runs[k])
      BY <1>2, <1>3, <2>1 DEF Gapless
    <3> QED  BY <1>2, <3>1
  <2>2. CASE Reach(runs) <= i
    BY <1>2, <1>3, <2>2 DEF Within, Run
  <2> QED  BY <1>2, <1>3, <2>1, <2>2
<1> QED  BY <1>4, <1>5 DEF Gapless, new
-----------------------------------------------------------------------------
(* Splitting *)

\* Divided at every mark there is: a unit that is still too long has none inside.
LEMMA DividedOnce ==
    ASSUME TypeOK, NEW marks \in SUBSET (1..words), ends' = Divided(marks),
           UNCHANGED <<words, tokens>>
    PROVE  NoneInside(marks)'
<1> SUFFICES ASSUME NEW a \in 0..words, NEW b \in 0..words, Piece(ends', a, b), TooLong(a, b),
                    NEW p \in marks, a < p, p < b
             PROVE  FALSE
  BY DEF NoneInside, Unit, TooLong, Size, TypeOK
<1>1. words \in Nat /\ ends \in SUBSET (1..words) /\ p \in 1..words
  BY DEF TypeOK
<1>2. /\ ends \subseteq ends'
      /\ \A q \in ends' : q \in ends \/ q \in marks
      /\ \A q \in ends' \ ends : \E c, d \in 0..words :
            Unit(c, d) /\ TooLong(c, d) /\ c < q /\ q < d
      /\ \A q \in marks, c, d \in 0..words :
            Unit(c, d) /\ TooLong(c, d) /\ c < q /\ q < d => q \in ends'
  BY DEF Divided
<1>3. /\ a \in ends' \union {0} /\ b \in ends'
      /\ \A e \in ends' : e <= a \/ b <= e
      /\ p \notin ends'
  BY <1>1 DEF Piece
<1>4. CASE a \in ends \union {0} /\ b \in ends
  <2>1. Unit(a, b)
    BY <1>1, <1>2, <1>3, <1>4 DEF Unit, Piece
  <2> QED  BY <1>2, <1>3, <2>1
<1>5. CASE a \notin ends \union {0}
  <2>1. PICK c \in 0..words, d \in 0..words : Unit(c, d) /\ TooLong(c, d) /\ c < a /\ a < d
    BY <1>2, <1>3, <1>5
  <2>2. d \in ends'
    BY <1>2, <2>1 DEF Unit, Piece
  <2>3. b <= d
    BY <1>1, <1>3, <2>1, <2>2
  <2>4. c < p /\ p < d
    BY <1>1, <2>1, <2>3
  <2> QED  BY <1>2, <1>3, <2>1, <2>4
<1>6. CASE b \notin ends
  <2>1. PICK c \in 0..words, d \in 0..words : Unit(c, d) /\ TooLong(c, d) /\ c < b /\ b < d
    BY <1>2, <1>3, <1>6
  <2>2. c \in ends' \union {0}
    BY <1>2, <2>1 DEF Unit, Piece
  <2>3. c <= a
    BY <1>1, <1>3, <2>1, <2>2
  <2>4. c < p /\ p < d
    BY <1>1, <2>1, <2>3
  <2> QED  BY <1>2, <1>3, <2>1, <2>4
<1> QED  BY <1>4, <1>5, <1>6

\* Where no unit that is too long has one of these marks inside, dividing those units
\* anywhere does not cut a piece between the marks that fits: a unit that such a piece
\* reaches into would have to be the piece.
LEMMA StaysUncut ==
    ASSUME TypeOK, NEW marks \in SUBSET (1..words), Uncut(marks), NoneInside(marks),
           NEW others \in SUBSET (1..words), ends' = Divided(others),
           UNCHANGED <<words, tokens>>
    PROVE  Uncut(marks)'
<1> SUFFICES ASSUME NEW a \in 0..words, NEW b \in 0..words, Piece(marks, a, b), ~TooLong(a, b),
                    NEW p \in ends', a < p, p < b
             PROVE  FALSE
  <2>1. words \in Nat /\ ends \subseteq 1..words
    BY DEF TypeOK
  <2>2. ends' \subseteq 1..words
    BY <2>1 DEF Divided
  <2>3. \A a, b \in 0..words : TooLong(a, b)' = TooLong(a, b)
    BY DEF TooLong
  <2> QED  BY <2>1, <2>2, <2>3 DEF Uncut
<1>1. words \in Nat /\ ends \in SUBSET (1..words) /\ p \in 1..words
  BY DEF TypeOK, Divided
<1>2. a \in marks \union {0} /\ b \in marks
  BY DEF Piece
<1>3. \A e \in ends : e <= a \/ b <= e
  BY DEF Uncut
<1>4. PICK c \in 0..words, d \in 0..words : Unit(c, d) /\ TooLong(c, d) /\ c < p /\ p < d
  BY <1>1, <1>3 DEF Divided
<1>5. c \in ends \union {0} /\ d \in ends
  BY <1>4 DEF Unit, Piece
<1>6. \A q \in marks : q <= c \/ d <= q
  BY <1>4 DEF NoneInside
<1>7. c <= a /\ b <= d
  BY <1>1, <1>3, <1>4, <1>5
<1>8. a <= c /\ d <= b
  BY <1>1, <1>2, <1>4, <1>6
<1>9. c = a /\ d = b
  BY <1>7, <1>8
<1> QED  BY <1>4, <1>9

\* The units cannot be too long if all of them fit.
LEMMA AllFitNone ==
    ASSUME AllFit, NEW marks
    PROVE  NoneInside(marks)
BY DEF AllFit, NoneInside
-----------------------------------------------------------------------------
(* One lemma per loop *)

LEMMA InitInv == Init => ChunkingInv
BY DEF Init, ChunkingInv, TypeOK, UnitsInv, Uncut, Gapless, LoopInv, OneBatchEach,
       WithinBudget, Advances, Reach, Runs

\* Nothing is cut up yet.
LEMMA NoChunks ==
    ASSUME ChunkingInv, stage \in {"reading", "paragraphs", "sentences"}
    PROVE  /\ chunks = <<>> /\ batches = <<>> /\ start = 0
           /\ stage = "reading" => ends = {}
BY DEF ChunkingInv, LoopInv, UnitsInv

\* What holds of chunks and batches when there are none.
LEMMA WithoutChunks ==
    ASSUME ChunkingInv, stage \in {"reading", "paragraphs", "sentences"},
           UNCHANGED <<start, chunks, chars, batches>>,
           \/ stage' \in {"reading", "paragraphs", "sentences", "chunking"}
           \/ stage' = "done" /\ words' = 0
    PROVE  /\ Gapless(chunks)' /\ Gapless(batches)' /\ LoopInv'
           /\ OneBatchEach' /\ WithinBudget' /\ Advances'
<1>1. chunks = <<>> /\ batches = <<>> /\ start = 0
  BY NoChunks
<1>2. Gapless(chunks)' /\ Gapless(batches)'
  BY <1>1 DEF Gapless, Reach
<1>3. LoopInv'
  BY <1>1 DEF LoopInv, Reach
<1>4. OneBatchEach' /\ WithinBudget' /\ Advances'
  BY <1>1 DEF OneBatchEach, WithinBudget, Advances
<1> QED  BY <1>2, <1>3, <1>4

LEMMA AddWordInv ==
    ASSUME ChunkingInv, NEW n \in WordTokens, NEW last \in {"none", "sentence", "paragraph"},
           AddWord(n, last)
    PROVE  ChunkingInv'
<1>1. /\ stage = "reading" /\ words < MaxWords /\ words' = words + 1
      /\ tokens' = Extended(tokens, words, n)
      /\ UNCHANGED <<stage, ends, start, chunks, chars, batches>>
  BY DEF AddWord
<1>2. TypeOK /\ ends = {} /\ words \in Nat
  <2>1. TypeOK
    BY DEF ChunkingInv
  <2>2. ends = {}
    BY <1>1, NoChunks
  <2>3. words \in Nat
    BY <2>1 DEF TypeOK
  <2> QED  BY <2>1, <2>2, <2>3
<1>3. tokens' \in [0..words' -> Nat]
  <2>1. Extended(tokens, words, n) \in [0..(words + 1) -> Nat]
    BY <1>2, Extending DEF TypeOK
  <2> QED  BY <1>1, <2>1
<1>4. TypeOK'
  <2>1. paragraphs' \subseteq sentences' /\ sentences' \subseteq 1..words'
    BY <1>1, <1>2 DEF AddWord, TypeOK
  <2>2. chunks' = <<>> /\ start' = 0 /\ batches' = <<>> /\ words' \in 0..MaxWords
    BY <1>1, <1>2, NoChunks DEF TypeOK
  <2> QED  BY <1>1, <1>2, <1>3, <2>1, <2>2 DEF TypeOK
<1>5. UnitsInv'
  BY <1>1, <1>2 DEF UnitsInv, Uncut
<1>6. /\ Gapless(chunks)' /\ Gapless(batches)' /\ LoopInv'
      /\ OneBatchEach' /\ WithinBudget' /\ Advances'
  BY <1>1, WithoutChunks
<1> QED  BY <1>4, <1>5, <1>6 DEF ChunkingInv

LEMMA SplitParagraphsInv ==
    ASSUME ChunkingInv, SplitParagraphs
    PROVE  ChunkingInv'
<1>1. /\ stage = "reading"
      /\ sentences' = sentences \union ({words} \ {0})
      /\ paragraphs' = paragraphs \union ({words} \ {0})
      /\ ends' = paragraphs'
      /\ stage' = IF words = 0 THEN "done" ELSE "paragraphs"
      /\ UNCHANGED <<words, tokens, start, chunks, chars, batches>>
  BY DEF SplitParagraphs
<1>2. TypeOK /\ words \in Nat
  <2>1. TypeOK
    BY DEF ChunkingInv
  <2> QED  BY <2>1 DEF TypeOK
<1>3. TypeOK'
  <2>1. paragraphs' \subseteq sentences' /\ sentences' \subseteq 1..words
    BY <1>1, <1>2 DEF TypeOK
  <2> QED  BY <1>1, <1>2, <2>1 DEF TypeOK
<1>4. UnitsInv'
  <2>1. Uncut(paragraphs)'
    BY <1>1 DEF Uncut, Piece
  <2>2. Uncut(sentences)'
    BY <1>1, <1>3 DEF Uncut, Piece, TypeOK
  <2>3. words # 0 => words \in ends'
    BY <1>1
  <2> QED  BY <1>1, <1>3, <2>1, <2>2, <2>3 DEF UnitsInv, TypeOK
<1>5. /\ Gapless(chunks)' /\ Gapless(batches)' /\ LoopInv'
      /\ OneBatchEach' /\ WithinBudget' /\ Advances'
  BY <1>1, WithoutChunks
<1> QED  BY <1>3, <1>4, <1>5 DEF ChunkingInv

LEMMA SplitInv ==
    ASSUME ChunkingInv, Split
    PROVE  ChunkingInv'
<1>1. /\ stage \in {"paragraphs", "sentences"}
      /\ UNCHANGED <<words, tokens, sentences, paragraphs, start, chunks, chars, batches>>
      /\ stage' \in {"sentences", "chunking"}
  BY DEF Split, document
<1>2. /\ TypeOK /\ UnitsInv /\ words \in Nat
      /\ paragraphs \subseteq sentences /\ sentences \subseteq 1..words
      /\ paragraphs \subseteq ends /\ words \in ends /\ ends \subseteq sentences
      /\ Uncut(sentences) /\ Uncut(paragraphs)
  <2>1. TypeOK /\ UnitsInv
    BY DEF ChunkingInv
  <2> QED  BY <1>1, <2>1 DEF UnitsInv, TypeOK
<1>3. NoneInside(paragraphs)
  BY <1>2 DEF NoneInside, Unit, Piece
<1>4. CASE AllFit
  <2>1. stage' = "chunking" /\ ends' = ends
    BY <1>4 DEF Split
  <2>2. TypeOK'
    BY <1>1, <1>2, <2>1 DEF TypeOK
  <2>3. NoneInside(1..words)'
    BY <1>1, <1>4, <2>1 DEF AllFit, NoneInside, Unit, TooLong
  <2>4. Uncut(sentences)' /\ Uncut(paragraphs)'
    BY <1>1, <1>2, <2>1 DEF Uncut, TooLong
  <2> QED  BY <1>1, <1>2, <2>1, <2>2, <2>3, <2>4, WithoutChunks DEF ChunkingInv, UnitsInv
<1>5. CASE ~AllFit /\ stage = "paragraphs"
  <2>1. stage' = "sentences" /\ ends' = Divided(sentences)
    BY <1>5 DEF Split
  <2>2. ends' \subseteq sentences /\ ends \subseteq ends'
    BY <1>2, <2>1 DEF Divided
  <2>3. TypeOK'
    BY <1>1, <1>2, <2>1, <2>2 DEF TypeOK
  <2>4. NoneInside(sentences)'
    <3>1. \A S \in SUBSET (1..words) : ends' = Divided(S) => NoneInside(S)'
      BY <1>1, <1>2, DividedOnce
    <3> QED  BY <1>1, <1>2, <2>1, <3>1 DEF NoneInside
  <2>5. Uncut(paragraphs)'
    <3>1. ASSUME NEW S \in SUBSET (1..words), Uncut(S), NoneInside(S)  PROVE Uncut(S)'
      BY <1>1, <1>2, <2>1, <3>1, StaysUncut
    <3>2. paragraphs \in SUBSET (1..words) /\ Uncut(paragraphs) /\ NoneInside(paragraphs)
      BY <1>2, <1>3
    <3> QED  BY <1>1, <3>1, <3>2 DEF Uncut
  <2>6. Uncut(sentences)'
    BY <1>1, <2>2 DEF Uncut, Piece
  <2> QED  BY <1>1, <1>2, <2>1, <2>2, <2>3, <2>4, <2>5, <2>6, WithoutChunks
              DEF ChunkingInv, UnitsInv
<1>6. CASE ~AllFit /\ stage = "sentences"
  <2>1. stage' = "chunking" /\ ends' = Divided(1..words)
    BY <1>6 DEF Split
  <2>2. ends' \subseteq 1..words /\ ends \subseteq ends'
    BY <1>2, <2>1 DEF Divided
  <2>3. TypeOK'
    BY <1>1, <1>2, <2>1, <2>2 DEF TypeOK
  <2>4. NoneInside(1..words)'
    <3>1. \A S \in SUBSET (1..words) : ends' = Divided(S) => NoneInside(S)'
      BY <1>1, <1>2, DividedOnce
    <3> QED  BY <1>1, <2>1, <3>1 DEF NoneInside
  <2>5. Uncut(paragraphs)'
    <3>1. ASSUME NEW S \in SUBSET (1..words), Uncut(S), NoneInside(S)  PROVE Uncut(S)'
      BY <1>1, <1>2, <2>1, <3>1, StaysUncut
    <3>2. paragraphs \in SUBSET (1..words) /\ Uncut(paragraphs) /\ NoneInside(paragraphs)
      BY <1>2, <1>3
    <3> QED  BY <1>1, <3>1, <3>2 DEF Uncut
  <2>6. NoneInside(sentences)
    BY <1>6, <1>2 DEF UnitsInv
  <2>7. Uncut(sentences)'
    <3>1. ASSUME NEW S \in SUBSET (1..words), Uncut(S), NoneInside(S)  PROVE Uncut(S)'
      BY <1>1, <1>2, <2>1, <3>1, StaysUncut
    <3>2. sentences \in SUBSET (1..words) /\ Uncut(sentences) /\ NoneInside(sentences)
      BY <1>2, <2>6
    <3> QED  BY <1>1, <3>1, <3>2 DEF Uncut
  <2> QED  BY <1>1, <1>2, <2>1, <2>2, <2>3, <2>4, <2>5, <2>7, WithoutChunks
              DEF ChunkingInv, UnitsInv
<1> QED  BY <1>1, <1>4, <1>5, <1>6

\* The chunk begins in what has been covered and covers more: the tail it shares
\* with the last chunk fits the overlap, so all of the tail fits the chunk.
LEMMA ChunkBegins ==
    ASSUME ChunkingInv, stage = "chunking", NEW to \in 1..words,
           Filled(tokens, ends, Budget, start, to)
    PROVE  start <= Reach(chunks) /\ Reach(chunks) <= to
<1>1. CASE chunks = <<>>
  BY <1>1 DEF ChunkingInv, LoopInv, Reach
<1>2. CASE chunks # <<>>
  <2> DEFINE last == chunks[Len(chunks)]
  <2>1. TypeOK /\ words \in Nat /\ chunks \in Seq(Runs(words)) /\ start \in 0..words
    BY DEF ChunkingInv, TypeOK
  <2>2. Len(chunks) \in DOMAIN chunks /\ Len(chunks) \in 1..Len(chunks)
        /\ Reach(chunks) = last.to
    BY <1>2, <2>1 DEF Reach
  <2>3. last.from \in 0..words /\ last.to \in 0..words
    BY <2>1, <2>2, ReachType
  <2>4. StepsBack(last.from, last.to, start) /\ last.to \in ends
    BY <1>2, <2>2 DEF ChunkingInv, LoopInv
  <2> HIDE DEF last
  <2>5. start <= last.to /\ Size(tokens, start, last.to) <= OverlapBudget
    BY <2>4 DEF StepsBack
  <2>6. Size(tokens, start, last.to) \in Int
    BY <2>1, <2>3, SizeType
  <2>7. to < last.to => Size(tokens, start, last.to) > Budget
    BY <2>4 DEF Filled
  <2>8. ~(to < last.to)
    BY <2>5, <2>6, <2>7, OverlapSmall
  <2> QED  BY <2>2, <2>3, <2>5, <2>8
<1> QED  BY <1>1, <1>2

LEMMA ChunkInv ==
    ASSUME ChunkingInv, NEW to \in 1..words, NEW size \in ChunkChars, NextChunk(to, size)
    PROVE  ChunkingInv'
<1> USE DEF ChunkingInv
<1> DEFINE n == Len(chunks)  last == chunks[n]
<1>1. /\ stage = "chunking" /\ Filled(tokens, ends, Budget, start, to)
      /\ chunks' = Append(chunks, Run(start, to)) /\ chars' = Extended(chars, n, size)
      /\ UNCHANGED <<words, tokens, sentences, paragraphs, ends, batches>>
  BY DEF NextChunk, document
<1>2. /\ words \in Nat /\ start \in 0..words /\ tokens \in [0..words -> Nat]
      /\ chunks \in Seq(Runs(words)) /\ chars \in [0..n -> Nat] /\ size \in Nat
      /\ batches = <<>> /\ ends \subseteq 1..words
  BY <1>1 DEF TypeOK, LoopInv
<1>3. /\ to \in ends /\ start < to
      /\ ~TooLong(start, to) \/ \A e \in ends : e <= start \/ to <= e
  <2>1. Size(tokens, start, to) \in Int
    BY <1>2, SizeType
  <2> QED  BY <1>1, <2>1 DEF Filled, TooLong
<1>4. Run(start, to).from = start /\ Run(start, to).to = to /\ Run(start, to) \in Runs(words)
  BY <1>2, <1>3 DEF Run, Runs
<1>5. /\ chunks' \in Seq(Runs(words)) /\ Len(chunks') = n + 1 /\ Reach(chunks') = to
      /\ DOMAIN chunks' = 1..(n + 1) /\ DOMAIN chunks = 1..n /\ n \in Nat
      /\ \A k \in 1..n : chunks'[k] = chunks[k]
      /\ chunks'[n + 1] = Run(start, to)
  BY <1>1, <1>2, <1>4, Appending
<1>6. \A k \in 1..n : chunks[k].from \in 0..words /\ chunks[k].to \in 0..words
  BY <1>2, ReachType
<1>7. start <= Reach(chunks) /\ Reach(chunks) <= to
  BY <1>1, ChunkBegins
<1>8. n > 0 => StepsBack(last.from, last.to, start) /\ Reach(chunks) = last.to
  BY <1>1, <1>2 DEF LoopInv, Reach
<1>9. start' \in 0..words /\ stage' \in {"chunking", "batching"}
  BY <1>1, <1>2 DEF NextChunk
<1>10. chars' \in [0..(n + 1) -> Nat]
  BY <1>1, <1>2, <1>5, Extending
<1> HIDE DEF n, last
<1>11. TypeOK'
  <2>1. batches' \in Seq(Runs(Len(chunks')))
    BY <1>1, <1>2
  <2>2. chars' \in [0..Len(chunks') -> Nat]
    BY <1>5, <1>10
  <2> QED  BY <1>1, <1>2, <1>5, <1>9, <2>1, <2>2 DEF TypeOK
<1>12. UnitsInv'
  <2>1. /\ Uncut(sentences)' /\ Uncut(paragraphs)' /\ NoneInside(1..words)'
    BY <1>1 DEF UnitsInv, Uncut, NoneInside, TooLong, Unit
  <2> QED  BY <1>1, <1>9, <2>1 DEF UnitsInv
<1>13. Gapless(chunks)'
  <2>1. Gapless(Append(chunks, Run(start, to)))
    BY <1>2, <1>3, <1>7, StaysGapless
  <2> QED  BY <1>1, <2>1 DEF Gapless, Reach
<1>14. Gapless(batches)'
  BY <1>1 DEF Gapless, Reach
<1>15. LoopInv'
  <2>1. chunks'[Len(chunks')] = Run(start, to) /\ chunks' # <<>> /\ Reach(chunks)' = to
    BY <1>2, <1>5 DEF Reach
  <2>2. \A k \in DOMAIN chunks' : chunks'[k].to \in ends'
    BY <1>1, <1>3, <1>4, <1>5 DEF LoopInv
  <2>3. CASE to = words /\ stage' = "batching" /\ start' = start
    BY <1>1, <1>2, <2>1, <2>2, <2>3 DEF LoopInv
  <2>4. CASE to < words /\ stage' = "chunking" /\ StepsBack(start, to, start')
    <3>1. start' \in ends'
      BY <1>1, <2>4 DEF StepsBack
    <3>2. StepsBack(chunks[Len(chunks)].from, chunks[Len(chunks)].to, start)'
      BY <1>1, <1>4, <2>1, <2>4 DEF StepsBack, Size
    <3> QED  BY <1>1, <1>2, <2>1, <2>2, <2>4, <3>1, <3>2 DEF LoopInv
  <2> QED  BY <1>1, <2>3, <2>4 DEF NextChunk
<1>16. OneBatchEach'
  BY <1>1, <1>2, <1>9 DEF OneBatchEach
<1>17. WithinBudget'
  <2>1. TooLong(start, to) => to = start + 1
    <3> SUFFICES ASSUME TooLong(start, to), to # start + 1  PROVE FALSE
      OBVIOUS
    <3>1. Unit(start, to)
      BY <1>3 DEF Unit, Piece, LoopInv
    <3>2. NoneInside(1..words) /\ start \in 0..words /\ to \in 0..words /\ start + 1 \in 1..words
      BY <1>1, <1>2, <1>3 DEF UnitsInv
    <3>3. start + 1 <= start \/ to <= start + 1
      BY <3>1, <3>2 DEF NoneInside
    <3> QED  BY <1>2, <1>3, <3>3
  <2>2. ASSUME NEW k \in DOMAIN chunks', TooLong(chunks'[k].from, chunks'[k].to)
        PROVE  chunks'[k].to = chunks'[k].from + 1
    <3>1. CASE k \in 1..n
      BY <1>5, <2>2, <3>1 DEF WithinBudget
    <3>2. CASE k = n + 1
      BY <1>4, <1>5, <2>1, <2>2, <3>2
    <3> QED  BY <1>5, <3>1, <3>2
  <2> QED  BY <1>1, <2>2 DEF WithinBudget, TooLong
<1>18. Advances'
  <2>1. ASSUME NEW j \in 1..n PROVE chunks[j].from < start /\ chunks[j].to <= to
    <3>1. n \in 1..n /\ n > 0
      BY <1>5
    <3>2. last.from \in 0..words /\ last.to \in 0..words
      BY <1>6, <3>1 DEF last
    <3>3. last.from < start
      BY <1>2, <1>8, <3>1, <3>2 DEF StepsBack
    <3>4. last.to <= to
      BY <1>7, <1>8, <3>1
    <3>5. CASE j = n
      BY <3>3, <3>4, <3>5 DEF last
    <3>6. CASE j < n
      <4>1. chunks[j].from < last.from /\ chunks[j].to <= last.to
        BY <1>5, <3>1, <3>6 DEF Advances, last
      <4>2. chunks[j].from \in 0..words /\ chunks[j].to \in 0..words /\ to \in Nat
        BY <1>6
      <4>3. last.from \in Int /\ last.to \in Int /\ start \in Int /\ to \in Int
        BY <1>2, <3>2
      <4>4. chunks[j].from \in Int /\ chunks[j].to \in Int
        BY <1>2, <4>2
      <4> QED  BY <3>3, <3>4, <4>1, <4>3, <4>4
    <3> QED  BY <1>5, <3>5, <3>6
  <2>2. ASSUME NEW j \in 1..(n + 1), NEW k \in 1..(n + 1), j < k
        PROVE  chunks'[j].from < chunks'[k].from /\ chunks'[j].to <= chunks'[k].to
    <3>1. CASE k \in 1..n
      BY <1>5, <2>2, <3>1 DEF Advances
    <3>2. CASE k = n + 1
      BY <1>4, <1>5, <2>1, <2>2, <3>2
    <3> QED  BY <1>5, <3>1, <3>2
  <2> QED  BY <1>5, <2>2 DEF Advances
<1> QED  BY <1>11, <1>12, <1>13, <1>14, <1>15, <1>16, <1>17, <1>18

LEMMA BatchInv ==
    ASSUME ChunkingInv, NEW to \in 1..Len(chunks), NextBatch(to)
    PROVE  ChunkingInv'
<1> DEFINE n == Len(batches)  from == Reach(batches)
<1>1. /\ stage = "batching" /\ Filled(chars, 1..Len(chunks), BatchBudget, from, to)
      /\ batches' = Append(batches, Run(from, to))
      /\ stage' = IF to = Len(chunks) THEN "done" ELSE stage
      /\ UNCHANGED <<words, tokens, sentences, paragraphs, ends, start, chunks, chars>>
  BY DEF NextBatch, document
<1>2. /\ TypeOK /\ UnitsInv
      /\ Gapless(chunks) /\ Gapless(batches) /\ LoopInv
      /\ OneBatchEach /\ WithinBudget /\ Advances
  BY DEF ChunkingInv
<1>3. /\ chunks \in Seq(Runs(words)) /\ Len(chunks) \in Nat
      /\ batches \in Seq(Runs(Len(chunks)))
  BY <1>2 DEF TypeOK
<1>4. from \in 0..Len(chunks) /\ \A b \in 1..n : /\ batches[b].from \in 0..Len(chunks)
                                                 /\ batches[b].to \in 0..Len(chunks)
  BY <1>3, ReachType
<1> HIDE DEF from
<1>5. to \in (from + 1)..Len(chunks)
  BY <1>1, <1>3, <1>4 DEF Filled
<1>6. Run(from, to).from = from /\ Run(from, to).to = to /\ Run(from, to) \in Runs(Len(chunks))
  BY <1>3, <1>4, <1>5 DEF Run, Runs
<1>7. /\ batches' \in Seq(Runs(Len(chunks))) /\ Len(batches') = n + 1 /\ Reach(batches') = to
      /\ DOMAIN batches' = 1..(n + 1) /\ DOMAIN batches = 1..n /\ n \in Nat
      /\ \A b \in 1..n : batches'[b] = batches[b]
      /\ batches'[n + 1] = Run(from, to)
  BY <1>1, <1>3, <1>6, Appending
<1> HIDE DEF n
<1>8. stage' \in {"batching", "done"} /\ (stage' = "done" => to = Len(chunks))
  BY <1>1
<1>9. TypeOK' /\ UnitsInv' /\ Gapless(chunks)'
  <2>1. TypeOK'
    BY <1>1, <1>2, <1>7, <1>8 DEF TypeOK
  <2>2. Uncut(sentences)' /\ Uncut(paragraphs)' /\ NoneInside(1..words)'
    BY <1>1, <1>2 DEF UnitsInv, Uncut, NoneInside, TooLong, Unit
  <2>3. UnitsInv'
    BY <1>1, <1>2, <1>8, <2>2 DEF UnitsInv
  <2> QED  BY <1>1, <1>2, <2>1, <2>3 DEF Gapless, Reach
<1>10. Gapless(batches')
  <2>1. from < to /\ from <= Reach(batches) /\ Reach(batches) <= to
    BY <1>3, <1>4, <1>5 DEF from
  <2>2. Gapless(Append(batches, Run(from, to)))
    BY <1>2, <1>3, <1>4, <1>5, <2>1, StaysGapless
  <2> QED  BY <1>1, <2>2
<1>11. LoopInv'
  <2>1. Reach(chunks)' = words' /\ start' \in ends' \union {0}
        /\ \A k \in DOMAIN chunks' : chunks'[k].to \in ends'
    BY <1>1, <1>2 DEF LoopInv, Reach
  <2>2. stage' = "done" => Reach(batches)' = Len(chunks')
    BY <1>1, <1>7, <1>8 DEF Reach
  <2> QED  BY <1>8, <2>1, <2>2 DEF LoopInv
<1>12. OneBatchEach'
  <2>1. ASSUME NEW b \in 1..(n + 1), NEW d \in 1..(n + 1), b < d
        PROVE  batches'[b].to <= batches'[d].from
    <3>1. b \in 1..n
      BY <1>7, <2>1
    <3>2. CASE d \in 1..n
      BY <1>2, <1>7, <2>1, <3>1, <3>2 DEF OneBatchEach
    <3>3. CASE d = n + 1
      <4>1. batches[b].to <= from
        BY <1>2, <1>7, <3>1 DEF Gapless, from
      <4> QED  BY <1>6, <1>7, <3>1, <3>3, <4>1
    <3> QED  BY <1>7, <3>2, <3>3
  <2>2. ASSUME stage' = "done", NEW c \in 0..(Len(chunks) - 1)
        PROVE  \E b \in DOMAIN batches' : Within(c, batches'[b])
    BY <1>7, <1>8, <1>10, <2>2 DEF Gapless
  <2>3. \A b, d \in DOMAIN batches' : b < d => batches'[b].to <= batches'[d].from
    BY <1>7, <2>1
  <2>4. (\A c \in 0..(Len(chunks) - 1) : \E b \in DOMAIN batches : Within(c, batches[b]))'
          <=> \A c \in 0..(Len(chunks) - 1) : \E b \in DOMAIN batches' : Within(c, batches'[b])
    BY <1>1 DEF Within
  <2> QED  BY <2>2, <2>3, <2>4 DEF OneBatchEach
<1>13. WithinBudget' /\ Advances'
  BY <1>1, <1>2 DEF WithinBudget, Advances, TooLong
<1> QED  BY <1>9, <1>10, <1>11, <1>12, <1>13 DEF ChunkingInv
-----------------------------------------------------------------------------
(* The theorems *)

\* Every step keeps the invariant.
THEOREM Inductive == Spec => []ChunkingInv
<1>1. ChunkingInv /\ [Next]_vars => ChunkingInv'
  <2> SUFFICES ASSUME ChunkingInv, [Next]_vars PROVE ChunkingInv'
    OBVIOUS
  <2>1. ASSUME NEW n \in WordTokens, NEW last \in {"none", "sentence", "paragraph"},
               AddWord(n, last)
        PROVE  ChunkingInv'
    BY <2>1, AddWordInv
  <2>2. CASE SplitParagraphs
    BY <2>2, SplitParagraphsInv
  <2>3. CASE Split
    BY <2>3, SplitInv
  <2>4. ASSUME NEW to \in 1..words, NEW size \in ChunkChars, NextChunk(to, size)
        PROVE  ChunkingInv'
    BY <2>4, ChunkInv
  <2>5. ASSUME NEW to \in 1..Len(chunks), NextBatch(to) PROVE ChunkingInv'
    BY <2>5, BatchInv
  <2>6. CASE UNCHANGED vars
    BY <2>6 DEF vars, document, ChunkingInv, TypeOK, UnitsInv, Uncut, NoneInside, Unit, TooLong,
                Gapless, Reach, LoopInv, StepsBack, Size, OneBatchEach, WithinBudget, Advances
  <2> QED  BY <2>1, <2>2, <2>3, <2>4, <2>5, <2>6 DEF Next, Chunk, Batch
<1> QED  BY <1>1, InitInv, PTL DEF Spec

\* Documents, chunks and batches are well formed.
THEOREM TypeCorrect == Spec => []TypeOK
BY Inductive, PTL DEF ChunkingInv

\* No word of a document is left out of its chunks.
THEOREM NothingIsLost == Spec => []NothingLost
<1>1. ChunkingInv => NothingLost
  BY DEF ChunkingInv, LoopInv, Gapless, NothingLost
<1> QED  BY <1>1, Inductive, PTL

\* A sentence or paragraph that fits is never cut: the chunk that has its first word
\* ends where a unit ends, and no unit ends inside.
THEOREM WhatFitsIsKeptWhole == Spec => []KeptWhole
<1>1. ASSUME ChunkingInv PROVE KeptWhole
  <2> SUFFICES ASSUME stage \in {"batching", "done"}, NEW marks \in {sentences, paragraphs},
                      NEW a \in 0..words, NEW b \in 0..words,
                      Piece(marks, a, b), ~TooLong(a, b)
               PROVE  \E k \in DOMAIN chunks : chunks[k].from <= a /\ b <= chunks[k].to
    BY DEF KeptWhole
  <2>1. \A e \in ends : e <= a \/ b <= e
    BY <1>1 DEF ChunkingInv, UnitsInv, Uncut
  <2>2. words \in Nat /\ ends \subseteq 1..words /\ a < b
    BY <1>1 DEF ChunkingInv, TypeOK, Piece
  <2>3. a \in 0..(words - 1)
    BY <2>2
  <2>4. PICK k \in DOMAIN chunks : Within(a, chunks[k])
    BY <1>1, <2>3 DEF ChunkingInv, LoopInv, Gapless
  <2>5. chunks[k].to \in ends
    BY <1>1 DEF ChunkingInv, LoopInv
  <2> QED  BY <2>1, <2>2, <2>4, <2>5 DEF Within
<1> QED  BY <1>1, Inductive, PTL

\* Every chunk is put into exactly one prompt.
THEOREM OneBatchForEach == Spec => []OneBatchEach
BY Inductive, PTL DEF ChunkingInv

\* Only a chunk of one word is longer than the model reads: the rounds of splitting
\* leave nothing else that is.
THEOREM BudgetsAreKept == Spec => []WithinBudget
BY Inductive, PTL DEF ChunkingInv

\* Every chunk begins behind its predecessor and does not end before it.
THEOREM ChunksAdvance == Spec => []Advances
BY Inductive, PTL DEF ChunkingInv
=============================================================================
