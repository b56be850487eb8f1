---------------------------- MODULE MCIngestion ----------------------------
(* Model values and symmetry for the TLC runs of Ingestion. *)
EXTENDS Ingestion, TLC

\* Sound for the safety runs: no definition tells one worker, or one
\* document, from another.
Symmetry == Permutations(Workers) \union Permutations(Docs)
=============================================================================
