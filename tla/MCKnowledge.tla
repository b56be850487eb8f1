---------------------------- MODULE MCKnowledge ----------------------------
(***************************************************************************)
(* Small instances of Knowledge.  Two documents, so that a fact can have a *)
(* second source; documents, workers and facts of one kind are alike.      *)
(***************************************************************************)
EXTENDS Knowledge, TLC

Symmetry ==
    Permutations(Docs) \union Permutations(Ingesters) \union Permutations(Extractors)
    \union Permutations(Reviewers) \union Permutations(Entities)
=============================================================================
