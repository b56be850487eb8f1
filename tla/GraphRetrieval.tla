--------------------------- MODULE GraphRetrieval ---------------------------
(***************************************************************************)
(* The part of the knowledge graph a question is answered from:            *)
(* retrieve_graph of services/knowledge_service.py.  It loads entities and *)
(* relationships up to a cap, begins with the entities the question names  *)
(* (or the subjects of the predicates it names), goes through the          *)
(* relationships twice until it has as many as it may return, and drops    *)
(* from these what has no name for an end or no evidence that is asked     *)
(* for.  The cap of 5000 entities only decides what can be a seed and what *)
(* has a name: seeds are any entities, and any relationship may be         *)
(* dropped.                                                                *)
(*                                                                         *)
(* The list of relationships has no ORDER BY: any rows fall to the cap,    *)
(* and the walk takes them in any order, here another one in each round.   *)
(* Directions do not matter to the walk; two edges may have the same ends. *)
(* One step is one turn of the inner loop.                                 *)
(*                                                                         *)
(* A definition whose comment begins with "Variant" is the next definition *)
(* with a slip in it: the runs show which property notices the slip.       *)
(***************************************************************************)
EXTENDS Integers, FiniteSets

CONSTANTS
    Entities,
    Predicates,
    Limit,      \* how many facts a prompt may have
    RowCap,     \* how many confirmed relationships are loaded: 2000
    MaxEdges,   \* bound: relationships in force
    MaxExpired, \* bound: confirmed relationships that are not in force
    MaxSeeds    \* bound: seeds of a question

ASSUME GraphAssumption ==
    /\ Limit \in Nat \ {0} /\ RowCap \in Nat
    /\ MaxEdges \in Nat /\ MaxExpired \in Nat /\ MaxSeeds \in Nat

VARIABLES
    inForce,   \* the relationships confirmed and in force
    expired,   \* how many confirmed ones are not in force
    edges,     \* those in force that were loaded
    seeds,     \* where the walk begins
    round,     \* 1, 2, 3 when the walk is over, 0 when the answer is ready
    turned,    \* edges this round has looked at
    selected,  \* edges found so far
    frontier,  \* where this round's edges must begin
    next,      \* next_frontier
    seen,      \* entities reached before this round ended
    dropped    \* what was selected but has no name for an end, or no evidence

loaded == <<inForce, expired, edges, seeds>>
graphVars == <<loaded, round, turned, selected, frontier, next, seen, dropped>>

\* Two distinct ends (models.py:329) and what relates them.
Edges == [ends : {pair \in SUBSET Entities : Cardinality(pair) = 2},
          predicate : Predicates]

\* Every row is loaded as long as the cap allows it.
AllLoaded == Cardinality(inForce) + expired <= RowCap

\* The cap counts rows that are not in force too.
LoadedRows ==
    /\ edges \subseteq inForce
    /\ Cardinality(edges) <= RowCap
    /\ \/ edges = inForce
       \/ Cardinality(inForce \ edges) <= Cardinality(inForce) + expired - RowCap

GraphInit ==
    /\ inForce \in {E \in SUBSET Edges : IsFiniteSet(E) /\ Cardinality(E) <= MaxEdges}
    /\ expired \in 0..MaxExpired
    /\ edges \in SUBSET inForce /\ LoadedRows
    /\ seeds \in {S \in SUBSET Entities : Cardinality(S) \in 1..MaxSeeds}
    /\ round = 1
    /\ turned = {} /\ selected = {} /\ next = {} /\ dropped = {}
    /\ frontier = seeds
    /\ seen = seeds
-----------------------------------------------------------------------------
\* Variant: the list is complete only when it is longer than the limit.
FullOffByOne == Cardinality(selected) > Limit

Full == Cardinality(selected) >= Limit

\* The next relationship: it is skipped, or found.
Look(e) ==
    /\ round \in {1, 2} /\ ~Full
    /\ e \in edges \ turned
    /\ turned' = turned \union {e}
    /\ IF e \notin selected /\ e.ends \cap frontier # {}
       THEN selected' = selected \union {e} /\ next' = next \union e.ends
       ELSE UNCHANGED <<selected, next>>
    /\ UNCHANGED <<loaded, round, frontier, seen, dropped>>

\* Variant: entities reached through an edge that ends in a seed are forgotten.
NewFrontierSkipping ==
    {a \in next \ seen : \A e \in selected : a \in e.ends => e.ends \cap seeds = {}}

NewFrontier == next \ seen

\* The end of the inner loop, by its break or not.
EndRound ==
    /\ round \in {1, 2}
    /\ Full \/ turned = edges
    /\ frontier' = NewFrontier
    /\ seen' = seen \union next
    /\ next' = {} /\ turned' = {}
    /\ round' = IF round = 1 /\ NewFrontier # {} /\ ~Full THEN 2 ELSE 3
    /\ UNCHANGED <<loaded, selected, dropped>>

\* The facts: an edge is dropped for its own ends or its own evidence.
Present ==
    /\ round = 3
    /\ dropped' \in SUBSET selected
    /\ round' = 0
    /\ UNCHANGED <<loaded, turned, selected, frontier, next, seen>>

GraphNext == (\E e \in edges : Look(e)) \/ EndRound \/ Present

GraphSpec == GraphInit /\ [][GraphNext]_graphVars
-----------------------------------------------------------------------------
(* Properties *)

Facts == selected \ dropped
FirstHop == {e \in inForce : e.ends \cap seeds # {}}
SecondHop == {e \in inForce \ FirstHop : \E f \in FirstHop : e.ends \cap f.ends # {}}

\* Whatever the order of the rows and wherever the limit cuts the walk short, it
\* returns no more than the limit and nothing beyond two hops
\* (knowledge_service.py:181, "a bounded two-hop component").
WithinTwoHops ==
    /\ Cardinality(selected) <= Limit
    /\ selected \subseteq FirstHop \union SecondHop

\* What is within two hops and not among the facts was dropped, or came after the
\* limit, or was never loaded because there are more rows than the cap; and the limit
\* takes nothing two hops away in favour of what is one hop away, dropped or not
\* (knowledge_service.py:199-214, the walk before the names and the evidence).
NothingNearMissed ==
    round = 0 /\ AllLoaded =>
        /\ Cardinality(selected) < Limit =>
              FirstHop \union SecondHop \subseteq Facts \union dropped
        /\ Facts \cap SecondHop # {} => FirstHop \subseteq Facts \union dropped
-----------------------------------------------------------------------------
(* The inductive invariant behind them *)

EndsOf(E) == UNION {e.ends : e \in E}

\* One hop away, among what was loaded.
Near == {e \in edges : e.ends \cap seeds # {}}
Beyond == {e \in edges \ Near : \E f \in Near : e.ends \cap f.ends # {}}

\* What a round has selected is what it has looked at and could reach.
RoundInv ==
    /\ round = 1 =>
          /\ frontier = seeds /\ seen = seeds
          /\ selected = turned \cap Near
          /\ next = EndsOf(selected)
    /\ round = 2 =>
          /\ frontier = EndsOf(Near) \ seeds
          /\ selected = Near \union {e \in turned : e.ends \cap frontier # {}}

\* The walk, in terms of what was loaded.
FoundInv ==
    /\ IsFiniteSet(selected) /\ Cardinality(selected) <= Limit
    /\ selected \subseteq Near \union Beyond
    /\ round \in {0, 3} =>
          /\ Cardinality(selected) < Limit => selected = Near \union Beyond
          /\ selected \subseteq Near \/ Near \subseteq selected

WalkInv ==
    /\ round \in 0..3 /\ turned \subseteq edges
    /\ edges \subseteq inForce /\ (AllLoaded => edges = inForce)
    /\ FoundInv /\ RoundInv
=============================================================================
