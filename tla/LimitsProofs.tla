---------------------------- MODULE LimitsProofs ----------------------------
(***************************************************************************)
(* Limits of what an organisation asks for and gets; two that share no     *)
(* state.                                                                  *)
(*                                                                         *)
(* The walk over the knowledge graph, for every graph, every order of its  *)
(* rows and every limit.  RoundInv says what a round has selected: exactly *)
(* what it has looked at and could reach from its frontier.  That the      *)
(* walk stops at the limit follows from one step selecting one edge.       *)
(*                                                                         *)
(* Admission, for every allowance, quota, length of the minute, number of  *)
(* files and of uploads.  Sums are cardinalities, so they need no          *)
(* induction: a sum over two disjoint sets is the sum of their sums.  An   *)
(* interval that contains a new grant lies within a minute of it; what it  *)
(* holds since the window began is at most an allowance, and what it holds *)
(* before leaves out the first grant of the window before.                 *)
(***************************************************************************)
EXTENDS GraphRetrieval, Admission, FiniteSetTheorems, TLAPS

\* Of what was loaded: the edges that leave the first hop are the second hop.
LEMMA SecondFromFrontier ==
    Near \union {e \in edges : e.ends \cap (EndsOf(Near) \ seeds) # {}}
        = Near \union Beyond
  BY DEF Near, Beyond, EndsOf

\* An edge found in the second round is within two hops.
LEMMA FoundInSecondRound ==
    ASSUME NEW e \in edges, e.ends \cap (EndsOf(Near) \ seeds) # {}
    PROVE  e \in Near \union Beyond
  BY DEF Near, Beyond, EndsOf

\* Two hops mean the same before and after a step: the graph does not change.
LEMMA SameHops ==
    ASSUME UNCHANGED <<edges, seeds>>
    PROVE  Near' = Near /\ Beyond' = Beyond
  BY DEF Near, Beyond

\* As long as the cap allows it nothing is left behind.
LEMMA EverythingLoaded ==
    ASSUME IsFiniteSet(inForce), expired \in Nat, LoadedRows
    PROVE  edges \subseteq inForce /\ (AllLoaded => edges = inForce)
  <1> DEFINE rest == inForce \ edges
  <1>1. IsFiniteSet(rest) /\ IsFiniteSet(inForce)
    BY FS_Subset
  <1>2. Cardinality(rest) \in Nat /\ Cardinality(inForce) \in Nat
    BY <1>1, FS_CardinalityType
  <1>3. Cardinality(rest) = 0 => rest = {}
    BY <1>1, FS_EmptySet
  <1>4. edges \subseteq inForce
        /\ (edges = inForce \/ Cardinality(rest) <= Cardinality(inForce) + expired - RowCap)
    BY DEF LoadedRows
  <1>5. AllLoaded => Cardinality(inForce) + expired <= RowCap
    BY DEF AllLoaded
  <1>6. ASSUME AllLoaded, edges # inForce PROVE FALSE
    <2>1. rest # {}
      BY <1>4, <1>6
    <2> HIDE DEF rest
    <2>2. Cardinality(rest) = 0
      BY <1>2, <1>4, <1>5, <1>6, GraphAssumption
    <2>3. QED BY <1>3, <2>1, <2>2
  <1>7. QED BY <1>4, <1>6

LEMMA WalkInit ==
    ASSUME GraphInit PROVE WalkInv
  <1>1. selected = {} /\ turned = {} /\ next = {} /\ round = 1
    BY DEF GraphInit
  <1>2. IsFiniteSet(selected) /\ Cardinality(selected) = 0
    BY <1>1, FS_EmptySet
  <1>3. FoundInv
    BY <1>1, <1>2, GraphAssumption DEF FoundInv
  <1>4. RoundInv
    BY <1>1 DEF GraphInit, RoundInv, EndsOf
  <1>5. edges \subseteq inForce /\ (AllLoaded => edges = inForce)
    BY EverythingLoaded DEF GraphInit
  <1>6. QED
    BY <1>1, <1>3, <1>4, <1>5 DEF WalkInv

\* A turn of the inner loop, whether it finds an edge or skips it.
LEMMA LookInv ==
    ASSUME WalkInv, NEW e \in edges, Look(e)
    PROVE  WalkInv'
  <1> DEFINE found == e \notin selected /\ e.ends \cap frontier # {}
  <1>1. round' = round /\ round \in {1, 2} /\ turned' = turned \union {e}
        /\ UNCHANGED <<inForce, expired, edges, seeds, frontier, seen>>
    BY DEF Look, WalkInv, loaded
  <1>2. Near' = Near /\ Beyond' = Beyond
    BY <1>1, SameHops
  <1>3. IsFiniteSet(selected) /\ Cardinality(selected) \in Nat /\ Cardinality(selected) < Limit
    BY GraphAssumption, FS_CardinalityType DEF WalkInv, FoundInv, Look, Full
  <1>4. CASE found
    <2>1. selected' = selected \union {e} /\ next' = next \union e.ends
      BY <1>4 DEF Look
    <2>2. IsFiniteSet(selected') /\ Cardinality(selected') = Cardinality(selected) + 1
      BY <1>3, <1>4, <2>1, FS_AddElement
    <2>3. e \in Near \union Beyond
      <3>1. CASE round = 1
        BY <1>4, <3>1 DEF WalkInv, RoundInv, Near
      <3>2. CASE round = 2
        BY <1>4, <3>2, FoundInSecondRound DEF WalkInv, RoundInv
      <3>3. QED BY <1>1, <3>1, <3>2
    <2>4. FoundInv'
      BY <1>1, <1>2, <1>3, <2>1, <2>2, <2>3, GraphAssumption DEF WalkInv, FoundInv
    <2>5. RoundInv'
      <3>1. CASE round = 1
        <4>1. e \in Near
          BY <1>4, <3>1 DEF WalkInv, RoundInv, Near
        <4>2. selected' = turned' \cap Near'
          BY <1>1, <1>2, <2>1, <3>1, <4>1 DEF WalkInv, RoundInv
        <4>3. next' = EndsOf(selected')
          BY <2>1, <3>1 DEF WalkInv, RoundInv, EndsOf
        <4>4. QED BY <1>1, <3>1, <4>2, <4>3 DEF WalkInv, RoundInv, EndsOf
      <3>2. CASE round = 2
        <4>1. selected' = Near' \union {f \in turned' : f.ends \cap frontier' # {}}
          BY <1>1, <1>2, <1>4, <2>1, <3>2 DEF WalkInv, RoundInv
        <4>2. frontier' = EndsOf(Near') \ seeds'
          BY <1>1, <1>2, <3>2 DEF WalkInv, RoundInv
        <4>3. QED BY <1>1, <3>2, <4>1, <4>2 DEF RoundInv, EndsOf
      <3>3. QED BY <1>1, <3>1, <3>2
    <2>6. QED
      BY <1>1, <2>4, <2>5 DEF WalkInv, AllLoaded
  <1>5. CASE ~found
    <2>1. UNCHANGED <<selected, next>>
      BY <1>5 DEF Look
    <2>2. FoundInv'
      BY <1>1, <1>2, <2>1 DEF WalkInv, FoundInv
    <2>3. RoundInv'
      <3>1. CASE round = 1
        <4>1. e \in Near => e \in selected
          BY <1>5, <3>1 DEF WalkInv, RoundInv, Near
        <4>2. selected' = turned' \cap Near'
          BY <1>1, <1>2, <2>1, <3>1, <4>1 DEF WalkInv, RoundInv
        <4>3. QED BY <1>1, <2>1, <3>1, <4>2 DEF WalkInv, RoundInv, EndsOf
      <3>2. CASE round = 2
        <4>1. selected' = Near' \union {f \in turned' : f.ends \cap frontier' # {}}
          BY <1>1, <1>2, <1>5, <2>1, <3>2 DEF WalkInv, RoundInv
        <4>2. frontier' = EndsOf(Near') \ seeds'
          BY <1>1, <1>2, <3>2 DEF WalkInv, RoundInv
        <4>3. QED BY <1>1, <3>2, <4>1, <4>2 DEF RoundInv, EndsOf
      <3>3. QED BY <1>1, <3>1, <3>2
    <2>4. QED
      BY <1>1, <2>2, <2>3 DEF WalkInv, AllLoaded
  <1>6. QED BY <1>4, <1>5

\* A round that ends has seen every edge, or the limit ended it.
LEMMA EndRoundInv ==
    ASSUME WalkInv, EndRound
    PROVE  WalkInv'
  <1>1. UNCHANGED <<inForce, expired, edges, seeds, selected>>
        /\ turned' = {} /\ round' \in {2, 3}
        /\ round \in {1, 2} /\ frontier' = NewFrontier
    BY DEF EndRound, WalkInv, loaded
  <1>2. Near' = Near /\ Beyond' = Beyond
    BY <1>1, SameHops
  <1>4. Full \/ (turned = edges /\ Cardinality(selected) < Limit)
    BY FS_CardinalityType, GraphAssumption DEF EndRound, Full, WalkInv, FoundInv
  <1>5. round = 1 /\ turned = edges => selected = Near
    BY DEF WalkInv, RoundInv, Near
  <1>6. RoundInv'
    <2>1. CASE round' = 2
      <3>1. round = 1 /\ ~Full
        BY <2>1 DEF EndRound
      <3>2. selected = Near
        BY <1>4, <1>5, <3>1
      <3>3. frontier' = EndsOf(Near) \ seeds
        BY <1>1, <3>1, <3>2 DEF WalkInv, RoundInv, NewFrontier
      <3>4. QED BY <1>1, <1>2, <2>1, <3>2, <3>3 DEF RoundInv, EndsOf
    <2>2. QED BY <1>1, <2>1 DEF RoundInv
  <1>7. FoundInv'
    <2> SUFFICES ASSUME round' = 3 PROVE FoundInv'
      BY <1>1, <1>2 DEF WalkInv, FoundInv
    <2>1. selected \subseteq Near \/ Near \subseteq selected
      BY <1>1 DEF WalkInv, RoundInv
    <2>2. ASSUME Cardinality(selected) < Limit PROVE selected = Near \union Beyond
      <3>1. turned = edges /\ ~Full
        BY <2>2, <1>4, FS_CardinalityType, GraphAssumption DEF WalkInv, FoundInv, Full
      <3>2. CASE round = 1
        <4>1. NewFrontier = {}
          BY <3>1, <3>2 DEF EndRound
        <4>2. selected = Near
          BY <1>5, <3>1, <3>2
        <4>3. EndsOf(Near) \ seeds = {}
          BY <3>2, <4>1, <4>2 DEF WalkInv, RoundInv, NewFrontier
        <4>4. Beyond \subseteq Near
          BY <4>3, SecondFromFrontier
        <4>5. QED BY <4>2, <4>4
      <3>3. CASE round = 2
        BY <3>1, <3>3, SecondFromFrontier DEF WalkInv, RoundInv
      <3>4. QED BY <1>1, <3>2, <3>3
    <2>3. QED BY <1>1, <1>2, <2>1, <2>2 DEF WalkInv, FoundInv
  <1>8. QED
    BY <1>1, <1>6, <1>7 DEF WalkInv, AllLoaded

LEMMA WalkStep ==
    ASSUME WalkInv, [GraphNext]_graphVars
    PROVE  WalkInv'
  <1>1. CASE \E e \in edges : Look(e)
    BY <1>1, LookInv
  <1>2. CASE EndRound
    BY <1>2, EndRoundInv
  <1>3. CASE Present \/ UNCHANGED graphVars
    <2>1. /\ UNCHANGED <<loaded, turned, selected, frontier, next, seen>>
          /\ round' = round \/ (round = 3 /\ round' = 0)
      BY <1>3 DEF Present, graphVars
    <2>2. UNCHANGED <<inForce, expired, edges, seeds>>
      BY <2>1 DEF loaded
    <2>3. FoundInv'
      BY <2>1, <2>2 DEF WalkInv, FoundInv, Near, Beyond
    <2>4. RoundInv'
      BY <2>1, <2>2 DEF WalkInv, RoundInv, Near, EndsOf
    <2>5. QED
      BY <2>1, <2>2, <2>3, <2>4 DEF WalkInv, AllLoaded
  <1>4. QED BY <1>1, <1>2, <1>3 DEF GraphNext

LEMMA WalkAlways == GraphSpec => []WalkInv
  <1>1. GraphInit => WalkInv
    BY WalkInit
  <1>2. WalkInv /\ [GraphNext]_graphVars => WalkInv'
    BY WalkStep
  <1>3. QED BY <1>1, <1>2, PTL DEF GraphSpec

\* The facts a prompt gets are at most the limit and at most two relationships
\* away from what the question names (knowledge_service.py:181).
THEOREM WalkStaysNear == GraphSpec => []WithinTwoHops
  <1>1. WalkInv => WithinTwoHops
    BY DEF WalkInv, FoundInv, WithinTwoHops, FirstHop, SecondHop, Near, Beyond
  <1>2. QED BY <1>1, WalkAlways, PTL

\* As long as all rows fit the cap, something near is no fact only because the limit
\* was reached or because it was dropped itself, and never for something farther.
THEOREM WalkMissesNothing == GraphSpec => []NothingNearMissed
  <1>1. ASSUME WalkInv PROVE NothingNearMissed
    <2> SUFFICES ASSUME round = 0, AllLoaded PROVE NothingNearMissed
      BY DEF NothingNearMissed
    <2>1. edges = inForce /\ FoundInv
      BY <1>1 DEF WalkInv
    <2>2. Near = FirstHop /\ Beyond = SecondHop
      BY <2>1 DEF Near, Beyond, FirstHop, SecondHop
    <2>3. Facts \union dropped = selected \union dropped /\ Facts \subseteq selected
      BY DEF Facts
    <2>4. FirstHop \cap SecondHop = {}
      BY DEF SecondHop
    <2>5. QED BY <2>1, <2>2, <2>3, <2>4 DEF NothingNearMissed, FoundInv
  <1>2. QED BY <1>1, WalkAlways, PTL
-----------------------------------------------------------------------------
(* Sums *)

Blocks(f, S) == UNION {{x} \X (1..f[x]) : x \in S}

LEMMA OneToN ==
    ASSUME NEW n \in Nat
    PROVE  IsFiniteSet(1..n) /\ Cardinality(1..n) = n
<1>1. 1 \in Int /\ n \in Int
  OBVIOUS
<1>2. IsFiniteSet(1..n) /\ Cardinality(1..n) = IF 1 > n THEN 0 ELSE n - 1 + 1
  BY <1>1, FS_Interval
<1> QED  BY <1>2

LEMMA BlocksFinite ==
    ASSUME NEW S, IsFiniteSet(S), NEW f, \A x \in S : f[x] \in Nat
    PROVE  IsFiniteSet(Blocks(f, S))
<1> DEFINE T == {{x} \X (1..f[x]) : x \in S}
           h == [x \in S |-> {x} \X (1..f[x])]
<1>1. h \in Surjection(S, T)
  BY DEF Surjection
<1>2. IsFiniteSet(T)
  BY <1>1, FS_Surjection
<1>3. ASSUME NEW x \in S PROVE IsFiniteSet({x} \X (1..f[x]))
  <2>1. IsFiniteSet({x})
    BY FS_Singleton
  <2>2. IsFiniteSet(1..f[x])
    BY OneToN
  <2> QED  BY <2>1, <2>2, FS_Product
<1>4. \A U \in T : IsFiniteSet(U)
  BY <1>3
<1> QED  BY <1>2, <1>4, FS_UNION DEF Blocks

LEMMA TotalType ==
    ASSUME NEW S, IsFiniteSet(S), NEW f, \A x \in S : f[x] \in Nat
    PROVE  Total(f, S) \in Nat
BY BlocksFinite, FS_CardinalityType DEF Total, Blocks

LEMMA TotalSame ==
    ASSUME NEW S, NEW f, NEW g, \A x \in S : f[x] = g[x]
    PROVE  Total(f, S) = Total(g, S)
<1>1. Blocks(f, S) = Blocks(g, S)
  BY DEF Blocks
<1> QED  BY <1>1 DEF Total, Blocks

LEMMA TotalSplit ==
    ASSUME NEW S, IsFiniteSet(S), NEW T, IsFiniteSet(T), S \cap T = {},
           NEW f, \A x \in S \union T : f[x] \in Nat
    PROVE  Total(f, S \union T) = Total(f, S) + Total(f, T)
<1>1. Blocks(f, S \union T) = Blocks(f, S) \union Blocks(f, T)
  BY DEF Blocks
<1>2. Blocks(f, S) \cap Blocks(f, T) = {}
  BY DEF Blocks
<1>3. IsFiniteSet(Blocks(f, S)) /\ IsFiniteSet(Blocks(f, T))
  BY BlocksFinite
<1>4. Cardinality(Blocks(f, S) \union Blocks(f, T)) =
        Cardinality(Blocks(f, S)) + Cardinality(Blocks(f, T))
  <2>1. Cardinality(Blocks(f, S) \cap Blocks(f, T)) = 0
    BY <1>2, FS_EmptySet
  <2>2. Cardinality(Blocks(f, S)) \in Nat /\ Cardinality(Blocks(f, T)) \in Nat
    BY <1>3, FS_CardinalityType
  <2>3. Cardinality(Blocks(f, S) \union Blocks(f, T)) =
          Cardinality(Blocks(f, S)) + Cardinality(Blocks(f, T))
            - Cardinality(Blocks(f, S) \cap Blocks(f, T))
    BY <1>3, FS_Union
  <2> QED  BY <2>1, <2>2, <2>3
<1> QED  BY <1>1, <1>4 DEF Total, Blocks

LEMMA TotalOne ==
    ASSUME NEW x, NEW f, f[x] \in Nat
    PROVE  Total(f, {x}) = f[x]
<1>1. Blocks(f, {x}) = {x} \X (1..f[x])
  BY DEF Blocks
<1>2. IsFiniteSet(1..f[x]) /\ Cardinality(1..f[x]) = f[x]
  BY OneToN
<1>3. IsFiniteSet({x}) /\ Cardinality({x}) = 1
  BY FS_Singleton
<1>4. Cardinality({x} \X (1..f[x])) = Cardinality({x}) * Cardinality(1..f[x])
  BY <1>2, <1>3, FS_Product
<1>5. Cardinality({x} \X (1..f[x])) = f[x]
  BY <1>2, <1>3, <1>4
<1>6. Total(f, {x}) = Cardinality(Blocks(f, {x}))
  BY DEF Total, Blocks
<1> QED  BY <1>1, <1>5, <1>6

LEMMA TotalWithout ==
    ASSUME NEW S, IsFiniteSet(S), NEW x \in S, NEW f, \A y \in S : f[y] \in Nat
    PROVE  /\ Total(f, S) = f[x] + Total(f, S \ {x})
           /\ Total(f, S \ {x}) \in Nat
<1>1. IsFiniteSet({x}) /\ IsFiniteSet(S \ {x})
  BY FS_Singleton, FS_RemoveElement
<1>2. S = {x} \union (S \ {x})
  OBVIOUS
<1>3. Total(f, {x} \union (S \ {x})) = Total(f, {x}) + Total(f, S \ {x})
  BY <1>1, TotalSplit
<1> QED  BY <1>1, <1>2, <1>3, TotalOne, TotalType

LEMMA TotalPart ==
    ASSUME NEW S, IsFiniteSet(S), NEW T \in SUBSET S, NEW f, \A x \in S : f[x] \in Nat
    PROVE  Total(f, T) <= Total(f, S)
<1>1. IsFiniteSet(T) /\ IsFiniteSet(S \ T)
  BY FS_Subset, FS_Difference
<1>2. S = T \union (S \ T)
  OBVIOUS
<1>3. Total(f, T \union (S \ T)) = Total(f, T) + Total(f, S \ T)
  BY <1>1, TotalSplit
<1>4. Total(f, T) \in Nat /\ Total(f, S \ T) \in Nat
  BY <1>1, TotalType
<1>5. Total(f, S) = Total(f, T) + Total(f, S \ T)
  BY <1>2, <1>3
<1> QED  BY <1>4, <1>5

LEMMA TotalZero ==
    ASSUME NEW S, IsFiniteSet(S), NEW f, \A x \in S : f[x] = 0
    PROVE  Total(f, S) = 0
<1>1. Blocks(f, S) = {}
  BY DEF Blocks
<1> QED  BY <1>1, FS_EmptySet DEF Total, Blocks

\* One value changes.
LEMMA TotalChanged ==
    ASSUME NEW S, IsFiniteSet(S), NEW x \in S, NEW f, NEW g,
           \A y \in S : f[y] \in Nat /\ g[y] \in Nat,
           \A y \in S \ {x} : g[y] = f[y]
    PROVE  Total(g, S) + f[x] = Total(f, S) + g[x]
<1>1. Total(f, S \ {x}) = Total(g, S \ {x})
  BY TotalSame
<1>2. Total(f, S) = f[x] + Total(f, S \ {x}) /\ Total(f, S \ {x}) \in Nat
  BY TotalWithout
<1>3. Total(g, S) = g[x] + Total(g, S \ {x})
  BY TotalWithout
<1> QED  BY <1>1, <1>2, <1>3
-----------------------------------------------------------------------------
(* One more request is granted *)

USE AdmissionAssumption

Ticks == 0..LastTick

LEMMA TicksFinite ==
    ASSUME NEW S \in SUBSET Ticks
    PROVE  IsFiniteSet(S)
<1>1. 0 \in Int /\ LastTick \in Int
  OBVIOUS
<1>2. IsFiniteSet(Ticks)
  BY <1>1, FS_Interval DEF Ticks
<1> QED  BY <1>2, FS_Subset

LEMMA GrantsType ==
    ASSUME NEW f \in [Ticks -> Nat], NEW S \in SUBSET Ticks
    PROVE  Total(f, S) \in Nat
<1>1. \A t \in S : f[t] \in Nat
  OBVIOUS
<1> QED  BY <1>1, TicksFinite, TotalType

LEMMA GrantsPart ==
    ASSUME NEW f \in [Ticks -> Nat], NEW S \in SUBSET Ticks, NEW T \in SUBSET S
    PROVE  Total(f, T) <= Total(f, S)
<1>1. \A t \in S : f[t] \in Nat
  OBVIOUS
<1> QED  BY <1>1, TicksFinite, TotalPart

LEMMA GrantsCover ==
    ASSUME NEW f \in [Ticks -> Nat], NEW S \in SUBSET Ticks, NEW T \in SUBSET Ticks,
           NEW U \in SUBSET Ticks, S \subseteq T \union U
    PROVE  Total(f, S) <= Total(f, T) + Total(f, U)
<1>1. S \cap T \in SUBSET T /\ S \ T \in SUBSET U /\ S = (S \cap T) \union (S \ T)
  OBVIOUS
<1>2. IsFiniteSet(S \cap T) /\ IsFiniteSet(S \ T) /\ (S \cap T) \cap (S \ T) = {}
  BY TicksFinite
<1>3. \A t \in (S \cap T) \union (S \ T) : f[t] \in Nat
  OBVIOUS
<1>4. Total(f, (S \cap T) \union (S \ T)) = Total(f, S \cap T) + Total(f, S \ T)
  BY <1>2, <1>3, TotalSplit
<1>5. Total(f, S) = Total(f, S \cap T) + Total(f, S \ T)
  BY <1>1, <1>4
<1>6. Total(f, S \cap T) <= Total(f, T) /\ Total(f, S \ T) <= Total(f, U)
  BY <1>1, GrantsPart
<1>7. /\ Total(f, S \cap T) \in Nat /\ Total(f, S \ T) \in Nat
      /\ Total(f, T) \in Nat /\ Total(f, U) \in Nat
  BY GrantsType
<1> QED  BY <1>5, <1>6, <1>7

LEMMA OneMoreGrant ==
    ASSUME NEW f \in [Ticks -> Nat], NEW at \in Ticks, NEW S \in SUBSET Ticks
    PROVE  LET g == [f EXCEPT ![at] = @ + 1]
           IN  Total(g, S) = IF at \in S THEN Total(f, S) + 1 ELSE Total(f, S)
<1> DEFINE g == [f EXCEPT ![at] = @ + 1]
<1>1. \A t \in Ticks : f[t] \in Nat /\ g[t] = IF t = at THEN f[t] + 1 ELSE f[t]
  OBVIOUS
<1>2. IsFiniteSet(S) /\ Total(f, S) \in Nat
  BY TicksFinite, GrantsType
<1>3. g \in [Ticks -> Nat]
  BY <1>1
<1>4. Total(g, S) \in Nat
  BY <1>3, GrantsType
<1> HIDE DEF g
<1>5. CASE at \in S
  <2>1. \A t \in S : f[t] \in Nat /\ g[t] \in Nat
    BY <1>1, <1>3
  <2>2. \A t \in S \ {at} : g[t] = f[t]
    BY <1>1
  <2>3. Total(g, S) + f[at] = Total(f, S) + g[at]
    BY <1>2, <1>5, <2>1, <2>2, TotalChanged
  <2>4. f[at] \in Nat /\ g[at] = f[at] + 1
    BY <1>1
  <2> QED  BY <1>2, <1>4, <1>5, <2>3, <2>4 DEF g
<1>6. CASE at \notin S
  <2>1. \A t \in S : g[t] = f[t]
    BY <1>1, <1>6
  <2> QED  BY <1>6, <2>1, TotalSame DEF g
<1> QED  BY <1>5, <1>6

\* The window that a request at time `at` falls into, and that window afterwards.
Falls(w, at) ==
    IF w.requests = 0 \/ at >= w.start + Minute THEN [start |-> at, requests |-> 0] ELSE w
Counts(w, at) == [Falls(w, at) EXCEPT !.requests = @ + 1]

LEMMA OneMoreFits ==
    ASSUME NEW w \in [start : Ticks, requests : Nat], NEW f \in [Ticks -> Nat],
           NEW at \in Ticks, \A t \in Ticks : f[t] > 0 => t <= at,
           Fits(w, f), Falls(w, at).requests < Allowance
    PROVE  /\ Fits(Counts(w, at), [f EXCEPT ![at] = @ + 1])
           /\ Counts(w, at) \in [start : Ticks, requests : Nat]
           /\ Counts(w, at).requests > 0
           /\ Counts(w, at).start <= at /\ at < Counts(w, at).start + Minute
<1> DEFINE g == [f EXCEPT ![at] = @ + 1]
<1>0. /\ g \in [Ticks -> Nat] /\ g[at] > 0
      /\ \A t \in Ticks : f[t] \in Nat /\ (g[t] > 0 => t = at \/ f[t] > 0)
      /\ \A t \in Ticks : f[t] > 0 => g[t] > 0
  OBVIOUS
<1>1. \A s \in Ticks : Since(s) \in SUBSET Ticks /\ Before(s) \in SUBSET Ticks
  BY DEF Since, Before, Ticks
<1>2. \A s \in Ticks : /\ Total(f, Since(s)) \in Nat /\ Total(f, Before(s)) \in Nat
                       /\ Total(g, Since(s)) = IF at \in Since(s) THEN Total(f, Since(s)) + 1
                                               ELSE Total(f, Since(s))
                       /\ Total(g, Before(s)) = IF at \in Before(s) THEN Total(f, Before(s)) + 1
                                                ELSE Total(f, Before(s))
  BY <1>1, GrantsType, OneMoreGrant
<1>3. at \in Since(at) /\ at \notin Before(at) /\ Ticks \subseteq Nat
  BY DEF Since, Before, Ticks
<1> HIDE DEF g
<1>4. ASSUME w.requests = 0 \/ at >= w.start + Minute,
             Total(f, Since(at)) = 0, Total(f, Before(at)) < Allowance
      PROVE  /\ Fits([start |-> at, requests |-> 1], g)
             /\ Counts(w, at) = [start |-> at, requests |-> 1]
  <2>1. Counts(w, at) = [start |-> at, requests |-> 1]
    BY <1>4 DEF Counts, Falls
  <2>2. Total(g, Since(at)) = 1 /\ Total(g, Before(at)) < Allowance
    BY <1>2, <1>3, <1>4
  <2>3. \A t \in 0..LastTick : g[t] > 0 => t < at + Minute
    BY <1>0, <1>3 DEF Ticks
  <2> QED  BY <1>0, <2>1, <2>2, <2>3 DEF Fits
<1>5. CASE w.requests = 0
  <2>1. \A t \in Ticks : f[t] = 0
    BY <1>5 DEF Fits, Ticks
  <2>2. Total(f, Since(at)) = 0 /\ Total(f, Before(at)) = 0
    BY <1>1, <2>1, TicksFinite, TotalZero
  <2> QED  BY <1>3, <1>4, <1>5, <2>2 DEF g
<1>6. CASE w.requests # 0 /\ at >= w.start + Minute
  <2>1. w.start \in Ticks /\ f[w.start] > 0 /\ Total(f, Since(w.start)) <= Allowance
    BY <1>6 DEF Fits
  <2>2. \A t \in Since(at) : f[t] = 0
    <3> SUFFICES ASSUME NEW t \in Since(at) PROVE f[t] = 0
      OBVIOUS
    <3>1. t \in Ticks /\ at <= t
      BY DEF Since, Ticks
    <3>2. f[t] > 0 => t < w.start + Minute
      BY <1>6, <3>1 DEF Fits, Ticks
    <3>3. f[t] \in Nat /\ t \in Nat /\ at \in Nat /\ w.start \in Nat /\ Minute \in Nat
      BY <1>0, <1>3, <2>1, <3>1
    <3>4. ~(t < w.start + Minute)
      BY <1>6, <3>1, <3>3
    <3> QED  BY <3>2, <3>3, <3>4
  <2>3. Total(f, Since(at)) = 0
    BY <1>1, <2>2, TicksFinite, TotalZero
  <2>4. w.start \in Since(w.start) /\ \A t \in Since(w.start) : f[t] \in Nat
    BY <1>0, <1>1, <1>3, <2>1 DEF Since, Ticks
  <2>5. /\ Total(f, Since(w.start)) = f[w.start] + Total(f, Since(w.start) \ {w.start})
        /\ Total(f, Since(w.start) \ {w.start}) \in Nat
    BY <1>1, <2>1, <2>4, TicksFinite, TotalWithout
  <2>6. Before(at) \subseteq Since(w.start) \ {w.start}
    BY <1>3, <1>6, <2>1 DEF Before, Since, Ticks
  <2>7. Total(f, Before(at)) <= Total(f, Since(w.start) \ {w.start})
    BY <1>1, <2>1, <2>6, GrantsPart
  <2>8. Total(f, Before(at)) < Allowance
    BY <1>0, <1>2, <2>1, <2>5, <2>7
  <2> QED  BY <1>3, <1>4, <1>6, <2>3, <2>8 DEF g
<1>7. CASE w.requests # 0 /\ ~(at >= w.start + Minute)
  <2>1. w.start \in Ticks /\ f[w.start] > 0 /\ w.requests < Allowance
    BY <1>7 DEF Fits, Falls
  <2>2. w.start <= at
    BY <2>1
  <2>3. at \in Since(w.start) /\ at \notin Before(w.start)
    BY <1>3, <2>1, <2>2 DEF Since, Before, Ticks
  <2>4. Counts(w, at) = [start |-> w.start, requests |-> w.requests + 1]
    BY <1>7 DEF Counts, Falls
  <2>5. /\ Total(g, Since(w.start)) = w.requests + 1
        /\ Total(g, Before(w.start)) < Allowance
    BY <1>2, <1>7, <2>1, <2>3 DEF Fits
  <2>6. \A t \in 0..LastTick : g[t] > 0 => t < w.start + Minute
    BY <1>0, <1>3, <1>7, <2>1 DEF Fits, Ticks
  <2>7. Fits([start |-> w.start, requests |-> w.requests + 1], g)
    BY <1>0, <2>1, <2>5, <2>6 DEF Fits
  <2> QED  BY <1>3, <1>7, <2>1, <2>2, <2>4, <2>7 DEF g
<1> QED  BY <1>5, <1>6, <1>7

\* An interval that holds the new grant lies in the minute before the window and
\* the window itself.
LEMMA OneMoreBounded ==
    ASSUME NEW w \in [start : Ticks, requests : Nat], NEW f \in [Ticks -> Nat],
           NEW at \in Ticks, \A t \in Ticks : f[t] > 0 => t <= at,
           Fits(w, f), Falls(w, at).requests < Allowance,
           NEW t \in Ticks, Total(f, (t..(t + Minute - 1)) \cap Ticks) < 2 * Allowance
    PROVE  Total([f EXCEPT ![at] = @ + 1], (t..(t + Minute - 1)) \cap Ticks) < 2 * Allowance
<1> DEFINE g == [f EXCEPT ![at] = @ + 1]
           I == (t..(t + Minute - 1)) \cap Ticks
           v == Counts(w, at)
<1>1. CASE at \notin I
  <2>1. I \in SUBSET Ticks
    OBVIOUS
  <2>2. at \notin I
    BY <1>1
  <2> HIDE DEF I
  <2>3. Total(g, I) = IF at \in I THEN Total(f, I) + 1 ELSE Total(f, I)
    BY <2>1, OneMoreGrant
  <2> QED  BY <2>2, <2>3 DEF I
<1>2. CASE at \in I
  <2>1. /\ Fits(v, g) /\ v.start \in Ticks /\ v.requests > 0
        /\ v.start <= at /\ at < v.start + Minute
    BY OneMoreFits
  <2>2. g \in [Ticks -> Nat] /\ Ticks \subseteq Nat
    BY DEF Ticks
  <2> HIDE DEF g, v
  <2>3. Since(v.start) \in SUBSET Ticks /\ Before(v.start) \in SUBSET Ticks
    BY DEF Since, Before, Ticks
  <2>4. I \subseteq Before(v.start) \union Since(v.start)
    <3> SUFFICES ASSUME NEW s \in I PROVE s \in Before(v.start) \union Since(v.start)
      OBVIOUS
    <3>1. s \in Nat /\ s \in 0..LastTick /\ at < s + Minute /\ at \in Nat /\ v.start \in Nat
      BY <1>2, <2>1, <2>2 DEF Ticks
    <3> QED  BY <2>1, <3>1 DEF Before, Since
  <2>5. Total(g, I) <= Total(g, Before(v.start)) + Total(g, Since(v.start))
    BY <2>2, <2>3, <2>4, GrantsCover
  <2>6. Total(g, Since(v.start)) <= Allowance /\ Total(g, Before(v.start)) < Allowance
    BY <2>1 DEF Fits
  <2>7. /\ Total(g, I) \in Nat /\ Total(g, Before(v.start)) \in Nat
        /\ Total(g, Since(v.start)) \in Nat
    BY <2>2, <2>3, GrantsType
  <2>8. Total(g, I) < 2 * Allowance
    BY <2>5, <2>6, <2>7
  <2> QED  BY <2>8 DEF g
<1> QED  BY <1>1, <1>2

LEMMA WindowIsFalls ==
    ASSUME NEW k \in Kinds, NEW t
    PROVE  WindowAt(k, t) = Falls(window[k], t)
BY DEF WindowAt, NewWindow, Falls

\* Requests are granted while no upload is under way any more.
LEMMA GrantKeepsRate ==
    ASSUME AdmissionTypeOK, RateInv, RateBounded, NEW k \in Kinds, NEW at \in Ticks,
           at <= now, \A t \in Ticks : granted[k][t] > 0 => t <= at,
           WindowAt(k, at).requests < Allowance, Grant(k, at),
           now' = now, \A u \in Uploads : ~Streaming(u)'
    PROVE  /\ window' \in [Kinds -> [start : 0..LastTick, requests : Nat]]
           /\ granted' \in [Kinds -> [0..LastTick -> Nat]]
           /\ RateInv' /\ RateBounded'
<1> DEFINE f == granted[k]
           g == [f EXCEPT ![at] = @ + 1]
<1>1. /\ window \in [Kinds -> [start : Ticks, requests : Nat]]
      /\ granted \in [Kinds -> [Ticks -> Nat]]
  BY DEF AdmissionTypeOK, Ticks
<1>2. /\ window[k] \in [start : Ticks, requests : Nat] /\ f \in [Ticks -> Nat]
      /\ Fits(window[k], f) /\ Falls(window[k], at).requests < Allowance
  BY <1>1, WindowIsFalls DEF RateInv
<1>3. window' = [window EXCEPT ![k] = Counts(window[k], at)]
  BY WindowIsFalls DEF Grant, Counts
<1>4. granted' = [granted EXCEPT ![k] = g]
  BY <1>1 DEF Grant
<1>5. /\ Fits(Counts(window[k], at), g)
      /\ Counts(window[k], at) \in [start : Ticks, requests : Nat]
  BY <1>2, OneMoreFits
<1>6. /\ g \in [Ticks -> Nat]
      /\ \A t \in Ticks : g[t] > 0 => f[t] > 0 \/ t = at
  BY <1>2
<1>7. \A t \in Ticks : Total(g, (t..(t + Minute - 1)) \cap Ticks) < 2 * Allowance
  <2> TAKE t \in Ticks
  <2>1. Total(f, (t..(t + Minute - 1)) \cap Ticks) < 2 * Allowance
    BY DEF RateBounded, GrantedIn, Ticks
  <2> QED  BY <1>2, <2>1, OneMoreBounded
<1> HIDE DEF g
<1>8. /\ window'[k] = Counts(window[k], at) /\ granted'[k] = g
      /\ \A j \in Kinds : j # k => window'[j] = window[j] /\ granted'[j] = granted[j]
  BY <1>1, <1>3, <1>4
<1>9. RateInv'
  <2> SUFFICES ASSUME NEW j \in Kinds PROVE InOrder(j)' /\ Fits(window'[j], granted'[j])
    BY DEF RateInv
  <2>1. CASE j = k
    <3>1. \A t \in Ticks : g[t] > 0 => t <= now
      <4> SUFFICES ASSUME NEW t \in Ticks, g[t] > 0 PROVE t <= now
        OBVIOUS
      <4>1. t <= at
        BY <1>6 DEF Ticks
      <4> QED  BY <4>1 DEF Ticks, AdmissionTypeOK
    <3>2. InOrder(j)'
      BY <1>8, <2>1, <3>1 DEF InOrder, Ticks
    <3>3. Fits(window'[j], granted'[j])
      BY <1>5, <1>8, <2>1
    <3> QED  BY <3>2, <3>3
  <2>2. CASE j # k
    BY <1>8, <2>2 DEF RateInv, InOrder
  <2> QED  BY <2>1, <2>2
<1>10. RateBounded'
  <2> SUFFICES ASSUME NEW j \in Kinds, NEW t \in Ticks
               PROVE  Total(granted'[j], (t..(t + Minute - 1)) \cap Ticks) < 2 * Allowance
    BY DEF RateBounded, GrantedIn, Ticks
  <2>1. CASE j = k
    BY <1>7, <1>8, <2>1
  <2>2. CASE j # k
    <3>1. Total(granted[j], (t..(t + Minute - 1)) \cap Ticks) < 2 * Allowance
      BY DEF RateBounded, GrantedIn, Ticks
    <3> QED  BY <1>8, <2>2, <3>1
  <2> QED  BY <2>1, <2>2
<1>11. window' \in [Kinds -> [start : Ticks, requests : Nat]]
  BY <1>1, <1>3, <1>5
<1>12. granted' \in [Kinds -> [Ticks -> Nat]]
  BY <1>1, <1>4, <1>6
<1> QED  BY <1>9, <1>10, <1>11, <1>12 DEF Ticks

\* Where nothing is granted and no time passes, rates stay what they are.
LEMMA RateStays ==
    ASSUME AdmissionTypeOK, RateInv, RateBounded, UNCHANGED <<window, granted>>,
           now' \in Nat, now <= now',
           \A u \in Uploads : Streaming(u)' => /\ upload'[u].at \in Nat
                                              /\ \/ upload'[u].at = now
                                                 \/ Streaming(u) /\ upload'[u].at = upload[u].at
    PROVE  RateInv' /\ RateBounded'
<1>1. RateBounded'
  BY DEF RateBounded, GrantedIn
<1>2. ASSUME NEW k \in Kinds, NEW t \in Ticks, granted'[k][t] > 0
      PROVE  t <= now' /\ (k = "upload" => \A u \in Uploads : Streaming(u)' => t <= upload'[u].at)
  <2>1. granted[k][t] > 0 /\ t \in Nat /\ now \in Nat
    BY <1>2 DEF AdmissionTypeOK, Ticks
  <2>2. t <= now /\ (k = "upload" => \A u \in Uploads : Streaming(u) => t <= upload[u].at)
    BY <2>1 DEF RateInv, InOrder, Ticks
  <2> QED  BY <2>1, <2>2
<1>3. \A k \in Kinds : InOrder(k)'
  BY <1>2 DEF InOrder, Ticks
<1> QED  BY <1>1, <1>3 DEF RateInv
-----------------------------------------------------------------------------
(* Files and bytes *)

LEMMA StoredType ==
    ASSUME AdmissionTypeOK
    PROVE  /\ Bytes \in Nat
           /\ IsFiniteSet(Counted) /\ Cardinality(Counted) \in Nat
<1>1. \A d \in Files : stored[d] \in Nat
  BY DEF AdmissionTypeOK
<1>2. IsFiniteSet(Counted)
  BY FS_Subset DEF Counted
<1> QED  BY <1>1, <1>2, TotalType, FS_CardinalityType DEF Bytes

\* One row is written, or removed.
LEMMA RowChanges ==
    ASSUME AdmissionTypeOK, NEW d \in Files, NEW n \in 0..MaxUpload,
           stored' = [stored EXCEPT ![d] = n]
    PROVE  /\ stored' \in [Files -> 0..MaxUpload]
           /\ Bytes' \in Nat /\ Bytes' + stored[d] = Bytes + n
           /\ Counted' = IF n > 0 THEN Counted \union {d} ELSE Counted \ {d}
<1>1. /\ \A e \in Files : stored[e] \in Nat /\ stored'[e] \in Nat
      /\ \A e \in Files \ {d} : stored'[e] = stored[e]
      /\ stored'[d] = n /\ stored' \in [Files -> 0..MaxUpload]
  BY DEF AdmissionTypeOK
<1>2. Total(stored', Files) + stored[d] = Total(stored, Files) + n
  <2> DEFINE f == stored
             g == stored'
  <2>1. /\ \A e \in Files : f[e] \in Nat /\ g[e] \in Nat
        /\ \A e \in Files \ {d} : g[e] = f[e]
    BY <1>1
  <2>2. g[d] = n
    BY <1>1
  <2> HIDE DEF f, g
  <2>3. Total(g, Files) + f[d] = Total(f, Files) + g[d]
    BY <2>1, TotalChanged
  <2> QED  BY <2>2, <2>3 DEF f, g
<1>3. Total(stored', Files) \in Nat
  BY <1>1, TotalType
<1>4. Counted' = IF n > 0 THEN Counted \union {d} ELSE Counted \ {d}
  BY <1>1 DEF Counted
<1> QED  BY <1>1, <1>2, <1>3, <1>4 DEF Bytes
-----------------------------------------------------------------------------
(* The invariant of admission *)

LEMMA AdmissionStart == AdmissionInit => AdmissionInv
<1> SUFFICES ASSUME AdmissionInit PROVE AdmissionInv
  OBVIOUS
<1>1. AdmissionTypeOK
  BY DEF AdmissionInit, AdmissionTypeOK, NoUpload
<1>2. LockInv
  BY DEF AdmissionInit, LockInv, Streaming, NoUpload
<1>3. \A k \in Kinds, t \in 0..LastTick : granted[k][t] = 0
  BY DEF AdmissionInit
<1>4. RateInv
  BY <1>3 DEF RateInv, InOrder, Fits, AdmissionInit
<1>5. RateBounded
  <2> SUFFICES ASSUME NEW k \in Kinds, NEW t \in 0..LastTick
               PROVE  Total(granted[k], (t..(t + Minute - 1)) \cap (0..LastTick)) < 2 * Allowance
    BY DEF RateBounded, GrantedIn
  <2>1. Total(granted[k], (t..(t + Minute - 1)) \cap (0..LastTick)) = 0
    BY <1>3, TicksFinite, TotalZero DEF Ticks
  <2> QED  BY <2>1
<1>6. Bytes = 0
  BY TotalZero DEF AdmissionInit, Bytes
<1>7. Cardinality(Counted) = 0
  <2>1. Counted = {}
    BY DEF AdmissionInit, Counted
  <2> QED  BY <2>1, FS_EmptySet
<1>8. QuotaKept
  BY <1>6, <1>7 DEF QuotaKept
<1> QED  BY <1>1, <1>2, <1>4, <1>5, <1>8 DEF AdmissionInv

LEMMA AskInv ==
    ASSUME AdmissionInv, NEW k \in Kinds, Ask(k)
    PROVE  AdmissionInv'
<1>1. AdmissionTypeOK /\ RateInv /\ RateBounded /\ QuotaKept
  BY DEF AdmissionInv
<1>2. /\ now \in Ticks /\ now <= now
      /\ \A t \in Ticks : granted[k][t] > 0 => t <= now
      /\ WindowAt(k, now).requests < Allowance /\ Grant(k, now)
      /\ now' = now /\ upload' = upload /\ stored' = stored
      /\ \A u \in Uploads : ~Streaming(u)'
  BY <1>1 DEF Ask, WithinRate, LockFree, Streaming, AdmissionTypeOK, RateInv, InOrder, Ticks
<1>3. /\ window' \in [Kinds -> [start : 0..LastTick, requests : Nat]]
      /\ granted' \in [Kinds -> [0..LastTick -> Nat]]
      /\ RateInv' /\ RateBounded'
  BY <1>1, <1>2, GrantKeepsRate
<1>4. AdmissionTypeOK'
  BY <1>1, <1>2, <1>3 DEF AdmissionTypeOK
<1>5. LockInv'
  BY <1>2 DEF LockInv
<1>6. QuotaKept'
  BY <1>1, <1>2 DEF QuotaKept, Bytes, Counted
<1> QED  BY <1>3, <1>4, <1>5, <1>6 DEF AdmissionInv

LEMMA AdmitInv ==
    ASSUME AdmissionInv, NEW u \in Uploads, Admit(u)
    PROVE  AdmissionInv'
<1>1. AdmissionTypeOK /\ RateInv /\ RateBounded /\ QuotaKept
  BY DEF AdmissionInv
<1>2. Bytes \in Nat /\ Bytes < MaxStorage
  BY <1>1, StoredType DEF Admit
<1>3. AllowedBytes \in 0..MaxUpload /\ AllowedBytes + Bytes <= MaxStorage
  BY <1>2 DEF AllowedBytes
<1> DEFINE row == [pc |-> "streaming", at |-> now, allowed |-> AllowedBytes, got |-> 0]
<1>4. now \in 0..LastTick /\ now \in Nat
  BY <1>1 DEF AdmissionTypeOK
<1>5. /\ row.pc = "streaming" /\ row.at = now /\ row.allowed = AllowedBytes /\ row.got = 0
      /\ row \in [pc : {"idle", "streaming"}, at : 0..LastTick,
                  allowed : 0..MaxUpload, got : 0..MaxUpload]
      /\ upload' = [upload EXCEPT ![u] = row]
  BY <1>3, <1>4 DEF Admit
<1> HIDE DEF row
<1>6. /\ upload'[u] = row /\ \A v \in Uploads : v # u => upload'[v] = upload[v] /\ ~Streaming(v)'
      /\ UNCHANGED <<now, window, granted, stored>>
  BY <1>1, <1>5 DEF Admit, LockFree, Streaming, AdmissionTypeOK
<1>7. AdmissionTypeOK'
  BY <1>1, <1>5, <1>6 DEF AdmissionTypeOK
<1>8. RateInv' /\ RateBounded'
  BY <1>1, <1>4, <1>5, <1>6, RateStays DEF Streaming
<1>9. Bytes' = Bytes /\ Counted' = Counted /\ Cardinality(Counted) < MaxFiles
  BY <1>6 DEF Bytes, Counted, Admit
<1>10. WindowAt("upload", now)' = WindowAt("upload", now)
       /\ WindowAt("upload", now).requests < Allowance
  BY <1>6 DEF WindowAt, NewWindow, Admit, WithinRate
<1>11. LockInv'
  <2> SUFFICES ASSUME NEW v \in Uploads, Streaming(v)'
               PROVE  /\ \A o \in Uploads : Streaming(o)' => o = v
                      /\ upload'[v].at <= now'
                      /\ (WindowAt("upload", upload[v].at).requests)' < Allowance
                      /\ upload'[v].got <= upload'[v].allowed
                      /\ upload'[v].allowed + Bytes' <= MaxStorage
                      /\ Cardinality(Counted') < MaxFiles
    BY DEF LockInv
  <2>1. v = u
    BY <1>6
  <2>2. (WindowAt("upload", upload[v].at).requests)' < Allowance
    BY <1>5, <1>6, <1>10, <2>1 DEF WindowAt, NewWindow
  <2> QED  BY <1>3, <1>4, <1>5, <1>6, <1>9, <2>1, <2>2
<1>12. QuotaKept'
  BY <1>1, <1>9 DEF QuotaKept
<1> QED  BY <1>7, <1>8, <1>11, <1>12 DEF AdmissionInv

LEMMA ReceiveInv ==
    ASSUME AdmissionInv, NEW u \in Uploads, Receive(u)
    PROVE  AdmissionInv'
<1>1. AdmissionTypeOK /\ LockInv /\ RateInv /\ RateBounded /\ QuotaKept
  BY DEF AdmissionInv
<1>2. /\ upload[u].got \in 0..MaxUpload /\ upload[u].allowed \in 0..MaxUpload
      /\ upload[u].got < upload[u].allowed
      /\ now \in Nat /\ \A v \in Uploads : upload[v].at \in Nat
  BY <1>1 DEF AdmissionTypeOK, Receive
<1>3. /\ upload' \in [Uploads -> [pc : {"idle", "streaming"}, at : 0..LastTick,
                                 allowed : 0..MaxUpload, got : 0..MaxUpload]]
      /\ \A v \in Uploads : /\ Streaming(v)' <=> Streaming(v)
                            /\ upload'[v].at = upload[v].at
                            /\ upload'[v].allowed = upload[v].allowed
                            /\ v # u => upload'[v].got = upload[v].got
      /\ upload'[u].got = upload[u].got + 1
      /\ UNCHANGED <<now, window, granted, stored>>
  BY <1>1, <1>2 DEF Receive, AdmissionTypeOK, Streaming
<1>4. AdmissionTypeOK'
  BY <1>1, <1>3 DEF AdmissionTypeOK
<1>5. RateInv' /\ RateBounded'
  BY <1>1, <1>2, <1>3, RateStays
<1>6. Bytes' = Bytes /\ Counted' = Counted
  BY <1>3 DEF Bytes, Counted
<1>7. \A v \in Uploads :
        (WindowAt("upload", upload[v].at))' = WindowAt("upload", upload[v].at)
  BY <1>3 DEF WindowAt, NewWindow
<1>8. LockInv'
  BY <1>1, <1>2, <1>3, <1>6, <1>7 DEF LockInv
<1>9. QuotaKept'
  BY <1>1, <1>6 DEF QuotaKept
<1> QED  BY <1>4, <1>5, <1>8, <1>9 DEF AdmissionInv

LEMMA CommitInv ==
    ASSUME AdmissionInv, NEW u \in Uploads, NEW d \in Files, CommitUpload(u, d)
    PROVE  AdmissionInv'
<1>1. AdmissionTypeOK /\ LockInv /\ RateInv /\ RateBounded /\ QuotaKept
  BY DEF AdmissionInv
<1> DEFINE at == upload[u].at
           n == upload[u].got
<1>2. /\ Streaming(u) /\ n > 0 /\ stored[d] = 0
      /\ stored' = [stored EXCEPT ![d] = n]
      /\ Grant("upload", at) /\ now' = now /\ upload' = [upload EXCEPT ![u] = NoUpload]
  BY DEF CommitUpload, Streaming
<1>3. /\ at \in Ticks /\ n \in 0..MaxUpload /\ "upload" \in Kinds
      /\ upload[u].allowed \in 0..MaxUpload
  BY <1>1 DEF AdmissionTypeOK, Ticks, Kinds
<1>4. /\ \A v \in Uploads : Streaming(v) => v = u
      /\ at <= now
      /\ WindowAt("upload", at).requests < Allowance
      /\ n <= upload[u].allowed /\ upload[u].allowed + Bytes <= MaxStorage
      /\ Cardinality(Counted) < MaxFiles
  BY <1>1, <1>2 DEF LockInv
<1>5. /\ upload' \in [Uploads -> [pc : {"idle", "streaming"}, at : 0..LastTick,
                                 allowed : 0..MaxUpload, got : 0..MaxUpload]]
      /\ \A v \in Uploads : ~Streaming(v)'
  BY <1>1, <1>2, <1>4 DEF AdmissionTypeOK, NoUpload, Streaming
<1>6. \A t \in Ticks : granted["upload"][t] > 0 => t <= at
  BY <1>1, <1>2, <1>3 DEF RateInv, InOrder, Ticks
<1>7. /\ window' \in [Kinds -> [start : 0..LastTick, requests : Nat]]
      /\ granted' \in [Kinds -> [0..LastTick -> Nat]]
      /\ RateInv' /\ RateBounded'
  BY <1>1, <1>2, <1>3, <1>4, <1>5, <1>6, GrantKeepsRate
<1>8. /\ stored' \in [Files -> 0..MaxUpload]
      /\ Bytes' \in Nat /\ Bytes' + stored[d] = Bytes + n
      /\ Counted' = IF n > 0 THEN Counted \union {d} ELSE Counted \ {d}
  BY <1>1, <1>2, <1>3, RowChanges
<1>9. /\ Bytes \in Nat /\ IsFiniteSet(Counted) /\ Cardinality(Counted) \in Nat
  BY <1>1, StoredType
<1>10. AdmissionTypeOK'
  BY <1>1, <1>2, <1>5, <1>7, <1>8 DEF AdmissionTypeOK
<1>11. LockInv'
  BY <1>5 DEF LockInv
<1>12. Bytes' <= MaxStorage
  BY <1>2, <1>3, <1>4, <1>8, <1>9
<1>13. Cardinality(Counted') <= MaxFiles
  <2>1. Counted' = Counted \union {d}
    BY <1>2, <1>8
  <2>2. Cardinality(Counted \union {d}) =
          IF d \in Counted THEN Cardinality(Counted) ELSE Cardinality(Counted) + 1
    BY <1>9, FS_AddElement
  <2>3. Cardinality(Counted \union {d}) <= MaxFiles
    BY <1>4, <1>9, <2>2
  <2> QED  BY <2>1, <2>3
<1> QED  BY <1>7, <1>10, <1>11, <1>12, <1>13 DEF AdmissionInv, QuotaKept

LEMMA RemoveInv ==
    ASSUME AdmissionInv, NEW d \in Files, RemoveRow(d)
    PROVE  AdmissionInv'
<1>1. AdmissionTypeOK /\ LockInv /\ RateInv /\ RateBounded /\ QuotaKept
  BY DEF AdmissionInv
<1>2. /\ stored' = [stored EXCEPT ![d] = 0]
      /\ UNCHANGED <<now, window, granted, upload>>
  BY DEF RemoveRow
<1>3. /\ stored' \in [Files -> 0..MaxUpload]
      /\ Bytes' \in Nat /\ Bytes' + stored[d] = Bytes + 0
      /\ Counted' = Counted \ {d}
  <2>1. 0 \in 0..MaxUpload
    OBVIOUS
  <2>2. /\ stored' \in [Files -> 0..MaxUpload]
        /\ Bytes' \in Nat /\ Bytes' + stored[d] = Bytes + 0
        /\ Counted' = IF 0 > 0 THEN Counted \union {d} ELSE Counted \ {d}
    BY <1>1, <1>2, <2>1, RowChanges
  <2> QED  BY <2>2
<1>4. /\ Bytes \in Nat /\ stored[d] \in Nat
      /\ IsFiniteSet(Counted) /\ Cardinality(Counted) \in Nat
  BY <1>1, StoredType DEF AdmissionTypeOK
<1>5. Bytes' <= Bytes
  BY <1>3, <1>4
<1>6. Cardinality(Counted') \in Nat /\ Cardinality(Counted') <= Cardinality(Counted)
  <2>1. Counted' \in SUBSET Counted
    BY <1>3
  <2> QED  BY <1>4, <2>1, FS_Subset, FS_CardinalityType
<1>7. AdmissionTypeOK'
  BY <1>1, <1>2, <1>3 DEF AdmissionTypeOK
<1>8. RateInv' /\ RateBounded'
  BY <1>1, <1>2, RateStays DEF AdmissionTypeOK, Streaming
<1>9. \A u \in Uploads :
        (WindowAt("upload", upload[u].at))' = WindowAt("upload", upload[u].at)
  BY <1>2 DEF WindowAt, NewWindow
<1>10. LockInv'
  <2> SUFFICES ASSUME NEW u \in Uploads, Streaming(u)
               PROVE  /\ upload[u].allowed + Bytes' <= MaxStorage
                      /\ Cardinality(Counted') < MaxFiles
    BY <1>1, <1>2, <1>9 DEF LockInv, Streaming
  <2>1. /\ upload[u].allowed + Bytes <= MaxStorage /\ Cardinality(Counted) < MaxFiles
        /\ upload[u].allowed \in Nat
    BY <1>1 DEF LockInv, AdmissionTypeOK
  <2> QED  BY <1>3, <1>4, <1>5, <1>6, <2>1
<1>11. QuotaKept'
  <2>1. Bytes <= MaxStorage /\ Cardinality(Counted) <= MaxFiles
    BY <1>1 DEF QuotaKept
  <2>2. Bytes' <= MaxStorage /\ Cardinality(Counted') <= MaxFiles
    BY <1>3, <1>4, <1>5, <1>6, <2>1
  <2> QED  BY <2>2 DEF QuotaKept
<1> QED  BY <1>7, <1>8, <1>10, <1>11 DEF AdmissionInv

\* Time passes, or an upload ends without a document.
LEMMA RestInv ==
    ASSUME AdmissionInv,
           Tick \/ (\E u \in Uploads : FailUpload(u)) \/ UNCHANGED admissionVars
    PROVE  AdmissionInv'
<1>1. AdmissionTypeOK /\ LockInv /\ RateInv /\ RateBounded /\ QuotaKept
  BY DEF AdmissionInv
<1>2. UNCHANGED <<window, granted, stored>>
  BY DEF Tick, FailUpload, admissionVars
<1>3. now \in 0..LastTick /\ now' \in 0..LastTick /\ now <= now'
  BY <1>1 DEF AdmissionTypeOK, Tick, FailUpload, admissionVars
<1>4. /\ upload' \in [Uploads -> [pc : {"idle", "streaming"}, at : 0..LastTick,
                                 allowed : 0..MaxUpload, got : 0..MaxUpload]]
      /\ \A u \in Uploads : Streaming(u)' => Streaming(u) /\ upload'[u] = upload[u]
  <2>1. CASE upload' = upload
    BY <1>1, <2>1 DEF AdmissionTypeOK, Streaming
  <2>2. ASSUME NEW v \in Uploads, upload' = [upload EXCEPT ![v] = NoUpload]
        PROVE  /\ upload' \in [Uploads -> [pc : {"idle", "streaming"}, at : 0..LastTick,
                                           allowed : 0..MaxUpload, got : 0..MaxUpload]]
               /\ \A u \in Uploads : Streaming(u)' => Streaming(u) /\ upload'[u] = upload[u]
    BY <1>1, <2>2 DEF AdmissionTypeOK, NoUpload, Streaming
  <2> QED  BY <2>1, <2>2 DEF Tick, FailUpload, admissionVars
<1>5. \A u \in Uploads : upload[u].at \in Nat
  BY <1>1 DEF AdmissionTypeOK
<1>6. AdmissionTypeOK'
  BY <1>1, <1>2, <1>3, <1>4 DEF AdmissionTypeOK
<1>7. RateInv' /\ RateBounded'
  BY <1>1, <1>2, <1>3, <1>4, <1>5, RateStays
<1>8. Bytes' = Bytes /\ Counted' = Counted
  BY <1>2 DEF Bytes, Counted
<1>9. \A u \in Uploads : Streaming(u)' =>
        (WindowAt("upload", upload[u].at))' = WindowAt("upload", upload[u].at)
  BY <1>2, <1>4 DEF WindowAt, NewWindow
<1>10. LockInv'
  BY <1>1, <1>3, <1>4, <1>5, <1>8, <1>9 DEF LockInv
<1>11. QuotaKept'
  BY <1>1, <1>8 DEF QuotaKept
<1> QED  BY <1>6, <1>7, <1>10, <1>11 DEF AdmissionInv

\* The organisation's lock keeps what an upload was admitted with true until it
\* commits, for any number of uploads, files and requests.
THEOREM AdmissionAlways == AdmissionSpec => []AdmissionInv
<1>1. AdmissionInv /\ [AdmissionNext]_admissionVars => AdmissionInv'
  BY AskInv, AdmitInv, ReceiveInv, CommitInv, RemoveInv, RestInv DEF AdmissionNext
<1> QED  BY <1>1, AdmissionStart, PTL DEF AdmissionSpec

\* Fewer than two allowances are granted in any minute (consume_rate,
\* document_service.py:39), whatever the allowance and however long uploads take.
THEOREM RateAlwaysBounded == AdmissionSpec => []RateBounded
<1>1. AdmissionInv => RateBounded
  BY DEF AdmissionInv
<1> QED  BY <1>1, AdmissionAlways, PTL

\* No organisation has more documents or bytes than it may (queue_document,
\* document_service.py:65).
THEOREM QuotaAlwaysKept == AdmissionSpec => []QuotaKept
<1>1. AdmissionInv => QuotaKept
  BY DEF AdmissionInv
<1> QED  BY <1>1, AdmissionAlways, PTL
=============================================================================
