------------------------- MODULE DocumentLifecycle -------------------------
(***************************************************************************)
(* What the document queue promises its clients: a document is in one      *)
(* phase, it is searchable exactly while it is ready and then under one    *)
(* complete generation of its chunks, a deletion is final, and no more     *)
(* than MaxPending documents have work outstanding.  Claims, leases,       *)
(* retries, crashes and the three stores do not exist here: they are steps *)
(* a client cannot see.                                                    *)
(***************************************************************************)
EXTENDS Naturals, FiniteSets

CONSTANTS Docs, MaxPending, MaxChunks, MaxGen

VARIABLES
    phase,      \* none, waiting, ready, failed, deleting, gone
    generation, \* which indexing of the document was last asked for
    index       \* the entries a search may return

lifecycleVars == <<phase, generation, index>>

Outstanding == {d \in Docs : phase[d] \in {"waiting", "deleting"}}

\* New work is admitted only below the limit; outstanding work may change kind.
Admits(d) == d \in Outstanding \/ Cardinality(Outstanding) < MaxPending

Init ==
    /\ phase = [d \in Docs |-> "none"]
    /\ generation = [d \in Docs |-> 0]
    /\ index = [d \in Docs |-> {}]

\* An upload, or a reindex of a settled document.
Submit(d) ==
    /\ phase[d] \in {"none", "ready", "failed"}
    /\ Admits(d)
    /\ generation[d] < MaxGen
    /\ phase' = [phase EXCEPT ![d] = "waiting"]
    /\ generation' = [generation EXCEPT ![d] = @ + 1]
    /\ index' = [index EXCEPT ![d] = {}]

RequestDeletion(d) ==
    /\ phase[d] \in {"waiting", "ready", "failed"}
    /\ Admits(d)
    /\ phase' = [phase EXCEPT ![d] = "deleting"]
    /\ index' = [index EXCEPT ![d] = {}]
    /\ UNCHANGED generation

Publish(d) ==
    /\ phase[d] = "waiting"
    /\ phase' = [phase EXCEPT ![d] = "ready"]
    /\ \E n \in 1..MaxChunks :
           index' = [index EXCEPT ![d] = {generation[d]} \X (1..n)]
    /\ UNCHANGED generation

GiveUp(d) ==
    /\ d \in Outstanding
    /\ phase' = [phase EXCEPT ![d] = "failed"]
    /\ UNCHANGED <<generation, index>>

Remove(d) ==
    /\ phase[d] = "deleting"
    /\ phase' = [phase EXCEPT ![d] = "gone"]
    /\ UNCHANGED <<generation, index>>

Step(d) == Submit(d) \/ RequestDeletion(d) \/ Publish(d) \/ GiveUp(d) \/ Remove(d)

Next == \E d \in Docs : Step(d)

Spec == Init /\ [][Next]_lifecycleVars
=============================================================================
