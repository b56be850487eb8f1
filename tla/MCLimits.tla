------------------------------ MODULE MCLimits ------------------------------
(***************************************************************************)
(* Small instances of Chunking, GraphRetrieval and Admission, which share  *)
(* no state: a behaviour is one of one of them, and the others rest.       *)
(***************************************************************************)
EXTENDS Chunking, GraphRetrieval, Admission

VARIABLE part

otherThanChunking == <<part, graphVars, admissionVars>>

\* A budget of 20 tokens has an overlap of 3.
MCWordTokens == {1, 3, 17, 21}
MCChunkChars == {3, 10}

NothingToCut ==
    /\ stage = "done"
    /\ words = 0 /\ tokens = [i \in {0} |-> 0]
    /\ sentences = {} /\ paragraphs = {}
    /\ ends = {} /\ start = 0 /\ chunks = <<>>
    /\ chars = [i \in {0} |-> 0] /\ batches = <<>>

NothingToWalk ==
    /\ round = 0
    /\ inForce = {} /\ expired = 0 /\ edges = {} /\ seeds = {}
    /\ turned = {} /\ selected = {} /\ dropped = {}
    /\ frontier = {} /\ next = {} /\ seen = {}

LimitsInit ==
    /\ AdmissionInit
    /\ \/ part = "chunking" /\ Init /\ NothingToWalk
       \/ part = "graph" /\ GraphInit /\ NothingToCut
       \/ part = "admission" /\ NothingToCut /\ NothingToWalk

LimitsNext ==
    \/ part = "chunking" /\ Next /\ UNCHANGED otherThanChunking
    \/ part = "graph" /\ GraphNext /\ UNCHANGED <<part, vars, admissionVars>>
    \/ part = "admission" /\ AdmissionNext /\ UNCHANGED <<part, vars, graphVars>>

\* Fairness as in FairSpec of Chunking: the text ends and the loops run.
LimitsSpec ==
    /\ LimitsInit /\ [][LimitsNext]_<<vars, otherThanChunking>>
    /\ WF_vars((SplitParagraphs \/ Split \/ Chunk \/ Batch) /\ UNCHANGED otherThanChunking)
=============================================================================
