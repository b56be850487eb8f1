---------------------------- MODULE MCOperations ----------------------------
(***************************************************************************)
(* Small instances of Serving, of Backup (with Sessions) and of            *)
(* Organization, which share no state here: a behaviour is one of the      *)
(* first, one of the second or one of the third, and the others rest.      *)
(***************************************************************************)
EXTENDS Serving, Backup, Organization, TLC

VARIABLE part

\* Keys are numbers here and are issued in their order: which of the unused ids a new
\* key gets makes no difference.
KeysInOrder ==
    \A k \in Keys : key[k] # Unissued => \A j \in 1..(k - 1) : key[j] # Unissued

\* Bound: a search reads nothing of the collection that is not in use, so it is under
\* way only while that one is empty, or after a switch that is still on trial.
SearchesBounded ==
    search' # search => rebuild.pc = "switched" \/ \A d \in Docs : other[d] = {}

OperationsInit ==
    /\ ServingInit
    /\ BackupInit
    /\ part \in {"index", "backups", "organization"}
    /\ OrganizationInit
    /\ KeysInOrder
    \* The other parts need one initial state only.
    /\ part # "organization" => accounts = {}

OperationsNext ==
    \/ /\ part = "index"
       /\ ServingNext
       /\ SearchesBounded
       /\ UNCHANGED <<part, backupVars, organizationVars>>
    \/ part = "backups" /\ BackupNext /\ UNCHANGED <<part, servingVars, organizationVars>>
    \/ /\ part = "organization"
       /\ OrganizationNext
       /\ KeysInOrder'
       /\ UNCHANGED <<part, servingVars, backupVars>>

OperationsSpec ==
    OperationsInit /\ [][OperationsNext]_<<part, servingVars, backupVars, organizationVars>>

\* Sound: no definition tells one document, token, call, user or HTTP request from
\* another.
Symmetry == Permutations(Docs)
=============================================================================
