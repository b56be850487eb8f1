------------------------------- MODULE Backup -------------------------------
(***************************************************************************)
(* Backups of the database and the stored files, and their restore into a  *)
(* new, empty place (backup.py), beside the system they are taken from.    *)
(*                                                                         *)
(* --quiesced is the operator's word that writers have stopped: nothing    *)
(* enforces it, so here they go on.  Documents are reduced to what the     *)
(* backup looks at: a row, the file it names, and a job in PROCESSING.     *)
(* pg_dump and pg_restore are external and atomic (a snapshot; one         *)
(* transaction).  A restore that stops half-way leaves a place that is not *)
(* empty: the next one needs another place, so the half is dropped here.   *)
(* One operator: one backup or restore at a time, of the last backup.      *)
(*                                                                         *)
(* A definition whose comment begins with "Variant" is the next definition *)
(* with a slip in it: the runs show which property notices the slip.       *)
(***************************************************************************)
EXTENDS Sessions

CONSTANT Papers   \* documents, each uploaded once

VARIABLES
    paper,    \* each document: its row, its file, its job
    backup,   \* the directory of the last backup, complete or not
    restored  \* has the backup been restored into a new place?

systemVars == <<sessionsVars, paper>>
backupVars == <<systemVars, backup, restored>>
-----------------------------------------------------------------------------
(* Values *)

\* upload: how far the handler is; lost: its cleanup removed the file of a row.
NoPaper == [upload |-> "none", row |-> FALSE, file |-> FALSE, busy |-> FALSE, asked |-> FALSE,
            lost |-> FALSE]

Rows == {d \in Papers : paper[d].row}

\* What pg_dump writes and pg_restore brings back.
Database == [rows |-> Rows, asked |-> {d \in Rows : paper[d].asked},
             account |-> account, session |-> session]

NoDatabase == [rows |-> {}, asked |-> {},
               account |-> [u \in People |-> [password |-> 0, disabled |-> FALSE]],
               session |-> [s \in Tokens |-> Unopened]]
NoBackup == [pc |-> "none", listed |-> {}, copied |-> {}, dump |-> NoDatabase]

BackupInit ==
    /\ SessionsInit
    /\ paper = [d \in Papers |-> NoPaper]
    /\ backup = NoBackup
    /\ restored = FALSE
-----------------------------------------------------------------------------
(* The running system *)

\* The file is stored first, then the row commits with a queued job.
StoreFile(d) ==
    /\ paper[d].upload = "none"
    /\ paper' = [paper EXCEPT ![d].file = TRUE, ![d].upload = "stored"]
    /\ UNCHANGED <<sessionsVars, backup, restored>>

CommitRow(d) ==
    /\ paper[d].upload = "stored"
    /\ paper' = [paper EXCEPT ![d].row = TRUE, ![d].upload = "committed"]
    /\ UNCHANGED <<sessionsVars, backup, restored>>

\* Anything raised before or after the commit has the stored file deleted: also the
\* refresh after it, and a commit whose acknowledgement does not arrive.  It never
\* comes when the handler has answered or its process has died.
UndoUpload(d) ==
    /\ paper[d].upload \in {"stored", "committed"}
    /\ paper' = [paper EXCEPT ![d].file = FALSE, ![d].upload = "over",
                             ![d].lost = paper[d].row]
    /\ UNCHANGED <<sessionsVars, backup, restored>>

\* A worker's deletion: claimed, the file removed, the row removed.  It may fail
\* in between, for good or until it is claimed again.
ClaimDeletion(d) ==
    /\ paper[d].row /\ ~paper[d].busy
    /\ paper' = [paper EXCEPT ![d].busy = TRUE, ![d].asked = TRUE]
    /\ UNCHANGED <<sessionsVars, backup, restored>>

DeleteFile(d) ==
    /\ paper[d].busy
    /\ paper' = [paper EXCEPT ![d].file = FALSE]
    /\ UNCHANGED <<sessionsVars, backup, restored>>

EndDeletion(d) ==
    /\ paper[d].busy
    /\ \/ ~paper[d].file /\ paper' = [paper EXCEPT ![d].busy = FALSE, ![d].row = FALSE]
       \/ paper' = [paper EXCEPT ![d].busy = FALSE]
    /\ UNCHANGED <<sessionsVars, backup, restored>>
-----------------------------------------------------------------------------
(* backup *)

BeginBackup ==
    /\ backup.pc \in {"none", "complete"}
    /\ ~restored
    /\ \A d \in Papers : ~paper[d].busy
    /\ backup' = [NoBackup EXCEPT !.pc = "copying", !.listed = Rows]
    /\ UNCHANGED <<systemVars, restored>>

CopyFile(d) ==
    /\ backup.pc = "copying"
    /\ d \in backup.listed \ backup.copied
    /\ paper[d].file
    /\ backup' = [backup EXCEPT !.copied = @ \union {d}]
    /\ UNCHANGED <<systemVars, restored>>

Dump ==
    /\ backup.pc = "copying"
    /\ backup.copied = backup.listed
    /\ backup' = [backup EXCEPT !.pc = "dumped", !.dump = Database]
    /\ UNCHANGED <<systemVars, restored>>

\* Written last: what has no manifest is not a backup.
WriteManifest ==
    /\ backup.pc = "dumped"
    /\ backup' = [backup EXCEPT !.pc = "complete"]
    /\ UNCHANGED <<systemVars, restored>>

\* A file is missing, a tool fails, the machine stops.
BackupFails ==
    /\ backup.pc \in {"copying", "dumped"}
    /\ backup' = NoBackup
    /\ UNCHANGED <<systemVars, restored>>
-----------------------------------------------------------------------------
(* restore *)

\* Variant: the manifest is trusted to name every document.
SameDocumentsUnchecked == backup.copied \subseteq Papers

\* The documents of the manifest are those of the database.
SameDocuments == backup.copied = backup.dump.rows

\* Variant: only the sessions end.
InvalidatedPeople(db) ==
    [db EXCEPT !.session =
                   [s \in Tokens |-> [@[s] EXCEPT !.live = @ /\ db.session[s].of = Company]],
               !.account = [u \in People |-> [@[u] EXCEPT !.disabled = TRUE]]]

\* Sessions, keys and invitations are revoked and accounts disabled.
Invalidated(db) ==
    [db EXCEPT !.session = [s \in Tokens |-> [@[s] EXCEPT !.live = FALSE]],
               !.account = [u \in People |-> [@[u] EXCEPT !.disabled = TRUE]]]

\* checked_manifest, the emptiness of the target, pg_restore; then one commit after
\* the files are copied, their paths rewritten and the credentials ended.  Nobody
\* sees the place before that commit, and a failure leaves it unusable.
Restore ==
    /\ backup.pc = "complete"
    /\ SameDocuments
    /\ ~restored
    /\ restored' = TRUE
    /\ UNCHANGED <<systemVars, backup>>

\* The restored place is thrown away again.
Discard ==
    /\ restored
    /\ restored' = FALSE
    /\ UNCHANGED <<systemVars, backup>>

\* The service starts on the new place and the old one is given up.  A token that
\* the backup does not know is as dead as a revoked one, and the place has the
\* files of the manifest only.
StartService ==
    LET db == Invalidated(backup.dump) IN
    /\ restored
    /\ account' = db.account
    /\ session' = [s \in Tokens |-> [session[s] EXCEPT !.live = db.session[s].live]]
    /\ call' = [c \in Calls |-> NoCall]
    /\ paper' = [d \in Papers |->
           [row |-> d \in db.rows, file |-> d \in backup.copied,
            busy |-> FALSE, asked |-> d \in db.asked, lost |-> FALSE,
            upload |-> IF paper[d].upload = "none" THEN "none" ELSE "over"]]
    /\ restored' = FALSE
    /\ UNCHANGED <<chosen, retired, backup>>
-----------------------------------------------------------------------------
BackupNext ==
    \/ SessionsNext /\ UNCHANGED <<paper, backup, restored>>
    \/ \E d \in Papers :
          \/ StoreFile(d) \/ CommitRow(d) \/ UndoUpload(d)
          \/ ClaimDeletion(d) \/ DeleteFile(d) \/ EndDeletion(d)
          \/ CopyFile(d)
    \/ BeginBackup \/ Dump \/ WriteManifest \/ BackupFails
    \/ Restore \/ Discard \/ StartService

BackupSpec == BackupInit /\ [][BackupNext]_backupVars
-----------------------------------------------------------------------------
(* Properties *)

\* What was revoked, rotated away, logged out or has expired never works again,
\* although a restore brings back rows from a time when it did
\* (docs/OPERATIONS.md:237, "This prevents old backups reactivating credentials
\* revoked after the backup").
EndedStaysEnded ==
    [][\A s \in Tokens :
          session[s] # Unopened /\ ~session[s].live => ~session'[s].live]_backupVars

\* A row without its file is the work of a deletion, or of the cleanup of an upload
\* that failed after its commit in the very place that runs: no backup taken beside
\* uploads, cleanups and deletions brings such a row back, or makes one
\* (backup.py:218, "Manifest and database document sets differ; do not start the
\* service").
RowsKeepFiles ==
    \A d \in Papers : paper[d].row /\ ~paper[d].file => paper[d].asked \/ paper[d].lost
-----------------------------------------------------------------------------
(* The inductive invariant behind them *)

BackupTypeOK ==
    /\ paper \in [Papers -> [upload : {"none", "stored", "committed", "over"},
                             row : BOOLEAN, file : BOOLEAN, busy : BOOLEAN,
                             asked : BOOLEAN, lost : BOOLEAN]]
    /\ backup \in
          [pc : {"none", "copying", "dumped", "complete"},
           listed : SUBSET Papers, copied : SUBSET Papers,
           dump : [rows : SUBSET Papers, asked : SUBSET Papers,
                   account : [People -> [password : Passwords, disabled : BOOLEAN]],
                   session : [Tokens -> [of : People \union {NoPerson, Company},
                                         live : BOOLEAN, with : Passwords]]]]
    /\ restored \in BOOLEAN

\* The accounts of a backup had different passwords, all of them chosen before.
DumpInv ==
    LET saved == backup.dump.account IN
    /\ \A u \in People : saved[u].password <= chosen
    /\ \A u, v \in People :
          u # v /\ saved[u].password # 0 => saved[u].password # saved[v].password

\* A restored place has the documents of its database.
PlaceInv ==
    /\ restored => backup.pc = "complete" /\ SameDocuments
    /\ \A d \in Papers : paper[d].busy => paper[d].asked
    /\ \A d \in Papers : paper[d].upload = "stored" => paper[d].file \/ paper[d].asked

BackupInv == SessionsInv /\ BackupTypeOK /\ DumpInv /\ PlaceInv /\ RowsKeepFiles
=============================================================================
