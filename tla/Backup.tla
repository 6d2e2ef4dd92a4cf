------------------------------- MODULE Backup -------------------------------
(***************************************************************************)
(* Back-up and restore of a SQLite installation (internal/backup), beside  *)
(* the cards and uploads of InviteCards, which go on changing meanwhile.   *)
(*                                                                         *)
(* CreateSQLite snapshots the database by one statement and then copies    *)
(* the uploads file by file into a staging directory that one rename turns *)
(* into the bundle.  RestoreSQLite verifies a bundle, stages copies and    *)
(* renames the database and then the uploads into place.  A file stands    *)
(* for its contents: a hash tells any change.                              *)
(***************************************************************************)
EXTENDS InviteCards

CONSTANT Restorers      \* restores to the same destination that may overlap

\* What a snapshot of the database holds.
Database == [Events -> Card \cup {None}]

\* A backup on its way, a bundle, a restore on its way.
Copying ==
    [pc : {"list", "copy"}, db : Database, uploads : SUBSET File, todo : SUBSET File,
     before : SUBSET File, disturbed : BOOLEAN]

Bundle ==
    [db : Database, uploads : SUBSET File, manifest : [db : Database, uploads : SUBSET File],
     before : SUBSET File, disturbed : BOOLEAN]

Restoring == [pc : {"staged", "database", "uploads"}, db : Database, uploads : SUBSET File]

ASSUME BackupAssumption ==
    /\ None \notin Database /\ \A fs \in SUBSET File : fs # None
    /\ None \notin Copying /\ None \notin Bundle /\ None \notin Restoring

VARIABLES
    backup,         \* CreateSQLite: its stage, the files still to copy
    bundle,         \* database, uploads and manifest of a finished backup
    restore,        \* RestoreSQLite: pc and staged copies
    target,         \* the destination: database and uploads
    restored,       \* history: restores that reported success
    cut             \* history: a restore stopped, or two overlapped

storage == <<cardVars, backup, bundle, restore, target, restored, cut>>

StorageInit ==
    /\ CardInit
    /\ backup = None /\ bundle = None
    /\ restore = [r \in Restorers |-> None]
    /\ target = [db |-> None, uploads |-> None]
    /\ restored = {} /\ cut = FALSE

----------------------------------------------------------------------------
(* CreateSQLite *)

\* requireAbsent, the staging directory, VACUUM INTO, inspectSQLite.
Snapshot ==
    /\ backup = None /\ bundle = None
    /\ backup' = [pc |-> "list", db |-> card, uploads |-> {}, todo |-> {}, before |-> files, disturbed |-> FALSE]
    /\ UNCHANGED <<cardVars, bundle, restore, target, restored, cut>>

\* copyTree reads the directory,
copyTree ==
    /\ backup # None /\ backup.pc = "list"
    /\ backup' = [backup EXCEPT !.pc = "copy", !.todo = files]
    /\ UNCHANGED <<cardVars, bundle, restore, target, restored, cut>>

\* and copies file by file: one that was removed since fails the backup.
copyRegularFile ==
    /\ backup # None /\ backup.pc = "copy"
    /\ \E f \in backup.todo :
        backup' = IF f \in files THEN [backup EXCEPT !.uploads = @ \cup {f}, !.todo = @ \ {f}] ELSE None
    /\ UNCHANGED <<cardVars, bundle, restore, target, restored, cut>>

\* Mutant: the bundle is committed before every file is copied.
CommitBundleEarly ==
    /\ backup # None /\ backup.pc = "copy"
    /\ bundle' = [db |-> backup.db, uploads |-> backup.uploads,
            manifest |-> [db |-> backup.db, uploads |-> backup.uploads],
            before |-> backup.before, disturbed |-> backup.disturbed]
    /\ backup' = None
    /\ UNCHANGED <<cardVars, restore, target, restored, cut>>

\* inventoryUploads, writeManifest, requireAbsent and the rename.
CommitBundle ==
    /\ backup # None /\ backup.pc = "copy" /\ backup.todo = {}
    /\ bundle' = [db |-> backup.db, uploads |-> backup.uploads,
            manifest |-> [db |-> backup.db, uploads |-> backup.uploads],
            before |-> backup.before, disturbed |-> backup.disturbed]
    /\ backup' = None
    /\ UNCHANGED <<cardVars, restore, target, restored, cut>>

\* An error, or the end of the process: no bundle.
AbandonBackup ==
    /\ backup # None
    /\ backup' = None
    /\ UNCHANGED <<cardVars, bundle, restore, target, restored, cut>>

\* The bundle loses a file while it is kept (bound: not during a restore).
Damage ==
    /\ bundle # None /\ \A r \in Restorers : restore[r] = None
    /\ \E f \in bundle.uploads : bundle' = [bundle EXCEPT !.uploads = @ \ {f}]
    /\ UNCHANGED <<cardVars, backup, restore, target, restored, cut>>

----------------------------------------------------------------------------
(* RestoreSQLite *)

\* Mutant: the inventory of the uploads is not compared.
VerifySQLiteDatabase == bundle # None /\ bundle.db = bundle.manifest.db

\* VerifySQLite: layout, hashes and inventory agree with the manifest.
VerifySQLite ==
    /\ bundle # None
    /\ bundle.db = bundle.manifest.db
    /\ bundle.uploads = bundle.manifest.uploads

requireAbsent == target.db = None /\ target.uploads = None

\* Verification, the secret's fingerprint, the destinations, the staged copies.
Stage(r) ==
    /\ restore[r] = None /\ r \notin restored
    /\ VerifySQLite
    /\ requireAbsent
    /\ restore' = [restore EXCEPT ![r] = [pc |-> "staged", db |-> bundle.db, uploads |-> bundle.uploads]]
    /\ cut' = (cut \/ \E q \in Restorers : restore[q] # None)
    /\ UNCHANGED <<cardVars, backup, bundle, target, restored>>

\* The destinations are looked at once more.
Recheck(r) ==
    /\ restore[r] # None /\ restore[r].pc = "staged"
    /\ restore' = [restore EXCEPT ![r] = IF requireAbsent THEN [@ EXCEPT !.pc = "database"] ELSE None]
    /\ UNCHANGED <<cardVars, backup, bundle, target, restored, cut>>

\* os.Rename of the database replaces a file that appeared meanwhile.
RenameDatabase(r) ==
    /\ restore[r] # None /\ restore[r].pc = "database"
    /\ \/ /\ target' = [target EXCEPT !.db = restore[r].db]
          /\ restore' = [restore EXCEPT ![r].pc = "uploads"]
       \/ /\ restore' = [restore EXCEPT ![r] = None]
          /\ UNCHANGED target
    /\ UNCHANGED <<cardVars, backup, bundle, restored, cut>>

\* os.Rename of the uploads, which fails for a directory that is not empty;
\* after an error the database is removed again.
RenameUploads(r) ==
    /\ restore[r] # None /\ restore[r].pc = "uploads"
    /\ \/ /\ target.uploads \in {None, {}}
          /\ target' = [target EXCEPT !.uploads = restore[r].uploads]
          /\ restored' = restored \cup {r}
       \/ /\ target' = [target EXCEPT !.db = None]
          /\ UNCHANGED restored
    /\ restore' = [restore EXCEPT ![r] = None]
    /\ UNCHANGED <<cardVars, backup, bundle, cut>>

\* The process of a restore stops.
StopRestore(r) ==
    /\ restore[r] # None
    /\ restore' = [restore EXCEPT ![r] = None]
    /\ cut' = TRUE
    /\ UNCHANGED <<cardVars, backup, bundle, target, restored>>

----------------------------------------------------------------------------
\* A step of the running installation, as a backup under way sees it (bound:
\* until there is a bundle; nothing of a restore looks at the installation).
Live ==
    /\ bundle = None
    /\ CardNext
    /\ backup' = IF backup = None THEN None ELSE [backup EXCEPT !.disturbed = @ \/ files' # files]
    /\ UNCHANGED <<bundle, restore, target, restored, cut>>

StorageNext ==
    \/ Live
    \/ Snapshot \/ copyTree \/ copyRegularFile \/ CommitBundle \/ AbandonBackup \/ Damage
    \/ \E r \in Restorers : Stage(r) \/ Recheck(r) \/ RenameDatabase(r) \/ RenameUploads(r) \/ StopRestore(r)

StorageSpec == StorageInit /\ [][StorageNext]_storage

----------------------------------------------------------------------------
(* Properties *)

\* A bundle made while no upload changed holds exactly the files there were
\* at the snapshot of the database, so that each of its cards shows the image
\* it showed.  With a change in between ("not transactionally atomic") it may
\* lack an image or hold one that no card names.
BundleIsComplete ==
    bundle # None /\ ~bundle.disturbed => bundle.manifest.uploads = bundle.before

\* A restore that reports success left the database and the uploads the
\* manifest describes, and a restore that fails leaves neither, unless the
\* process stopped between the renames or two restores overlapped.
RestoreAllOrNothing ==
    cut \/ /\ restored # {} => target = [db |-> bundle.manifest.db, uploads |-> bundle.manifest.uploads]
           /\ (\A r \in Restorers : restore[r] = None) => (target.db = None <=> target.uploads = None)
=============================================================================
