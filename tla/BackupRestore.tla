--------------------------- MODULE BackupRestore ----------------------------
(***************************************************************************)
(* app/backup.py, scripts/backup and scripts/restore: archives of the      *)
(* configuration directory taken while the service runs, and their return  *)
(* while it is stopped.  The service is that of module SetupStore.         *)
(*                                                                         *)
(* An archive, and any other image of the directory, gives the content of  *)
(* every secret file (0 for none), the configuration and the audit         *)
(* database.                                                               *)
(***************************************************************************)
EXTENDS SetupStore, FiniteSetsExt

CONSTANTS
    MaxArchives,  \* bound on the archives of one behaviour
    MaxRestores   \* bound on runs of scripts/restore

ASSUME RestoreAssumption == MaxRestores \in Nat

VARIABLES
    backup,     \* the backup process
    archives,   \* what scripts/backup has published
    restore,    \* the restore process
    script,     \* scripts/restore
    runs,       \* of the script so far
    signalled,  \* a signal waits for the script's current command to end, or has killed it
    left,       \* the container was stopped by hand and nobody is going to start it
    torn        \* history: "mixed", a restore was killed half way; "broken", its rollback
                \* left something out; no restore has succeeded since

restore_vars == <<restore, script, runs, signalled, left, torn>>
vars == <<setup_vars, backup, archives, restore_vars>>

Images == [files : [Names -> Generations], config : Configs, audit : Generations]
Nothing == [files |-> [n \in Names |-> 0], config |-> NoConfig, audit |-> 0]
OnDisk == [files |-> files, config |-> config, audit |-> audit]

\* The archive of an older installation: both secrets and the configuration of setup 1.
Older == [files |-> [n \in Names |-> IF n \in {Password, AccessCode} THEN 1 ELSE 0],
          config |-> [gen |-> 1, refs |-> [n \in {Password, AccessCode} |-> 1]],
          audit |-> 1]

\* A configuration and the secrets its author wrote with it.
Whole(image) == \A n \in References(image.config) : image.files[n] = image.config.refs[n]

(***************************************************************************)
(* create_backup.                                                          *)
(***************************************************************************)
\* todo: entries to read.  was: history, the secret files when the main file was read.
NoBackup == [pc |-> "idle", image |-> Nothing, todo |-> {}, was |-> Nothing.files]
BackupStep(where) ==
    /\ backup.pc = where
    /\ UNCHANGED <<setup_vars, restore_vars>>

\* docker compose exec: the main file is read, once.
ReadMain ==
    /\ BackupStep("idle")
    /\ up \in {"setup", "serving"}
    /\ config # NoConfig
    /\ Cardinality(archives) < MaxArchives
    /\ backup' = [NoBackup EXCEPT !.pc = "main", !.image.config = config,
                                  !.was = files]
    /\ UNCHANGED archives

\* Of the directory's secret files those that this file refers to.  (Other files that no
\* update manages are archived too; nothing here reads them.)
ListDirectory ==
    /\ BackupStep("main")
    /\ backup' = [backup EXCEPT !.pc = "entries",
                                !.todo = {n \in References(backup.image.config) : files[n] # 0}]
    /\ UNCHANGED archives

\* Mutation: the main file is an entry like all others.
ReadEntryAndMain ==
    /\ BackupStep("entries")
    /\ backup.todo # {}
    /\ LET n == Min(backup.todo) IN
       backup' = IF files[n] = 0 THEN NoBackup
                 ELSE [backup EXCEPT !.todo = @ \ {n}, !.image.files[n] = files[n],
                                     !.image.config = config]
    /\ UNCHANGED archives

\* A file that is gone by now ends the backup.
ReadEntry ==
    /\ BackupStep("entries")
    /\ backup.todo # {}
    /\ LET n == Min(backup.todo) IN
       backup' = IF files[n] = 0 THEN NoBackup
                 ELSE [backup EXCEPT !.todo = @ \ {n}, !.image.files[n] = files[n]]
    /\ UNCHANGED archives

\* The snapshot of the audit database; scripts/backup publishes the archive.
Publish ==
    /\ BackupStep("entries")
    /\ backup.todo = {}
    /\ archives' = archives \cup {[backup.image EXCEPT !.audit = audit]}
    /\ backup' = NoBackup

BackupFails == BackupStep(backup.pc) /\ backup # NoBackup /\ backup' = NoBackup
               /\ UNCHANGED archives

(***************************************************************************)
(* restore_backup.                                                         *)
(***************************************************************************)
\* The destinations, in the order in which they are replaced.
AuditDatabase == Managed(MaxGen) + 1
MainFile == Managed(MaxGen) + 2
Entries == Names \cup {AuditDatabase, MainFile}
Members(image) == {n \in Names : image.files[n] # 0}
Destinations(image) == Members(image) \cup {AuditDatabase, MainFile}

\* todo: entries to replace; installed: entries that were replaced, copies: the snapshots,
\* failed: an entry was not put back, touched: the rollback has directories to sync.
\* before: history, what was there at the beginning.  cut: history, Ctrl-C came at the
\* wrong moment.
NoRestore == [pc |-> "idle", archive |-> Nothing, before |-> Nothing, todo |-> {},
              installed |-> {}, copies |-> {}, failed |-> FALSE, touched |-> FALSE,
              cut |-> FALSE, exit |-> "none"]
Exits == {"none", "0", "1", "2", "killed"}

\* _validate_candidate.
Acceptable(image) == References(image.config) \subseteq Members(image)

RestoreStep(where) ==
    /\ restore.pc = where
    /\ UNCHANGED <<generation, token, up, memory, runtime_lock, setup, update, backup,
                   archives, script, runs, signalled, left>>
KeepDisk == UNCHANGED <<files, config, audit>>

\* os.replace of one destination by that of the image; 0 is none.
Put(entry, image) ==
    /\ files' = IF entry \in Names THEN [files EXCEPT ![entry] = image.files[entry]] ELSE files
    /\ audit' = IF entry = AuditDatabase THEN image.audit ELSE audit
    /\ config' = IF entry = MainFile THEN image.config ELSE config

Exit(status) == [restore EXCEPT !.pc = "ended", !.exit = status]

\* The archive is refused, or its files cannot be staged or the old ones copied.
Reject ==
    /\ RestoreStep("checking")
    /\ restore' = Exit("1")
    /\ UNCHANGED torn /\ KeepDisk

\* Everything is staged and every destination that exists is copied.
Prepare ==
    /\ RestoreStep("checking")
    /\ Acceptable(restore.archive)
    /\ restore' = [restore EXCEPT
           !.pc = "install", !.todo = Destinations(restore.archive),
           !.copies = {e \in Destinations(restore.archive) :
                          \/ e \in Members(OnDisk)
                          \/ e = AuditDatabase
                          \/ e = MainFile /\ config # NoConfig}]
    /\ UNCHANGED torn /\ KeepDisk

RollBack(installed) ==
    [restore EXCEPT !.pc = "rollback", !.installed = installed, !.touched = (installed # {})]

\* Mutation: the configuration first.
NextLargest(entries) == Max(entries)

NextEntry(entries) == Min(entries)

\* One replacement; the fsync after it may fail.
Install ==
    /\ RestoreStep("install")
    /\ restore.todo # {}
    /\ LET e == NextEntry(restore.todo)
           done == restore.installed \cup {e}
       IN /\ Put(e, restore.archive)
          /\ \/ restore' = [restore EXCEPT !.todo = @ \ {e}, !.installed = done]
             \/ restore' = RollBack(done)
    /\ UNCHANGED torn

InstallFails ==
    /\ RestoreStep("install")
    /\ restore.todo # {}
    /\ restore' = RollBack(restore.installed)
    /\ UNCHANGED torn /\ KeepDisk

\* Ctrl-C between os.replace and entry.installed = True: the rollback will not know.
InstallInterrupted ==
    /\ RestoreStep("install")
    /\ restore.todo # {}
    /\ Put(NextEntry(restore.todo), restore.archive)
    /\ restore' = [RollBack(restore.installed) EXCEPT !.cut = TRUE]
    /\ torn' = "broken"

\* Mutation: what was not there before stays.
UndoCopied ==
    /\ RestoreStep("rollback")
    /\ restore.installed # {}
    /\ LET e == Max(restore.installed)
       IN /\ IF e \in restore.copies THEN Put(e, restore.before) ELSE KeepDisk
          /\ restore' = [restore EXCEPT !.installed = @ \ {e}, !.copies = @ \ {e}]
    /\ UNCHANGED torn

\* _rollback_restore, in reverse: the copy goes back, or what was not there before goes.
Undo ==
    /\ RestoreStep("rollback")
    /\ restore.installed # {}
    /\ LET e == Max(restore.installed)
       IN /\ Put(e, restore.before)
          /\ restore' = [restore EXCEPT !.installed = @ \ {e}, !.copies = @ \ {e}]
    /\ UNCHANGED torn

UndoFails ==
    /\ RestoreStep("rollback")
    /\ restore.installed # {}
    /\ LET e == Max(restore.installed)
       IN restore' = [restore EXCEPT !.installed = @ \ {e}, !.failed = TRUE]
    /\ UNCHANGED torn /\ KeepDisk

\* The directories are synced.  An incomplete rollback, or one that may not be on the
\* disk, keeps the copies that are left.
RolledBack ==
    /\ RestoreStep("rollback")
    /\ restore.installed = {}
    /\ \/ ~restore.failed /\ restore' = [Exit("1") EXCEPT !.copies = {}]
       \/ (restore.failed \/ restore.touched) /\ restore' = Exit("2")
    /\ torn' = IF restore.failed THEN "broken" ELSE torn
    /\ KeepDisk

\* Mutation: what the previous configuration did not refer to is garbage.
PruneByPrevious ==
    /\ RestoreStep("install")
    /\ restore.todo = {}
    /\ \E kept \in SUBSET (Names \ References(restore.before.config)) :
           files' = [n \in Names |-> IF n \in kept \cup References(restore.before.config)
                                     THEN files[n] ELSE 0]
    /\ restore' = [Exit("0") EXCEPT !.copies = {}]
    /\ torn' = IF Whole(restore.archive) THEN "whole" ELSE "mixed"
    /\ UNCHANGED <<config, audit>>

\* All is replaced.  Copies go, and secrets nobody refers to, as far as they can.
Prune ==
    /\ RestoreStep("install")
    /\ restore.todo = {}
    /\ \E kept \in SUBSET {n \in Members(OnDisk) : n \notin References(config)} :
           files' = [n \in Names |-> IF n \in kept \cup References(config) THEN files[n] ELSE 0]
    /\ restore' = [Exit("0") EXCEPT !.copies = {}]
    /\ torn' = IF Whole(restore.archive) THEN "whole" ELSE "mixed"
    /\ UNCHANGED <<config, audit>>

\* The process is killed.
Cut ==
    /\ RestoreStep(restore.pc)
    /\ restore.pc \in {"checking", "install", "rollback"}
    /\ restore' = Exit("killed")
    /\ torn' = IF torn = "broken" \/ restore.failed THEN "broken"
               ELSE IF restore.installed # {} THEN "mixed" ELSE torn
    /\ KeepDisk

(***************************************************************************)
(* scripts/restore.                                                        *)
(***************************************************************************)
BeginScript ==
    /\ script = "idle"
    /\ runs < MaxRestores
    /\ runs' = runs + 1
    /\ script' = "stopping"
    /\ UNCHANGED <<setup_vars, backup, archives, restore, signalled, left, torn>>

\* docker compose stop ends the service and whatever runs in its container.
ComposeStops ==
    /\ script = "stopping"
    /\ Halt
    /\ backup' = NoBackup
    /\ UNCHANGED <<disk, archives, runs, torn>>

\* service_stopped=1, and the restore process opens the archive.
StopService(archive) ==
    /\ ComposeStops
    /\ signalled = "no"
    /\ script' = "running"
    /\ left' = FALSE
    /\ restore' = [NoRestore EXCEPT !.pc = "checking", !.archive = archive, !.before = OnDisk]
    /\ UNCHANGED signalled

\* The trap comes before service_stopped=1 and starts nothing; nor does a killed script.
StopUnnoticed ==
    /\ ComposeStops
    /\ signalled # "no"
    /\ script' = "idle"
    /\ signalled' = "no"
    /\ left' = TRUE
    /\ UNCHANGED restore

\* docker compose stop fails, or Ctrl-C reaches it too.
StopFails ==
    /\ script = "stopping"
    /\ script' = "idle"
    /\ signalled' = "no"
    /\ UNCHANGED <<setup_vars, backup, archives, restore, runs, left, torn>>

\* A trap runs when the command in the foreground has ended.  A killed script leaves
\* that command alone.
Signal ==
    /\ script # "idle"
    /\ signalled = "no"
    /\ signalled' \in {"trapped", "killed"}
    /\ UNCHANGED <<setup_vars, backup, archives, restore, script, runs, left, torn>>

\* The end of the script, or of the process a killed one has left.  An incomplete
\* rollback leaves the service stopped, unless the trap comes first; docker compose up
\* may fail.
ScriptEnds ==
    /\ script = "running"
    /\ restore.pc = "ended"
    /\ script' = "idle"
    /\ signalled' = "no"
    /\ restore' = NoRestore
    /\ \/ left' = TRUE
       \/ /\ signalled = "trapped" \/ (signalled = "no" /\ restore.exit # "2")
          /\ left' = FALSE
    /\ UNCHANGED <<setup_vars, backup, archives, runs, torn>>

-----------------------------------------------------------------------------
Init ==
    /\ SetupInit
    /\ backup = NoBackup
    /\ archives = {Older}
    /\ restore = NoRestore
    /\ script = "idle"
    /\ runs = 0
    /\ signalled = "no"
    /\ left = FALSE
    /\ torn = "whole"

Elsewhere == UNCHANGED <<backup, archives, restore_vars>>

\* docker compose up by the script, or restart: unless-stopped after a crash.
Starts == script # "running" /\ ~left /\ Start /\ Elsewhere
Serves == (WriteToken \/ UpdateStep \/ \E s \in Setups : SetupStep(s)) /\ Elsewhere
Crashes == up # "down" /\ Halt /\ backup' = NoBackup
           /\ UNCHANGED <<disk, archives, restore_vars>>
Backs == ReadMain \/ ListDirectory \/ ReadEntry \/ Publish \/ BackupFails
Restores == Reject \/ Prepare \/ Install \/ InstallFails \/ Undo \/ UndoFails \/ RolledBack
            \/ Prune

Script ==
    \/ \E archive \in archives : StopService(archive)
    \/ StopUnnoticed \/ StopFails \/ ScriptEnds

Next ==
    \/ Starts \/ Serves \/ Crashes \/ Backs \/ Restores
    \/ InstallInterrupted \/ Cut \/ Signal
    \/ BeginScript \/ Script

Spec == Init /\ [][Next]_vars

\* The service is started again, and the script and the restore process go on.
FairSpec ==
    /\ Spec
    /\ WF_vars(Starts)
    /\ WF_vars(WriteToken /\ Elsewhere)
    /\ WF_vars(Restores)
    /\ WF_vars(Script)

-----------------------------------------------------------------------------
\* Every variable has its type.
TypeOK ==
    /\ SetupTypeOK
    /\ backup \in [pc : {"idle", "main", "entries"}, image : Images, todo : SUBSET Names,
                   was : [Names -> Generations]]
    /\ archives \subseteq Images
    /\ restore \in [pc : {"idle", "checking", "install", "rollback", "ended"},
                    archive : Images, before : Images, todo : SUBSET Entries,
                    installed : SUBSET Entries, copies : SUBSET Entries,
                    failed : BOOLEAN, touched : BOOLEAN, cut : BOOLEAN, exit : Exits]
    /\ script \in {"idle", "stopping", "running"}
    /\ runs \in 0 .. MaxRestores
    /\ torn \in {"whole", "mixed", "broken"}
    /\ signalled \in {"no", "trapped", "killed"}
    /\ left \in BOOLEAN

\* The service never works with the configuration of one setup, update or archive and
\* the secrets of another, unless a restore was torn and none of a whole archive
\* has succeeded since.
ServesWhole ==
    up = "serving" /\ torn = "whole" => memory \in {0, config.gen} /\ Whole(OnDisk)

\* An entry is the same in two images.
Same(e, a, b) ==
    /\ e \in Names => a.files[e] = b.files[e]
    /\ e = AuditDatabase => a.audit = b.audit
    /\ e = MainFile => a.config = b.config

\* What the exit status of a restore promises: 0, every file of the archive is there;
\* 1, the directory is what it was, be it empty, unless Ctrl-C fell between a replacement
\* and its record; 2, whatever is not what it was has its snapshot, or was not there.
RestoreVerdict ==
    /\ restore.exit = "0" =>
           \A e \in Destinations(restore.archive) : Same(e, OnDisk, restore.archive)
    /\ restore.exit = "1" /\ ~restore.cut => OnDisk = restore.before
    /\ restore.exit = "2" =>
           \A e \in Destinations(restore.archive) :
               \/ Same(e, OnDisk, restore.before) \/ e \in restore.copies
               \/ Same(e, restore.before, Nothing)

\* The secrets are in place before the configuration that refers to them, also while a
\* restore is under way and after one was killed; only an incomplete rollback may leave
\* a configuration that does not load.
ConfigIsCommitPoint ==
    config # NoConfig /\ torn # "broken" /\ ~restore.failed => Loads

\* What a backup has collected belongs to the configuration it read: the files this one
\* refers to, as they were when it was read, however the directory changes meanwhile.
BackupOfOneRevision ==
    \A n \in Members(backup.image) :
        n \in References(backup.image.config) /\ backup.image.files[n] = backup.was[n]

\* "Create a consistent archive while the service is running" (README.md:207): what
\* scripts/backup publishes, restore accepts.
ArchiveRestorable == \A a \in archives : Acceptable(a)

\* A service that is configured comes back, whatever it was stopped or killed in, with
\* these exceptions.  A restore that could not be rolled back may leave a configuration
\* that does not load (torn).  And scripts/restore leaves the container stopped, which
\* unless-stopped does not start again (left), when it ends with status 2, when docker
\* compose up fails, when the script is killed, and when a signal comes while docker
\* compose stop is at work: the trap then still sees service_stopped=0 (restore:39-40).
ConfiguredReturns ==
    (config # NoConfig /\ up = "down") ~>
        (up = "serving" \/ config = NoConfig \/ torn = "broken" \/ left)
=============================================================================
