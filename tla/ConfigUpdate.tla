---------------------------- MODULE ConfigUpdate ----------------------------
(***************************************************************************)
(* PUT /api/admin/config: app/admin.py, classes AdminConfigStore and       *)
(* PreparedConfigUpdate, and the handler update_admin_config of            *)
(* app/main.py, which swaps the running ControlManager.                    *)
(*                                                                         *)
(* A configuration is a number that tells it from every other one and the  *)
(* set of secret files it refers to.  The file system is modelled one      *)
(* operation at a time, each of which may fail, and the process may be     *)
(* killed between any two.  The handler holds runtime_lock from its first  *)
(* look at the configuration to its end, so that one job record stands     *)
(* for all updates.  The commits of the directory are taken to reach the   *)
(* disk in their order: after a crash the files are as they once were.     *)
(* What chmod and _fsync_directory meet after os.replace is swallowed, so  *)
(* that commit does not fail once the file is replaced: its undo and the   *)
(* look of abort at _committed have nothing to do and are left out.        *)
(***************************************************************************)
EXTENDS Naturals, FiniteSets

CONSTANTS
    Managed,      \* names _private_file_exclusive can draw
    Unmanaged,    \* secret files the service does not own
    InitialRefs,  \* the secrets of the configuration it starts with
    MaxUpdates,   \* bound on the updates of one behaviour
    MaxEdits,     \* bound on the edits from outside
    MaxCrashes,   \* bound on the kills
    MaxLate       \* bound on the stopped managers that still have a probe

Secrets == Managed \cup Unmanaged

ASSUME ConfigAssumption ==
    /\ Managed \cap Unmanaged = {}
    /\ Secrets \cap {"staged", "backup"} = {}
    /\ InitialRefs \subseteq Secrets
    /\ MaxUpdates \in Nat
    /\ MaxEdits \in Nat
    /\ MaxCrashes \in Nat
    /\ MaxLate \in Nat

Config(n, refs) == [number |-> n, refs |-> refs]
Configs == [number : Nat, refs : SUBSET Secrets]
Nothing == Config(0, {})    \* no configuration in memory

VARIABLES
    disk,       \* printers.yml
    files,      \* the secret files that exist
    temps,      \* the staged replacement and the copy of the old file
    left,       \* staged files and copies of earlier updates that are still there
    config,     \* app.state.config; app.state.manager is the one built from it
    running,    \* numbers of the configurations whose manager is started
    connected,  \* those whose manager may hold connections to the printers
    late,       \* those whose manager was stopped while a probe was past its last check
    whole,      \* the manager that runs has a client for each printer
    job,        \* the update under way, with its PreparedConfigUpdate
    drawn,      \* history: managed names used so far
    versions,   \* history: configurations written so far
    updates, edits, crashes,  \* counters for the bounds
    tidy,       \* history: every unlink worked and nobody was killed
    agreed      \* history: nobody has edited the file since the start

vars == <<disk, files, temps, left, config, running, connected, late, whole, job, drawn,
          versions, updates, edits, crashes, tidy, agreed>>

JobStates == {"idle", "secrets", "stage", "load", "unprepare", "construct", "close",
              "stopold", "start", "compare", "backup", "replace", "stopnew", "startold",
              "abort", "swap", "finalize"}

\* base: what prepare read.  next: the replacement.  created: created_secrets.
\* stopped: old_stopped.  todo: files still to unlink.
NoJob == [pc |-> "idle", base |-> Nothing, next |-> Nothing, created |-> {},
          stopped |-> FALSE, todo |-> {}]

JobRecords == [pc : JobStates, base : Configs, next : Configs, created : SUBSET Managed,
               stopped : BOOLEAN,
               todo : SUBSET (Secrets \cup {"staged", "backup"})]

At(where) == job.pc = where
Goto(where) == job' = [job EXCEPT !.pc = where]
storage == <<disk, files, temps, left, drawn, versions, tidy, agreed>>
managers == <<running, connected, late, whole>>
runtime == <<config, managers>>
bounds == <<updates, edits, crashes>>

(***************************************************************************)
(* AdminConfigStore.prepare.                                               *)
(***************************************************************************)
\* The file is read and must be the configuration in memory (else: conflict).  The
\* copy it is loaded from (baseline_copy) is removed at once, with errors ignored.
Begin ==
    /\ At("idle")
    /\ config # Nothing
    /\ updates < MaxUpdates
    /\ updates' = updates + 1
    /\ IF disk = config THEN job' = [NoJob EXCEPT !.pc = "secrets", !.base = disk]
                        ELSE UNCHANGED job
    /\ UNCHANGED <<storage, runtime, edits, crashes>>

\* A new password or access code goes to a file of a new name.
CreateSecret(s) ==
    /\ At("secrets")
    /\ s \in Managed \ drawn
    /\ files' = files \cup {s}
    /\ drawn' = drawn \cup {s}
    /\ job' = [job EXCEPT !.created = @ \cup {s}]
    /\ UNCHANGED <<disk, temps, left, versions, tidy, agreed, runtime, bounds>>

\* Mutation: the files written so far stay when prepare fails.
UnprepareNothing == {}

\* What the finally clause of prepare removes.
Unprepared == job.created \cup temps

\* A refused update, or a file that cannot be written.
PrepareFails ==
    /\ job.pc \in {"secrets", "stage", "load"}
    /\ job' = [job EXCEPT !.pc = "unprepare", !.todo = Unprepared]
    /\ UNCHANGED <<storage, runtime, bounds>>

\* The new document keeps some of the old secrets and names the new ones.
ComposeDocument(kept) ==
    /\ At("secrets")
    /\ kept \subseteq job.base.refs
    /\ job' = [job EXCEPT !.pc = "stage", !.next = Config(versions + 1, kept \cup job.created)]
    /\ versions' = versions + 1
    /\ UNCHANGED <<disk, files, temps, left, drawn, tidy, agreed, runtime, bounds>>

StageConfig ==
    /\ At("stage")
    /\ temps' = {"staged"}
    /\ Goto("load")
    /\ UNCHANGED <<disk, files, left, drawn, versions, tidy, agreed, runtime, bounds>>

\* load_config reads the document and its secrets.
LoadCandidate ==
    /\ At("load")
    /\ job.next.refs \subseteq files
    /\ Goto("construct")
    /\ UNCHANGED <<storage, runtime, bounds>>

(***************************************************************************)
(* Removing files.  A file that cannot be removed is left.                 *)
(***************************************************************************)
Unlink(f) ==
    /\ f \in job.todo
    /\ job' = [job EXCEPT !.todo = @ \ {f}]
    /\ \/ files' = files \ {f} /\ temps' = temps \ {f} /\ UNCHANGED tidy
       \/ UNCHANGED <<files, temps>> /\ tidy' = FALSE
    /\ UNCHANGED <<disk, left, drawn, versions, agreed, runtime, bounds>>

\* What the process can no longer name stays on the disk for ever.
Done(where) ==
    /\ At(where)
    /\ job.todo = {}
    /\ job' = NoJob
    /\ left' = left \cup temps
    /\ temps' = {}
    /\ UNCHANGED <<disk, files, drawn, versions, tidy, agreed, runtime, bounds>>

\* prepare: the staged file first.
UnprepareUnlinks(f) == At("unprepare") /\ ("staged" \in job.todo => f = "staged") /\ Unlink(f)
Unprepare == Done("unprepare")

\* abort: the staged file, the secrets, the copy.
AbortUnlinks(f) ==
    /\ At("abort")
    /\ "staged" \in job.todo => f = "staged"
    /\ f = "backup" => job.todo = {"backup"}
    /\ Unlink(f)
Abort == Done("abort")

\* finalize: the copy, then the secrets nobody refers to.
FinalizeUnlinks(f) == At("finalize") /\ ("backup" \in job.todo => f = "backup") /\ Unlink(f)
Finalize == Done("finalize")

\* What abort removes.  Nothing was committed when it is called.
AbortTodo == job.created \cup temps

\* Mutation: every old secret of the service goes, also one that is still used.
AllOldSecrets == job.base.refs \cap Managed

obsolete_secrets == (job.base.refs \cap Managed) \ job.next.refs

(***************************************************************************)
(* ControlManager.start and stop.  A probe of a stopped client that has    *)
(* passed its last look at _stopping opens its connection all the same.    *)
(***************************************************************************)
ProbeLeft(n) ==
    /\ Cardinality(late) < MaxLate
    /\ late' = late \cup {n}

Starts(n) ==
    /\ running' = running \cup {n}
    /\ connected' = connected \cup {n}
    /\ late' = late \ {n}

Stops(n) ==
    /\ running' = running \ {n}
    /\ connected' = connected \ {n}
    /\ UNCHANGED late \/ (n \in running /\ ProbeLeft(n))
    /\ whole' = (whole /\ n \notin running)

LateProbe(n) ==
    /\ n \in late
    /\ connected' = connected \cup {n}
    /\ UNCHANGED <<storage, config, running, late, whole, job, bounds>>

(***************************************************************************)
(* update_admin_config: the swap of the managers.                          *)
(***************************************************************************)
ConstructManager ==
    /\ At("construct")
    /\ Goto("close")
    /\ UNCHANGED <<storage, runtime, bounds>>

BeginAbort == [job EXCEPT !.pc = "abort", !.todo = AbortTodo]

ConstructFails ==
    /\ At("construct")
    /\ job' = BeginAbort
    /\ UNCHANGED <<storage, runtime, bounds>>

CloseCameras ==
    /\ At("close")
    /\ Goto("stopold")
    /\ UNCHANGED <<storage, runtime, bounds>>

StopOld ==
    /\ At("stopold")
    /\ job' = [job EXCEPT !.pc = "start", !.stopped = TRUE]
    /\ Stops(config.number)
    /\ UNCHANGED <<storage, config, bounds>>

\* strict: every client was started.
StartCandidate ==
    /\ At("start")
    /\ Goto("compare")
    /\ Starts(job.next.number)
    /\ whole' = TRUE
    /\ UNCHANGED <<storage, config, bounds>>

\* A client did not start: the others are stopped again, perhaps too late for a probe.
StartFails ==
    /\ At("start")
    /\ Goto("stopnew")
    /\ UNCHANGED late \/ ProbeLeft(job.next.number)
    /\ UNCHANGED <<storage, config, running, connected, whole, bounds>>

\* An exception before the start, or before the file is replaced.
Fails ==
    /\ job.pc \in {"close", "compare", "backup", "replace"}
    /\ Goto("stopnew")
    /\ UNCHANGED <<storage, runtime, bounds>>

\* Mutation: the candidate goes on.
StopNothing ==
    /\ At("stopnew")
    /\ IF job.stopped THEN Goto("startold") ELSE job' = BeginAbort
    /\ UNCHANGED <<storage, runtime, bounds>>

\* Mutation: the old manager is not brought back.
StopBoth ==
    /\ At("stopnew")
    /\ Stops(job.next.number)
    /\ job' = BeginAbort
    /\ UNCHANGED <<storage, config, bounds>>

StopCandidate ==
    /\ At("stopnew")
    /\ Stops(job.next.number)
    /\ IF job.stopped THEN Goto("startold") ELSE job' = BeginAbort
    /\ UNCHANGED <<storage, config, bounds>>

\* Not strict: a client that does not start is marked "error" and left out.
StartOld ==
    /\ At("startold")
    /\ Starts(config.number)
    /\ whole' \in BOOLEAN
    /\ job' = BeginAbort
    /\ UNCHANGED <<storage, config, bounds>>

\* After the commit: configuration and manager are exchanged in one step.
Swap ==
    /\ At("swap")
    /\ config' = job.next
    /\ job' = [job EXCEPT !.pc = "finalize", !.todo = obsolete_secrets \cup temps]
    /\ UNCHANGED <<storage, managers, bounds>>

(***************************************************************************)
(* PreparedConfigUpdate.commit.                                            *)
(***************************************************************************)
\* The digest of the file must be that of the file prepare read (else: Fails).
CompareBaseline ==
    /\ At("compare")
    /\ disk = job.base
    /\ Goto("backup")
    /\ UNCHANGED <<storage, runtime, bounds>>

StageBackup ==
    /\ At("backup")
    /\ temps' = temps \cup {"backup"}
    /\ Goto("replace")
    /\ UNCHANGED <<disk, files, left, drawn, versions, tidy, agreed, runtime, bounds>>

\* With the chmod and the sync of the directory, whose errors are swallowed.
ReplaceConfig ==
    /\ At("replace")
    /\ disk' = job.next
    /\ temps' = temps \ {"staged"}
    /\ Goto("swap")
    /\ UNCHANGED <<files, left, drawn, versions, tidy, agreed, runtime, bounds>>

(***************************************************************************)
(* The world outside.                                                      *)
(***************************************************************************)
\* Somebody changes the file in place, without touching its secrets.
EditFile ==
    /\ edits < MaxEdits
    /\ edits' = edits + 1
    /\ versions' = versions + 1
    /\ disk' = Config(versions + 1, disk.refs)
    /\ agreed' = FALSE
    /\ UNCHANGED <<files, temps, left, drawn, tidy, runtime, job, updates, crashes>>

Crash ==
    /\ crashes < MaxCrashes
    /\ config # Nothing
    /\ crashes' = crashes + 1
    /\ config' = Nothing
    /\ running' = {} /\ connected' = {} /\ late' = {} /\ whole' = FALSE
    /\ job' = NoJob
    /\ left' = left \cup temps
    /\ temps' = {}
    /\ tidy' = FALSE
    /\ UNCHANGED <<disk, files, drawn, versions, agreed, updates, edits>>

\* lifespan: load_config and activate_runtime, whose start is not strict either.
Restart ==
    /\ config = Nothing
    /\ disk.refs \subseteq files
    /\ config' = disk
    /\ running' = {disk.number}
    /\ connected' = {disk.number}
    /\ whole' \in BOOLEAN
    /\ agreed' = TRUE
    /\ UNCHANGED <<disk, files, temps, left, late, drawn, versions, tidy, job,
                   bounds>>

-----------------------------------------------------------------------------
Init ==
    /\ disk = Config(1, InitialRefs)
    /\ files = InitialRefs
    /\ temps = {} /\ left = {}
    /\ config = disk
    /\ running = {1} /\ connected = {1} /\ late = {}
    /\ whole \in BOOLEAN
    /\ job = NoJob
    /\ drawn = InitialRefs \cap Managed
    /\ versions = 1
    /\ updates = 0 /\ edits = 0 /\ crashes = 0
    /\ tidy = TRUE
    /\ agreed = TRUE

Prepare ==
    \/ \E s \in Managed : CreateSecret(s)
    \/ PrepareFails
    \/ \E kept \in SUBSET job.base.refs : ComposeDocument(kept)
    \/ StageConfig
    \/ LoadCandidate
    \/ \E f \in job.todo : UnprepareUnlinks(f)
    \/ Unprepare

Handler ==
    \/ Prepare
    \/ ConstructManager \/ ConstructFails
    \/ CloseCameras \/ StopOld \/ StartCandidate \/ StartFails
    \/ CompareBaseline \/ StageBackup \/ ReplaceConfig
    \/ Fails \/ StopCandidate \/ StartOld
    \/ Swap
    \/ \E f \in job.todo : AbortUnlinks(f) \/ FinalizeUnlinks(f)
    \/ Abort \/ Finalize

Next ==
    \/ Begin
    \/ Handler
    \/ \E n \in late : LateProbe(n)
    \/ EditFile \/ Crash \/ Restart

Spec == Init /\ [][Next]_vars

\* A handler that can go on does, and Compose starts a killed container again.
FairSpec == Spec /\ WF_vars(Handler) /\ WF_vars(Restart)

-----------------------------------------------------------------------------
\* Every variable has its type.
TypeOK ==
    /\ disk \in Configs
    /\ files \subseteq Secrets
    /\ temps \subseteq {"staged", "backup"}
    /\ left \subseteq {"staged", "backup"}
    /\ config \in Configs
    /\ running \subseteq Nat
    /\ connected \subseteq Nat
    /\ late \subseteq Nat
    /\ whole \in BOOLEAN
    /\ job \in JobRecords
    /\ drawn \subseteq Managed
    /\ versions \in Nat
    /\ updates \in 0 .. MaxUpdates
    /\ edits \in 0 .. MaxEdits
    /\ crashes \in 0 .. MaxCrashes
    /\ tidy \in BOOLEAN
    /\ agreed \in BOOLEAN

\* The configuration on the disk never names a secret file that does not exist, so
\* that a service that is killed at any time starts again: secrets are written
\* before the file that names them and removed after the file that does not.
DiskLoads == disk.refs \subseteq files

\* Two managers never hold connections to the printers at the same time, whichever
\* step of the swap fails, but for one: stop() does not reach a pin probe that has
\* passed its last look at _stopping (mqtt_client.py:137), and the connection which
\* that probe opens for a stopped manager is never closed (late).
OneManager == \A m, n \in connected \ late : m = n

Serving == config # Nothing /\ running = {config.number}

\* Between updates the manager that serves the requests is the one that runs, and
\* it runs the configuration on the disk unless somebody edited the file.  A new
\* configuration only goes into service with a client started for each printer; a
\* manager that is brought back, or started with the process, may lack some.
Settled ==
    /\ (At("idle") /\ config # Nothing) => Serving /\ (agreed => disk = config)
    /\ job.pc \in {"swap", "finalize"} => whole

\* An update, finished or given up, leaves no file behind, neither a managed secret
\* that the configuration does not name nor the staged file nor the copy of the old
\* one, as long as files can be removed and nobody kills the service.
NothingLeftBehind ==
    (At("idle") /\ tidy) => files \cap Managed = disk.refs \cap Managed /\ left = {}

\* Whatever fails during an update, and when the service is killed, some time later
\* the manager of the configuration the service shows is started.  (A client of it
\* that does not start stays out until the next start.)
ServiceReturns == []<>Serving

(***************************************************************************)
(* The inductive invariant behind the safety theorems, in named parts.     *)
(***************************************************************************)
Loaded == {"construct", "close", "stopold", "start", "compare", "backup", "replace",
           "swap"}
Composed == {"stage", "load", "stopnew"} \cup Loaded
Committed == {"swap", "finalize"}
Unlinking == {"unprepare", "abort", "finalize"}

\* Names in use were drawn; those of this update are in no earlier configuration.
NamesDrawn ==
    /\ (disk.refs \cup job.base.refs \cup job.created) \cap Managed \subseteq drawn
    /\ job.created \cap job.base.refs = {}
    /\ job.pc \in Composed => /\ job.created \subseteq job.next.refs
                              /\ job.next.refs \subseteq job.base.refs \cup job.created

\* Whose secrets the file on the disk names.
OnDisk ==
    /\ job.pc \in Committed => disk.refs = job.next.refs
    /\ job.pc \notin Committed \cup {"idle"} => disk.refs = job.base.refs

\* Until the swap the secrets of both configurations are there.
BothLoad == job.pc \in Loaded => job.base.refs \cup job.next.refs \subseteq files

\* Only files that the configuration on the disk does not name are unlinked.
DoomedUnused ==
    /\ job.todo # {} => job.pc \in Unlinking
    /\ job.todo \cap disk.refs = {}

\* Configurations are told apart by their numbers.
Numbered ==
    /\ disk.number \in 1 .. versions
    /\ config # Nothing => config.number \in 1 .. versions
    /\ job.pc # "idle" => config # Nothing
    /\ job.pc \notin {"idle", "finalize"} => job.base = config
    /\ job.pc \in Composed => job.next.number \in (1 .. versions) \ {config.number}

\* Which manager runs at each step of the swap.
RunningAt ==
    /\ config = Nothing => running = {}
    /\ (config # Nothing /\ job.pc \in {"idle", "secrets", "stage", "load", "unprepare",
                                       "construct", "close", "stopold", "abort", "finalize"})
           => running = {config.number}
    /\ job.pc \in {"start", "startold"} => running = {}
    /\ job.pc \in {"compare", "backup", "replace", "swap"}
           => running = {job.next.number}
    /\ job.pc = "stopnew" => IF job.stopped THEN running \subseteq {job.next.number}
                                            ELSE running = {config.number}
    /\ job.pc \in {"secrets", "stage", "load", "construct", "close", "stopold"} => ~job.stopped
    /\ job.pc \in {"start", "compare", "backup", "replace"} => job.stopped
    /\ job.pc \in {"compare", "backup", "replace", "swap", "finalize"} => whole
    /\ connected \subseteq running \cup late

\* Which configuration is on the disk as long as nothing came in between.
Agreement ==
    /\ job.pc = "finalize" => config = job.next
    /\ (agreed /\ config # Nothing) =>
           IF job.pc \in Committed THEN disk = job.next ELSE disk = config

\* Which files exist as long as every unlink worked.
Accounted ==
    tidy =>
        /\ left = {}
        /\ At("idle") => files \cap Managed = disk.refs \cap Managed
        /\ job.pc \in Unlinking =>
               files \cap Managed = (disk.refs \cup job.todo) \cap Managed
        /\ job.pc \notin Unlinking \cup {"idle"} =>
               files \cap Managed = (job.base.refs \cup job.created) \cap Managed
        /\ job.pc \in {"idle"} \cup Unlinking => temps \subseteq job.todo

IInv ==
    /\ TypeOK
    /\ DiskLoads
    /\ NamesDrawn
    /\ OnDisk
    /\ BothLoad
    /\ DoomedUnused
    /\ Numbered
    /\ RunningAt
    /\ Agreement
    /\ Accounted
=============================================================================
