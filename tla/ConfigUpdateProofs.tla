------------------------- MODULE ConfigUpdateProofs -------------------------
(***************************************************************************)
(* The safety theorems of ConfigUpdate, for every set of secret names and  *)
(* every number of updates, edits and kills.  IInv is inductive: a lemma   *)
(* for each action, or for actions that change the same things, shows that *)
(* it is preserved.                                                        *)
(***************************************************************************)
EXTENDS ConfigUpdate, TLAPS

USE DEF At, Goto, storage, managers, runtime, bounds, Config, Nothing, NoJob, Loaded, Composed,
        Committed, Unlinking

\* Typing, action by action.
LEMMA TypeStep == ASSUME TypeOK, Next PROVE TypeOK'
<1> USE ConfigAssumption DEF TypeOK, Configs, JobRecords, JobStates, Secrets
<1>a. ASSUME NEW f, Unlink(f) PROVE TypeOK'
  BY <1>a DEF Unlink
<1>b. ASSUME NEW where, Done(where) PROVE TypeOK'
  BY <1>b DEF Done
<1>c. ASSUME NEW n \in Nat, Starts(n) PROVE running' \subseteq Nat /\ connected' \subseteq Nat
                                            /\ late' \subseteq Nat
  BY <1>c DEF Starts
<1>d. ASSUME NEW n \in Nat, Stops(n)
      PROVE /\ running' \subseteq Nat /\ connected' \subseteq Nat /\ late' \subseteq Nat
            /\ whole' \in BOOLEAN
  BY <1>d DEF Stops, ProbeLeft
<1>1. CASE Begin
  <2>1. [NoJob EXCEPT !.pc = "secrets", !.base = disk] \in JobRecords
    OBVIOUS
  <2>2. job' \in JobRecords
    BY <1>1, <2>1 DEF Begin
  <2>3. updates' \in 0 .. MaxUpdates
    BY <1>1 DEF Begin
  <2> QED BY <1>1, <2>2, <2>3 DEF Begin
<1>2. CASE Prepare
  <2>1. ASSUME NEW s \in Managed, CreateSecret(s) PROVE TypeOK'
    BY <2>1 DEF CreateSecret
  <2>2. CASE PrepareFails
    BY <2>2 DEF PrepareFails, Unprepared
  <2>3. ASSUME NEW kept \in SUBSET job.base.refs, ComposeDocument(kept) PROVE TypeOK'
    <3>1. job.base.refs \subseteq Secrets /\ job.created \subseteq Managed
      OBVIOUS
    <3>2. [number |-> versions + 1, refs |-> kept \cup job.created] \in Configs
      BY <3>1
    <3>3. job' \in JobRecords
      BY <2>3, <3>2 DEF ComposeDocument
    <3> QED BY <2>3, <3>3 DEF ComposeDocument
  <2>4. CASE StageConfig
    BY <2>4 DEF StageConfig
  <2>5. CASE LoadCandidate
    BY <2>5 DEF LoadCandidate
  <2>6. ASSUME NEW f \in job.todo, UnprepareUnlinks(f) PROVE TypeOK'
    BY <2>6, <1>a DEF UnprepareUnlinks
  <2>7. CASE Unprepare
    BY <2>7, <1>b DEF Unprepare
  <2> QED BY <1>2, <2>1, <2>2, <2>3, <2>4, <2>5, <2>6, <2>7 DEF Prepare
<1>3. CASE ConstructManager \/ CloseCameras \/ StopOld \/ StartCandidate \/ StartFails \/ Fails
  <2>0. config.number \in Nat /\ job.next.number \in Nat
    OBVIOUS
  <2>1. CASE ConstructManager \/ CloseCameras \/ Fails
    BY <2>1 DEF ConstructManager, CloseCameras, Fails
  <2>2. CASE StopOld
    <3>1. job' \in JobRecords
      BY <2>2 DEF StopOld
    <3> QED BY <2>2, <2>0, <1>d, <3>1 DEF StopOld
  <2>3. CASE StartCandidate
    <3>1. job' \in JobRecords
      BY <2>3 DEF StartCandidate
    <3> QED BY <2>3, <2>0, <1>c, <3>1 DEF StartCandidate
  <2>4. CASE StartFails
    BY <2>4, <2>0 DEF StartFails, ProbeLeft
  <2> QED BY <1>3, <2>1, <2>2, <2>3, <2>4
<1>4. CASE ConstructFails \/ StopCandidate \/ StartOld
  <2>0. config.number \in Nat /\ job.next.number \in Nat
    OBVIOUS
  <2>1. BeginAbort \in JobRecords
    BY DEF BeginAbort, AbortTodo
  <2>2. [job EXCEPT !.pc = "startold"] \in JobRecords
    OBVIOUS
  <2>3. job' \in JobRecords
    BY <1>4, <2>1, <2>2 DEF ConstructFails, StopCandidate, StartOld
  <2>4. /\ running' \subseteq Nat /\ connected' \subseteq Nat /\ late' \subseteq Nat
        /\ whole' \in BOOLEAN
    BY <1>4, <2>0, <1>c, <1>d DEF ConstructFails, StopCandidate, StartOld
  <2> QED BY <1>4, <2>3, <2>4 DEF ConstructFails, StopCandidate, StartOld
<1>5. CASE CompareBaseline \/ StageBackup \/ ReplaceConfig
  <2>1. CASE CompareBaseline
    BY <2>1 DEF CompareBaseline
  <2>2. CASE StageBackup
    BY <2>2 DEF StageBackup
  <2>3. CASE ReplaceConfig
    BY <2>3 DEF ReplaceConfig
  <2> QED BY <1>5, <2>1, <2>2, <2>3
<1>6. ASSUME NEW n \in late, LateProbe(n) PROVE TypeOK'
  BY <1>6 DEF LateProbe
<1>7. CASE Swap
  BY <1>7 DEF Swap, obsolete_secrets
<1>8. ASSUME NEW f \in job.todo, AbortUnlinks(f) \/ FinalizeUnlinks(f) PROVE TypeOK'
  BY <1>8, <1>a DEF AbortUnlinks, FinalizeUnlinks
<1>9. CASE Abort \/ Finalize
  BY <1>9, <1>b DEF Abort, Finalize
<1>10. CASE EditFile
  <2>1. disk' \in Configs
    BY <1>10 DEF EditFile
  <2>2. edits' \in 0 .. MaxEdits
    BY <1>10 DEF EditFile
  <2> QED BY <1>10, <2>1, <2>2 DEF EditFile
<1>11. CASE Crash
  <2>1. NoJob \in JobRecords /\ Nothing \in Configs
    OBVIOUS
  <2>2. crashes' \in 0 .. MaxCrashes
    BY <1>11 DEF Crash
  <2> QED BY <1>11, <2>1, <2>2 DEF Crash
<1>12. CASE Restart
  BY <1>12 DEF Restart
<1> QED
  BY <1>1, <1>2, <1>3, <1>4, <1>5, <1>6, <1>7, <1>8, <1>9, <1>10, <1>11, <1>12 DEF Next, Handler

\* What the parts of the invariant say of a record's fields.
USE DEF Configs, JobRecords, JobStates, Secrets

\* _stage_private_file adds the staged file only.
LEMMA StageConfigStep == ASSUME IInv, TypeOK', StageConfig PROVE IInv'
  BY ConfigAssumption
  DEF StageConfig, IInv, TypeOK, DiskLoads, NamesDrawn, OnDisk, BothLoad,
     DoomedUnused, Numbered, RunningAt, Agreement, Accounted

\* load_config has seen every secret of the replacement.
LEMMA LoadCandidateStep == ASSUME IInv, TypeOK', LoadCandidate PROVE IInv'
  BY ConfigAssumption
  DEF LoadCandidate, IInv, TypeOK, DiskLoads, NamesDrawn, OnDisk, BothLoad,
     DoomedUnused, Numbered, RunningAt, Agreement, Accounted

\* A new secret has a name no configuration knows.
LEMMA CreateSecretStep == ASSUME IInv, TypeOK', NEW s \in Managed, CreateSecret(s) PROVE IInv'
  BY ConfigAssumption
  DEF CreateSecret, IInv, TypeOK, DiskLoads, NamesDrawn, OnDisk, BothLoad,
     DoomedUnused, Numbered, RunningAt, Agreement, Accounted

\* prepare removes what it wrote; the file on the disk is still the old one.
LEMMA PrepareFailsStep == ASSUME IInv, TypeOK', PrepareFails PROVE IInv'
<1> USE ConfigAssumption DEF PrepareFails, Unprepared, IInv, TypeOK, DiskLoads, NamesDrawn,
      OnDisk, BothLoad, DoomedUnused, Numbered, RunningAt,
         Agreement, Accounted
<1>1. DiskLoads'
  OBVIOUS
<1>2. NamesDrawn'
  OBVIOUS
<1>3. OnDisk'
  OBVIOUS
<1>4. BothLoad'
  OBVIOUS
<1>5. DoomedUnused'
  OBVIOUS
<1>6. Numbered'
  OBVIOUS
<1>7. RunningAt'
  OBVIOUS
<1>8. Agreement'
  OBVIOUS
<1>9. Accounted'
  OBVIOUS
<1> QED BY <1>1, <1>2, <1>3, <1>4, <1>5, <1>6, <1>7, <1>8, <1>9

\* The replacement names old secrets and the new ones.
LEMMA ComposeStep == ASSUME IInv, TypeOK', NEW kept, ComposeDocument(kept) PROVE IInv'
<1> USE ConfigAssumption DEF ComposeDocument, IInv, TypeOK, DiskLoads, NamesDrawn, OnDisk,
      BothLoad, DoomedUnused, Numbered, RunningAt,
         Agreement, Accounted
<1>1. DiskLoads'
  OBVIOUS
<1>2. NamesDrawn'
  OBVIOUS
<1>3. OnDisk'
  OBVIOUS
<1>4. BothLoad'
  OBVIOUS
<1>5. DoomedUnused'
  OBVIOUS
<1>6. Numbered'
  OBVIOUS
<1>7. RunningAt'
  OBVIOUS
<1>8. Agreement'
  OBVIOUS
<1>9. Accounted'
  OBVIOUS
<1> QED BY <1>1, <1>2, <1>3, <1>4, <1>5, <1>6, <1>7, <1>8, <1>9

\* The end of a failed prepare.
LEMMA UnprepareStep == ASSUME IInv, TypeOK', Unprepare PROVE IInv'
  BY ConfigAssumption
  DEF Unprepare, Done, IInv, TypeOK, DiskLoads, NamesDrawn, OnDisk, BothLoad,
     DoomedUnused, Numbered, RunningAt, Agreement, Accounted

\* The end of abort.
LEMMA AbortStep == ASSUME IInv, TypeOK', Abort PROVE IInv'
  BY ConfigAssumption
  DEF Abort, Done, IInv, TypeOK, DiskLoads, NamesDrawn, OnDisk, BothLoad,
     DoomedUnused, Numbered, RunningAt, Agreement, Accounted

\* The end of finalize.
LEMMA FinalizeStep == ASSUME IInv, TypeOK', Finalize PROVE IInv'
  BY ConfigAssumption
  DEF Finalize, Done, IInv, TypeOK, DiskLoads, NamesDrawn, OnDisk, BothLoad,
     DoomedUnused, Numbered, RunningAt, Agreement, Accounted

\* What a removed file was accounted for: as a file still to be removed.
LEMMA UnlinkAccounted ==
  ASSUME IInv, NEW f, Unlink(f), job.pc \in Unlinking
  PROVE  Accounted'
<1>1. job.todo \cap disk.refs = {} /\ job \in JobRecords
  BY DEF IInv, TypeOK, DoomedUnused
<1>2. job'.pc = job.pc /\ job'.todo = job.todo \ {f} /\ f \in job.todo
  BY <1>1 DEF Unlink
<1>3. UNCHANGED <<disk, left>>
  BY DEF Unlink
<1> SUFFICES ASSUME tidy' PROVE /\ left' = {}
                               /\ files' \cap Managed = (disk'.refs \cup job'.todo) \cap Managed
                               /\ temps' \subseteq job'.todo
  BY <1>2 DEF Accounted
<1>4. tidy /\ files' = files \ {f} /\ temps' = temps \ {f}
  BY DEF Unlink
<1>5. /\ left = {} /\ temps \subseteq job.todo
      /\ files \cap Managed = (disk.refs \cup job.todo) \cap Managed
  BY <1>4 DEF IInv, Accounted
<1> QED BY <1>1, <1>2, <1>3, <1>4, <1>5

\* prepare unlinks a secret nobody refers to.
LEMMA UnprepareUnlinksStep == ASSUME IInv, TypeOK', NEW f, UnprepareUnlinks(f) PROVE IInv'
<1> USE ConfigAssumption DEF UnprepareUnlinks, Unlink, IInv, TypeOK, DiskLoads, NamesDrawn,
      OnDisk, BothLoad, DoomedUnused, Numbered, RunningAt,
         Agreement, Accounted
<1>1. DiskLoads'
  OBVIOUS
<1>2. NamesDrawn'
  OBVIOUS
<1>3. OnDisk'
  OBVIOUS
<1>4. BothLoad'
  OBVIOUS
<1>5. DoomedUnused'
  OBVIOUS
<1>6. Numbered'
  OBVIOUS
<1>7. RunningAt'
  OBVIOUS
<1>8. Agreement'
  OBVIOUS
<1>9. Accounted'
  BY UnlinkAccounted
<1> QED BY <1>1, <1>2, <1>3, <1>4, <1>5, <1>6, <1>7, <1>8, <1>9

\* abort unlinks only while the old file is in place.
LEMMA AbortUnlinksStep == ASSUME IInv, TypeOK', NEW f, AbortUnlinks(f) PROVE IInv'
<1> USE ConfigAssumption DEF AbortUnlinks, Unlink, IInv, TypeOK, DiskLoads, NamesDrawn, OnDisk,
      BothLoad, DoomedUnused, Numbered, RunningAt,
         Agreement, Accounted
<1>1. DiskLoads'
  OBVIOUS
<1>2. NamesDrawn'
  OBVIOUS
<1>3. OnDisk'
  OBVIOUS
<1>4. BothLoad'
  OBVIOUS
<1>5. DoomedUnused'
  OBVIOUS
<1>6. Numbered'
  OBVIOUS
<1>7. RunningAt'
  OBVIOUS
<1>8. Agreement'
  OBVIOUS
<1>9. Accounted'
  BY UnlinkAccounted
<1> QED BY <1>1, <1>2, <1>3, <1>4, <1>5, <1>6, <1>7, <1>8, <1>9

\* finalize unlinks what the new file does not name.
LEMMA FinalizeUnlinksStep == ASSUME IInv, TypeOK', NEW f, FinalizeUnlinks(f) PROVE IInv'
<1> USE ConfigAssumption DEF FinalizeUnlinks, Unlink, IInv, TypeOK, DiskLoads, NamesDrawn, OnDisk,
      BothLoad, DoomedUnused, Numbered, RunningAt,
         Agreement, Accounted
<1>1. DiskLoads'
  OBVIOUS
<1>2. NamesDrawn'
  OBVIOUS
<1>3. OnDisk'
  OBVIOUS
<1>4. BothLoad'
  OBVIOUS
<1>5. DoomedUnused'
  OBVIOUS
<1>6. Numbered'
  OBVIOUS
<1>7. RunningAt'
  OBVIOUS
<1>8. Agreement'
  OBVIOUS
<1>9. Accounted'
  BY UnlinkAccounted
<1> QED BY <1>1, <1>2, <1>3, <1>4, <1>5, <1>6, <1>7, <1>8, <1>9

\* Building the candidate changes nothing yet.
LEMMA ConstructManagerStep == ASSUME IInv, TypeOK', ConstructManager PROVE IInv'
  BY ConfigAssumption
  DEF ConstructManager, IInv, TypeOK, DiskLoads, NamesDrawn, OnDisk, BothLoad,
     DoomedUnused, Numbered, RunningAt, Agreement, Accounted

\* Closing the cameras touches neither files nor managers.
LEMMA CloseCamerasStep == ASSUME IInv, TypeOK', CloseCameras PROVE IInv'
  BY ConfigAssumption
  DEF CloseCameras, IInv, TypeOK, DiskLoads, NamesDrawn, OnDisk, BothLoad,
     DoomedUnused, Numbered, RunningAt, Agreement, Accounted

\* The old manager stops before the candidate starts.
LEMMA StopOldStep == ASSUME IInv, TypeOK', StopOld PROVE IInv'
  BY ConfigAssumption
  DEF StopOld, Stops, ProbeLeft, IInv, TypeOK, DiskLoads, NamesDrawn, OnDisk, BothLoad,
     DoomedUnused, Numbered, RunningAt, Agreement, Accounted

\* The candidate starts alone.
LEMMA StartCandidateStep == ASSUME IInv, TypeOK', StartCandidate PROVE IInv'
  BY ConfigAssumption
  DEF StartCandidate, Starts, IInv, TypeOK, DiskLoads, NamesDrawn, OnDisk, BothLoad,
     DoomedUnused, Numbered, RunningAt, Agreement, Accounted

\* What a strict start has started is stopped again.
LEMMA StartFailsStep == ASSUME IInv, TypeOK', StartFails PROVE IInv'
  BY ConfigAssumption
  DEF StartFails, ProbeLeft, IInv, TypeOK, DiskLoads, NamesDrawn, OnDisk, BothLoad, DoomedUnused,
        Numbered,
     RunningAt, Agreement, Accounted

\* A late probe opens the connection of a stopped manager.
LEMMA LateProbeStep == ASSUME IInv, TypeOK', NEW n \in late, LateProbe(n) PROVE IInv'
  BY ConfigAssumption
  DEF LateProbe, IInv, TypeOK, DiskLoads, NamesDrawn, OnDisk, BothLoad, DoomedUnused, Numbered,
     RunningAt, Agreement, Accounted

\* A failure before the file is replaced leaves the files alone.
LEMMA FailsStep == ASSUME IInv, TypeOK', Fails PROVE IInv'
  BY ConfigAssumption
  DEF Fails, IInv, TypeOK, DiskLoads, NamesDrawn, OnDisk, BothLoad,
     DoomedUnused, Numbered, RunningAt, Agreement, Accounted

\* The digest is compared.
LEMMA CompareBaselineStep == ASSUME IInv, TypeOK', CompareBaseline PROVE IInv'
  BY ConfigAssumption
  DEF CompareBaseline, IInv, TypeOK, DiskLoads, NamesDrawn, OnDisk, BothLoad,
     DoomedUnused, Numbered, RunningAt, Agreement, Accounted

\* The copy of the old file is written.
LEMMA StageBackupStep == ASSUME IInv, TypeOK', StageBackup PROVE IInv'
  BY ConfigAssumption
  DEF StageBackup, IInv, TypeOK, DiskLoads, NamesDrawn, OnDisk, BothLoad,
     DoomedUnused, Numbered, RunningAt, Agreement, Accounted

\* A new process loads the file that is there.
LEMMA RestartStep == ASSUME IInv, TypeOK', Restart PROVE IInv'
  BY ConfigAssumption
  DEF Restart, IInv, TypeOK, DiskLoads, NamesDrawn, OnDisk, BothLoad,
     DoomedUnused, Numbered, RunningAt, Agreement, Accounted

\* The candidate cannot be built: abort.
LEMMA ConstructFailsStep == ASSUME IInv, TypeOK', ConstructFails PROVE IInv'
<1> USE ConfigAssumption DEF ConstructFails, BeginAbort, AbortTodo, IInv, TypeOK, DiskLoads,
      NamesDrawn, OnDisk, BothLoad, DoomedUnused, Numbered, RunningAt,
         Agreement, Accounted
<1>1. DiskLoads'
  OBVIOUS
<1>2. NamesDrawn'
  OBVIOUS
<1>3. OnDisk'
  OBVIOUS
<1>4. BothLoad'
  OBVIOUS
<1>5. DoomedUnused'
  OBVIOUS
<1>6. Numbered'
  OBVIOUS
<1>7. RunningAt'
  OBVIOUS
<1>8. Agreement'
  OBVIOUS
<1>9. Accounted'
  OBVIOUS
<1> QED BY <1>1, <1>2, <1>3, <1>4, <1>5, <1>6, <1>7, <1>8, <1>9

\* The old manager runs again.
LEMMA StartOldStep == ASSUME IInv, TypeOK', StartOld PROVE IInv'
<1> USE ConfigAssumption DEF StartOld, Starts, BeginAbort, AbortTodo, IInv, TypeOK, DiskLoads,
      NamesDrawn, OnDisk, BothLoad, DoomedUnused, Numbered, RunningAt,
         Agreement, Accounted
<1>1. DiskLoads'
  OBVIOUS
<1>2. NamesDrawn'
  OBVIOUS
<1>3. OnDisk'
  OBVIOUS
<1>4. BothLoad'
  OBVIOUS
<1>5. DoomedUnused'
  OBVIOUS
<1>6. Numbered'
  OBVIOUS
<1>7. RunningAt'
  OBVIOUS
<1>8. Agreement'
  OBVIOUS
<1>9. Accounted'
  OBVIOUS
<1> QED BY <1>1, <1>2, <1>3, <1>4, <1>5, <1>6, <1>7, <1>8, <1>9

\* Memory follows the disk; the secrets to remove are the old file's only.
LEMMA SwapStep == ASSUME IInv, TypeOK', Swap PROVE IInv'
<1> USE ConfigAssumption DEF Swap, obsolete_secrets, IInv, TypeOK, DiskLoads, NamesDrawn, OnDisk,
      BothLoad, DoomedUnused, Numbered, RunningAt,
         Agreement, Accounted
<1>1. DiskLoads'
  OBVIOUS
<1>2. NamesDrawn'
  OBVIOUS
<1>3. OnDisk'
  OBVIOUS
<1>4. BothLoad'
  OBVIOUS
<1>5. DoomedUnused'
  OBVIOUS
<1>6. Numbered'
  OBVIOUS
<1>7. RunningAt'
  OBVIOUS
<1>8. Agreement'
  OBVIOUS
<1>9. Accounted'
  OBVIOUS
<1> QED BY <1>1, <1>2, <1>3, <1>4, <1>5, <1>6, <1>7, <1>8, <1>9

\* The new file names secrets that are there.
LEMMA ReplaceStep == ASSUME IInv, TypeOK', ReplaceConfig PROVE IInv'
<1> USE ConfigAssumption DEF ReplaceConfig, IInv, TypeOK, DiskLoads, NamesDrawn, OnDisk, BothLoad,
      DoomedUnused, Numbered, RunningAt,
         Agreement, Accounted
<1>1. DiskLoads'
  OBVIOUS
<1>2. NamesDrawn'
  OBVIOUS
<1>3. OnDisk'
  OBVIOUS
<1>4. BothLoad'
  OBVIOUS
<1>5. DoomedUnused'
  OBVIOUS
<1>6. Numbered'
  OBVIOUS
<1>7. RunningAt'
  OBVIOUS
<1>8. Agreement'
  OBVIOUS
<1>9. Accounted'
  OBVIOUS
<1> QED BY <1>1, <1>2, <1>3, <1>4, <1>5, <1>6, <1>7, <1>8, <1>9

\* An edit keeps the secrets of the file.
LEMMA EditStep == ASSUME IInv, TypeOK', EditFile PROVE IInv'
<1> USE ConfigAssumption DEF EditFile, IInv, TypeOK, DiskLoads, NamesDrawn, OnDisk, BothLoad,
      DoomedUnused, Numbered, RunningAt,
         Agreement, Accounted
<1>1. DiskLoads'
  OBVIOUS
<1>2. NamesDrawn'
  OBVIOUS
<1>3. OnDisk'
  OBVIOUS
<1>4. BothLoad'
  OBVIOUS
<1>5. DoomedUnused'
  OBVIOUS
<1>6. Numbered'
  OBVIOUS
<1>7. RunningAt'
  OBVIOUS
<1>8. Agreement'
  OBVIOUS
<1>9. Accounted'
  OBVIOUS
<1> QED BY <1>1, <1>2, <1>3, <1>4, <1>5, <1>6, <1>7, <1>8, <1>9

\* A kill loses the memory only.
LEMMA CrashStep == ASSUME IInv, TypeOK', Crash PROVE IInv'
<1> USE ConfigAssumption DEF Crash, IInv, TypeOK, DiskLoads, NamesDrawn, OnDisk, BothLoad,
      DoomedUnused, Numbered, RunningAt,
         Agreement, Accounted
<1>1. DiskLoads'
  OBVIOUS
<1>2. NamesDrawn'
  OBVIOUS
<1>3. OnDisk'
  OBVIOUS
<1>4. BothLoad'
  OBVIOUS
<1>5. DoomedUnused'
  OBVIOUS
<1>6. Numbered'
  OBVIOUS
<1>7. RunningAt'
  OBVIOUS
<1>8. Agreement'
  OBVIOUS
<1>9. Accounted'
  OBVIOUS
<1> QED BY <1>1, <1>2, <1>3, <1>4, <1>5, <1>6, <1>7, <1>8, <1>9

\* A conflict changes nothing; otherwise the update starts from what memory and disk agree on.
LEMMA BeginStep == ASSUME IInv, TypeOK', Begin PROVE IInv'
<1> USE ConfigAssumption DEF Begin, IInv, TypeOK, DiskLoads, NamesDrawn, OnDisk, BothLoad,
      DoomedUnused,
        Numbered, RunningAt, Agreement, Accounted
<1>1. CASE disk # config
  <2>1. UNCHANGED job
    BY <1>1
  <2> QED BY <2>1
<1>2. CASE disk = config
  <2>1. job' = [NoJob EXCEPT !.pc = "secrets", !.base = disk]
    BY <1>2
  <2> QED BY <1>2, <2>1
<1> QED BY <1>1, <1>2

\* The candidate stops; its number is not that of the old manager.
LEMMA StopCandidateStep == ASSUME IInv, TypeOK', StopCandidate PROVE IInv'
<1> USE ConfigAssumption
<1>1. CASE job.stopped
  <2>1. job' = [job EXCEPT !.pc = "startold"] /\ running' = {}
    BY <1>1 DEF StopCandidate, Stops, IInv, TypeOK, RunningAt
  <2> QED BY <1>1, <2>1 DEF StopCandidate, Stops, ProbeLeft, IInv, TypeOK, DiskLoads, NamesDrawn,
        OnDisk, BothLoad, DoomedUnused,
        Numbered, RunningAt, Agreement, Accounted
<1>2. CASE ~job.stopped
  <2>1. job' = BeginAbort /\ running' = {config.number}
    BY <1>2 DEF StopCandidate, Stops, IInv, TypeOK, RunningAt, Numbered
  <2> QED
    BY <1>2, <2>1 DEF StopCandidate, Stops, ProbeLeft, BeginAbort, AbortTodo, IInv, TypeOK,
          DiskLoads, NamesDrawn, OnDisk, BothLoad, DoomedUnused,
        Numbered, RunningAt, Agreement, Accounted
<1> QED BY <1>1, <1>2 DEF IInv, TypeOK

\* The first start satisfies the invariant.
LEMMA InitIInv == Init => IInv
  BY ConfigAssumption
  DEF Init, IInv, TypeOK, DiskLoads, NamesDrawn, OnDisk, BothLoad,
     DoomedUnused, Numbered, RunningAt, Agreement, Accounted

\* A step that changes nothing keeps the invariant.
LEMMA StutterStep == ASSUME IInv, UNCHANGED vars PROVE IInv'
  BY DEF vars, IInv, TypeOK, DiskLoads, NamesDrawn, OnDisk, BothLoad,
     DoomedUnused, Numbered, RunningAt, Agreement, Accounted

\* Every step of the service and of its surroundings keeps the invariant.
LEMMA NextIInv == IInv /\ [Next]_vars => IInv'
<1> SUFFICES ASSUME IInv, [Next]_vars PROVE IInv'
  OBVIOUS
<1>1. CASE UNCHANGED vars
  BY <1>1, StutterStep
<1>2. CASE Next
  <2> TypeOK'
    BY <1>2, TypeStep DEF IInv
  <2>1. CASE Prepare
    BY <2>1, CreateSecretStep, PrepareFailsStep, ComposeStep, StageConfigStep,
       LoadCandidateStep, UnprepareUnlinksStep, UnprepareStep DEF Prepare
  <2>2. CASE ConstructManager \/ ConstructFails \/ CloseCameras \/ StopOld \/ StartCandidate
        \/ StartFails
    BY <2>2, ConstructManagerStep, ConstructFailsStep, CloseCamerasStep, StopOldStep,
       StartCandidateStep, StartFailsStep
  <2>3. CASE CompareBaseline \/ StageBackup \/ ReplaceConfig
    BY <2>3, CompareBaselineStep, StageBackupStep, ReplaceStep
  <2>4. ASSUME NEW n \in late, LateProbe(n) PROVE IInv'
    BY <2>4, LateProbeStep
  <2>5. CASE Fails \/ StopCandidate \/ StartOld \/ Swap
    BY <2>5, FailsStep, StopCandidateStep, StartOldStep, SwapStep
  <2>6. ASSUME NEW f \in job.todo, AbortUnlinks(f) \/ FinalizeUnlinks(f) PROVE IInv'
    BY <2>6, AbortUnlinksStep, FinalizeUnlinksStep
  <2>7. CASE Abort \/ Finalize
    BY <2>7, AbortStep, FinalizeStep
  <2>8. CASE Begin \/ EditFile \/ Crash \/ Restart
    BY <2>8, BeginStep, EditStep, CrashStep, RestartStep
  <2> QED
    BY <1>2, <2>1, <2>2, <2>3, <2>4, <2>5, <2>6, <2>7, <2>8 DEF Next, Handler
<1> QED BY <1>1, <1>2

\* The inductive invariant holds in every state of update_admin_config, prepare,
\* commit, abort and finalize, of the probes, and after a kill.
THEOREM ConfigInductive == Spec => []IInv
  BY InitIInv, NextIInv, PTL DEF Spec

\* Typing of the files, the runtime and the update under way.
THEOREM ConfigTypeCorrect == Spec => []TypeOK
<1>1. IInv => TypeOK
  BY DEF IInv
<1> QED BY <1>1, ConfigInductive, PTL

\* The file that commit or a kill leaves on the disk names existing secrets.
THEOREM DiskLoadsAlways == Spec => []DiskLoads
<1>1. IInv => DiskLoads
  BY DEF IInv
<1> QED BY <1>1, ConfigInductive, PTL

\* However the swap of update_admin_config fails, at most one manager holds connections,
\* but for those that probes past their last look at _stopping opened after stop().
THEOREM OneManagerAlways == Spec => []OneManager
<1>1. IInv => OneManager
  <2> SUFFICES ASSUME IInv PROVE OneManager
    OBVIOUS
  <2>1. \/ running = {} \/ running \subseteq {config.number}
        \/ running \subseteq {job.next.number}
    BY DEF IInv, TypeOK, RunningAt
  <2>2. connected \ late \subseteq running
    BY DEF IInv, RunningAt
  <2> QED BY <2>1, <2>2 DEF OneManager
<1> QED BY <1>1, ConfigInductive, PTL

\* Between updates the running manager is the one that serves, with the file on the
\* disk unless it was edited; a replacement goes into service with all its clients.
THEOREM SettledAlways == Spec => []Settled
<1>1. IInv => Settled
  BY DEF IInv, Settled, Serving, RunningAt, Agreement, OnDisk
<1> QED BY <1>1, ConfigInductive, PTL

\* Updates that could remove their files left none behind, secrets or temporary.
THEOREM NothingLeftBehindAlways == Spec => []NothingLeftBehind
<1>1. IInv => NothingLeftBehind
  BY DEF IInv, NothingLeftBehind, Accounted
<1> QED BY <1>1, ConfigInductive, PTL
=============================================================================
