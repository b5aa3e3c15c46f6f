------------------------ MODULE BackupRestoreProofs -------------------------
(***************************************************************************)
(* Proofs about BackupRestore, for any number of requests, generations,    *)
(* archives and restores.                                                  *)
(*                                                                         *)
(* IInv says of the directory what the service may rely on when it starts  *)
(* (DiskSound) and, while a restore is half way (Half), where each entry   *)
(* comes from: the archive, if the process has it among its installed      *)
(* ones, or else the snapshots (HalfSound).  The configuration is the last *)
(* entry to go in and the first to go back, so whichever of the two        *)
(* configurations is there finds its secrets.  The service side needs that *)
(* only one request is inside the lock, before the service serves          *)
(* (SetupGood), that an update's new file is no file a configuration names *)
(* (Known) and that its obsolete ones are none either (UpdateSound); the   *)
(* backup, that a file it is still to read is unchanged or gone            *)
(* (BackupSound), which is why every archive is one that Prune can trust:  *)
(* its files are all referred to (Archived).                               *)
(***************************************************************************)
EXTENDS BackupRestore, WellFoundedInduction, TLAPS

-----------------------------------------------------------------------------
\* An image that load_config accepts.
LoadsIn(image) == \A n \in References(image.config) : image.files[n] # 0

\* A configuration refers to no file name that is still to be invented.
Known(c) == References(c) \subseteq 1 .. Managed(generation)

\* No service: nothing of it is left.
Asleep ==
    /\ memory = 0 /\ runtime_lock = Free
    /\ setup = [s \in Setups |-> NoSetup]
    /\ update = NoUpdate /\ backup = NoBackup

\* Request s, when its record is r: the lock, and how far its files have come.
SetupGood(s, r) ==
    /\ r.pc \notin {"idle", "waiting"} => runtime_lock = s /\ up = "setup"
    /\ r.pc \in {"password", "code", "link"} => config = NoConfig /\ r.gen \in 1 .. generation
    /\ r.pc \in {"code", "link"} => files[Password] = r.gen
    /\ r.pc = "link" => files[AccessCode] = r.gen
    /\ r.pc \in {"linked", "activate"} => config # NoConfig /\ config.gen = r.gen

\* The update under way: its file is written, and what it deletes is no longer referred to.
UpdateSound ==
    /\ update.pc # "idle" => up = "serving"
    /\ update.pc = "staged" =>
           update.gen \in 1 .. generation /\ files[Managed(update.gen)] = update.gen
    /\ update.pc = "committed" => update.obsolete \cap References(config) = {}

\* The service, in and out of setup.
ServiceSound ==
    /\ up \in {"down", "preparing"} => Asleep
    /\ up # "serving" => memory = 0
    /\ up = "serving" => config # NoConfig /\ memory = config.gen
    /\ \A s \in Setups : SetupGood(s, setup[s])
    /\ UpdateSound

\* The backup under way: a file it has to read is what it was, or is gone.
BackupSound ==
    /\ backup.pc # "idle" => /\ up \in {"setup", "serving"} /\ config # NoConfig
                             /\ Known(backup.image.config)
                             /\ \A n \in References(backup.image.config) :
                                    files[n] \in {0, backup.was[n]}
    /\ backup.todo \subseteq References(backup.image.config)
    /\ BackupOfOneRevision

\* What create_backup puts into an archive: no file that its configuration does not name.
Archived(image) == Known(image.config) /\ Members(image) \subseteq References(image.config)

\* Every archive is of that kind.
ArchivesSound == \A a \in archives : Archived(a)

\* The restore process is replacing entries or putting them back.
Half == restore.pc \in {"install", "rollback"}

\* An entry can be put back: from its snapshot, or by removing it.
Kept(e) == e \in restore.copies \/ Same(e, restore.before, Nothing)

\* The restore process before its first snapshot.
RestoreIdle ==
    /\ restore.installed = {}
    /\ ~restore.failed /\ ~restore.cut /\ restore.exit = "none"

\* Every entry is that of the archive or that of before, as the process has it recorded.
HalfSound ==
    /\ restore.exit = "none"
    /\ Acceptable(restore.archive)
    /\ restore.installed \subseteq Destinations(restore.archive)
    /\ Known(restore.before.config)
    /\ MainFile \in restore.installed => Destinations(restore.archive) \subseteq restore.installed
    /\ ~restore.cut /\ ~restore.failed =>
           \A e \in Entries :
               Same(e, OnDisk, IF e \in restore.installed THEN restore.archive ELSE restore.before)
    /\ torn = "whole" => Whole(restore.before)
    /\ torn # "broken" => LoadsIn(restore.before)
    /\ \A e \in Destinations(restore.archive) : Kept(e) \/ Same(e, OnDisk, restore.before)

\* Entries go in in order, and nothing is lost as long as that goes on.
InstallSound ==
    /\ ~restore.failed /\ ~restore.cut
    /\ restore.todo \subseteq Destinations(restore.archive)
    /\ restore.installed = Destinations(restore.archive) \ restore.todo
    /\ \A a \in restore.installed, b \in restore.todo : a < b
    /\ \A e \in Destinations(restore.archive) : Kept(e)

\* The script and the process it runs.
RestoreSound ==
    /\ script = "running" <=> restore.pc # "idle"
    /\ script = "running" \/ left => up = "down"
    /\ restore.pc # "idle" => Archived(restore.archive)
    /\ restore.pc \in {"idle", "checking"} => RestoreIdle
    /\ restore.pc = "checking" => restore.before = OnDisk
    /\ Half => HalfSound
    /\ restore.pc = "install" => InstallSound
    /\ restore.cut => torn = "broken"
    /\ RestoreVerdict

\* The directory, except half way through a restore.
DiskSound ==
    /\ Known(config)
    /\ ~Half /\ torn = "whole" => Whole(OnDisk)
    /\ ~Half /\ torn # "broken" => Loads

\* What setup holds for one request.
SetupRecords == [pc : {"idle", "waiting", "checking", "password", "code", "link", "linked",
                       "activate"}, gen : Generations]

\* The inductive invariant.
IInv == TypeOK /\ ServiceSound /\ BackupSound /\ ArchivesSound /\ RestoreSound /\ DiskSound

-----------------------------------------------------------------------------
\* The order of the numbers, as a set of pairs.
NatLess == {p \in Nat \X Nat : p[1] < p[2]}

\* A set of numbers that is not empty has a least one: Min is it.
LEMMA LeastOf ==
    ASSUME NEW S \in SUBSET Nat, S # {}
    PROVE  Min(S) \in S /\ \A y \in S : Min(S) <= y
<1>1. IsWellFoundedOn(NatLess, Nat)
  BY NatLessThanWellFounded DEF OpToRel, NatLess
<1>2. PICK k \in S : \A j \in S : ~(<<j, k>> \in NatLess)
  BY <1>1, WFMin
<1>3. ASSUME NEW y \in S PROVE k <= y
  <2>1. y \in Nat /\ k \in Nat /\ ~(<<y, k>> \in NatLess)
    BY <1>2
  <2>2. y < k => <<y, k>> \in NatLess
    BY <2>1 DEF NatLess
  <2> QED
    BY <2>1, <2>2
<1> QED
  BY <1>3 DEF Min

\* A set of numbers up to n has a greatest one: Max is it.
LEMMA GreatestOf ==
    ASSUME NEW n \in Nat, NEW S \in SUBSET (1 .. n), S # {}
    PROVE  Max(S) \in S /\ \A y \in S : y <= Max(S)
<1> DEFINE T == {n - x : x \in S}
<1>0. \A x \in S : x \in Int /\ x <= n /\ n - x \in Nat
  OBVIOUS
<1>1. T \in SUBSET Nat /\ T # {}
  BY <1>0
<1>2. Min(T) \in T /\ \A y \in T : Min(T) <= y
  BY <1>1, LeastOf
<1>3. PICK k \in S : Min(T) = n - k
  BY <1>2
<1>4. ASSUME NEW y \in S PROVE y <= k
  <2>1. n - y \in T /\ n - k <= n - y
    BY <1>2, <1>3
  <2> QED
    BY <2>1
<1>5. \A y \in S : k >= y
  BY <1>4
<1> QED
  BY <1>5 DEF Max

\* The names are numbers, the configuration the last of them.
LEMMA Numbers ==
    /\ MaxGen \in Nat \ {0} /\ Names = 1 .. (2 + MaxGen)
    /\ AuditDatabase = 3 + MaxGen /\ MainFile = 4 + MaxGen
    /\ Entries = 1 .. (4 + MaxGen) /\ 4 + MaxGen \in Nat
    /\ Generations = 0 .. MaxGen
    /\ Password \in Names /\ AccessCode \in Names /\ Password # AccessCode
    /\ \A g \in 1 .. MaxGen : Managed(g) \in Names \ {Password, AccessCode}
BY SetupAssumption DEF Names, Managed, AuditDatabase, MainFile, Entries, Generations, Password,
       AccessCode

\* NextEntry is the first of the entries that are left.
LEMMA NextEntryLeast ==
    ASSUME NEW S \in SUBSET Entries, S # {}
    PROVE  NextEntry(S) \in S /\ \A y \in S : NextEntry(S) <= y
BY Numbers, LeastOf DEF NextEntry

\* The rollback takes the last of the entries that are left.
LEMMA LastEntry ==
    ASSUME NEW S \in SUBSET Entries, S # {}
    PROVE  Max(S) \in S /\ \A y \in S : y <= Max(S)
BY Numbers, GreatestOf

\* The directory as an image.
LEMMA OnDiskFields == OnDisk.files = files /\ OnDisk.config = config /\ OnDisk.audit = audit
BY DEF OnDisk

\* Put replaces one entry and no other.
LEMMA PutPlaces ==
    ASSUME TypeOK, NEW e \in Entries, NEW image \in Images, Put(e, image)
    PROVE  /\ files' \in [Names -> Generations] /\ config' \in Configs /\ audit' \in Generations
           /\ Same(e, OnDisk', image)
           /\ \A d \in Entries \ {e} : Same(d, OnDisk', OnDisk)
           /\ config' \in {config, image.config}
<1>1. /\ image.files \in [Names -> Generations] /\ image.config \in Configs
      /\ image.audit \in Generations
  BY DEF Images
<1>2. /\ files \in [Names -> Generations] /\ config \in Configs /\ audit \in Generations
  BY DEF TypeOK, SetupTypeOK
<1>3. AuditDatabase \notin Names /\ MainFile \notin Names /\ AuditDatabase # MainFile
  BY Numbers
<1>4. files' \in [Names -> Generations] /\ config' \in Configs /\ audit' \in Generations
  BY <1>1, <1>2 DEF Put
<1>5. Same(e, OnDisk', image)
  BY <1>1, <1>2, <1>3 DEF Put, Same, OnDisk
<1>6. \A d \in Entries \ {e} : Same(d, OnDisk', OnDisk)
  BY <1>1, <1>2, <1>3 DEF Put, Same, OnDisk, Entries
<1> QED
  BY <1>4, <1>5, <1>6 DEF Put

\* A configuration refers to secret files by name, among them the access code.
LEMMA ConfigShape ==
    ASSUME NEW c \in Configs
    PROVE  /\ References(c) \subseteq Names
           /\ c # NoConfig => /\ c.gen \in 1 .. MaxGen /\ AccessCode \in References(c)
                              /\ \A n \in References(c) : c.refs[n] \in 1 .. MaxGen
           /\ c = NoConfig => References(c) = {} /\ c.gen = 0
<1>1. CASE c = NoConfig
  BY <1>1, Numbers DEF NoConfig, References
<1>2. CASE c # NoConfig
  <2>1. PICK p \in Names \ {AccessCode} :
            c \in [gen : 1 .. MaxGen, refs : [{p, AccessCode} -> 1 .. MaxGen]]
    BY <1>2 DEF Configs, NoConfig
  <2> QED
    BY <1>2, <2>1, Numbers DEF References
<1> QED
  BY <1>1, <1>2

\* What setup and updates write is a configuration.
LEMMA ConfigMade ==
    ASSUME NEW g \in 1 .. MaxGen, NEW p \in Names \ {AccessCode},
           NEW f \in [{p, AccessCode} -> 1 .. MaxGen]
    PROVE  /\ [gen |-> g, refs |-> f] \in Configs
           /\ [gen |-> g, refs |-> f] # NoConfig
           /\ References([gen |-> g, refs |-> f]) = {p, AccessCode}
<1>1. [gen |-> g, refs |-> f] \in [gen : 1 .. MaxGen, refs : [{p, AccessCode} -> 1 .. MaxGen]]
  OBVIOUS
<1>2. [gen |-> g, refs |-> f] \in Configs
  BY <1>1 DEF Configs
<1> QED
  BY <1>2, Numbers DEF NoConfig, References

\* What a step of the service means for a backup that is under way.
BackupFollows ==
    /\ generation <= generation'
    /\ up \notin {"down", "preparing"} => up' \in {"setup", "serving"}
    /\ up \notin {"down", "preparing"} /\ config # NoConfig =>
           /\ config' # NoConfig
           /\ \A n \in 1 .. Managed(generation) : n \in Names => files'[n] \in {0, files[n]}

\* A start, from nothing to serving or to setup.
LEMMA WakeSteps ==
    ASSUME SetupTypeOK, ServiceSound, Start \/ WriteToken, UNCHANGED backup
    PROVE  SetupTypeOK' /\ ServiceSound' /\ BackupFollows /\ UNCHANGED <<files, config, generation>>
<1>0. up \in {"down", "preparing"} /\ Asleep
  BY DEF Start, StartConfigured, StartPrepared, OpenToken, WriteToken, ServiceSound
<1>1. UNCHANGED <<files, config, generation, runtime_lock, setup, update, audit>>
  BY DEF Start, StartConfigured, StartPrepared, OpenToken, WriteToken, disk
<1>2. /\ token' \in {"none", "empty", "valid"} /\ up' \in {"preparing", "setup", "serving"}
      /\ up' = "preparing" => memory' = 0
      /\ up' = "setup" => memory' = 0
      /\ up' = "serving" => config # NoConfig /\ memory' = config.gen
  BY <1>0 DEF Start, StartConfigured, StartPrepared, OpenToken, WriteToken, disk, Asleep,
              SetupTypeOK
<1>3. memory' \in Generations
  <2>1. config \in Configs
    BY DEF SetupTypeOK
  <2>2. config # NoConfig => config.gen \in 1 .. MaxGen
    BY <2>1, ConfigShape
  <2> QED
    BY <1>2, <2>2, Numbers
<1>4. SetupTypeOK'
  BY <1>1, <1>2, <1>3 DEF SetupTypeOK
<1>5. \A s \in Setups : setup[s].pc = "idle"
  BY <1>0 DEF Asleep, NoSetup
<1>6. update.pc = "idle"
  BY <1>0 DEF Asleep, NoUpdate
<1>7. ServiceSound'
  BY <1>0, <1>1, <1>2, <1>5, <1>6 DEF ServiceSound, SetupGood, UpdateSound, Asleep
<1> QED
  BY <1>0, <1>1, <1>4, <1>7, Numbers DEF BackupFollows, SetupTypeOK

\* One request moves, the others are not inside the lock.
LEMMA OneSetup ==
    ASSUME SetupTypeOK, ServiceSound, NEW s \in Setups, NEW r \in SetupRecords,
           setup' = [setup EXCEPT ![s] = r], UNCHANGED <<update, backup>>,
           \A t \in Setups \ {s} : setup[t].pc \in {"idle", "waiting"},
           up \in {"setup", "serving"}, up' \in {"setup", "serving"},
           runtime_lock' \in Setups \cup {Free},
           SetupGood(s, r)',
           up' # "serving" => memory' = 0,
           up' = "serving" => config' # NoConfig /\ memory' = config'.gen,
           update.pc = "idle" \/ UNCHANGED <<files, config, generation, up>>,
           files' \in [Names -> Generations], config' \in Configs, UNCHANGED audit,
           generation' \in 1 .. MaxGen, token' \in {"none", "empty", "valid"},
           memory' \in Generations, generation <= generation'
    PROVE  SetupTypeOK' /\ ServiceSound'
<1>1. setup' \in [Setups -> SetupRecords]
  BY DEF SetupTypeOK, SetupRecords
<1>2. SetupTypeOK'
  BY <1>1 DEF SetupTypeOK, SetupRecords
<1>3. \A t \in Setups : setup'[t] = IF t = s THEN r ELSE setup[t]
  BY DEF SetupTypeOK
<1>4. \A t \in Setups : SetupGood(t, setup[t])'
  BY <1>3 DEF SetupGood
<1>5. UpdateSound'
  BY DEF ServiceSound, UpdateSound, SetupTypeOK
<1> QED
  BY <1>2, <1>4, <1>5 DEF ServiceSound

\* Whoever is inside the lock is there alone, before the service serves.
LEMMA Alone ==
    ASSUME SetupTypeOK, ServiceSound, NEW s \in Setups, setup[s].pc \notin {"idle", "waiting"}
    PROVE  /\ up = "setup" /\ runtime_lock = s /\ memory = 0 /\ update.pc = "idle"
           /\ \A t \in Setups \ {s} : setup[t].pc \in {"idle", "waiting"}
BY DEF ServiceSound, SetupGood, UpdateSound

\* Every step of a request keeps what is said of the service.
LEMMA SetupSteps ==
    ASSUME SetupTypeOK, ServiceSound, NEW s \in Setups, SetupStep(s), UNCHANGED backup
    PROVE  SetupTypeOK' /\ ServiceSound' /\ BackupFollows
<1> DEFINE r == setup[s]
<1>t. /\ setup \in [Setups -> SetupRecords] /\ r \in SetupRecords /\ NoSetup \in SetupRecords
      /\ generation \in 1 .. MaxGen /\ MaxGen \in Nat /\ config \in Configs
      /\ files \in [Names -> Generations] /\ memory \in Generations
      /\ token \in {"none", "empty", "valid"} /\ audit \in Generations
      /\ runtime_lock \in Setups \cup {Free} /\ generation <= generation
  BY Numbers DEF SetupTypeOK, SetupRecords, NoSetup
<1>u. up \in {"setup", "serving"} /\ SetupGood(s, r)
  <2>1. up \in {"down", "preparing"} => setup[s].pc = "idle"
    BY DEF ServiceSound, Asleep, NoSetup
  <2> QED
    BY <2>1 DEF SetupStep, Arrive, Enter, Refused, Accepted, WriteSecret, SetupFails, Link,
                LinkUnreported, DropToken, activate_runtime, ActivationFails, SetupAt,
                ServiceSound, SetupTypeOK
<1>m. ASSUME NEW where \in {"idle", "waiting", "checking", "password", "code", "link", "linked",
                            "activate"}
      PROVE  /\ [r EXCEPT !.pc = where] \in SetupRecords
             /\ [r EXCEPT !.pc = where].pc = where /\ [r EXCEPT !.pc = where].gen = r.gen
             /\ Moves(s, where) => setup' = [setup EXCEPT ![s] = [r EXCEPT !.pc = where]]
  BY <1>t DEF SetupRecords, Moves
<1>i. r.pc \notin {"idle", "waiting"} =>
         /\ up = "setup" /\ runtime_lock = s /\ memory = 0 /\ update.pc = "idle"
         /\ \A t \in Setups \ {s} : setup[t].pc \in {"idle", "waiting"}
  BY Alone
<1>g. ServiceSound /\ \A t \in Setups : SetupGood(t, setup[t])
  BY DEF ServiceSound
<1>n. NoSetup.pc = "idle" /\ 0 \in Generations
  BY Numbers DEF NoSetup
<1> HIDE DEF r
<1>1. CASE Arrive(s)
  <2>1. /\ setup' = [setup EXCEPT ![s] = [r EXCEPT !.pc = "waiting"]]
        /\ UNCHANGED <<disk, up, memory, runtime_lock, update>>
    BY <1>1, <1>m DEF Arrive
  <2> QED
    BY <1>t, <1>u, <1>m, <1>g, <2>1
    DEF SetupTypeOK, SetupRecords, ServiceSound, SetupGood, UpdateSound, disk, BackupFollows
<1>2. CASE Enter(s)
  <2>1. /\ r.pc = "waiting" /\ runtime_lock = Free /\ UNCHANGED <<disk, up, memory, update>>
        /\ \/ setup' = [setup EXCEPT ![s] = NoSetup] /\ runtime_lock' = Free
           \/ /\ setup' = [setup EXCEPT ![s] = [r EXCEPT !.pc = "checking"]]
              /\ runtime_lock' = s /\ memory = 0
    BY <1>2, <1>m DEF Enter, SetupAt, Answer, r
  <2>2. \A t \in Setups \ {s} : setup[t].pc \in {"idle", "waiting"}
    BY <1>g, <2>1, SetupAssumption DEF SetupGood
  <2>3. CASE setup' = [setup EXCEPT ![s] = NoSetup] /\ runtime_lock' = Free
    <3>1. SetupTypeOK' /\ ServiceSound'
      BY <1>t, <1>u, <1>g, <1>n, <2>1, <2>2, <2>3, OneSetup DEF SetupGood, ServiceSound, disk
    <3> QED
      BY <1>t, <1>u, <2>1, <3>1 DEF BackupFollows, disk
  <2>4. CASE /\ setup' = [setup EXCEPT ![s] = [r EXCEPT !.pc = "checking"]]
             /\ runtime_lock' = s /\ memory = 0
    <3>1. up = "setup"
      BY <1>t, <1>u, <1>g, <2>4, ConfigShape DEF ServiceSound
    <3>2. SetupTypeOK' /\ ServiceSound'
      BY <1>t, <1>u, <1>g, <1>m, <2>1, <2>2, <2>4, <3>1, OneSetup DEF SetupGood, ServiceSound, disk
    <3> QED
      BY <1>t, <1>u, <2>1, <3>2 DEF BackupFollows, disk
  <2> QED
    BY <2>1, <2>3, <2>4
<1>3. CASE Refused(s) \/ SetupFails(s) \/ LinkUnreported(s) \/ ActivationFails(s)
  <2>1. /\ r.pc \notin {"idle", "waiting"} /\ UNCHANGED <<disk, up, memory, update>>
        /\ setup' = [setup EXCEPT ![s] = NoSetup] /\ runtime_lock' = Free
    BY <1>3 DEF Refused, SetupFails, LinkUnreported, ActivationFails, SetupAt, Answer, r
  <2>2. SetupTypeOK' /\ ServiceSound'
    BY <1>t, <1>u, <1>g, <1>n, <1>i, <2>1, OneSetup DEF SetupGood, ServiceSound, disk
  <2> QED
    BY <1>t, <1>u, <2>1, <2>2 DEF BackupFollows, disk
<1>4. CASE Accepted(s)
  <2> DEFINE q == [pc |-> "password", gen |-> generation + 1]
  <2>1. /\ r.pc = "checking" /\ config = NoConfig /\ generation + 1 \in 1 .. MaxGen
        /\ generation' = generation + 1 /\ setup' = [setup EXCEPT ![s] = q]
        /\ UNCHANGED <<files, config, audit, token, up, memory, runtime_lock, update>>
    BY <1>4, <1>t DEF Accepted, SetupAt, NextGeneration, r
  <2>2. q \in SetupRecords /\ q.pc = "password" /\ q.gen = generation + 1
    BY <2>1, Numbers DEF SetupRecords
  <2> HIDE DEF q
  <2>3. generation + 1 \in 1 .. generation + 1 /\ generation <= generation + 1
    BY <1>t
  <2>4. SetupTypeOK' /\ ServiceSound'
    BY <1>t, <1>u, <1>g, <1>i, <2>1, <2>2, <2>3, OneSetup DEF SetupGood, ServiceSound
  <2> QED
    BY <1>t, <1>u, <2>1, <2>4 DEF BackupFollows
<1>5. ASSUME NEW where \in {"password", "code"}, NEW name \in Names, NEW next \in {"code", "link"},
             WriteSecret(s, where, name, next),
             \/ where = "password" /\ name = Password /\ next = "code"
             \/ where = "code" /\ name = AccessCode /\ next = "link"
      PROVE  SetupTypeOK' /\ ServiceSound' /\ BackupFollows
  <2>1. /\ r.pc = where /\ files' = [files EXCEPT ![name] = r.gen]
        /\ UNCHANGED <<config, audit, generation, token, up, memory, update>>
        /\ \/ /\ setup' = [setup EXCEPT ![s] = [r EXCEPT !.pc = next]] /\ UNCHANGED runtime_lock
           \/ setup' = [setup EXCEPT ![s] = NoSetup] /\ runtime_lock' = Free
    BY <1>5, <1>m DEF WriteSecret, SetupAt, Answer, r
  <2>2. config = NoConfig /\ r.gen \in 1 .. generation /\ r.gen \in Generations
    BY <1>t, <1>u, <1>5, <2>1 DEF SetupGood, SetupRecords
  <2>3. files' \in [Names -> Generations] /\ files'[name] = r.gen
    BY <1>t, <2>1, <2>2
  <2>4. next = "link" => files'[Password] = r.gen
    BY <1>t, <1>u, <1>5, <2>1, Numbers DEF SetupGood
  <2>5. SetupTypeOK' /\ ServiceSound'
    <3>1. CASE setup' = [setup EXCEPT ![s] = [r EXCEPT !.pc = next]] /\ UNCHANGED runtime_lock
      <4>1. PICK q : q = [r EXCEPT !.pc = next]
        OBVIOUS
      <4>2. q \in SetupRecords /\ q.pc = next /\ q.gen = r.gen /\ setup' = [setup EXCEPT ![s] = q]
        BY <1>m, <3>1, <4>1
      <4>3. SetupGood(s, q)'
        BY <1>5, <1>i, <2>1, <2>2, <2>3, <2>4, <3>1, <4>2 DEF SetupGood
      <4> QED
        BY <1>t, <1>u, <1>g, <1>i, <1>5, <2>1, <2>3, <3>1, <4>2, <4>3, OneSetup
        DEF ServiceSound
    <3>2. CASE setup' = [setup EXCEPT ![s] = NoSetup] /\ runtime_lock' = Free
      BY <1>t, <1>u, <1>g, <1>i, <1>n, <1>5, <2>1, <2>3, <3>2, OneSetup DEF SetupGood, ServiceSound
    <3> QED
      BY <2>1, <3>1, <3>2
  <2> QED
    BY <1>t, <1>u, <2>1, <2>2, <2>5 DEF BackupFollows
<1>6. CASE Link(s)
  <2> DEFINE both == [n \in {Password, AccessCode} |-> r.gen]
             c == [gen |-> r.gen, refs |-> both]
             q == [r EXCEPT !.pc = "linked"]
  <2>1. /\ r.pc = "link" /\ config = NoConfig /\ config' = c
        /\ setup' = [setup EXCEPT ![s] = q]
        /\ UNCHANGED <<files, audit, generation, token, up, memory, runtime_lock, update>>
    BY <1>6, <1>m DEF Link, SetupAt, r
  <2>2. r.gen \in 1 .. MaxGen
    BY <1>t, <1>u, <2>1 DEF SetupGood
  <2>3. c \in Configs /\ c # NoConfig /\ c.gen = r.gen
    BY <2>2, ConfigMade, Numbers
  <2>4. q \in SetupRecords /\ q.pc = "linked" /\ q.gen = r.gen
    BY <1>m
  <2> HIDE DEF c, q
  <2>5. SetupTypeOK' /\ ServiceSound'
    BY <1>t, <1>u, <1>g, <1>i, <2>1, <2>3, <2>4, OneSetup DEF SetupGood, ServiceSound
  <2> QED
    BY <1>t, <1>u, <2>1, <2>5 DEF BackupFollows
<1>7. CASE DropToken(s)
  <2> DEFINE q == [r EXCEPT !.pc = "activate"]
  <2>1. /\ r.pc = "linked" /\ token' \in {token, "none"} /\ setup' = [setup EXCEPT ![s] = q]
        /\ UNCHANGED <<files, config, audit, generation, up, memory, runtime_lock, update>>
    BY <1>7, <1>m DEF DropToken, SetupAt, r
  <2>2. q \in SetupRecords /\ q.pc = "activate" /\ q.gen = r.gen
    BY <1>m
  <2> HIDE DEF q
  <2>3. SetupTypeOK' /\ ServiceSound'
    BY <1>t, <1>u, <1>g, <1>i, <2>1, <2>2, OneSetup DEF SetupGood, ServiceSound
  <2> QED
    BY <1>t, <1>u, <2>1, <2>3 DEF BackupFollows
<1>8. CASE activate_runtime(s)
  <2>1. /\ r.pc = "activate" /\ memory' = r.gen /\ up' = "serving"
        /\ setup' = [setup EXCEPT ![s] = NoSetup] /\ runtime_lock' = Free
        /\ UNCHANGED <<disk, update>>
    BY <1>8 DEF activate_runtime, SetupAt, Answer, r
  <2>2. config # NoConfig /\ config.gen = r.gen /\ r.gen \in Generations
    BY <1>t, <1>u, <2>1 DEF SetupGood, SetupRecords
  <2>3. SetupTypeOK' /\ ServiceSound'
    BY <1>t, <1>u, <1>g, <1>i, <1>n, <2>1, <2>2, OneSetup DEF SetupGood, ServiceSound, disk
  <2> QED
    BY <1>t, <1>u, <2>1, <2>3 DEF BackupFollows, disk
<1> QED
  BY <1>1, <1>2, <1>3, <1>4, <1>5, <1>6, <1>7, <1>8, Numbers DEF SetupStep

\* The steps of an update that other processes can tell apart.
LEMMA UpdateSteps ==
    ASSUME SetupTypeOK, ServiceSound, UpdateStep, UNCHANGED backup
    PROVE  SetupTypeOK' /\ ServiceSound' /\ BackupFollows
<1>t. /\ generation \in 1 .. MaxGen /\ MaxGen \in Nat /\ config \in Configs
      /\ files \in [Names -> Generations]
      /\ update.gen \in Generations /\ update.obsolete \subseteq Names
  BY Numbers DEF SetupTypeOK
<1>u. up = "serving" /\ config # NoConfig /\ memory = config.gen
  BY DEF UpdateStep, UpdateStages, UpdateCommits, UpdateFinishes, ServiceSound, UpdateSound
<1>s. \A s \in Setups : setup[s].pc \in {"idle", "waiting"}
  BY <1>u DEF ServiceSound, SetupGood
<1>n. NoUpdate = [pc |-> "idle", gen |-> 0, obsolete |-> {}]
  BY DEF NoUpdate
<1>c. /\ AccessCode \in References(config)
      /\ \A n \in References(config) : n \in Names /\ config.refs[n] \in 1 .. MaxGen
  BY <1>t, <1>u, ConfigShape
<1>1. CASE UpdateStages
  <2> DEFINE g == generation + 1
  <2>1. /\ g \in 1 .. MaxGen /\ generation' = g
        /\ update' = [NoUpdate EXCEPT !.pc = "staged", !.gen = g]
        /\ files' = [files EXCEPT ![Managed(g)] = g]
        /\ UNCHANGED <<config, audit, token, up, memory, runtime_lock, setup>>
    <3>1. generation < MaxGen /\ generation' = g
      BY <1>1 DEF UpdateStages, NextGeneration
    <3>2. g \in 1 .. MaxGen
      BY <1>t, <3>1
    <3> HIDE DEF g
    <3> QED
      BY <1>1, <3>1, <3>2 DEF UpdateStages
  <2>2. Managed(g) \in Names /\ g \in Generations /\ generation <= g /\ g \in 1 .. g
    BY <1>t, <2>1, Numbers
  <2>u. /\ update' \in [pc : {"idle", "staged", "committed"}, gen : Generations,
                        obsolete : SUBSET Names]
        /\ update'.pc = "staged" /\ update'.gen = g
    BY <2>1, <2>2 DEF NoUpdate
  <2>3. files' \in [Names -> Generations] /\ files'[Managed(g)] = g
    BY <1>t, <2>1, <2>2
  <2>4. \A n \in 1 .. Managed(generation) : n \in Names => files'[n] = files[n]
    BY <1>t, <2>1 DEF Managed
  <2>5. SetupTypeOK'
    BY <2>1, <2>2, <2>3, <2>u DEF SetupTypeOK
  <2>6. ServiceSound'
    BY <1>u, <1>s, <2>1, <2>2, <2>3, <2>u DEF ServiceSound, SetupGood, UpdateSound
  <2> QED
    BY <1>u, <2>1, <2>2, <2>4, <2>5, <2>6 DEF BackupFollows
<1>2. CASE UpdateCommits
  <2> DEFINE g == update.gen
             f == [n \in {Managed(g), AccessCode} |-> IF n = AccessCode THEN config.refs[n] ELSE g]
             c == [gen |-> g, refs |-> f]
             gone == References(config) \ References(config')
  <2>1. /\ update.pc = "staged" /\ config' = c /\ memory' = g /\ audit' = g
        /\ update' = [update EXCEPT !.pc = "committed", !.obsolete = gone]
        /\ UNCHANGED <<files, generation, token, up, runtime_lock, setup>>
    BY <1>2 DEF UpdateCommits
  <2>2. g \in 1 .. generation /\ g \in 1 .. MaxGen /\ g \in Generations
    BY <1>t, <2>1, Numbers DEF ServiceSound, UpdateSound
  <2>3. f \in [{Managed(g), AccessCode} -> 1 .. MaxGen]
    BY <1>c, <2>2
  <2>4. Managed(g) \in Names \ {AccessCode}
    BY <2>2, Numbers
  <2> HIDE DEF f
  <2>5. c \in Configs /\ c # NoConfig /\ c.gen = g
    BY <2>2, <2>3, <2>4, ConfigMade
  <2> HIDE DEF c
  <2>6. gone \subseteq Names /\ gone \cap References(config') = {}
    BY <1>c
  <2> HIDE DEF gone, g
  <2>7. /\ update' \in [pc : {"idle", "staged", "committed"}, gen : Generations,
                        obsolete : SUBSET Names]
        /\ update'.pc = "committed" /\ update'.obsolete = gone
    BY <2>1, <2>6 DEF SetupTypeOK
  <2>8. SetupTypeOK'
    BY <2>1, <2>2, <2>5, <2>7 DEF SetupTypeOK
  <2>9. ServiceSound'
    BY <1>u, <1>s, <2>1, <2>5, <2>6, <2>7 DEF ServiceSound, SetupGood, UpdateSound
  <2> QED
    BY <1>t, <1>u, <2>1, <2>5, <2>8, <2>9 DEF BackupFollows
<1>3. CASE UpdateFinishes
  <2>1. /\ files' = [n \in Names |-> IF n \in update.obsolete THEN 0 ELSE files[n]]
        /\ update' = NoUpdate
        /\ UNCHANGED <<config, audit, generation, token, up, memory, runtime_lock, setup>>
    BY <1>3 DEF UpdateFinishes
  <2>2. files' \in [Names -> Generations] /\ \A n \in Names : files'[n] \in {0, files[n]}
    BY <1>t, <2>1, Numbers
  <2>3. SetupTypeOK'
    BY <1>n, <2>1, <2>2, Numbers DEF SetupTypeOK
  <2>4. ServiceSound'
    BY <1>u, <1>s, <1>n, <2>1 DEF ServiceSound, SetupGood, UpdateSound
  <2> QED
    BY <1>t, <1>u, <2>1, <2>2, <2>3, <2>4 DEF BackupFollows
<1> QED
  BY <1>1, <1>2, <1>3 DEF UpdateStep

\* The service is stopped or killed.
LEMMA HaltSteps ==
    ASSUME SetupTypeOK, Halt, UNCHANGED disk, backup' = NoBackup
    PROVE  SetupTypeOK' /\ ServiceSound' /\ Asleep' /\ up' = "down"
<1>1. /\ files' = files /\ config' = config /\ audit' = audit /\ generation' = generation
      /\ token' = token /\ up' = "down" /\ memory' = 0 /\ runtime_lock' = Free
      /\ setup' = [s \in Setups |-> NoSetup] /\ update' = NoUpdate
  BY DEF Halt, disk
<1>2. NoSetup \in SetupRecords /\ NoSetup.pc = "idle" /\ NoUpdate.pc = "idle"
  BY Numbers DEF NoSetup, NoUpdate, SetupRecords
<1>3. SetupTypeOK'
  BY <1>1, <1>2, Numbers DEF SetupTypeOK, SetupRecords, NoUpdate
<1>4. Asleep'
  BY <1>1 DEF Asleep
<1>5. ServiceSound'
  BY <1>1, <1>2, <1>4 DEF ServiceSound, SetupGood, UpdateSound
<1> QED
  BY <1>1, <1>3, <1>4, <1>5

\* What generations so far have named stays named.
LEMMA KnownGrows ==
    ASSUME NEW c, generation \in Nat, generation' \in Nat, generation <= generation', Known(c)
    PROVE  Known(c)'
BY DEF Known, Managed

\* The service steps only while no restore is under way.
LEMMA ServiceAlone ==
    ASSUME TypeOK, ServiceSound, RestoreSound, Starts \/ Serves
    PROVE  /\ restore.pc = "idle" /\ script # "running" /\ ~left
           /\ UNCHANGED <<backup, archives, restore_vars>>
<1>1. UNCHANGED <<backup, archives, restore_vars>>
  BY DEF Starts, Serves, Elsewhere
<1>2. CASE Starts
  BY <1>1, <1>2 DEF Starts, RestoreSound
<1>3. CASE Serves
  <2>1. WriteToken => up # "down"
    BY DEF WriteToken
  <2>2. UpdateStep => up # "down"
    BY DEF UpdateStep, UpdateStages, UpdateCommits, UpdateFinishes, ServiceSound, UpdateSound
  <2>3. ASSUME NEW s \in Setups, SetupStep(s) PROVE up # "down"
    <3>1. up = "down" => setup[s].pc = "idle"
      BY DEF ServiceSound, Asleep, NoSetup
    <3> QED
      BY <2>3, <3>1
      DEF SetupStep, Arrive, Enter, Refused, Accepted, WriteSecret, SetupFails, Link,
          LinkUnreported, DropToken, activate_runtime, ActivationFails, SetupAt
  <2> QED
    BY <1>1, <1>3, <2>1, <2>2, <2>3 DEF Serves, RestoreSound, TypeOK
<1> QED
  BY <1>1, <1>2, <1>3

\* DiskSound, without a restore.
DirectoryGood ==
    /\ Known(config)
    /\ torn = "whole" => Whole(OnDisk)
    /\ torn # "broken" => Loads

\* A secret or configuration file of the service is never one that it should not touch.
LEMMA ServiceDisk ==
    ASSUME SetupTypeOK, ServiceSound, DirectoryGood, UNCHANGED torn,
           Start \/ WriteToken \/ UpdateStep \/ \E s \in Setups : SetupStep(s),
           SetupTypeOK', generation <= generation'
    PROVE  DirectoryGood'
<1>0. /\ generation \in 1 .. MaxGen /\ generation' \in 1 .. MaxGen /\ config \in Configs
      /\ files \in [Names -> Generations] /\ files' \in [Names -> Generations]
  BY DEF SetupTypeOK
<1>t. /\ generation \in 1 .. MaxGen /\ generation' \in Nat /\ generation \in Nat
      /\ generation' >= 1 /\ MaxGen \in Nat /\ config \in Configs
      /\ files \in [Names -> Generations] /\ files' \in [Names -> Generations]
  BY <1>0, SetupAssumption
<1>k. \A c : Known(c) => Known(c)'
  BY <1>t, KnownGrows
<1>o. /\ Whole(OnDisk) <=> \A n \in References(config) : files[n] = config.refs[n]
      /\ Whole(OnDisk)' <=> \A n \in References(config') : files'[n] = config'.refs[n]
  BY DEF Whole, OnDisk, References
<1>1. CASE UNCHANGED <<files, config>>
  BY <1>1, <1>k, <1>o DEF DirectoryGood, Known, Loads
<1>2. CASE config = NoConfig /\ UNCHANGED config
  <2>1. References(config) = {}
    BY <1>2, ConfigShape, <1>t
  <2> QED
    BY <1>2, <2>1, <1>o DEF DirectoryGood, Known, Loads
<1>3. ASSUME NEW s \in Setups, Link(s) PROVE DirectoryGood'
  <2> DEFINE both == [n \in {Password, AccessCode} |-> setup[s].gen]
  <2>1. /\ config' = [gen |-> setup[s].gen, refs |-> both] /\ files' = files
        /\ files[Password] = setup[s].gen /\ files[AccessCode] = setup[s].gen
        /\ setup[s].gen \in 1 .. generation
    BY <1>3 DEF Link, SetupAt, ServiceSound, SetupGood
  <2>2. /\ References(config') = {Password, AccessCode}
        /\ \A n \in References(config') : config'.refs[n] = setup[s].gen
    BY <2>1 DEF References
  <2>3. Password \in 1 .. (2 + generation') /\ AccessCode \in 1 .. (2 + generation')
    <3>1. ASSUME NEW g \in Nat, g >= 1 PROVE 1 \in 1 .. (2 + g) /\ 2 \in 1 .. (2 + g)
      BY <3>1
    <3> QED
      BY <1>t, <3>1 DEF Password, AccessCode
  <2> QED
    BY <1>o, <2>1, <2>2, <2>3 DEF DirectoryGood, Known, Managed, Loads
<1>4. CASE UpdateStages
  <2>1. /\ files' = [files EXCEPT ![Managed(generation + 1)] = generation + 1]
        /\ config' = config
    BY <1>4 DEF UpdateStages, NextGeneration
  <2>2. \A n \in References(config) : n \in Names /\ n <= 2 + generation
    BY <1>t, ConfigShape, Numbers DEF DirectoryGood, Known, Managed
  <2>3. \A n \in References(config) : files'[n] = files[n]
    BY <1>t, <2>1, <2>2, Numbers DEF Managed
  <2> QED
    BY <1>k, <1>o, <2>1, <2>3 DEF DirectoryGood, Loads, Known
<1>5. CASE UpdateCommits
  <2> DEFINE g == update.gen
             f == [n \in {Managed(g), AccessCode} |-> IF n = AccessCode THEN config.refs[n] ELSE g]
  <2>1. /\ update.pc = "staged" /\ config' = [gen |-> g, refs |-> f]
        /\ files' = files /\ generation' = generation
    BY <1>5 DEF UpdateCommits
  <2>2. g \in 1 .. generation /\ files[Managed(g)] = g /\ config # NoConfig
    BY <2>1 DEF ServiceSound, UpdateSound
  <2>3. AccessCode \in References(config)
    BY <1>t, <2>2, ConfigShape
  <2>4. Managed(g) # AccessCode /\ {Managed(g), AccessCode} \subseteq 1 .. (2 + generation')
    BY <1>t, <2>1, <2>2 DEF Managed, AccessCode
  <2>5. /\ References(config') = {Managed(g), AccessCode}
        /\ config'.refs[Managed(g)] = g /\ config'.refs[AccessCode] = config.refs[AccessCode]
    BY <2>1, <2>4 DEF References
  <2> HIDE DEF g, f
  <2>6. g # 0
    BY <1>t, <2>2
  <2> QED
    BY <1>o, <2>1, <2>2, <2>3, <2>4, <2>5, <2>6 DEF DirectoryGood, Known, Managed, Loads
<1>6. CASE UpdateFinishes
  <2>1. /\ files' = [n \in Names |-> IF n \in update.obsolete THEN 0 ELSE files[n]]
        /\ config' = config /\ update.obsolete \cap References(config) = {}
    BY <1>6 DEF UpdateFinishes, ServiceSound, UpdateSound
  <2>2. \A n \in References(config) : files'[n] = files[n]
    BY <1>t, <2>1, ConfigShape
  <2> QED
    BY <1>k, <1>o, <2>1, <2>2 DEF DirectoryGood, Loads, Known
<1>7. CASE Start \/ WriteToken
  BY <1>1, <1>7 DEF Start, StartConfigured, StartPrepared, OpenToken, WriteToken, disk
<1>8. ASSUME NEW s \in Setups, SetupStep(s) PROVE DirectoryGood'
  <2>1. CASE Link(s)
    BY <1>3, <2>1
  <2>2. ASSUME NEW where, where \in {"password", "code"}, NEW name, NEW next,
               WriteSecret(s, where, name, next)
        PROVE  DirectoryGood'
    BY <1>2, <2>2 DEF WriteSecret, SetupAt, ServiceSound, SetupGood
  <2> QED
    BY <1>1, <1>8, <2>1, <2>2
    DEF SetupStep, Arrive, Enter, Refused, Accepted, SetupFails, LinkUnreported, DropToken,
        activate_runtime, ActivationFails, disk
<1> QED
  BY <1>4, <1>5, <1>6, <1>7, <1>8 DEF UpdateStep

\* Archives stay as sound as they are.
LEMMA ArchivesGrow ==
    ASSUME SetupTypeOK, SetupTypeOK', generation <= generation'
    PROVE  /\ \A c : Known(c) => Known(c)'
           /\ \A a : Archived(a) => Archived(a)'
           /\ ArchivesSound /\ UNCHANGED archives => ArchivesSound'
<1>1. generation \in 1 .. MaxGen /\ generation' \in 1 .. MaxGen
  BY DEF SetupTypeOK
<1>2. generation \in Nat /\ generation' \in Nat
  BY <1>1, SetupAssumption
<1>3. \A c : Known(c) => Known(c)'
  BY <1>2, KnownGrows
<1>4. \A a : Archived(a) => Archived(a)'
  BY <1>3 DEF Archived, Members
<1> QED
  BY <1>3, <1>4 DEF ArchivesSound

\* A backup under way goes on with what it read.
LEMMA BackupKept ==
    ASSUME TypeOK, ServiceSound, BackupSound, BackupFollows, UNCHANGED backup, SetupTypeOK'
    PROVE  BackupSound'
<1>1. /\ backup.image \in Images /\ backup.image.config \in Configs
  BY DEF TypeOK, Images
<1>2. References(backup.image.config) \subseteq Names
  BY <1>1, ConfigShape
<1>3. CASE backup.pc = "idle"
  BY <1>3 DEF BackupSound, BackupOfOneRevision
<1>4. CASE backup.pc # "idle"
  <2>1. up \notin {"down", "preparing"}
    BY <1>4 DEF ServiceSound, Asleep, NoBackup
  <2>2. /\ up' \in {"setup", "serving"} /\ config' # NoConfig
        /\ \A n \in 1 .. Managed(generation) : n \in Names => files'[n] \in {0, files[n]}
    BY <1>4, <2>1 DEF BackupFollows, BackupSound
  <2>3. Known(backup.image.config) /\ Known(backup.image.config)'
    <3>1. PICK c : c = backup.image.config
      OBVIOUS
    <3>2. Known(c)
      BY <1>4, <3>1 DEF BackupSound
    <3>3. generation <= generation' /\ SetupTypeOK
      BY DEF BackupFollows, TypeOK
    <3>4. Known(c)'
      BY <3>2, <3>3, ArchivesGrow
    <3> QED
      BY <3>1, <3>2, <3>4 DEF Known
  <2>4. \A n \in References(backup.image.config) : files'[n] \in {0, backup.was[n]}
    BY <1>2, <1>4, <2>2, <2>3 DEF Known, BackupSound
  <2> QED
    BY <1>4, <2>2, <2>3, <2>4 DEF BackupSound, BackupOfOneRevision
<1> QED
  BY <1>3, <1>4

\* Starting and serving, of whatever request.
LEMMA ServiceInv == IInv /\ (Starts \/ Serves) => IInv'
<1> SUFFICES ASSUME IInv, Starts \/ Serves PROVE IInv'
  OBVIOUS
<1>1. /\ TypeOK /\ SetupTypeOK /\ ServiceSound /\ BackupSound /\ ArchivesSound /\ RestoreSound
      /\ DiskSound
  BY DEF IInv, TypeOK
<1>2. /\ restore.pc = "idle" /\ script # "running" /\ ~left
      /\ UNCHANGED <<backup, archives, restore_vars>>
  BY <1>1, ServiceAlone
<1>u. UNCHANGED <<backup, archives, restore, script, runs, signalled, left, torn>>
  BY <1>2 DEF restore_vars
<1>3. Start \/ WriteToken \/ UpdateStep \/ \E s \in Setups : SetupStep(s)
  BY DEF Starts, Serves
<1>4. SetupTypeOK' /\ ServiceSound' /\ BackupFollows
  <2>1. CASE Start \/ WriteToken
    BY <1>1, <1>u, <2>1, WakeSteps
  <2>2. CASE UpdateStep
    BY <1>1, <1>u, <2>2, UpdateSteps
  <2>3. ASSUME NEW s \in Setups, SetupStep(s) PROVE SetupTypeOK' /\ ServiceSound' /\ BackupFollows
    BY <1>1, <1>u, <2>3, SetupSteps
  <2> QED
    BY <1>3, <2>1, <2>2, <2>3
<1>5. generation <= generation'
  BY <1>4 DEF BackupFollows
<1>6. TypeOK'
  BY <1>1, <1>4, <1>u DEF TypeOK
<1>7. BackupSound'
  BY <1>1, <1>4, <1>u, BackupKept
<1>8. ArchivesSound'
  BY <1>1, <1>4, <1>5, <1>u, ArchivesGrow
<1>9. RestoreSound'
  <2>1. RestoreIdle
    BY <1>1, <1>2 DEF RestoreSound
  <2>2. restore' = restore /\ script' = script /\ torn' = torn /\ left' = left
    BY <1>u
  <2>3. RestoreIdle'
    BY <2>1, <2>2 DEF RestoreIdle
  <2>4. RestoreVerdict'
    BY <2>1, <2>2 DEF RestoreIdle, RestoreVerdict
  <2> QED
    BY <1>2, <2>1, <2>2, <2>3, <2>4 DEF RestoreSound, RestoreIdle, Half
<1>10. DiskSound'
  <2>1. ~Half /\ ~Half'
    BY <1>2, <1>u DEF Half
  <2>2. DirectoryGood
    BY <1>1, <2>1 DEF DiskSound, DirectoryGood
  <2>3. DirectoryGood'
    BY <1>1, <1>3, <1>4, <1>5, <1>u, <2>2, ServiceDisk
  <2> QED
    BY <2>1, <2>3 DEF DiskSound, DirectoryGood
<1> QED
  BY <1>4, <1>6, <1>7, <1>8, <1>9, <1>10 DEF IInv

\* Stopping and killing it.
LEMMA CrashInv == IInv /\ Crashes => IInv'
<1> SUFFICES ASSUME IInv, Crashes PROVE IInv'
  OBVIOUS
<1>1. /\ TypeOK /\ SetupTypeOK /\ ServiceSound /\ BackupSound /\ ArchivesSound /\ RestoreSound
      /\ DiskSound
  BY DEF IInv, TypeOK
<1>2. /\ up # "down" /\ Halt /\ backup' = NoBackup
      /\ UNCHANGED disk /\ UNCHANGED <<files, config, audit, generation, archives, restore, script,
                                       runs, signalled, left, torn>>
  BY DEF Crashes, disk, restore_vars
<1>3. SetupTypeOK' /\ ServiceSound' /\ Asleep' /\ up' = "down"
  BY <1>1, <1>2, HaltSteps
<1>4. NoBackup.pc = "idle" /\ NoBackup.todo = {} /\ Members(NoBackup.image) = {}
  BY DEF NoBackup, Members, Nothing
<1>5. NoBackup \in [pc : {"idle", "main", "entries"}, image : Images, todo : SUBSET Names,
                    was : [Names -> Generations]]
  BY Numbers DEF NoBackup, Nothing, Images, Configs, NoConfig
<1>6. TypeOK'
  BY <1>1, <1>2, <1>3, <1>5 DEF TypeOK
<1>7. BackupSound'
  BY <1>2, <1>4 DEF BackupSound, BackupOfOneRevision
<1>8. generation \in Nat
  BY <1>1, SetupAssumption DEF SetupTypeOK
<1>9. ArchivesSound'
  BY <1>1, <1>2, <1>3, <1>8, ArchivesGrow
<1>10. restore.pc = "idle" /\ script # "running"
  BY <1>1, <1>2 DEF RestoreSound, TypeOK
<1>11. RestoreSound'
  BY <1>1, <1>2, <1>10 DEF RestoreSound, RestoreIdle, Half, RestoreVerdict
<1>12. DiskSound'
  BY <1>1, <1>2 DEF DiskSound, Known, Half, Whole, OnDisk, Loads
<1> QED
  BY <1>3, <1>6, <1>7, <1>9, <1>11, <1>12 DEF IInv

\* What backup holds.
BackupRecords == [pc : {"idle", "main", "entries"}, image : Images, todo : SUBSET Names,
                  was : [Names -> Generations]]

\* What the steps of the backup process leave alone.
LEMMA BackupAside ==
    ASSUME IInv, UNCHANGED <<setup_vars, restore_vars>>, archives' \subseteq Images,
           backup' \in BackupRecords, ArchivesSound', BackupSound',
           backup' = NoBackup \/ up \in {"setup", "serving"}
    PROVE  IInv'
<1>1. /\ TypeOK /\ SetupTypeOK /\ ServiceSound /\ RestoreSound /\ DiskSound
  BY DEF IInv, TypeOK
<1>2. UNCHANGED <<files, config, audit, generation, token, up, memory, runtime_lock, setup,
                  update, restore, script, runs, signalled, left, torn>>
  BY DEF setup_vars, disk, restore_vars
<1>3. TypeOK'
  BY <1>1, <1>2 DEF TypeOK, SetupTypeOK, BackupRecords
<1>4. ServiceSound'
  BY <1>1, <1>2 DEF ServiceSound, SetupGood, UpdateSound, Asleep
<1>5. RestoreSound' /\ DiskSound'
  BY <1>1, <1>2
  DEF RestoreSound, DiskSound, Archived, RestoreIdle, Half, HalfSound, InstallSound, RestoreVerdict,
      Known, Kept, Same, Acceptable, Destinations, Members, Whole, Loads, LoadsIn, OnDisk
<1> QED
  BY <1>3, <1>4, <1>5 DEF IInv

\* create_backup and scripts/backup.
LEMMA BackupInv == IInv /\ Backs => IInv'
<1> SUFFICES ASSUME IInv, Backs PROVE IInv'
  OBVIOUS
<1>1. /\ TypeOK /\ SetupTypeOK /\ ServiceSound /\ BackupSound /\ ArchivesSound /\ DiskSound
  BY DEF IInv, TypeOK
<1>t. /\ backup \in BackupRecords /\ archives \subseteq Images /\ config \in Configs
      /\ files \in [Names -> Generations] /\ audit \in Generations /\ generation \in 1 .. MaxGen
  BY <1>1 DEF TypeOK, SetupTypeOK, BackupRecords
<1>b. /\ backup.pc \in {"idle", "main", "entries"} /\ backup.image \in Images
      /\ backup.image.config \in Configs /\ backup.image.files \in [Names -> Generations]
      /\ backup.todo \subseteq Names /\ backup.was \in [Names -> Generations]
      /\ References(backup.image.config) \subseteq Names
  BY <1>t, ConfigShape DEF BackupRecords, Images
<1>u. UNCHANGED <<setup_vars, restore_vars>>
  BY DEF Backs, BackupStep, ReadMain, ListDirectory, ReadEntry, Publish, BackupFails
<1>v. UNCHANGED <<files, config, audit, generation, up>>
  BY <1>u DEF setup_vars, disk
<1>n. /\ NoBackup.pc = "idle" /\ NoBackup.todo = {} /\ Members(NoBackup.image) = {}
      /\ NoBackup \in BackupRecords
  BY Numbers DEF NoBackup, Members, Nothing, BackupRecords, Images, Configs, NoConfig
<1>i. Nothing \in Images /\ Nothing.files = [n \in Names |-> 0]
  BY Numbers DEF Nothing, Images, Configs, NoConfig
<1>a. UNCHANGED archives => ArchivesSound'
  BY <1>1, <1>v DEF ArchivesSound, Archived, Known, Members
<1>0. ASSUME backup' = NoBackup, ArchivesSound', archives' \subseteq Images PROVE IInv'
  <2>1. BackupSound'
    BY <1>0, <1>n DEF BackupSound, BackupOfOneRevision
  <2> QED
    BY <1>0, <1>u, <1>n, <2>1, BackupAside
<1>2. CASE ReadMain
  <2>1. PICK m : m = [Nothing EXCEPT !.config = config]
    OBVIOUS
  <2>2. m \in Images /\ m.config = config /\ m.files = [n \in Names |-> 0]
    BY <1>t, <1>i, <2>1 DEF Images, Nothing
  <2>3. backup' = [NoBackup EXCEPT !.pc = "main", !.image = m, !.was = files]
    BY <1>2, <2>1 DEF ReadMain, NoBackup
  <2>4. /\ backup' \in BackupRecords /\ backup'.pc = "main" /\ backup'.image = m
        /\ backup'.todo = {} /\ backup'.was = files
    BY <1>t, <2>2, <2>3 DEF NoBackup, BackupRecords
  <2>5. Known(config) /\ up \in {"setup", "serving"} /\ config # NoConfig /\ UNCHANGED archives
    BY <1>1, <1>2 DEF DiskSound, ReadMain
  <2>6. Members(m) = {}
    BY <2>2 DEF Members
  <2>7. BackupSound'
    BY <1>v, <2>2, <2>4, <2>5, <2>6 DEF BackupSound, BackupOfOneRevision, Known
  <2> QED
    BY <1>t, <1>u, <1>a, <2>4, <2>5, <2>7, BackupAside
<1>3. CASE ListDirectory
  <2> DEFINE T == {n \in References(backup.image.config) : files[n] # 0}
  <2>1. backup.pc = "main" /\ UNCHANGED archives
        /\ backup' = [backup EXCEPT !.pc = "entries", !.todo = T]
    BY <1>3 DEF ListDirectory, BackupStep
  <2>2. T \subseteq Names /\ T \subseteq References(backup.image.config)
    BY <1>b
  <2> HIDE DEF T
  <2>3. /\ backup' \in BackupRecords /\ backup'.pc = "entries" /\ backup'.image = backup.image
        /\ backup'.todo = T /\ backup'.was = backup.was
    BY <1>t, <2>1, <2>2 DEF BackupRecords
  <2>4. BackupSound' /\ up \in {"setup", "serving"}
    BY <1>1, <1>v, <2>1, <2>2, <2>3 DEF BackupSound, BackupOfOneRevision, Known
  <2> QED
    BY <1>t, <1>u, <1>a, <2>1, <2>3, <2>4, BackupAside
<1>4. CASE ReadEntry
  <2>1. PICK e : e = Min(backup.todo)
    OBVIOUS
  <2>2. /\ backup.pc = "entries" /\ backup.todo # {} /\ UNCHANGED archives
        /\ backup' = IF files[e] = 0 THEN NoBackup
                     ELSE [backup EXCEPT !.todo = @ \ {e}, !.image.files[e] = files[e]]
    BY <1>4, <2>1 DEF ReadEntry, BackupStep
  <2>3. e \in backup.todo /\ e \in Names
    <3>0. MaxGen \in Nat /\ Names = 1 .. (2 + MaxGen)
      BY Numbers
    <3>1. backup.todo \in SUBSET Names /\ Names \in SUBSET Nat
      BY <1>b, <3>0
    <3>2. backup.todo \in SUBSET Nat
      BY <3>1
    <3>3. Min(backup.todo) \in backup.todo
      BY <2>2, <3>2, LeastOf
    <3> QED
      BY <2>1, <3>1, <3>3
  <2>4. CASE files[e] = 0
    BY <1>0, <1>a, <1>t, <2>2, <2>4
  <2>5. CASE files[e] # 0
    <3>1. PICK f : f = [backup.image.files EXCEPT ![e] = files[e]]
      OBVIOUS
    <3>2. PICK m : m = [backup.image EXCEPT !.files = f]
      OBVIOUS
    <3>3. /\ f \in [Names -> Generations]
          /\ \A n \in Names : f[n] = IF n = e THEN files[e] ELSE backup.image.files[n]
      BY <1>t, <1>b, <2>3, <3>1
    <3>4. m \in Images /\ m.config = backup.image.config /\ m.files = f
      BY <1>b, <3>2, <3>3 DEF Images
    <3>5. backup' = [backup EXCEPT !.todo = backup.todo \ {e}, !.image = m]
      BY <1>t, <1>b, <2>2, <2>5, <3>1, <3>2 DEF BackupRecords, Images
    <3>6. /\ backup' \in BackupRecords /\ backup'.pc = "entries" /\ backup'.image = m
          /\ backup'.todo = backup.todo \ {e} /\ backup'.was = backup.was
      BY <1>t, <1>b, <2>2, <3>4, <3>5 DEF BackupRecords
    <3>7. e \in References(backup.image.config) /\ files[e] = backup.was[e]
      BY <1>1, <2>2, <2>3, <2>5 DEF BackupSound
    <3>8. \A n \in Members(m) : n \in References(m.config) /\ m.files[n] = backup.was[n]
      BY <1>1, <3>3, <3>4, <3>7 DEF BackupSound, BackupOfOneRevision, Members
    <3>9. BackupSound' /\ up \in {"setup", "serving"}
      BY <1>1, <1>v, <2>2, <3>4, <3>6, <3>8 DEF BackupSound, BackupOfOneRevision, Known
    <3> QED
      BY <1>t, <1>u, <1>a, <2>2, <3>6, <3>9, BackupAside
  <2> QED
    BY <2>4, <2>5
<1>5. CASE Publish
  <2>1. PICK m : m = [backup.image EXCEPT !.audit = audit]
    OBVIOUS
  <2>2. backup.pc = "entries" /\ archives' = archives \cup {m} /\ backup' = NoBackup
    BY <1>5, <2>1 DEF Publish, BackupStep
  <2>3. m \in Images /\ m.config = backup.image.config /\ m.files = backup.image.files
    BY <1>t, <1>b, <2>1 DEF Images
  <2>4. Archived(m)
    BY <1>1, <2>2, <2>3 DEF Archived, BackupSound, BackupOfOneRevision, Known, Members
  <2>5. ArchivesSound'
    BY <1>1, <1>v, <2>2, <2>4 DEF ArchivesSound, Archived, Known, Members
  <2> QED
    BY <1>0, <1>t, <2>2, <2>3, <2>5
<1>6. CASE BackupFails
  BY <1>0, <1>a, <1>t, <1>6 DEF BackupFails
<1> QED
  BY <1>2, <1>3, <1>4, <1>5, <1>6 DEF Backs

\* What restore holds.
RestoreRecords == [pc : {"idle", "checking", "install", "rollback", "ended"},
                   archive : Images, before : Images, todo : SUBSET Entries,
                   installed : SUBSET Entries, copies : SUBSET Entries,
                   failed : BOOLEAN, touched : BOOLEAN, cut : BOOLEAN, exit : Exits]

\* What the invariant says of every state in which a restore process is alive.
LEMMA RestoreFacts ==
    ASSUME IInv, restore.pc # "idle"
    PROVE  /\ TypeOK /\ RestoreSound /\ DiskSound /\ up = "down" /\ script = "running" /\ Asleep
           /\ restore \in RestoreRecords /\ Archived(restore.archive)
           /\ restore.archive \in Images /\ restore.before \in Images
           /\ restore.archive.files \in [Names -> Generations]
           /\ restore.before.files \in [Names -> Generations]
           /\ restore.archive.config \in Configs /\ restore.before.config \in Configs
           /\ Destinations(restore.archive) \subseteq Entries
           /\ files \in [Names -> Generations] /\ config \in Configs /\ audit \in Generations
<1>1. TypeOK /\ ServiceSound /\ RestoreSound /\ DiskSound
  BY DEF IInv
<1>2. up = "down" /\ script = "running" /\ Archived(restore.archive)
  BY <1>1 DEF RestoreSound
<1>3. Asleep
  BY <1>1, <1>2 DEF ServiceSound
<1>4. restore \in RestoreRecords
  BY <1>1 DEF TypeOK, RestoreRecords
<1>5. restore.archive \in Images /\ restore.before \in Images
  BY <1>4 DEF RestoreRecords
<1>6. /\ restore.archive.files \in [Names -> Generations]
      /\ restore.before.files \in [Names -> Generations]
      /\ restore.archive.config \in Configs /\ restore.before.config \in Configs
  BY <1>5 DEF Images
<1>7. Destinations(restore.archive) \subseteq Entries
  BY DEF Destinations, Members, Entries
<1>8. files \in [Names -> Generations] /\ config \in Configs /\ audit \in Generations
  BY <1>1 DEF TypeOK, SetupTypeOK
<1> QED
  BY <1>1, <1>2, <1>3, <1>4, <1>5, <1>6, <1>7, <1>8

\* What a step of the restore process has to show, the rest of the system being asleep.
LEMMA RestoreAside ==
    ASSUME IInv, restore.pc # "idle", restore'.pc \notin {"idle", "checking"},
           UNCHANGED <<generation, token, up, memory, runtime_lock, setup, update, backup,
                       archives, script, runs, signalled, left>>,
           files' \in [Names -> Generations], config' \in Configs, audit' \in Generations,
           torn' \in {"whole", "mixed", "broken"},
           restore' \in RestoreRecords, restore'.archive = restore.archive,
           restore'.cut => torn' = "broken",
           Half' => HalfSound', restore'.pc = "install" => InstallSound',
           RestoreVerdict', DiskSound'
    PROVE  IInv'
<1>1. /\ TypeOK /\ RestoreSound /\ up = "down" /\ script = "running" /\ Asleep
      /\ Archived(restore.archive)
  BY RestoreFacts
<1>2. ServiceSound /\ BackupSound /\ ArchivesSound /\ SetupTypeOK
  BY DEF IInv, TypeOK
<1>3. TypeOK'
  BY <1>1 DEF TypeOK, SetupTypeOK, RestoreRecords
<1>4. Asleep' /\ up' = "down"
  BY <1>1 DEF Asleep
<1>5. \A s \in Setups : setup'[s].pc = "idle"
  BY <1>4 DEF Asleep, NoSetup
<1>6. update'.pc = "idle"
  BY <1>4 DEF Asleep, NoUpdate
<1>7. ServiceSound'
  BY <1>4, <1>5, <1>6 DEF ServiceSound, SetupGood, UpdateSound, Asleep
<1>8. backup = NoBackup /\ backup.pc = "idle"
  BY <1>1 DEF Asleep, NoBackup
<1>9. BackupSound'
  BY <1>2, <1>8 DEF BackupSound, BackupOfOneRevision
<1>10. ArchivesSound' /\ Archived(restore.archive)'
  BY <1>1, <1>2 DEF ArchivesSound, Archived, Known, Members
<1>11. RestoreSound'
  BY <1>1, <1>4, <1>10 DEF RestoreSound
<1> QED
  BY <1>3, <1>7, <1>9, <1>10, <1>11 DEF IInv

\* What is on the disk half way through, when nothing has been left out.
LEMMA Placed ==
    ASSUME IInv, Half, ~restore.cut, ~restore.failed
    PROVE  /\ \A n \in Names : files[n] = IF n \in restore.installed THEN restore.archive.files[n]
                                                                     ELSE restore.before.files[n]
           /\ config = IF MainFile \in restore.installed THEN restore.archive.config
                                                         ELSE restore.before.config
           /\ audit = IF AuditDatabase \in restore.installed THEN restore.archive.audit
                                                             ELSE restore.before.audit
<1>1. \A e \in Entries :
          Same(e, OnDisk, IF e \in restore.installed THEN restore.archive ELSE restore.before)
  BY DEF IInv, RestoreSound, HalfSound
<1>2. /\ MainFile \in Entries /\ AuditDatabase \in Entries /\ MainFile \notin Names
      /\ AuditDatabase \notin Names /\ Names \subseteq Entries
  BY Numbers
<1> QED
  BY <1>1, <1>2 DEF Same, OnDisk

\* Nothing replaced, or everything back: the directory is what it was.
LEMMA PlacedBefore ==
    ASSUME IInv, Half, ~restore.cut, ~restore.failed, restore.installed = {}
    PROVE  OnDisk = restore.before
<1>1. /\ \A n \in Names : files[n] = restore.before.files[n]
      /\ config = restore.before.config /\ audit = restore.before.audit
  BY Placed
<1>2. /\ restore.before \in Images /\ files \in [Names -> Generations]
      /\ restore.before.files \in [Names -> Generations]
  BY RestoreFacts DEF Half
<1>3. files = restore.before.files
  BY <1>1, <1>2
<1> QED
  BY <1>1, <1>2, <1>3 DEF OnDisk, Images

\* Half way through a restore the configuration loads, be it the old or the new one.
LEMMA HalfLoads ==
    ASSUME IInv, Half, torn # "broken", ~restore.failed
    PROVE  Loads /\ (restore.installed = {} => OnDisk = restore.before)
<1>1. /\ restore.pc # "idle" /\ HalfSound /\ ~restore.cut
  BY DEF IInv, Half, RestoreSound
<1>2. /\ config \in Configs /\ restore.archive.files \in [Names -> Generations]
      /\ restore.installed \subseteq Destinations(restore.archive)
  BY <1>1, RestoreFacts DEF HalfSound
<1>3. MainFile \notin Names /\ AuditDatabase \notin Names
  BY Numbers
<1>4. /\ \A n \in Names : files[n] = IF n \in restore.installed THEN restore.archive.files[n]
                                                                ELSE restore.before.files[n]
      /\ config = IF MainFile \in restore.installed THEN restore.archive.config
                                                    ELSE restore.before.config
  BY <1>1, Placed
<1>5. \A n \in Names \cap restore.installed : restore.archive.files[n] # 0
  BY <1>2, <1>3 DEF Destinations, Members
<1>6. References(config) \subseteq Names
  BY <1>2, ConfigShape
<1>7. CASE MainFile \in restore.installed
  <2>1. \A n \in References(config) : n \in restore.installed
    BY <1>1, <1>4, <1>7 DEF HalfSound, Acceptable, Destinations
  <2> QED
    BY <1>1, <1>4, <1>5, <1>6, <2>1, PlacedBefore DEF Loads
<1>8. CASE MainFile \notin restore.installed
  <2>1. \A n \in References(config) : restore.before.files[n] # 0
    BY <1>1, <1>4, <1>8 DEF HalfSound, LoadsIn
  <2> QED
    BY <1>1, <1>4, <1>5, <1>6, <2>1, PlacedBefore DEF Loads
<1> QED
  BY <1>7, <1>8

\* The refusal of an archive, and the snapshots.
LEMMA CheckingInv == IInv /\ (Reject \/ Prepare) => IInv'
<1> SUFFICES ASSUME IInv, Reject \/ Prepare PROVE IInv'
  OBVIOUS
<1>1. /\ restore.pc = "checking" /\ UNCHANGED torn /\ UNCHANGED <<files, config, audit>>
      /\ UNCHANGED <<generation, token, up, memory, runtime_lock, setup, update, backup,
                     archives, script, runs, signalled, left>>
  BY DEF Reject, Prepare, RestoreStep, KeepDisk
<1>2. /\ TypeOK /\ RestoreSound /\ DiskSound /\ restore \in RestoreRecords
      /\ files \in [Names -> Generations] /\ config \in Configs /\ audit \in Generations
      /\ Destinations(restore.archive) \subseteq Entries /\ restore.archive \in Images
  BY <1>1, RestoreFacts
<1>3. RestoreIdle /\ restore.before = OnDisk /\ ~Half
  BY <1>1, <1>2 DEF RestoreSound, Half
<1>4. /\ files' \in [Names -> Generations] /\ config' \in Configs /\ audit' \in Generations
      /\ torn' \in {"whole", "mixed", "broken"}
  BY <1>1, <1>2 DEF TypeOK
<1>5. CASE Reject
  <2>1. restore' = [restore EXCEPT !.pc = "ended", !.exit = "1"]
    BY <1>5 DEF Reject, Exit
  <2>2. /\ restore' \in RestoreRecords /\ restore'.pc = "ended" /\ restore'.exit = "1"
        /\ restore'.archive = restore.archive /\ restore'.before = OnDisk /\ restore'.cut = FALSE
    BY <1>2, <1>3, <2>1 DEF RestoreRecords, RestoreIdle, Exits
  <2>3. RestoreVerdict' /\ ~Half'
    BY <1>1, <2>2 DEF RestoreVerdict, Half, OnDisk
  <2>4. DiskSound'
    BY <1>1, <1>2, <1>3, <2>3 DEF DiskSound, Known, Whole, OnDisk, Loads
  <2> QED
    BY <1>1, <1>4, <2>2, <2>3, <2>4, RestoreAside
<1>6. CASE Prepare
  <2> DEFINE D == Destinations(restore.archive)
             C == {e \in D : \/ e \in Members(OnDisk)
                             \/ e = AuditDatabase
                             \/ e = MainFile /\ config # NoConfig}
  <2>0. Acceptable(restore.archive)
    BY <1>6 DEF Prepare
  <2>1. restore' = [restore EXCEPT !.pc = "install", !.todo = D, !.copies = C]
    BY <1>6 DEF Prepare
  <2>2. OnDisk \in Images /\ D \subseteq Entries /\ C \subseteq Entries
    BY <1>2 DEF OnDisk, Images
  <2>3. \A e \in D : e \notin C => Same(e, OnDisk, Nothing)
    <3>1. /\ MainFile \notin Names /\ AuditDatabase \notin Names /\ AuditDatabase # MainFile
      BY Numbers
    <3> QED
      BY <3>1, OnDiskFields DEF Same, Nothing, Destinations, Members
  <2> HIDE DEF D, C
  <2>4. /\ restore' \in RestoreRecords /\ restore'.pc = "install" /\ restore'.exit = "none"
        /\ restore'.archive = restore.archive /\ restore'.before = OnDisk
        /\ restore'.todo = D /\ restore'.installed = {} /\ restore'.copies = C
        /\ restore'.failed = FALSE /\ restore'.cut = FALSE
    BY <1>2, <1>3, <2>1, <2>2 DEF RestoreRecords, RestoreIdle
  <2>5. OnDisk' = OnDisk /\ Half'
    BY <1>1, <2>4 DEF OnDisk, Half
  <2>6. \A e : Same(e, OnDisk, OnDisk)
    BY DEF Same
  <2>7. InstallSound'
    <3>1. \A e \in D : Kept(e)'
      BY <2>3, <2>4 DEF Kept
    <3> QED
      BY <2>4, <3>1 DEF InstallSound, D
  <2>8. HalfSound'
    <3>1. Known(config) /\ (torn = "whole" => Whole(OnDisk))
          /\ (torn # "broken" => LoadsIn(OnDisk))
      BY <1>2, <1>3, OnDiskFields DEF DiskSound, Loads, LoadsIn
    <3>2. Known(restore.before.config)'
      BY <1>1, <2>4, <3>1, OnDiskFields DEF Known
    <3> QED
      BY <1>1, <2>0, <2>4, <2>5, <2>6, <2>7, <3>1, <3>2 DEF HalfSound, InstallSound
  <2>9. RestoreVerdict' /\ DiskSound'
    BY <1>1, <1>2, <2>4, <2>5 DEF RestoreVerdict, DiskSound, Known
  <2> QED
    BY <1>1, <1>4, <2>4, <2>7, <2>8, <2>9, RestoreAside
<1> QED
  BY <1>5, <1>6

\* One replacement, or the failure of one, with or without the program's knowing.
LEMMA InstallInv == IInv /\ (Install \/ InstallFails \/ InstallInterrupted) => IInv'
<1> SUFFICES ASSUME IInv, Install \/ InstallFails \/ InstallInterrupted PROVE IInv'
  OBVIOUS
<1> DEFINE D == Destinations(restore.archive)
<1>1. /\ restore.pc = "install" /\ restore.todo # {}
      /\ UNCHANGED <<generation, token, up, memory, runtime_lock, setup, update, backup,
                     archives, script, runs, signalled, left>>
  BY DEF Install, InstallFails, InstallInterrupted, RestoreStep
<1>2. /\ TypeOK /\ RestoreSound /\ DiskSound /\ restore \in RestoreRecords
      /\ files \in [Names -> Generations] /\ config \in Configs /\ audit \in Generations
      /\ D \subseteq Entries /\ restore.archive \in Images /\ Archived(restore.archive)
      /\ torn \in {"whole", "mixed", "broken"}
  BY <1>1, RestoreFacts DEF TypeOK
<1>3. HalfSound /\ InstallSound
  BY <1>1, <1>2 DEF RestoreSound, Half
<1>4. PICK e \in Entries : e = NextEntry(restore.todo) /\ e \in restore.todo
                           /\ \A y \in restore.todo : e <= y
  <2>1. restore.todo \in SUBSET Entries
    BY <1>2 DEF RestoreRecords
  <2> QED
    BY <1>1, <2>1, NextEntryLeast
<1> DEFINE done == restore.installed \cup {e}
           RB(S) == [restore EXCEPT !.pc = "rollback", !.installed = S, !.touched = (S # {})]
<1>f. /\ restore.exit = "none" /\ restore.cut = FALSE /\ restore.failed = FALSE
      /\ restore.installed \subseteq D /\ restore.todo \subseteq D
      /\ restore.installed = D \ restore.todo /\ e \in D /\ e \notin restore.installed
      /\ Known(restore.before.config) /\ Known(config) /\ Known(restore.archive.config)
  BY <1>2, <1>3, <1>4 DEF HalfSound, InstallSound, RestoreRecords, DiskSound, Archived
<1>5. done \subseteq D /\ done \subseteq Entries
      /\ (MainFile \in done => D \subseteq done)
      /\ MainFile \notin restore.installed
  <2>1. D \subseteq 1 .. MainFile /\ MainFile \in Nat /\ Entries = 1 .. MainFile
    BY <1>2, Numbers
  <2>2. e = MainFile => restore.todo = {e}
    <3>1. \A y \in restore.todo : y \in 1 .. MainFile /\ e <= y
      BY <1>4, <1>f, <2>1
    <3> QED
      BY <1>4, <2>1, <3>1
  <2>3. MainFile \notin restore.installed
    BY <1>1, <1>3, <1>f DEF HalfSound
  <2> QED
    BY <1>2, <1>f, <2>2, <2>3
<1>6. ASSUME Put(e, restore.archive)
      PROVE  /\ files' \in [Names -> Generations] /\ config' \in Configs /\ audit' \in Generations
             /\ Same(e, OnDisk', restore.archive) /\ Known(config')
             /\ \A d \in Entries \ {e} : Same(d, OnDisk', OnDisk)
             /\ \A d \in Entries :
                    Same(d, OnDisk', IF d \in done THEN restore.archive ELSE restore.before)
  <2>1. /\ files' \in [Names -> Generations] /\ config' \in Configs /\ audit' \in Generations
        /\ Same(e, OnDisk', restore.archive)
        /\ \A d \in Entries \ {e} : Same(d, OnDisk', OnDisk)
        /\ config' \in {config, restore.archive.config}
    BY <1>2, <1>4, <1>6, PutPlaces
  <2>2. \A d \in Entries :
            Same(d, OnDisk, IF d \in restore.installed THEN restore.archive ELSE restore.before)
    BY <1>3, <1>f DEF HalfSound
  <2>3. ASSUME NEW d \in Entries
        PROVE  Same(d, OnDisk', IF d \in done THEN restore.archive ELSE restore.before)
    <3>1. CASE d = e
      BY <2>1, <3>1
    <3>2. CASE d # e
      <4>1. Same(d, OnDisk', OnDisk)
        BY <2>1, <3>2
      <4>2. PICK x : x = IF d \in restore.installed THEN restore.archive ELSE restore.before
        OBVIOUS
      <4>3. x = IF d \in done THEN restore.archive ELSE restore.before
        BY <3>2, <4>2
      <4>4. Same(d, OnDisk, x)
        BY <2>2, <4>2
      <4>5. Same(d, OnDisk', x)
        BY <4>1, <4>4 DEF Same
      <4> QED
        BY <4>3, <4>5
    <3> QED
      BY <3>1, <3>2
  <2> QED
    BY <1>f, <2>1, <2>3
<1>7. \A S \in SUBSET Entries :
          /\ RB(S) \in RestoreRecords /\ RB(S).pc = "rollback" /\ RB(S).installed = S
          /\ RB(S).archive = restore.archive /\ RB(S).before = restore.before
          /\ RB(S).copies = restore.copies /\ RB(S).exit = "none" /\ RB(S).failed = FALSE
          /\ RB(S).cut = FALSE
  BY <1>2, <1>f DEF RestoreRecords
<1>k. \A d \in D : Kept(d)
  BY <1>3 DEF InstallSound
<1>h. restore.installed \in SUBSET Entries /\ done \in SUBSET Entries
  BY <1>2, <1>5 DEF RestoreRecords
<1>8. CASE Install
  <2>1. /\ Put(e, restore.archive) /\ UNCHANGED torn
        /\ \/ restore' = [restore EXCEPT !.todo = @ \ {e}, !.installed = done]
           \/ restore' = RB(done)
    BY <1>4, <1>8 DEF Install, RollBack
  <2>2. /\ files' \in [Names -> Generations] /\ config' \in Configs /\ audit' \in Generations
        /\ Known(config') /\ Same(e, OnDisk', restore.archive)
        /\ \A d \in Entries :
               Same(d, OnDisk', IF d \in done THEN restore.archive ELSE restore.before)
    BY <1>6, <2>1
  <2> HIDE DEF RB
  <2>3. PICK r : r = restore'
    OBVIOUS
  <2>4. /\ r \in RestoreRecords /\ r.pc \in {"install", "rollback"} /\ r.installed = done
        /\ r.archive = restore.archive /\ r.before = restore.before /\ r.copies = restore.copies
        /\ r.exit = "none" /\ r.failed = FALSE /\ r.cut = FALSE
        /\ r.pc = "install" => r.todo = restore.todo \ {e}
    <3>1. CASE restore' = [restore EXCEPT !.todo = @ \ {e}, !.installed = done]
      BY <1>1, <1>2, <1>f, <1>h, <2>3, <3>1 DEF RestoreRecords
    <3>2. CASE restore' = RB(done)
      BY <1>7, <1>h, <2>3, <3>2
    <3> QED
      BY <2>1, <3>1, <3>2
  <2> HIDE DEF done
  <2>5. Half' /\ restore' = r
    BY <2>3, <2>4 DEF Half
  <2>6. HalfSound'
    <3>1. \A d \in D : Kept(d)'
      BY <1>k, <2>4, <2>5 DEF Kept
    <3>2. Known(restore.before.config)'
      BY <1>1, <1>f, <2>4, <2>5 DEF Known
    <3> QED
      BY <1>3, <1>5, <2>1, <2>2, <2>4, <2>5, <3>1, <3>2 DEF HalfSound
  <2>7. ASSUME restore'.pc = "install" PROVE InstallSound'
    <3>1. restore'.todo = restore.todo \ {e} /\ restore'.installed = done
      BY <2>4, <2>5, <2>7
    <3>2. restore'.installed = D \ restore'.todo /\ restore'.todo \subseteq D
      BY <1>f, <3>1 DEF done
    <3>3. ASSUME NEW a \in restore'.installed, NEW b \in restore'.todo PROVE a < b
      <4>1. CASE a = e
        <5>1. e <= b /\ e # b /\ b \in Entries
          BY <1>2, <1>4, <1>f, <3>1
        <5>2. e \in Nat /\ b \in Nat
          BY <5>1, Numbers
        <5> QED
          BY <4>1, <5>1, <5>2
      <4>2. CASE a # e
        BY <1>3, <3>1, <4>2 DEF InstallSound, done
      <4> QED
        BY <4>1, <4>2
    <3>4. \A d \in D : Kept(d)'
      BY <1>k, <2>4, <2>5 DEF Kept
    <3> QED
      BY <2>4, <2>5, <3>2, <3>3, <3>4 DEF InstallSound
  <2>8. RestoreVerdict' /\ DiskSound'
    <3>1. Known(config)'
      BY <1>1, <2>2 DEF Known
    <3> QED
      BY <2>4, <2>5, <3>1 DEF RestoreVerdict, DiskSound
  <2> QED
    BY <1>1, <1>2, <2>1, <2>2, <2>4, <2>5, <2>6, <2>7, <2>8, RestoreAside
<1>9. CASE InstallFails
  <2>1. /\ UNCHANGED <<files, config, audit, torn>> /\ restore' = RB(restore.installed)
    BY <1>9 DEF InstallFails, KeepDisk, RollBack
  <2>2. PICK r : r = restore'
    OBVIOUS
  <2> HIDE DEF RB
  <2>3. /\ r \in RestoreRecords /\ r.pc = "rollback" /\ r.installed = restore.installed
        /\ r.archive = restore.archive /\ r.before = restore.before /\ r.copies = restore.copies
        /\ r.exit = "none" /\ r.failed = FALSE /\ r.cut = FALSE /\ restore' = r
    BY <1>7, <1>h, <2>1, <2>2
  <2>4. OnDisk' = OnDisk /\ Half'
    BY <2>1, <2>3 DEF OnDisk, Half
  <2>5. HalfSound'
    <3>1. Known(restore.before.config)'
      BY <1>1, <1>f, <2>3 DEF Known
    <3>2. \A d \in D : Kept(d)'
      BY <1>k, <2>3 DEF Kept
    <3> QED
      BY <1>3, <1>f, <2>1, <2>3, <2>4, <3>1, <3>2 DEF HalfSound
  <2>6. RestoreVerdict' /\ DiskSound'
    BY <1>1, <1>f, <2>1, <2>3, <2>4 DEF RestoreVerdict, DiskSound, Known
  <2> QED
    BY <1>1, <1>2, <2>1, <2>3, <2>5, <2>6, RestoreAside
<1>10. CASE InstallInterrupted
  <2>1. /\ Put(e, restore.archive) /\ torn' = "broken"
        /\ restore' = [RB(restore.installed) EXCEPT !.cut = TRUE]
    BY <1>4, <1>10 DEF InstallInterrupted, RollBack
  <2>2. PICK r : r = restore'
    OBVIOUS
  <2> HIDE DEF RB
  <2>3. /\ r \in RestoreRecords /\ r.pc = "rollback" /\ r.installed = restore.installed
        /\ r.archive = restore.archive /\ r.before = restore.before /\ r.copies = restore.copies
        /\ r.exit = "none" /\ r.failed = FALSE /\ r.cut = TRUE /\ restore' = r
    <3>1. PICK q : q = RB(restore.installed)
      OBVIOUS
    <3>2. /\ q \in RestoreRecords /\ q.pc = "rollback" /\ q.installed = restore.installed
          /\ q.archive = restore.archive /\ q.before = restore.before
          /\ q.copies = restore.copies /\ q.exit = "none" /\ q.failed = FALSE
      BY <1>7, <1>h, <3>1
    <3>3. r = [q EXCEPT !.cut = TRUE]
      BY <2>1, <2>2, <3>1
    <3> QED
      BY <2>2, <3>2, <3>3 DEF RestoreRecords
  <2>4. /\ files' \in [Names -> Generations] /\ config' \in Configs /\ audit' \in Generations
        /\ Known(config')
    BY <1>6, <2>1
  <2>5. HalfSound'
    <3>1. Known(restore.before.config)'
      BY <1>1, <1>f, <2>3 DEF Known
    <3>2. \A d \in D : Kept(d)'
      BY <1>k, <2>3 DEF Kept
    <3> QED
      BY <1>3, <1>f, <2>1, <2>3, <3>1, <3>2 DEF HalfSound
  <2>6. RestoreVerdict' /\ DiskSound'
    <3>1. Known(config)'
      BY <1>1, <2>4 DEF Known
    <3> QED
      BY <2>1, <2>3, <3>1 DEF RestoreVerdict, DiskSound, Half
  <2> QED
    BY <1>1, <1>2, <2>1, <2>3, <2>4, <2>5, <2>6, RestoreAside
<1> QED
  BY <1>8, <1>9, <1>10

\* One entry of the rollback, that goes back or fails to.
LEMMA UndoInv == IInv /\ (Undo \/ UndoFails) => IInv'
<1> SUFFICES ASSUME IInv, Undo \/ UndoFails PROVE IInv'
  OBVIOUS
<1> DEFINE D == Destinations(restore.archive)
<1>1. /\ restore.pc = "rollback" /\ restore.installed # {} /\ UNCHANGED torn
      /\ UNCHANGED <<generation, token, up, memory, runtime_lock, setup, update, backup,
                     archives, script, runs, signalled, left>>
  BY DEF Undo, UndoFails, RestoreStep
<1>2. /\ TypeOK /\ RestoreSound /\ DiskSound /\ restore \in RestoreRecords
      /\ files \in [Names -> Generations] /\ config \in Configs /\ audit \in Generations
      /\ D \subseteq Entries /\ restore.before \in Images
      /\ torn \in {"whole", "mixed", "broken"}
  BY <1>1, RestoreFacts DEF TypeOK
<1>3. HalfSound
  BY <1>1, <1>2 DEF RestoreSound, Half
<1>f. /\ restore.exit = "none" /\ restore.installed \subseteq D
      /\ Known(restore.before.config) /\ Known(config) /\ (restore.cut => torn = "broken")
  BY <1>2, <1>3 DEF HalfSound, DiskSound, RestoreSound
<1>4. PICK e \in Entries : e = Max(restore.installed) /\ e \in restore.installed
                           /\ \A y \in restore.installed : y <= e
  <2>1. restore.installed \in SUBSET Entries
    BY <1>2 DEF RestoreRecords
  <2> QED
    BY <1>1, <2>1, LastEntry
<1> DEFINE others == restore.installed \ {e}
<1>5. others \subseteq D /\ others \in SUBSET Entries /\ MainFile \notin others
  <2>1. MainFile \in Nat /\ Entries = 1 .. MainFile
    BY Numbers
  <2>2. MainFile \in restore.installed => e = MainFile
    BY <1>4, <2>1
  <2> QED
    BY <1>2, <1>f, <2>2
<1>s. \A d \in D : Kept(d) \/ Same(d, OnDisk, restore.before)
  BY <1>3 DEF HalfSound
<1>o. ~restore.cut /\ ~restore.failed =>
          \A d \in Entries :
              Same(d, OnDisk, IF d \in restore.installed THEN restore.archive ELSE restore.before)
  BY <1>3 DEF HalfSound
<1>6. CASE Undo
  <2>1. /\ Put(e, restore.before)
        /\ restore' = [restore EXCEPT !.installed = others, !.copies = restore.copies \ {e}]
    BY <1>4, <1>6 DEF Undo
  <2>2. PICK r : r = restore'
    OBVIOUS
  <2> HIDE DEF others
  <2>3. /\ r \in RestoreRecords /\ r.pc = "rollback" /\ r.installed = others
        /\ r.archive = restore.archive /\ r.before = restore.before
        /\ r.copies = restore.copies \ {e} /\ r.exit = "none" /\ r.failed = restore.failed
        /\ r.cut = restore.cut /\ restore' = r
    BY <1>1, <1>2, <1>f, <1>5, <2>1, <2>2 DEF RestoreRecords
  <2>4. /\ files' \in [Names -> Generations] /\ config' \in Configs /\ audit' \in Generations
        /\ Same(e, OnDisk', restore.before)
        /\ \A d \in Entries \ {e} : Same(d, OnDisk', OnDisk)
        /\ config' \in {config, restore.before.config}
    BY <1>2, <1>4, <2>1, PutPlaces
  <2>5. ASSUME ~restore.cut, ~restore.failed, NEW d \in Entries
        PROVE  Same(d, OnDisk', IF d \in others THEN restore.archive ELSE restore.before)
    <3>1. CASE d = e
      BY <2>4, <3>1 DEF others
    <3>2. CASE d # e
      <4>1. PICK x : x = IF d \in restore.installed THEN restore.archive ELSE restore.before
        OBVIOUS
      <4>2. Same(d, OnDisk, x) /\ Same(d, OnDisk', OnDisk)
        BY <1>o, <2>4, <2>5, <3>2, <4>1
      <4>3. Same(d, OnDisk', x)
        BY <4>2 DEF Same
      <4> QED
        BY <3>2, <4>1, <4>3 DEF others
    <3> QED
      BY <3>1, <3>2
  <2>6. ASSUME NEW d \in D PROVE Kept(d)' \/ Same(d, OnDisk', restore.before)
    <3>1. CASE d = e
      BY <2>4, <3>1
    <3>2. CASE d # e
      <4>1. Kept(d) => Kept(d)'
        BY <2>3, <3>2 DEF Kept
      <4>2. Same(d, OnDisk', OnDisk)
        BY <1>2, <2>4, <3>2
      <4>3. Same(d, OnDisk, restore.before) => Same(d, OnDisk', restore.before)
        BY <4>2 DEF Same
      <4> QED
        BY <1>s, <4>1, <4>3
    <3> QED
      BY <3>1, <3>2
  <2>7. Known(config)' /\ Known(restore.before.config)'
    BY <1>1, <1>f, <2>3, <2>4 DEF Known
  <2>8. HalfSound'
    BY <1>1, <1>3, <1>5, <2>3, <2>5, <2>6, <2>7 DEF HalfSound
  <2>9. RestoreVerdict' /\ DiskSound'
    BY <2>3, <2>7 DEF RestoreVerdict, DiskSound, Half
  <2> QED
    BY <1>1, <1>2, <1>f, <2>3, <2>4, <2>8, <2>9, RestoreAside
<1>7. CASE UndoFails
  <2>1. /\ UNCHANGED <<files, config, audit>>
        /\ restore' = [restore EXCEPT !.installed = others, !.failed = TRUE]
    BY <1>4, <1>7 DEF UndoFails, KeepDisk
  <2>2. PICK r : r = restore'
    OBVIOUS
  <2> HIDE DEF others
  <2>3. /\ r \in RestoreRecords /\ r.pc = "rollback" /\ r.installed = others
        /\ r.archive = restore.archive /\ r.before = restore.before
        /\ r.copies = restore.copies /\ r.exit = "none" /\ r.failed = TRUE
        /\ r.cut = restore.cut /\ restore' = r
    BY <1>1, <1>2, <1>f, <1>5, <2>1, <2>2 DEF RestoreRecords
  <2>4. OnDisk' = OnDisk
    BY <2>1 DEF OnDisk
  <2>5. \A d \in D : Kept(d)' \/ Same(d, OnDisk', restore.before)
    BY <1>s, <2>3, <2>4 DEF Kept
  <2>7. Known(config)' /\ Known(restore.before.config)'
    BY <1>1, <1>f, <2>1, <2>3 DEF Known
  <2>8. HalfSound'
    BY <1>1, <1>3, <1>5, <2>3, <2>5, <2>7 DEF HalfSound
  <2>9. RestoreVerdict' /\ DiskSound'
    BY <2>3, <2>7 DEF RestoreVerdict, DiskSound, Half
  <2> QED
    BY <1>1, <1>2, <1>f, <2>1, <2>3, <2>8, <2>9, RestoreAside
<1> QED
  BY <1>6, <1>7

\* The end of a rollback, and the death of the process.
LEMMA EndInv == IInv /\ (RolledBack \/ Cut) => IInv'
<1> SUFFICES ASSUME IInv, RolledBack \/ Cut PROVE IInv'
  OBVIOUS
<1> DEFINE D == Destinations(restore.archive)
<1>1. /\ restore.pc \in {"checking", "install", "rollback"}
      /\ UNCHANGED <<files, config, audit>>
      /\ UNCHANGED <<generation, token, up, memory, runtime_lock, setup, update, backup,
                     archives, script, runs, signalled, left>>
  BY DEF RolledBack, Cut, RestoreStep, KeepDisk
<1>2. /\ TypeOK /\ RestoreSound /\ DiskSound /\ restore \in RestoreRecords
      /\ files \in [Names -> Generations] /\ config \in Configs /\ audit \in Generations
      /\ torn \in {"whole", "mixed", "broken"}
  BY <1>1, RestoreFacts DEF TypeOK
<1>3. /\ Known(config) /\ Known(config)' /\ OnDisk' = OnDisk
      /\ (restore.cut => torn = "broken")
  BY <1>1, <1>2 DEF DiskSound, Known, OnDisk, RestoreSound
<1>4. Half => HalfSound
  BY <1>2 DEF RestoreSound
<1>5. Half /\ torn # "broken" /\ ~restore.failed =>
          /\ Loads
          /\ restore.installed = {} => OnDisk = restore.before
  BY HalfLoads
<1>6. Half /\ torn # "broken" /\ ~restore.failed /\ restore.installed = {} =>
          (torn = "whole" => Whole(OnDisk))
  BY <1>4, <1>5 DEF HalfSound
<1>7. ASSUME RolledBack PROVE IInv'
  <2>1. /\ restore.pc = "rollback" /\ restore.installed = {} /\ Half /\ HalfSound
        /\ \/ restore' = [restore EXCEPT !.pc = "ended", !.exit = "2"]
           \/ /\ ~restore.failed
              /\ restore' = [restore EXCEPT !.pc = "ended", !.exit = "1", !.copies = {}]
        /\ torn' = IF restore.failed THEN "broken" ELSE torn
    BY <1>4, <1>7 DEF RolledBack, RestoreStep, Exit, Half
  <2>2. PICK r : r = restore'
    OBVIOUS
  <2>3. /\ r \in RestoreRecords /\ r.pc = "ended" /\ r.archive = restore.archive
        /\ r.before = restore.before /\ r.cut = restore.cut /\ restore' = r
        /\ \/ r.exit = "2" /\ r.copies = restore.copies
           \/ r.exit = "1" /\ ~restore.failed
    BY <1>2, <2>1, <2>2 DEF RestoreRecords, Exits
  <2>4. ~Half' /\ torn' \in {"whole", "mixed", "broken"} /\ (restore'.cut => torn' = "broken")
    BY <1>2, <1>3, <2>1, <2>3 DEF Half
  <2>5. RestoreVerdict'
    <3>1. CASE r.exit = "2"
      <4>0. r.copies = restore.copies
        BY <2>3, <3>1
      <4>1. \A d \in D : Same(d, OnDisk, restore.before) \/ d \in restore.copies
                         \/ Same(d, restore.before, Nothing)
        BY <2>1 DEF HalfSound, Kept
      <4> QED
        BY <1>3, <2>3, <3>1, <4>0, <4>1 DEF RestoreVerdict
    <3>2. CASE r.exit = "1" /\ ~restore.failed
      <4>1. ~restore.cut => OnDisk = restore.before
        <5>1. ASSUME ~restore.cut PROVE OnDisk = restore.before
          BY <2>1, <3>2, <5>1, PlacedBefore
        <5> QED
          BY <5>1
      <4> QED
        BY <1>3, <2>3, <3>2, <4>1 DEF RestoreVerdict
    <3> QED
      BY <2>3, <3>1, <3>2
  <2>6. DiskSound'
    <3>1. torn' # "broken" => ~restore.failed /\ torn' = torn
      BY <2>1
    <3>2. (torn' = "whole" => Whole(OnDisk)) /\ (torn' # "broken" => Loads)
      BY <1>5, <1>6, <2>1, <3>1
    <3>3. Loads' <=> Loads
      BY <1>1 DEF Loads
    <3> QED
      BY <1>3, <2>4, <3>2, <3>3 DEF DiskSound, Whole
  <2> QED
    BY <1>1, <1>2, <2>1, <2>3, <2>4, <2>5, <2>6, RestoreAside
<1>8. ASSUME Cut PROVE IInv'
  <2>1. /\ restore' = [restore EXCEPT !.pc = "ended", !.exit = "killed"]
        /\ torn' = IF torn = "broken" \/ restore.failed THEN "broken"
                   ELSE IF restore.installed # {} THEN "mixed" ELSE torn
    BY <1>8 DEF Cut, Exit
  <2>2. PICK r : r = restore'
    OBVIOUS
  <2>3. /\ r \in RestoreRecords /\ r.pc = "ended" /\ r.archive = restore.archive
        /\ r.cut = restore.cut /\ restore' = r /\ r.exit = "killed"
    BY <1>2, <2>1, <2>2 DEF RestoreRecords, Exits
  <2>4. ~Half' /\ torn' \in {"whole", "mixed", "broken"} /\ (restore'.cut => torn' = "broken")
    BY <1>2, <1>3, <2>1, <2>3 DEF Half
  <2>5. RestoreVerdict'
    BY <2>3 DEF RestoreVerdict
  <2>6. DiskSound'
    <3>1. (torn' = "whole" => Whole(OnDisk)) /\ (torn' # "broken" => Loads)
      <4>1. CASE Half
        BY <1>5, <1>6, <2>1, <4>1
      <4>2. CASE ~Half
        BY <1>2, <2>1, <4>2 DEF DiskSound
      <4> QED
        BY <4>1, <4>2
    <3>2. Loads' <=> Loads
      BY <1>1 DEF Loads
    <3> QED
      BY <1>3, <2>4, <3>1, <3>2 DEF DiskSound, Whole
  <2> QED
    BY <1>1, <1>2, <2>3, <2>4, <2>5, <2>6, RestoreAside
<1> QED
  BY <1>7, <1>8

\* All is replaced; what goes is what the configuration of the archive does not refer to.
LEMMA PruneInv == IInv /\ Prune => IInv'
<1> SUFFICES ASSUME IInv, Prune PROVE IInv'
  OBVIOUS
<1> DEFINE D == Destinations(restore.archive)
<1>1. /\ restore.pc = "install" /\ restore.todo = {} /\ UNCHANGED <<config, audit>>
      /\ UNCHANGED <<generation, token, up, memory, runtime_lock, setup, update, backup,
                     archives, script, runs, signalled, left>>
      /\ restore' = [restore EXCEPT !.pc = "ended", !.exit = "0", !.copies = {}]
      /\ torn' = IF Whole(restore.archive) THEN "whole" ELSE "mixed"
  BY DEF Prune, RestoreStep, Exit
<1>2. /\ TypeOK /\ RestoreSound /\ DiskSound /\ restore \in RestoreRecords
      /\ files \in [Names -> Generations] /\ config \in Configs /\ audit \in Generations
      /\ Archived(restore.archive) /\ restore.archive.files \in [Names -> Generations]
      /\ restore.archive.config \in Configs
  BY <1>1, RestoreFacts
<1>3. HalfSound /\ InstallSound /\ Half
  BY <1>1, <1>2 DEF RestoreSound, Half
<1>4. restore.installed = D /\ ~restore.cut /\ ~restore.failed /\ Acceptable(restore.archive)
  BY <1>1, <1>3 DEF InstallSound, HalfSound
<1>5. /\ MainFile \notin Names /\ AuditDatabase \notin Names /\ AuditDatabase # MainFile
      /\ Names \subseteq Entries
  BY Numbers
<1>6. /\ config = restore.archive.config /\ audit = restore.archive.audit
      /\ \A n \in Members(restore.archive) : files[n] = restore.archive.files[n]
  BY <1>3, <1>4, <1>5, Placed DEF Destinations, Members
<1>7. /\ files' \in [Names -> Generations]
      /\ \A n \in References(config) : n \in Names /\ files'[n] = files[n]
  <2>1. PICK kept \in SUBSET {n \in Members(OnDisk) : n \notin References(config)} :
            files' = [n \in Names |-> IF n \in kept \cup References(config) THEN files[n] ELSE 0]
    BY DEF Prune
  <2>2. References(config) \subseteq Names /\ 0 \in Generations
    BY <1>2, ConfigShape, Numbers
  <2>3. PICK stays : stays = kept \cup References(config)
    OBVIOUS
  <2>4. files' = [n \in Names |-> IF n \in stays THEN files[n] ELSE 0]
    BY <2>1, <2>3
  <2>5. files' \in [Names -> Generations]
    BY <1>2, <2>2, <2>4
  <2>6. \A n \in References(config) : n \in Names /\ n \in stays
    BY <2>2, <2>3
  <2> QED
    BY <2>4, <2>5, <2>6
<1>8. /\ Members(restore.archive) \subseteq References(config)
      /\ References(config) \subseteq Members(restore.archive)
  BY <1>2, <1>4, <1>6 DEF Archived, Acceptable
<1>9. \A n \in References(config) :
          files'[n] = restore.archive.files[n] /\ restore.archive.files[n] # 0
  BY <1>6, <1>7, <1>8 DEF Members
<1>10. PICK r : r = restore'
  OBVIOUS
<1>11. /\ r \in RestoreRecords /\ r.pc = "ended" /\ r.archive = restore.archive
       /\ r.exit = "0" /\ r.cut = FALSE /\ restore' = r
  BY <1>1, <1>2, <1>4, <1>10 DEF RestoreRecords, Exits
<1>12. RestoreVerdict'
  <2>1. \A e \in D : Same(e, OnDisk', restore.archive)
    BY <1>1, <1>5, <1>6, <1>8, <1>9 DEF Same, OnDisk, Destinations
  <2> QED
    BY <1>11, <2>1 DEF RestoreVerdict
<1>13. DiskSound'
  <2>1. Known(config)'
    BY <1>1, <1>2 DEF DiskSound, Known
  <2>2. Loads'
    BY <1>1, <1>9 DEF Loads
  <2>3. Whole(restore.archive) => Whole(OnDisk)'
    BY <1>1, <1>6, <1>9 DEF Whole, OnDisk
  <2> QED
    BY <1>1, <2>1, <2>2, <2>3 DEF DiskSound
<1>14. ~Half'
  BY <1>11 DEF Half
<1> QED
  BY <1>1, <1>2, <1>7, <1>11, <1>12, <1>13, <1>14, RestoreAside

\* What the service and the process leave alone when docker compose stop has come back.
LEMMA ComposeStopsKeeps ==
    ASSUME IInv, ComposeStops
    PROVE  /\ SetupTypeOK' /\ ServiceSound' /\ up' = "down" /\ BackupSound'
           /\ ArchivesSound' /\ backup' \in BackupRecords
           /\ UNCHANGED <<files, config, audit, generation, archives, runs, torn>>
           /\ script = "stopping" /\ restore.pc = "idle" /\ OnDisk' = OnDisk
<1>1. /\ TypeOK /\ SetupTypeOK /\ ServiceSound /\ ArchivesSound /\ RestoreSound
  BY DEF IInv, TypeOK
<1>2. /\ script = "stopping" /\ Halt /\ backup' = NoBackup /\ UNCHANGED disk
      /\ UNCHANGED <<files, config, audit, generation, archives, runs, torn>>
  BY DEF ComposeStops, disk
<1>3. SetupTypeOK' /\ ServiceSound' /\ up' = "down"
  BY <1>1, <1>2, HaltSteps
<1>4. /\ NoBackup.pc = "idle" /\ NoBackup.todo = {} /\ Members(NoBackup.image) = {}
      /\ NoBackup \in BackupRecords
  BY Numbers DEF NoBackup, Members, Nothing, BackupRecords, Images, Configs, NoConfig
<1>5. BackupSound'
  BY <1>2, <1>4 DEF BackupSound, BackupOfOneRevision
<1>6. ArchivesSound'
  BY <1>1, <1>2 DEF ArchivesSound, Archived, Known, Members
<1>7. restore.pc = "idle"
  BY <1>1, <1>2 DEF RestoreSound
<1>8. OnDisk' = OnDisk
  BY <1>2 DEF OnDisk
<1> QED
  BY <1>2, <1>3, <1>4, <1>5, <1>6, <1>7, <1>8

\* The script stops the service: with the restore process, or to no end.
LEMMA StopInv ==
    IInv /\ ((\E archive \in archives : StopService(archive)) \/ StopUnnoticed) => IInv'
<1> SUFFICES ASSUME IInv, (\E archive \in archives : StopService(archive)) \/ StopUnnoticed
             PROVE  IInv'
  OBVIOUS
<1>1. TypeOK /\ ArchivesSound /\ RestoreSound /\ DiskSound
  BY DEF IInv
<1>2. ComposeStops
  BY DEF StopService, StopUnnoticed
<1>3. /\ SetupTypeOK' /\ ServiceSound' /\ up' = "down" /\ BackupSound'
      /\ ArchivesSound' /\ backup' \in BackupRecords
      /\ UNCHANGED <<files, config, audit, generation, archives, runs, torn>>
      /\ script = "stopping" /\ restore.pc = "idle" /\ OnDisk' = OnDisk
  BY <1>2, ComposeStopsKeeps
<1>4. ~Half /\ (~Half' => DiskSound')
  BY <1>1, <1>3 DEF Half, DiskSound, Known, Whole, Loads
<1>5. OnDisk \in Images
  BY <1>1 DEF OnDisk, Images, TypeOK, SetupTypeOK
<1>6. Nothing \in Images
  BY Numbers DEF Nothing, Images, Configs, NoConfig
<1>7. ASSUME NEW archive \in archives, StopService(archive) PROVE IInv'
  <2>1. /\ script' = "running" /\ left' = FALSE /\ UNCHANGED signalled
        /\ restore' = [NoRestore EXCEPT !.pc = "checking", !.archive = archive,
                                        !.before = OnDisk]
    BY <1>7 DEF StopService
  <2>2. archive \in Images /\ Archived(archive)
    BY <1>1 DEF TypeOK, ArchivesSound
  <2>3. PICK r : r = restore'
    OBVIOUS
  <2>4. /\ r \in RestoreRecords /\ r.pc = "checking" /\ r.archive = archive
        /\ r.before = OnDisk /\ r.installed = {} /\ r.failed = FALSE /\ r.cut = FALSE
        /\ r.exit = "none" /\ restore' = r
    BY <1>5, <1>6, <2>1, <2>2, <2>3 DEF NoRestore, RestoreRecords, Exits
  <2>5. TypeOK'
    BY <1>1, <1>3, <2>1, <2>4 DEF TypeOK, RestoreRecords, BackupRecords
  <2>6. Archived(restore.archive)'
    BY <1>3, <2>2, <2>4 DEF Archived, Known, Members
  <2>7. RestoreIdle' /\ ~Half' /\ RestoreVerdict' /\ (restore.before = OnDisk)'
    BY <1>3, <2>4 DEF RestoreIdle, Half, RestoreVerdict
  <2>8. RestoreSound'
    BY <1>3, <2>1, <2>4, <2>6, <2>7 DEF RestoreSound
  <2> QED
    BY <1>3, <1>4, <2>5, <2>7, <2>8 DEF IInv
<1>8. CASE StopUnnoticed
  <2>1. script' = "idle" /\ left' = TRUE /\ signalled' = "no" /\ UNCHANGED restore
    BY <1>8 DEF StopUnnoticed
  <2>2. TypeOK'
    BY <1>1, <1>3, <2>1 DEF TypeOK, BackupRecords
  <2>3. ~Half' /\ RestoreIdle' /\ RestoreVerdict'
    BY <1>1, <1>3, <2>1 DEF Half, RestoreIdle, RestoreSound, RestoreVerdict
  <2>4. RestoreSound'
    BY <1>3, <2>1, <2>3 DEF RestoreSound, RestoreIdle
  <2> QED
    BY <1>3, <1>4, <2>2, <2>3, <2>4 DEF IInv
<1> QED
  BY <1>7, <1>8

\* The other steps of the script leave the service and the files alone.
LEMMA ScriptInv ==
    IInv /\ (BeginScript \/ StopFails \/ Signal \/ ScriptEnds) => IInv'
<1> SUFFICES ASSUME IInv, BeginScript \/ StopFails \/ Signal \/ ScriptEnds PROVE IInv'
  OBVIOUS
<1>1. /\ TypeOK /\ SetupTypeOK /\ ServiceSound /\ BackupSound /\ ArchivesSound /\ RestoreSound
      /\ DiskSound
  BY DEF IInv, TypeOK
<1>2. UNCHANGED <<files, config, audit, generation, token, up, memory, runtime_lock, setup,
                  update, backup, archives, torn>>
  BY DEF BeginScript, StopFails, Signal, ScriptEnds, setup_vars, disk
<1>3. ASSUME TypeOK', RestoreSound', Half <=> Half'
      PROVE  IInv'
  <2>1. ServiceSound' /\ BackupSound' /\ ArchivesSound'
    BY <1>1, <1>2
    DEF ServiceSound, SetupGood, UpdateSound, Asleep, BackupSound, BackupOfOneRevision, Known,
        ArchivesSound, Archived, Members
  <2>2. DiskSound'
    BY <1>1, <1>2, <1>3 DEF DiskSound, Known, Whole, OnDisk, Loads
  <2> QED
    BY <1>3, <2>1, <2>2 DEF IInv
<1>4. CASE BeginScript \/ StopFails \/ Signal
  <2>1. /\ UNCHANGED <<restore, left>> /\ runs' \in 0 .. MaxRestores
        /\ signalled' \in {"no", "trapped", "killed"} /\ script' \in {"idle", "stopping", "running"}
        /\ script' = "running" <=> script = "running"
    BY <1>1, <1>4, RestoreAssumption DEF BeginScript, StopFails, Signal, TypeOK
  <2>2. TypeOK'
    BY <1>1, <1>2, <2>1 DEF TypeOK, SetupTypeOK
  <2>3. Half <=> Half'
    BY <2>1 DEF Half
  <2>4. RestoreVerdict' /\ (RestoreIdle => RestoreIdle') /\ (InstallSound => InstallSound')
        /\ (HalfSound => HalfSound')
    BY <1>1, <1>2, <2>1
    DEF RestoreSound, Archived, RestoreIdle, Half, HalfSound, InstallSound, RestoreVerdict,
        Known, Kept, Same, Acceptable, Destinations, Members, Whole, LoadsIn, OnDisk
  <2>5. RestoreSound'
    BY <1>1, <1>2, <2>1, <2>3, <2>4 DEF RestoreSound, OnDisk, Archived, Known, Members
  <2> QED
    BY <1>3, <2>2, <2>3, <2>5
<1>5. CASE ScriptEnds
  <2>1. /\ signalled' = "no" /\ left' \in BOOLEAN /\ UNCHANGED runs
        /\ restore.pc = "ended" /\ script = "running" /\ script' = "idle"
        /\ restore' = NoRestore
    BY <1>5 DEF ScriptEnds
  <2>2. Nothing \in Images
    BY Numbers DEF Nothing, Images, Configs, NoConfig
  <2>3. /\ NoRestore \in RestoreRecords /\ NoRestore.pc = "idle"
        /\ NoRestore.installed = {} /\ NoRestore.failed = FALSE /\ NoRestore.cut = FALSE
        /\ NoRestore.exit = "none"
    BY <2>2 DEF NoRestore, RestoreRecords, Exits
  <2>4. TypeOK'
    BY <1>1, <1>2, <2>1, <2>3 DEF TypeOK, SetupTypeOK, RestoreRecords
  <2>5. RestoreSound' /\ ~Half /\ ~Half'
    BY <1>1, <1>2, <2>1, <2>3 DEF RestoreSound, RestoreIdle, Half, RestoreVerdict
  <2> QED
    BY <1>3, <2>4, <2>5
<1> QED
  BY <1>4, <1>5

\* The first state.
LEMMA InitIInv == Init => IInv
<1> SUFFICES ASSUME Init PROVE IInv
  OBVIOUS
<1>1. /\ files = [n \in Names |-> 0] /\ config = NoConfig /\ audit = 0 /\ generation = 1
      /\ token = "none" /\ up = "down" /\ memory = 0 /\ runtime_lock = Free
      /\ setup = [s \in Setups |-> NoSetup] /\ update = NoUpdate /\ backup = NoBackup
      /\ archives = {Older} /\ restore = NoRestore /\ script = "idle" /\ runs = 0
      /\ signalled = "no" /\ left = FALSE /\ torn = "whole"
  BY DEF Init, SetupInit
<1>2. /\ NoConfig \in Configs /\ NoConfig.gen = 0 /\ References(NoConfig) = {}
  BY DEF Configs, NoConfig, References
<1>3. /\ 0 \in Generations /\ 1 \in Generations /\ 1 \in 1 .. MaxGen /\ Password \in Names
      /\ AccessCode \in Names /\ Password # AccessCode /\ 0 \in 0 .. MaxRestores
      /\ \A n \in {Password, AccessCode} : n \in 1 .. Managed(1)
  BY Numbers, RestoreAssumption DEF Password, AccessCode, Managed
<1>4. Nothing \in Images
  BY <1>2, <1>3 DEF Nothing, Images
<1>5. /\ NoSetup \in SetupRecords /\ NoSetup.pc = "idle" /\ NoUpdate.pc = "idle"
      /\ NoUpdate \in [pc : {"idle", "staged", "committed"}, gen : Generations,
                       obsolete : SUBSET Names]
  BY <1>3 DEF NoSetup, NoUpdate, SetupRecords
<1>6. /\ NoBackup \in BackupRecords /\ NoBackup.pc = "idle" /\ NoBackup.todo = {}
      /\ Members(NoBackup.image) = {}
  BY <1>3, <1>4 DEF NoBackup, Members, Nothing, BackupRecords
<1>7. /\ NoRestore \in RestoreRecords /\ NoRestore.pc = "idle"
      /\ NoRestore.installed = {} /\ NoRestore.failed = FALSE /\ NoRestore.cut = FALSE
      /\ NoRestore.exit = "none"
  BY <1>4 DEF NoRestore, RestoreRecords, Exits
<1>8. Older \in Images /\ Archived(Older)
  <2> DEFINE f == [n \in Names |-> IF n \in {Password, AccessCode} THEN 1 ELSE 0]
             both == [n \in {Password, AccessCode} |-> 1]
             c == [gen |-> 1, refs |-> both]
  <2>1. f \in [Names -> Generations] /\ both \in [{Password, AccessCode} -> 1 .. MaxGen]
    BY <1>3
  <2>2. c \in Configs /\ References(c) = {Password, AccessCode}
    BY <1>3, <2>1, ConfigMade
  <2>3. Older = [files |-> f, config |-> c, audit |-> 1]
    BY DEF Older
  <2> HIDE DEF c
  <2>4. Older.files = f /\ Older.config = c /\ Older \in Images
    BY <1>3, <2>1, <2>2, <2>3 DEF Images
  <2>5. Members(Older) = {Password, AccessCode}
    BY <1>3, <2>4 DEF Members
  <2> QED
    BY <1>1, <1>3, <2>2, <2>4, <2>5 DEF Archived, Known
<1>9. TypeOK
  BY <1>1, <1>2, <1>3, <1>5, <1>6, <1>7, <1>8
  DEF TypeOK, SetupTypeOK, SetupRecords, BackupRecords, RestoreRecords
<1>10. ServiceSound
  BY <1>1, <1>5 DEF ServiceSound, SetupGood, UpdateSound, Asleep
<1>11. BackupSound /\ ArchivesSound
  BY <1>1, <1>6, <1>8 DEF BackupSound, BackupOfOneRevision, ArchivesSound
<1>12. RestoreSound
  BY <1>1, <1>7 DEF RestoreSound, RestoreIdle, Half, RestoreVerdict
<1>13. DiskSound
  BY <1>1, <1>2 DEF DiskSound, Known, Whole, OnDisk, Loads
<1> QED
  BY <1>9, <1>10, <1>11, <1>12, <1>13 DEF IInv

\* Nothing happens.
LEMMA StutterInv == IInv /\ UNCHANGED vars => IInv'
<1> SUFFICES ASSUME IInv, UNCHANGED vars PROVE IInv'
  OBVIOUS
<1>1. UNCHANGED <<files, config, audit, generation, token, up, memory, runtime_lock, setup,
                  update, backup, archives, restore, script, runs, signalled, left, torn>>
  BY DEF vars, setup_vars, disk, restore_vars
<1>2. TypeOK' /\ ServiceSound' /\ BackupSound' /\ ArchivesSound'
  BY <1>1
  DEF IInv, TypeOK, SetupTypeOK, ServiceSound, SetupGood, UpdateSound, Asleep, BackupSound,
      BackupOfOneRevision, Known, ArchivesSound, Archived, Members
<1>3. RestoreSound' /\ DiskSound'
  BY <1>1
  DEF IInv, RestoreSound, DiskSound, Archived, RestoreIdle, Half, HalfSound, InstallSound,
      RestoreVerdict, Known, Kept, Same, Acceptable, Destinations, Members, Whole, Loads, LoadsIn,
      OnDisk
<1> QED
  BY <1>2, <1>3 DEF IInv

-----------------------------------------------------------------------------
\* The invariant holds in every state, whatever is interrupted, fails or is restored.
THEOREM RestoreInductive == Spec => []IInv
<1>1. IInv /\ [Next]_vars => IInv'
  <2> SUFFICES ASSUME IInv, [Next]_vars PROVE IInv'
    OBVIOUS
  <2>1. CASE Restores
    BY <2>1, CheckingInv, InstallInv, UndoInv, EndInv, PruneInv DEF Restores
  <2>2. CASE Next /\ ~Restores
    BY <2>2, ServiceInv, CrashInv, BackupInv, InstallInv, EndInv, StopInv, ScriptInv
    DEF Next, Script
  <2>3. CASE UNCHANGED vars
    BY <2>3, StutterInv
  <2> QED
    BY <2>1, <2>2, <2>3
<1> QED
  BY InitIInv, <1>1, PTL DEF Spec

\* Every variable of BackupRestore and SetupStore has its type.
THEOREM BackupTypeCorrect == Spec => []TypeOK
<1>1. IInv => TypeOK
  BY DEF IInv
<1> QED
  BY <1>1, RestoreInductive, PTL

\* The running service never has the configuration of one author and the secrets of another
\* (activate_runtime, update, restore_backup), unless a restore was torn.
THEOREM ServesWholeAlways == Spec => []ServesWhole
<1>1. IInv => ServesWhole
  <2> SUFFICES ASSUME IInv, up = "serving", torn = "whole"
               PROVE  memory \in {0, config.gen} /\ Whole(OnDisk)
    BY DEF ServesWhole
  <2>1. memory = config.gen
    BY DEF IInv, ServiceSound
  <2>2. ~Half
    BY DEF IInv, RestoreSound, Half
  <2> QED
    BY <2>1, <2>2 DEF IInv, DiskSound
<1> QED
  BY <1>1, RestoreInductive, PTL

\* Each exit status of scripts/restore means what the script takes it to mean.
THEOREM RestoreVerdictAlways == Spec => []RestoreVerdict
<1>1. IInv => RestoreVerdict
  BY DEF IInv, RestoreSound
<1> QED
  BY <1>1, RestoreInductive, PTL

\* A configuration is never on the disk before its secrets (complete_setup, update,
\* restore_backup), in whatever state a process dies.
THEOREM ConfigIsCommitPointAlways == Spec => []ConfigIsCommitPoint
<1>1. IInv => ConfigIsCommitPoint
  BY HalfLoads DEF ConfigIsCommitPoint, IInv, DiskSound
<1> QED
  BY <1>1, RestoreInductive, PTL

\* create_backup never mixes the files of two revisions.
THEOREM BackupOfOneRevisionAlways == Spec => []BackupOfOneRevision
<1>1. IInv => BackupOfOneRevision
  BY DEF IInv, BackupSound
<1> QED
  BY <1>1, RestoreInductive, PTL
=============================================================================
