----------------------------- MODULE SetupStore -----------------------------
(***************************************************************************)
(* The configuration directory and who writes it while the service runs:   *)
(* SetupStore of app/setup.py with complete_setup, activate_runtime and    *)
(* lifespan of app/main.py, and, in the three steps that other processes   *)
(* can tell apart, the updates that module ConfigUpdate has in full.       *)
(*                                                                         *)
(* What is written is told apart by its generation: setup g writes g to    *)
(* its secret files, update g to a new one.  A configuration is its        *)
(* generation and, per secret file it refers to, what its author put there.*)
(***************************************************************************)
EXTENDS Naturals, FiniteSets

CONSTANTS
    Setups,   \* requests to POST /api/setup
    MaxGen    \* bound on generations; 1 is that of an older installation

Free == "free"   \* the lock of the runtime, when no request has it

ASSUME SetupAssumption ==
    /\ MaxGen \in Nat \ {0}
    /\ Free \notin Setups

Generations == 0 .. MaxGen     \* 0: there is no such file

\* The file names of setup, and the unique ones of updates.
Password == 1
AccessCode == 2
Managed(g) == 2 + g
Names == 1 .. Managed(MaxGen)

Configs == {[gen |-> 0, refs |-> [n \in {} |-> 0]]} \cup
           UNION {[gen : 1 .. MaxGen, refs : [{p, AccessCode} -> 1 .. MaxGen]] :
                      p \in Names \ {AccessCode}}
NoConfig == [gen |-> 0, refs |-> [n \in {} |-> 0]]
References(c) == DOMAIN c.refs

VARIABLES
    files,       \* the secret files
    config,      \* printers.yml
    audit,       \* the audit database: generation of its last record
    generation,  \* the last generation used
    token,       \* bootstrap-token
    up,          \* the service
    memory,      \* app.state.config
    runtime_lock,
    setup,       \* per request: where it is and its generation
    update       \* the update under way

disk == <<files, config, audit, generation, token>>
setup_vars == <<disk, up, memory, runtime_lock, setup, update>>

NoSetup == [pc |-> "idle", gen |-> 0]
NoUpdate == [pc |-> "idle", gen |-> 0, obsolete |-> {}]
NextGeneration == generation < MaxGen /\ generation' = generation + 1

(***************************************************************************)
(* The service process.                                                    *)
(***************************************************************************)
\* It is stopped or killed, and what its threads were doing with it.
Halt ==
    /\ up' = "down"
    /\ memory' = 0
    /\ runtime_lock' = Free
    /\ setup' = [s \in Setups |-> NoSetup]
    /\ update' = NoUpdate

\* load_config: the files the configuration refers to can be read.
Loads == \A n \in References(config) : files[n] # 0

\* lifespan: a configuration, or the token of SetupStore.prepare.
StartConfigured ==
    /\ up = "down"
    /\ config # NoConfig
    /\ Loads
    /\ up' = "serving"
    /\ memory' = config.gen
    /\ UNCHANGED <<disk, runtime_lock, setup, update>>

StartPrepared ==
    /\ up = "down"
    /\ config = NoConfig
    /\ token = "valid"
    /\ up' = "setup"
    /\ UNCHANGED <<disk, memory, runtime_lock, setup, update>>

\* _create_token_file opens the file and writes it; what it leaves behind when it is
\* interrupted is refused by every later start.
OpenToken ==
    /\ up = "down"
    /\ config = NoConfig
    /\ token = "none"
    /\ up' = "preparing"
    /\ token' = "empty"
    /\ UNCHANGED <<files, config, audit, generation, memory, runtime_lock, setup, update>>

WriteToken ==
    /\ up = "preparing"
    /\ up' = "setup"
    /\ token' = "valid"
    /\ UNCHANGED <<files, config, audit, generation, memory, runtime_lock, setup, update>>

(***************************************************************************)
(* POST /api/setup.                                                        *)
(***************************************************************************)
SetupAt(s, where) == setup[s].pc = where

Moves(s, where) == setup' = [setup EXCEPT ![s].pc = where]

\* A response, at the end of async with.
Answer(s) ==
    /\ setup' = [setup EXCEPT ![s] = NoSetup]
    /\ runtime_lock' = Free

\* complete_setup, up to the lock.
Arrive(s) ==
    /\ up \in {"setup", "serving"}
    /\ SetupAt(s, "idle")
    /\ memory = 0
    /\ Moves(s, "waiting")
    /\ UNCHANGED <<disk, up, memory, runtime_lock, update>>

\* Mutation: nobody waits for anybody.
EnterUnlocked(s) ==
    /\ SetupAt(s, "waiting")
    /\ IF memory # 0 THEN Answer(s) ELSE (Moves(s, "checking") /\ UNCHANGED runtime_lock)
    /\ UNCHANGED <<disk, up, memory, update>>

Enter(s) ==
    /\ SetupAt(s, "waiting")
    /\ runtime_lock = Free
    /\ IF memory # 0
       THEN Answer(s)
       ELSE Moves(s, "checking") /\ runtime_lock' = s
    /\ UNCHANGED <<disk, up, memory, update>>

\* SetupStore.complete: what is refused ...
Refused(s) ==
    /\ SetupAt(s, "checking")
    /\ Answer(s)
    /\ UNCHANGED <<disk, up, memory, update>>

\* ... and what goes on to _commit, with a token that is right.
Accepted(s) ==
    /\ SetupAt(s, "checking")
    /\ config = NoConfig
    /\ token = "valid"
    /\ NextGeneration
    /\ setup' = [setup EXCEPT ![s] = [pc |-> "password", gen |-> generation']]
    /\ UNCHANGED <<files, config, audit, token, up, memory, runtime_lock, update>>

\* _atomic_write of a secret; an error may come before or after os.replace.
WriteSecret(s, where, name, next) ==
    /\ SetupAt(s, where)
    /\ files' = [files EXCEPT ![name] = setup[s].gen]
    /\ (Moves(s, next) /\ UNCHANGED runtime_lock) \/ Answer(s)
    /\ UNCHANGED <<config, audit, generation, token, up, memory, update>>

SetupFails(s) ==
    /\ \E where \in {"password", "code", "link"} : SetupAt(s, where)
    /\ Answer(s)
    /\ UNCHANGED <<disk, up, memory, update>>

\* os.link: the configuration appears, unless there is one.
Link(s) ==
    /\ SetupAt(s, "link")
    /\ config = NoConfig
    /\ config' = [gen |-> setup[s].gen,
                  refs |-> [n \in {Password, AccessCode} |-> setup[s].gen]]
    /\ Moves(s, "linked")
    /\ UNCHANGED <<files, audit, generation, token, up, memory, runtime_lock, update>>

\* chmod fails: an error is reported although the configuration is there.
LinkUnreported(s) ==
    /\ SetupAt(s, "linked")
    /\ Answer(s)
    /\ UNCHANGED <<disk, up, memory, update>>

\* The token goes, when it can.
DropToken(s) ==
    /\ SetupAt(s, "linked")
    /\ token' \in {token, "none"}
    /\ Moves(s, "activate")
    /\ UNCHANGED <<files, config, audit, generation, up, memory, runtime_lock, update>>

activate_runtime(s) ==
    /\ SetupAt(s, "activate")
    /\ memory' = setup[s].gen
    /\ up' = "serving"
    /\ Answer(s)
    /\ UNCHANGED <<disk, update>>

\* AuditLog or the manager cannot be built: app.state.config stays None.
ActivationFails(s) ==
    /\ SetupAt(s, "activate")
    /\ Answer(s)
    /\ UNCHANGED <<disk, up, memory, update>>

(***************************************************************************)
(* PUT /api/admin/config: a new password in a file of its own.             *)
(***************************************************************************)
UpdateStages ==
    /\ up = "serving"
    /\ update = NoUpdate
    /\ runtime_lock = Free
    /\ NextGeneration
    /\ update' = [NoUpdate EXCEPT !.pc = "staged", !.gen = generation']
    /\ files' = [files EXCEPT ![Managed(generation')] = generation']
    /\ UNCHANGED <<config, audit, token, up, memory, runtime_lock, setup>>

\* Mutation: the document names the new file only.
UpdateCommitsNew ==
    /\ update.pc = "staged"
    /\ config' = [gen |-> update.gen, refs |-> [n \in {Managed(update.gen)} |-> update.gen]]
    /\ memory' = update.gen
    /\ audit' = update.gen
    /\ update' = [update EXCEPT !.pc = "committed",
                                !.obsolete = References(config) \ References(config')]
    /\ UNCHANGED <<files, generation, token, up, runtime_lock, setup>>

UpdateCommits ==
    /\ update.pc = "staged"
    /\ config' = [gen |-> update.gen,
                  refs |-> [n \in {Managed(update.gen), AccessCode} |->
                               IF n = AccessCode THEN config.refs[n] ELSE update.gen]]
    /\ memory' = update.gen
    /\ audit' = update.gen
    /\ update' = [update EXCEPT !.pc = "committed",
                                !.obsolete = References(config) \ References(config')]
    /\ UNCHANGED <<files, generation, token, up, runtime_lock, setup>>

\* finalize: the old password file.
UpdateFinishes ==
    /\ update.pc = "committed"
    /\ files' = [n \in Names |-> IF n \in update.obsolete THEN 0 ELSE files[n]]
    /\ update' = NoUpdate
    /\ UNCHANGED <<config, audit, generation, token, up, memory, runtime_lock, setup>>

-----------------------------------------------------------------------------
SetupInit ==
    /\ files = [n \in Names |-> 0]
    /\ config = NoConfig
    /\ audit = 0
    /\ generation = 1
    /\ token = "none"
    /\ up = "down"
    /\ memory = 0
    /\ runtime_lock = Free
    /\ setup = [s \in Setups |-> NoSetup]
    /\ update = NoUpdate

Start == StartConfigured \/ StartPrepared \/ OpenToken

SetupStep(s) ==
    \/ Arrive(s) \/ Enter(s) \/ Refused(s) \/ Accepted(s)
    \/ WriteSecret(s, "password", Password, "code")
    \/ WriteSecret(s, "code", AccessCode, "link")
    \/ SetupFails(s) \/ Link(s) \/ LinkUnreported(s) \/ DropToken(s)
    \/ activate_runtime(s) \/ ActivationFails(s)

UpdateStep == UpdateStages \/ UpdateCommits \/ UpdateFinishes

SetupTypeOK ==
    /\ files \in [Names -> Generations]
    /\ config \in Configs
    /\ audit \in Generations
    /\ generation \in 1 .. MaxGen
    /\ token \in {"none", "empty", "valid"}
    /\ up \in {"down", "preparing", "setup", "serving"}
    /\ memory \in Generations
    /\ runtime_lock \in Setups \cup {Free}
    /\ setup \in [Setups -> [pc : {"idle", "waiting", "checking", "password", "code", "link",
                                   "linked", "activate"}, gen : Generations]]
    /\ update \in [pc : {"idle", "staged", "committed"}, gen : Generations,
                  obsolete : SUBSET Names]
=============================================================================
