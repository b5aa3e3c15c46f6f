# TLA+ models of Bambu Kontrollzentrum

The service (`src/app`, Python, FastAPI on one asyncio loop with a thread pool) watches
Bambu printers over MQTT, sends them a small set of write commands, relays their cameras
through ffmpeg and lets one administrator change its configuration at run time. This
directory holds models of the parts of it that are hard to test: threads, callbacks,
locks, timeouts, lost connections and cancelled requests.

## 1. Inventory

| Component | State | Operations | What is hard | What makes it correct |
|---|---|---|---|---|
| Command path, `manager.py` `ControlManager.send_command` | one command lock and `_last_command_at` per printer | gates, build, publish, wait, judge, audit | requests run on pool threads; state is read before the lock; several publishes per request | the audit result tells what left the service and what the printer said; a burst is not interleaved; a started dryer can be stopped; every request ends |
| Command builder, `commands.py` | sequence counter | validate parameters, build payload | – | numbers are unique |
| MQTT client, `mqtt_client.py` `PrinterMqttClient` | paho client, pending table, refresh timer, pin probe | `start`, `stop`, callbacks, `publish_and_wait` | network thread, timer threads and pool threads share the object; answers are late, repeated or meant for others | an answer reaches only the command it is for; no entry outlives its wait; after `stop` nothing runs |
| State store, `state.py` `StateStore` | merged report, completeness, connection, AMS models, drying generations | `apply_report`, `mark_connection`, `wait_for_ams_drying_state`, snapshots | merged state survives reconnects; a wait must not be satisfied by old data | `complete` rests on this connection's data; a confirmation rests on a report merged after the request was taken up |
| Camera streams, `camera.py` | tickets, registered streams; per stream process, locks, cleanup task | issue ticket, open, read, restart, close, revoke | close meets start, restart and cancellation at every await | one viewer per printer, limits are exact, no process is left behind, stop and logout are final, streams end |
| Camera launcher, `camera_runner.py` | – | drops privileges, starts ffmpeg | operating system calls only | – |
| HTTP and WebSocket handlers, `main.py` | `app.state` (config, manager, locks) | login, logout, setup, camera, commands, config, WebSocket | handlers interleave at awaits | the configuration in memory, on disk and running agree |
| Sessions and login limiter, `web.py` | session table, failure counters | create, authenticate, revoke, replace all, check, record | concurrent logins; eviction at the cap | a revoked session stays revoked; the counters bound the attempts between two successes |
| Event hub, `web.py` | subscriber queues | publish, subscribe | snapshots are taken on threads and delivered by the loop; slow readers | a subscriber ends with the newest snapshot |
| Configuration update, `admin.py`, `main.py` | config file, secret files, staged and backup files, running manager | prepare, commit, rollback, finalize, abort | crash or failure between two file operations; failure after the old manager was stopped | all or nothing; the file on disk never names a missing secret |
| Backup and restore, `backup.py`, `scripts/` | archive, live files | create, verify, restore, roll back | kill between two replacements; backup during an update | a restore is complete or undone; a backup is one version |
| First-run setup, `setup.py` | bootstrap token, staged files | prepare, complete | crash between token, secrets and config; two requests at once | set up once, with the token |
| Audit log, `audit.py` | SQLite file | record, prune, page | writers on several threads; pruning while paging | – |
| Configuration loader, `config.py` | – | validate YAML | pure function over documents | – |
| Metrics and health, `metrics.py` | – | render a snapshot | pure function | – |
| Browser interface, `static/*.js` | page state | render, reconnect | – | – |

How they interact: an HTTP handler hands a command to `send_command` on a pool thread. It
reads the store, builds payloads and publishes them through the printer's MQTT client.
paho's network thread runs the client's callbacks, which fill the pending table and the
store; a store change publishes a snapshot to the event hub, which the WebSocket handlers
drain. Camera handlers authenticate against the session store and the store's snapshot
and drive the camera manager, which starts ffmpeg. A configuration update closes the
cameras, stops the manager, starts a new one and commits the files, in this order.

The dangers found while reading are listed, each at its line, in `PROJECT.json` under
`hazards`.

## 2. Modules

| Module | Models | Form |
|---|---|---|
| `StateStore` | `state.py`, one printer | variables, one action per method |
| `CommandPath` | `manager.py`, `commands.py`, the callbacks and `publish_and_wait` of `mqtt_client.py`; extends `StateStore` | one program counter per request, network thread, printer |
| `CommandPathProofs`, `CommandLogProofs` | – | theorems about `CommandPath` |
| `CameraSlot` | the promise of `camera.py` to the printers | abstract specification |
| `CameraStreams` | `camera.py` and the camera, stop and logout handlers of `main.py`; implements `CameraSlot` | one record per stream, one per closing request |
| `CameraProofs` | – | theorems about `CameraStreams`, and the refinement |
| `ConfigUpdate` | `admin.py` (prepare, commit, abort, finalize) and the handler `update_admin_config` of `main.py` | one job record, file operations one by one |
| `ConfigUpdateProofs` | – | theorems about `ConfigUpdate` |
| `PrinterLink` | the life of one `PrinterMqttClient`: `start`, `stop`, the pin probe, paho's thread and the refresh timer | one position per thread, a step per access to what another thread writes |
| `PrinterLinkProofs` | – | theorems about `PrinterLink` |
| `EventHub` | `EventHub` of `web.py`, the `on_change` callbacks and the exchange of the manager | variables and actions, no specification of its own |
| `WebSessions` | `SessionStore` and `LoginRateLimiter` of `web.py`, login, logout and the end of an update in `main.py` | the same |
| `WebFront` | `websocket_endpoint`; composes `EventHub` and `WebSessions` | one record per connection |
| `WebFrontProofs`, `SnapshotProofs` | – | theorems about `WebFront` |
| `SetupStore` | `setup.py`, the lifespan and the setup handler of `main.py`, and updates in the steps other processes can tell apart | variables and actions, no specification of its own |
| `BackupRestore` | `backup.py`, `scripts/backup`, `scripts/restore`; composes with `SetupStore` | one record per process |
| `BackupRestoreProofs` | – | theorems about `BackupRestore` and `SetupStore` |
| `MCStateStore`, `MCCommandPath`, `MCCameraStreams`, `MCConfigUpdate`, `MCWebFront`, `MCBackupRestore`, `MCPrinterLink` | – | values, symmetry and constraints for TLC |

Operators and actions carry the names of the functions they translate (`apply_report`,
`on_disconnect`, `open_ticketed_stream`); `PROJECT.json` maps each to its lines.
Definitions marked "Mutation" are variants with a plausible mistake; the mutants listed in
`PROJECT.json` put them in place of the real definition to see that the property notices.

### StateStore and CommandPath

One printer is modelled: all of the store's fields, the command lock and the MQTT client
are per printer. A report is a partial function of what decisions depend on: print status,
Developer LAN mode, the camera section, the light nodes, the AMS section with its risk
verdict and its list, and one field for the groups of `FULL_STATUS_FIELD_GROUPS` no command
reads. Merging is by key with the list as one value, as `deep_merge` does. A report is the
full state when it has a key of each group, whatever else it lacks (`is_full_status`): the
Developer LAN flag, the camera section and the inside of the AMS section may be missing. The
AMS list keeps its entries, their optional ids and their `dry_time`, because three readers of
the list resolve ids in two ways.

A request stops in the model wherever `send_command` gives up or waits for something:
after the permission check, after `_validate_state`, after `_build_commands` (each of
which reads the store in a section of its own), before the command lock, between
registering a pending entry, `is_connected()` and paho's `publish`, in the 4 s wait for an
answer, and in the 30 s wait for a drying confirmation. Time is abstract: `recent` stands
for the 750 ms spacing, `stale` for `stale_after_seconds`, and a wait may end at any time
as long as what it waits for is not there.

The network thread is `net`: `connack` is the moment between paho's handling of CONNACK
(from which `is_connected()` holds) and the end of `on_connect`, `lost` the one between
the broken socket and `on_disconnect`. `on_disconnect` is one action although it takes two
locks: `mark_connection` touches the store only, `_fail_pending` the pending table only,
and no reader looks at both in one section. `CertificateRefused` is the other end of
`on_connect`: the certificate is not the pinned one, `on_disconnect` then returns before it
fails the pending commands, and these wait for their deadlines. `fresh` remembers which groups
of a full report the current connection has brought. The printer and its other MQTT clients are
external: answers may be late, repeated (QoS 1), refused, lost, or carry the number of one
of our commands with another command word.

How the connection comes about and ends is `PrinterLink`; what its messages do is here.

### PrinterLink

One client, all its threads: the caller of `start` and `stop` (the manager, one call after
the other), a thread per fired pin timer (`_start_pinned_connection`), paho's thread with its
callbacks, a thread per fired refresh timer (`_refresh_full_state`). A step ends where a
thread reads or writes an attribute that another thread writes: `_stopping`, the two timer
attributes, the TLS context. `_schedule_full_refresh`, for example, is four steps (read the
timer, cancel and clear it, look at `_stopping`, set a new one), and three kinds of threads
run it or its first half. `Timer.cancel()` has no effect on a timer that has fired. paho is
external: `loop_start()` starts a thread unless there is one, `disconnect()` and
`loop_stop()` end it, and `tls_set_context()` raises when there is a context already.

Of the store, the model keeps the connection state and `_complete`, which is cleared
whenever the printer is marked anything but online. `Report` is any report of the printer,
`RefreshAnswered` a refresh request that it answers with its full state.
`full_refresh_seconds = 0`, which turns the refresh timers off, is not modelled. The next
timer is the first free one; which one it is makes no difference.

`stop` cannot hold back a probe past its last look at `_stopping`. The history `late` says
how far a probe was when `stop` set the flag, and `StopIsStop` excepts what such a probe
does; `bare` says that the connection came up while `_stopping` was set, so that nobody set a
refresh timer, which a `start` that finds the thread running does not do either.

### EventHub, WebSessions and WebFront

A snapshot is the number of the change after which it was taken. A thread changes the store,
takes a snapshot and hands it to the loop in three steps, the loop gives it to the queues in
a fourth. The callers are paho's threads, which `stop` joins, pin probes of the first
manager, which it does not, and the handler of an update. A queue has room for one snapshot.

`WebSessions` has the session table in order of issue, which is the order of expiry and of
eviction; logins that hold the configuration they took before they awaited the body; and
requests with Basic credentials on pool threads, between the limiter's check and its record.
User name and password are the number of the update that set them.

In `WebFront`, a connection is accepted, subscribes, sends, waits and wakes as
`websocket_endpoint` does; any step of the others may come in between. `due` stands for
`next_revalidation`. The histories are `outdated` (what was scheduled last was not the newest
state, because a thread was overtaken between snapshot and `publish_threadsafe`, or belongs
to a manager that was replaced, or an update was given up), `since` (the number of changes
when the session of a connection ended) and `slow` (the session was issued by a login that
took the configuration before it was exchanged). All three mark what the code really does,
so that the properties can say exactly what remains true.

### SetupStore and BackupRestore

The configuration directory is the content of every secret file, `printers.yml` and the
audit database; contents are told apart by the setup, update or archive that wrote them. A
configuration carries, per secret it refers to, what its author put there, so that "the
files fit together" (`Whole`) can be said. Setup is modelled file by file (token, two
secrets, hard link, removal of the token, activation); updates in the three steps a backup
or a restart can tell apart, as `ConfigUpdate` has them in full.

A backup reads the main file, lists the directory, reads the files one after the other and
takes the audit snapshot, while setups and updates go on. (It archives other files of the directory
too, if no update manages them; nothing in the model reads those.) A restore checks, copies the old
files, replaces one destination after the other (secrets, audit, configuration), and rolls
back in reverse; each step may fail, `InstallInterrupted` is Ctrl-C between `os.replace` and
its record, `Cut` a kill; a rollback that has put everything back and cannot sync the
directory ends with status 2 as well (`touched`). `torn` remembers what is known of the
directory after a restore was killed ("mixed") or could not be rolled back ("broken").

`scripts/restore` stops the service, runs the restore and starts the service again unless the
rollback was incomplete. Its trap runs when the command in the foreground has ended, and
starts the service only if `service_stopped` is set. `StopService` and `StopUnnoticed` are the
two ways out of `docker compose stop`: without a signal the script goes on, with one the
trap finds the variable still 0 and the container stays stopped. So it does when the script
is killed, when `docker compose up` fails, or after status 2. `left` remembers this: the
container was stopped by hand, which `unless-stopped` respects.

### CameraSlot and CameraStreams

An action is what a task does between two awaits, or one section under the manager's lock.
A free `asyncio.Lock` is taken without suspending, so some of these sections always run
together today; the model lets other tasks run between them, as the lock and the comments
at `camera.py:284` provide for, and so has more behaviours than the code. The record of a
stream holds the `CameraStream` object, the position of the request's task (`pc`) and of the
shared cleanup task (`cleanup`). `Cancel` is a cancellation at any await of the task: it
leaves the locks it holds and awaits `close()`. A process that `_stop_process` was waiting
for has got its SIGTERM and nothing else, hence the value `terminated`. `Abandon` is a
client that goes before the response body is iterated; `iter_bytes` never runs then, and
the slot stays taken until a stop, a logout, a reload or the shutdown.

Tickets are a set: the code finds them by digest and evicts the one that expires first, which is
the one with the least number, as all live equally long.

`CameraSlot` states the promise without tasks and locks: a printer is reserved by one
stream at a time, at most `MaxTotal` are reserved, a process runs only while its stream
holds the printer. `CameraStreams` implements it with `holder` the registered streams per
printer and `running` the streams whose process runs and was not told to end.

`consume_ticket` and `open_stream` have no caller in the service and are not modelled; the
handlers use `open_ticketed_stream`.

### ConfigUpdate

The handler holds `runtime_lock` from its first look at the configuration to its end, so one
job record with a program counter stands for all updates, one after the other. A
configuration is a number and the set of secret files it names; printers, web settings and
the values of secrets decide nothing here. Files whose name the service draws itself are
`Managed`; only those are ever removed. Every file operation is an action and may fail:
creating a secret, staging the replacement, copying the old file, `os.replace`, and each
`unlink`, whose errors the code ignores. `commit` cannot fail once the file is replaced:
`chmod` is guarded, and the `_fsync_directory` it calls is that of `setup.py`, which swallows
`OSError`. So its undo and the look of `abort` at `_committed` are not modelled.

So are the steps of the swap: building the candidate, closing the cameras, stopping the old
manager, starting the candidate. `Fails` is an exception before the file is replaced,
`StartFails` a client of the candidate that does not start; the recovery (`StopCandidate`,
`StartOld`, `Abort`) is the same for all three `except` clauses. The old manager is started
without `strict`, so that a client of it may be left out (`whole`). A manager's `stop` does
not reach a pin probe past its last look at `_stopping`; `late` are the stopped managers that
still have one, and `LateProbe` the connection it opens, which nobody closes. `left` are
staged files and copies that an earlier update did not remove.

`Crash` kills the process between any two of these; `Restart` is a new process that loads the
file. Changes of the directory are taken to reach the disk in their order (a journalling file
system), so a power failure leaves a state that a kill could have left. `EditFile` is an
operator who changes the file in place and keeps its secrets, also between the comparison
of the digest and the replacement. `rollback` has no caller and is not modelled.

## 3. Runs

All bounds are constants or guards with a name. `CHECK_DEADLOCK FALSE` is set everywhere:
requests, drops, reports and tickets are bounded, so every behaviour of a small instance
comes to rest; that work in progress always ends is what the liveness runs show.

| Run | Question | Instance |
|---|---|---|
| `command_reconnect` | is the state shown complete only on this connection's data and a command confirmed only by a list merged after it was taken up, and do answers to other clients count for nothing? | one request, five calls, two lost connections, four unasked messages, two in transit |
| `command_concurrent` | can what was started be stopped; are bursts whole, pending entries short-lived and audit results true when requests interleave and the connection breaks? | two requests, two calls about drying or two about the print, two slots, three reports, one lost connection |
| `command_liveness` | does every request end? | two requests that use lock, answer and confirmation, one lost connection |
| `command_queued` (violated) | is a queued start gated by the state at the time it is let through? | two starts |
| `store_confirm` (violated) | is a unit shown as drying also confirmed as drying? | two list entries with or without ids |
| `camera_concurrent` | is no process left running, is a stop final, does a ticket open one stream of its session and printer, does the manager implement `CameraSlot`? | two streams, sessions and printers, one closer, room for one ticket, one slot in all |
| `camera_restarts` | are processes counted over restarts, do streams end and closers return? | one stream, one restart, one closer, with fairness |
| `config_update` | is an update all or nothing, whatever fails or is killed, and does the service come back? | two updates, one managed and one unmanaged secret at the start, two more names, one edit, one kill, one stopped manager at a time with a late probe, with fairness |
| `web_front` | does a browser end with the newest state, is a revoked one sent nothing more and closed, do old credentials leave no session, is guessing bounded between two successes? | one connection, one network thread, one late probe, one exchange, three changes, two tokens, room for one session, two Basic requests, two attempts, with fairness |
| `backup_restore` | does the service ever work with files that do not belong together, is the restore's exit status true, does a configured service come back unless the script has left it stopped? | two setups, two generations to write, two archives, two restores, with fairness |
| `backup_consistent` (violated) | can every published archive be restored? | one setup, two generations, two archives |
| `printer_link` | is the certificate pinned before a connection, what does `stop` leave, is no retry and no refresh ever forgotten, does a started client get paho's thread, is a lasting connection shown online and complete? | three pin timers, three refresh timers, two starts, one lost connection, with fairness |

Two requests are enough for every order of two holders of the command lock; a third one only
queues behind them in the same way. Three reports are the full state, the names of the modules
and one that takes something back. Two slots make a burst with a first, a next and a last
command. Two lost connections give a reconnect after data of the first connection and one
after data of the second. For cameras, two streams compete for a slot, and the request's own
task and a closer are the two concurrent callers of `close()`; sessions, printers, streams and
closers are interchangeable (symmetry; not used for liveness).

For configurations, two updates put one after a failed swap, an edit or a kill during the
other, and two new names let one update write two secrets or each of them one.

Two starts put the threads of one life of the client into the next; three timers of each
kind are one that was cancelled too late, one that took its place and one more to be set. A
room for one session makes every login evict; two Basic requests meet between check and
record. Two setups compete for the same file names, the second generation to write is that
of an update after the setup, and a second restore follows a torn one; the archive of an
older installation is there from the start.

Three instances put two small ones into one state space, so that their states add up and do
not multiply: `mc_OneTopic` of `MCCommandPath` lets the requests of one behaviour be about
drying or about the print, `mc_OneTopic` of `MCCameraStreams` lets a closer work on one
printer and session and has two of them without, `mc_Next` of `MCWebFront` runs the Basic
requests only while no browser is connected. What each cuts off is only the mixture of the
two cases.

### Fairness

`CommandPath!FairSpec`: weak fairness of each request's thread. Pool threads are operating
system threads, both waits have deadlines (the 4 s of `publish_and_wait`, the 30 s confirmation
timeout), and the command lock is released on every path. Nothing is assumed of the
printer or the network. Weak fairness is enough for the lock although it is not fair: the
bounded set of requests runs out of competitors.

`CameraStreams!FairSpec`: weak fairness of each task, each cleanup and each closer (the loop
runs what can run, and every wait has a timeout), of the passing of
`max_session_seconds`, and of a client taking the chunk it was sent or going away: the
server's write returns or raises. `StreamsEnd` is stated for streams whose response is
consumed; see `Abandon` above for the others.

`ConfigUpdate!FairSpec`: weak fairness of the handler (it runs on the loop and in the pool and
waits for no one outside) and of the restart: `compose.yaml` says `restart: unless-stopped`.
The number of kills is bounded.

`PrinterLink!FairSpec`: weak fairness of the calls, of paho's thread and its callbacks, and of
each timer thread (timers fire, threads run). Two things are assumed of the printer, both by
strong fairness: probed again and again it answers with its certificate at some time
(`ProbeSucceeds`), and asked again and again for its full state it sends it at some time
(`RefreshAnswered`). `StatusRecovers` rests on the second one: after a late failure of an old
probe has marked the printer offline, nothing but a report of the printer undoes that. That
the printer reports without being asked is not assumed, nor that it accepts a connection:
`LinkComesUp` says that paho's thread is started, which goes on connecting by itself.

`WebFront!FairSpec`: weak fairness of the loop, of each thread that has begun to announce a
change, of the end of an update, and of each connection's handler (a client takes what it
is sent or its connection breaks); strong fairness of `Revalidates`, since
`next_revalidation` is a time that comes also when other events keep ending the wait.

`BackupRestore!FairSpec`: the service is started again (`restart: unless-stopped`, or the
script) unless the script has left it stopped, the restore process goes on, and the commands
of the script end, also those a killed script has left. Crashes are not bounded.

### Findings

- `command_queued`: `send_command` evaluates the state gates before it waits for the
  command lock and does not repeat them (`manager.py:367`). A `start_drying` that queued
  behind another one is published for a unit the store already shows drying, which
  `_validate_drying_command` would refuse; `README.md:176` promises that every write
  command passes the current-state gates.
- `store_confirm`: `wait_for_ams_drying_state` (`state.py:855`) compares an entry's own id,
  without the fallback to its index that `apply_report` and `_normalise_ams` have. A unit
  listed without an id is shown and counted as drying and never confirmed; `README.md:198`
  says "confirmed by state".
- `backup_consistent`: `create_backup` reads the main file before it lists the directory
  (`backup.py:195`). An update that commits and removes the old secret in between leaves an
  archive without a file its configuration refers to. `scripts/backup` publishes it, and
  `restore` refuses it; `README.md:207` promises a consistent archive while the service runs,
  and the comment at `backup.py:203` means to avoid a non-restorable backup.

The models show other behaviours that no document of the repository speaks about; the
histories named above mark them. A stale snapshot can be the last one a browser gets until
the next change or the page's own poll. A login that began before an update that changed
the credentials may still be given a session. A probe past its last look at `_stopping`
connects after `stop`, also for a manager that was replaced. A list that is merged between
the capture of the drying generation (`manager.py:386`) and the publish confirms the command.
After a reconnect the state may be complete while the Developer LAN flag, the camera section
or the AMS list is from before it, and gates read those. A success that is pending when the
connection breaks is overwritten (`mqtt_client.py:288`), and the caller told of a failure. A
success clears the login counter for every user behind the address. A signal during
`docker compose stop` leaves the service stopped (`scripts/restore:39`). A first start that is
killed between creating and writing the bootstrap token leaves an empty one, which every later
start refuses.

## 4. Proofs

`CommandPathProofs` proves for every number of requests, units, slots, messages and lost
connections, from `StoreAssumption` and `CommandAssumption` (types of the constants, and
`MaxSlots >= 1`):

- `TypeCorrect`: the type invariant;
- `PendingInFlightAlways`: the pending table holds at most the command the lock's owner is
  publishing;
- `AcknowledgedByPrinterAlways`: an acknowledged request was answered with success by the
  printer, command by command;
- `ConfirmedFreshAlways`: a confirmed drying command rests on an AMS list that was merged
  after its generation was captured;
- `CompleteIsCurrentAlways`: a state is complete only after this connection has brought every
  group of a full report.

None of the four is inductive. All follow from `IInv`, which `Inductive` proves:

- `LockOwner` ties the command lock to the positions inside `publish_and_wait`; with it
  `PendingInFlight` is preserved, since no other request can be at a position that registers
  or removes an entry.
- The acknowledgement is followed backwards: `acks` come from pending entries
  (`AcksAreTrue`), those from messages with the right command word (`PendingIsTrue`), those
  from the printer (`WireIsTrue`). `OursOnly` is needed because a request that is submitted
  later could otherwise give an old message the right command word.
- `GenerationIsFresh` relates the counter `_ams_dry_generation` to the age of the list: a
  count above the captured one came with a list merged after the capture.
  `OnlyDryingConfirms` and `OutcomeAtEnd` keep the request at the place where it applies.
- `NothingKeptOffline` says that `on_disconnect` has withdrawn completeness before the next
  CONNACK.

`ConfigUpdateProofs` proves for every set of names and every number of updates, edits and
kills, from `ConfigAssumption` (the names are of two disjoint kinds): `DiskLoadsAlways`,
`OneManagerAlways`, `SettledAlways` and `NothingLeftBehindAlways`, all from `IInv` of
`ConfigUpdate` (`ConfigInductive`), with a lemma per action:

- `OnDisk` says at each step whose secrets the file names, `BothLoad` that until
  the swap the secrets of both configurations are there, `NamesDrawn` that the new ones are
  in no earlier configuration. Together they make `DoomedUnused` inductive: only files that
  the configuration on the disk does not name are ever on the list of files to unlink.
- `RunningAt` lists which manager runs at each step, and that whoever holds connections runs
  or is `late`; `Numbered` keeps the candidate's number apart from the old one, so that
  stopping the candidate does not stop the old manager.
- `Agreement` and `Accounted` follow the file, the managed files and the staged ones through
  the update.

`PrinterLinkProofs` proves for every number of timers, starts and lost connections, from
`LinkAssumption`: `PinBeforeConnectAlways`, `StopIsStopAlways`, `LinkNotForgottenAlways`,
`RefreshNotForgottenAlways` and the type invariant, from `IInv` of `PrinterLink`
(`LinkInductive`). The argument follows the position of `start` and `stop`:

- `Phases` fixes `_stopping` by it; before the first start there is no thread and no probe.
- `PinInv` says that whoever is about to open the connection has set the context before.
- `LateInv` says that every probe which `stop` can no longer hold back is known to `late`;
  `StopInv` that a thread `stop` does not wait for was started by one.
- `LinkInv` says that a thread was told to end only by `stop` or after a mismatch, and that a
  context that was set leads to a thread. `BareInv` and `RefreshInv` follow the refresh timer:
  a thread that outlives `stop` found `_stopping` set when it connected, every other one set a
  timer, and only a step that goes on to set another one cancels it.

`WebFrontProofs` proves for every number of connections, threads, requests, sessions and
changes, from `HubAssumption` and `SessionAssumption`: `TypeCorrect`,
`SessionsCurrentAlways` and `RevokedSeesNoLaterAlways`, from `IInv` of `WebFront`
(`FrontInductive`), and `GuessesBoundedAlways` from `GuessInv` (`GuessInductive`).
`SessionAssumption` has that `Basics` is finite: they are the threads of the pool.

- `HubInv`: no snapshot, in a thread, on its way, in a queue or on a page, is newer than the
  number of changes. So what is on a page when its session ends is at most `since`.
- `SessionInv`: outside of an update every session is of the current credentials or `slow`;
  `RevokeKeeps`, `IssueKeeps` and `NewSession` say what the operations of the store do to it.
- `SocketInv`: a connection whose session has ended holds a token that is not in the store.
  Since a fresh token is greater than all earlier ones (`SessionsFollow`), it stays out
  (`SocketsFollow`); and the handler shows a snapshot only to a session it finds in the
  store (`SocketSteps`).
- `GuessInv` is about the wrong credentials since the last success, as `GuessesBounded` is:
  `reset_on_success` clears the counter. Their number is not enough to be
  inductive, since uncounted ones can stay in the window when counted ones have left it. A
  credential goes uncounted only when the limit was reached after its thread's check, and no further thread passes the check
  while that is so. Hence after each counted one there are at most as many uncounted ones as
  threads, less those that still wait (`LastCounted`); and back from each counted one to any
  earlier attempt the counted ones pay for the others (`Paid`), which a window that passes
  (`CountShift`) does not change.

`SnapshotProofs` goes on from there and proves `ShowsNewestAlways` from `SnapInv`
(`SnapInductive`):

- `CurrentInv`: as long as a thread of the manager in service is between its change and its
  announcement, either what was announced last is the newest state or some thread will
  announce the newest (`InFlight`); the same for the last snapshot given to the loop, unless
  `outdated`. When a manager has been stopped its threads are idle, so that an exchange leaves
  nothing behind but late probes, which `Late` tells apart.
- `FollowInv` carries this to each connection: once the loop has nothing to hand out, the
  snapshot nearest to the browser, in its queue, in the hands of its handler or on the page, is
  the newest or a newer one is in flight. It rests on the order in `websocket_endpoint`, which
  subscribes before it takes the first snapshot.

`BackupRestoreProofs` proves for every number of setup requests, generations, archives and
restores, from `SetupAssumption` (at least one generation; `Free` is no request) and
`RestoreAssumption`: `BackupTypeCorrect`, `ServesWholeAlways`, `RestoreVerdictAlways`,
`ConfigIsCommitPointAlways` and `BackupOfOneRevisionAlways`, from `IInv` of `BackupRestore`
(`RestoreInductive`), with a lemma per action:

- `DiskSound` is what a start may rely on: outside of a replacement the files fit together, or
  at least load, unless `torn` says otherwise. It is not inductive while a restore replaces
  entries; there `HalfSound` says of every entry whether it is that of the archive or that of
  before, as the process has it recorded, and that it can be put back. The configuration is
  the last entry to go in and the first to go back, so whichever is there has its secrets.
- `InstallSound` needs that entries go in by number, that is, that `Min` of what is to do
  exists: a lemma from the well-foundedness of the natural numbers.
- `SetupGood` keeps one request inside the lock and before the service serves, and says how
  far its files have come when the link is made. `UpdateSound` says that an update deletes no
  file the configuration on the disk refers to, `Known` that its own new one is in none.
- `BackupSound`: a file that a backup is still to read is what it was, or is gone. This is what
  an archive is worth (`Archived`): all its files are referred to by its configuration, so
  that a restore that accepts it is complete.

`CommandLogProofs` goes on from `IInv` of `CommandPathProofs` and proves
`BurstsContiguousAlways`, `AuditTellsWhatLeftAlways` and `StartedCanStopAlways` from `LogInv`
(`LogInductive`):

- `LeftSoFar` says at every position of a request which of its commands have left, and, while it
  holds the command lock, that its last one was the last of all. With `LockOwner` no other
  request publishes meanwhile, hence the bursts; the audit results are read off at the ends.
- `ModelsNamed` says that the model of a unit only goes from unknown to what it is, and
  `StartsDryable` that a `start_drying` past `_build_commands` has met the conditions it shares
  with `stop_drying`. Both are about things no later report takes back.

`CameraProofs` proves for every set of printers, sessions, streams and closers and every limit,
from `CameraAssumption`: `CameraTypeCorrect`, `NoRunningOrphanAlways`, `StopIsFinalAlways`,
`TicketSingleUseAlways` and `SpawnsBoundedAlways`, from `CInv` (`CameraInductive`), and
`ImplementsSlot`: every behaviour of `CameraStreams` is one of `CameraSlot`.

- `Sound` is about one stream: `_closed` is set exactly when the cleanup task exists, a running
  process is the one `_process` refers to, a cleanup past the process lock leaves none running,
  and a start or restart finds none and is paid for. It is what close(), the task and the
  cleanup have to agree on; without it `NoRunningOrphan` is not inductive.
- `TableAgrees` ties the manager's table to the streams: registered are exactly those that hold a
  printer, on different printers, within the limit.
- `TicketsBound` says that a ticket in the table was used by no stream, and that a stream's
  ticket was issued for its printer and session; numbers grow, so no later ticket is an old one.
- `ClosersSee` follows a stop or a logout: tickets issued before it are gone once they were
  revoked, and whoever it is about and is still registered is among those it waits for.
- Most steps move one stream and touch nothing else. `Move` says what such a step may do, a
  lemma per kind of step shows that it is one, `MovesKeep` that a move keeps `CInv`, and
  `MoveRefines` that it is a step or a stutter of `CameraSlot`. Reservation and release are the
  two steps that change the table.

Only model-checked: everything temporal (`EveryRequestEnds`, `StreamsEnd`, `ClosersReturn`,
`ServiceReturns`, `LinkComesUp`, `StatusRecovers`, `RevokedSocketCloses`,
`ConfiguredReturns`), since liveness under fairness is outside this prover. Every invariant
of a passing run and the refinement of `CameraSlot` are proved.

## 5. Not modelled, and what could come next

Not modelled, because they are validation, formatting and presentation without state of
their own that the service depends on: `config.py`, `metrics.py`, `camera_runner.py` (one
`execve`), the browser files, the pages and read-only views of `main.py`. Left out of modelled
parts:

- the payload fields of commands and the display-only normalisation of a report;
- `open_stream` and `consume_ticket` of `camera.py` and `rollback` of `admin.py`, which nothing calls;
- the validation of submitted documents and the password confirmation of an update, which
  uses the limiter under a key of its own;
- `SetupRateLimiter`, one fixed window in one critical section, and the validation of the
  setup form;
- retention and paging of the audit log: single SQL statements under one lock;
- the tar format, sizes and types of archive members: one nondeterministic rejection.

Known gaps, in the order in which they are worth closing:

1. The configuration reload composed with the camera manager: a stream that opens between
   the close of the cameras and the swap of the configuration (`main.py:990`) goes on under
   the old one. `CameraStreams` has the close, `ConfigUpdate` the swap, no module has both.
2. An edit of the file between the comparison of its digest and `os.replace`
   (`admin.py:436`) is lost. `ConfigUpdate` has it; nothing promises otherwise.
3. WebSockets that authenticate with Basic credentials are not looked at again after a
   change of the credentials; `WebFront` has them with token 0.
4. The updates of `SetupStore` are the steps of `ConfigUpdate` that others can tell apart, by
   construction; that `ConfigUpdate` implements them is not shown.
