---------------------------- MODULE CommandPath -----------------------------
(***************************************************************************)
(* The way of a write command through the service, for one printer:        *)
(*   app/manager.py     ControlManager.send_command and its gates,         *)
(*   app/commands.py    CommandBuilder.build,                              *)
(*   app/mqtt_client.py publish_and_wait, the pending table, on_message,   *)
(*                      on_connect, on_disconnect,                         *)
(*   app/state.py       through the module StateStore.                     *)
(*                                                                         *)
(* Every request is a thread of the server's pool; its program counter     *)
(* stops wherever send_command gives up a lock or waits, so that all other *)
(* threads can run there.  paho's network thread runs the callbacks one    *)
(* after the other (net is its position).  A sequence id is the pair of    *)
(* the request and the index of the command it built: CommandBuilder       *)
(* counts under a lock and never hands out a number twice.  Durations are  *)
(* abstract: "recent" holds during the 750 ms after a command was let      *)
(* through, and the 4 s and the 30 s waits may end at any time.            *)
(*                                                                         *)
(* The printer is external.  It may answer a command, late, twice after a  *)
(* QoS 1 retransmission, or not at all, may refuse it, and reports what it *)
(* likes; answers to other MQTT clients arrive on the same topic.          *)
(***************************************************************************)
EXTENDS StateStore

CONSTANTS
    Requests,     \* calls of send_command
    Calls,        \* what a request may ask for
    Writable,     \* config.writable
    Allowed,      \* config.allowed_commands
    Policy,       \* drying_printer_policy(config.model)
    ForeignNames, \* command words other MQTT clients use
    WireCap,      \* bound on printer messages in transit
    MaxDrops      \* bound on lost connections

CommandNames == {"pause", "resume", "stop", "speed", "light", "refresh_rfid",
                 "start_drying", "stop_drying", "camera_recording",
                 "camera_timelapse", "camera_resolution"}
DRYING_COMMANDS == {"start_drying", "stop_drying"}
SIGNED_PRINT_COMMANDS == {"pause", "resume", "stop", "speed", "refresh_rfid"} \cup DRYING_COMMANDS
Qos1 == {"pause", "resume", "stop"}
\* The command word of the payload; both drying commands share one.
ProtocolName(name) == IF name \in DRYING_COMMANDS THEN "ams_filament_drying" ELSE name
ProtocolNames == {ProtocolName(name) : name \in CommandNames}
Policies == {"supported", "experimental", "blocked", "unsupported"}

\* valid: CommandBuilder.build accepts the parameters; hot: temp > 65;
\* ack: experimental_ack; slot: the slot refresh_rfid names, 0 for all of them.
CallRecords == [name : CommandNames, unit : AmsIds, valid : BOOLEAN,
                hot : BOOLEAN, ack : BOOLEAN, slot : 0 .. MaxSlots]

NoOne == "free"   \* the command lock is not held

ASSUME CommandAssumption ==
    /\ Calls \subseteq CallRecords /\ Calls # {}
    /\ NoOne \notin Requests
    /\ Writable \in BOOLEAN
    /\ Allowed \subseteq CommandNames
    /\ Policy \in Policies
    /\ ForeignNames \subseteq ProtocolNames
    /\ WireCap \in Nat
    /\ MaxDrops \in Nat
    /\ MaxSlots >= 1

Slots == 1 .. MaxSlots
Ids == Requests \X Slots     \* sequence ids

VARIABLES
    pc,         \* where each request is
    call,       \* what it asked for
    slots,      \* number of commands it built
    pos,        \* index of the command being published
    acks,       \* acknowledgements, by index
    gen0,       \* dry_generation captured before publishing
    outcome,    \* the result written to the audit log
    lock,       \* holder of _command_locks[printer]
    recent,     \* less than 750 ms since _last_command_at
    pending,    \* _pending: per sequence id, what the holder contains
    net,        \* network thread: connection and callback it is about to run
    outbox,     \* commands on their way to the printer
    wire,       \* messages on their way to the service
    traffic,    \* messages the printer sent unasked, bounded by MaxReports
    drops,      \* connections lost, bounded by MaxDrops
    answered,   \* history: sequence ids the printer answered with success
    sentAt,     \* history: epoch when the generation was captured
    confirmedAt,\* history: epoch of the list that confirmed the request
    seenAt,     \* history: commands published before the request was validated
    published,  \* history: sequence ids published, in order
    fresh       \* history: groups of a full report heard of since the last CONNACK

requestVars == <<pc, call, slots, pos, acks, gen0, outcome, sentAt, confirmedAt,
                 seenAt>>
linkVars == <<net, outbox, wire, traffic, drops, answered, fresh>>
vars == <<storeVars, requestVars, lock, recent, pending, linkVars, published>>

PcStates == {"idle", "validate", "build", "risk", "lock", "register", "check",
             "publish", "await", "judge", "confirm", "done"}
AckValues == {"none", "success", "failed", "lost"}
Outcomes == {"none", "forbidden", "rejected", "rate_limited", "failed",
             "acknowledged", "timeout", "confirmed", "unconfirmed"}

Answer(id, name, result) == [kind |-> "ack", id |-> id, name |-> name, result |-> result]
Status(m) == [kind |-> "push_status", report |-> m]
Version(ids) == [kind |-> "get_version", ids |-> ids]
Messages == [kind : {"ack"}, id : Ids, name : ProtocolNames, result : {"success", "failed"}]
            \cup [kind : {"push_status"}, report : Reports]
            \cup [kind : {"get_version"}, ids : SUBSET AmsIds]

Goto(r, where) == pc' = [pc EXCEPT ![r] = where]
Record(r, result) == outcome' = [outcome EXCEPT ![r] = result]
Finish(r, result) == Goto(r, "done") /\ Record(r, result)
Connected == net \in {"connack", "up"}

(***************************************************************************)
(* The gates of send_command.                                              *)
(***************************************************************************)
Permitted(c) ==
    /\ Writable
    /\ c.name = "start_drying" => "stop_drying" \in Allowed
    /\ c.name \in Allowed

Printing == {"running", "printing", "prepare", "slicing"}
Paused == {"pause", "paused"}

\* The print states in which each command makes sense.
StatusAllows(c) ==
    /\ c.name = "pause" => raw.status \in Printing
    /\ c.name = "resume" => raw.status \in Paused
    /\ c.name \in {"stop", "speed"} => raw.status \in Printing \cup Paused
    /\ c.name = "start_drying" => raw.status = "idle"
    /\ c.name \in {"camera_recording", "camera_timelapse", "camera_resolution"} =>
           "camera" \in raw.ipcam

\* Mutation: stop_drying, too, needs Developer LAN mode.
StopNeedsLan(c) ==
    /\ Online /\ ~Partial
    /\ c.name \in SIGNED_PRINT_COMMANDS => raw.lan
    /\ StatusAllows(c)

validate_state(c) ==
    /\ Online /\ ~Partial
    /\ c.name \in SIGNED_PRINT_COMMANDS \ {"stop_drying"} => raw.lan
    /\ StatusAllows(c)

validate_drying_command(c) ==
    /\ Policy \in {"supported", "experimental"}
    /\ c.name = "start_drying" /\ Policy = "experimental" => c.ack
    /\ Shown(c.unit) # {}
    /\ DryCapable(c.unit)
    /\ c.name = "start_drying" =>
           /\ raw.lan
           /\ ShownDry(c.unit) <= 0
           /\ models[c.unit] = "AMS 2 Pro" => ~c.hot

\* _build_commands up to the separate reading by ams_operation_risk.
buildable(c) ==
    /\ c.valid
    /\ c.name \in DRYING_COMMANDS => validate_drying_command(c)
    /\ c.name = "refresh_rfid" =>
           /\ Shown(c.unit) # {}
           /\ ShownUnit(c.unit).slots > 0
           /\ c.slot <= ShownUnit(c.unit).slots
    /\ c.name = "light" => raw.lights
    /\ c.name = "camera_resolution" => "resolution" \in raw.ipcam

ams_operation_risk == raw.risk

CommandCount(c) ==
    IF c.name = "refresh_rfid" /\ c.slot = 0 THEN ShownUnit(c.unit).slots ELSE 1

\* Everything that can refuse the command, read from the current state.
Gates(c) ==
    /\ validate_state(c)
    /\ buildable(c)
    /\ c.name = "start_drying" => ~ams_operation_risk

(***************************************************************************)
(* send_command, step by step.                                             *)
(***************************************************************************)
unchangedByGate == <<storeVars, slots, pos, acks, gen0, sentAt, confirmedAt, seenAt,
                     lock, recent, pending, linkVars, published>>

Submit(r, c) ==
    /\ pc[r] = "idle"
    /\ call' = [call EXCEPT ![r] = c]
    /\ IF Permitted(c) THEN Goto(r, "validate") /\ UNCHANGED outcome
                       ELSE Finish(r, "forbidden")
    /\ UNCHANGED unchangedByGate

ValidateState(r) ==
    /\ pc[r] = "validate"
    /\ IF validate_state(call[r]) THEN Goto(r, "build") /\ UNCHANGED outcome
                                  ELSE Finish(r, "rejected")
    /\ seenAt' = [seenAt EXCEPT ![r] = Len(published)]
    /\ UNCHANGED <<storeVars, call, slots, pos, acks, gen0, sentAt, confirmedAt, lock,
                   recent, pending, linkVars, published>>

BuildCommands(r) ==
    /\ pc[r] = "build"
    /\ IF buildable(call[r])
       THEN /\ slots' = [slots EXCEPT ![r] = CommandCount(call[r])]
            /\ Goto(r, IF call[r].name = "start_drying" THEN "risk" ELSE "lock")
            /\ UNCHANGED outcome
       ELSE Finish(r, "rejected") /\ UNCHANGED slots
    /\ UNCHANGED <<storeVars, call, pos, acks, gen0, sentAt, confirmedAt, seenAt, lock,
                   recent, pending, linkVars, published>>

CheckOperationRisk(r) ==
    /\ pc[r] = "risk"
    /\ IF ams_operation_risk THEN Finish(r, "rejected")
                             ELSE Goto(r, "lock") /\ UNCHANGED outcome
    /\ UNCHANGED <<call, unchangedByGate>>

\* Mutation: the 750 ms test without the lock around it.
EnterUnlocked(r) ==
    /\ pc[r] = "lock"
    /\ IF recent
       THEN Finish(r, "rate_limited") /\ UNCHANGED <<lock, recent>>
       ELSE lock' = r /\ recent' = TRUE /\ Goto(r, "register") /\ UNCHANGED outcome
    /\ UNCHANGED <<storeVars, call, slots, pos, acks, gen0, sentAt, confirmedAt, seenAt,
                   pending, linkVars, published>>

\* Entering the command lock and the 750 ms test, which leaves it again.
EnterLock(r) ==
    /\ pc[r] = "lock"
    /\ lock = NoOne
    /\ IF recent
       THEN Finish(r, "rate_limited") /\ UNCHANGED <<lock, recent>>
       ELSE /\ lock' = r
            /\ recent' = TRUE
            /\ Goto(r, "register")
            /\ UNCHANGED outcome
    /\ UNCHANGED <<storeVars, call, slots, pos, acks, gen0, sentAt, confirmedAt, seenAt,
                   pending, linkVars, published>>

\* Capture the generation and enter the command into the pending table.
RegisterPending(r) ==
    /\ pc[r] = "register"
    /\ Goto(r, "check")
    /\ pending' = [pending EXCEPT ![<<r, pos[r]>>] = "empty"]
    /\ IF call[r].name \in DRYING_COMMANDS
       THEN /\ gen0' = [gen0 EXCEPT ![r] = generation[call[r].unit]]
            /\ sentAt' = [sentAt EXCEPT ![r] = epoch]
       ELSE UNCHANGED <<gen0, sentAt>>
    /\ UNCHANGED <<storeVars, call, slots, pos, acks, outcome, confirmedAt, seenAt, lock,
                   recent, linkVars, published>>

\* Mutation: publish_and_wait without its finally clause.
FailedKeepsPending(r) ==
    /\ lock' = NoOne
    /\ Finish(r, "failed")
    /\ UNCHANGED <<pending, published>>

\* Mutation: the error path leaves the lock taken.
FailedKeepsLock(r) ==
    /\ pending' = [pending EXCEPT ![<<r, pos[r]>>] = "absent"]
    /\ Finish(r, "failed")
    /\ UNCHANGED <<lock, published>>

\* The MqttPublishError path: out of the pending table and out of the lock.
PublishFailed(r) ==
    /\ pending' = [pending EXCEPT ![<<r, pos[r]>>] = "absent"]
    /\ lock' = NoOne
    /\ Finish(r, "failed")
    /\ UNCHANGED published

\* publish asks is_connected() first ...
CheckConnected(r) ==
    /\ pc[r] = "check"
    /\ IF Connected THEN Goto(r, "publish") /\ UNCHANGED <<outcome, pending, lock, published>>
                    ELSE PublishFailed(r)
    /\ UNCHANGED <<storeVars, call, slots, pos, acks, gen0, sentAt, confirmedAt, seenAt,
                   recent, linkVars>>

\* ... and the connection may be gone when paho's publish runs: it returns an
\* error code, but keeps a QoS 1 message for the next connection.
Publish(r) ==
    /\ pc[r] = "publish"
    /\ IF Connected
       THEN /\ outbox' = outbox \cup {<<r, pos[r]>>}
            /\ published' = Append(published, <<r, pos[r]>>)
            /\ Goto(r, "await")
            /\ UNCHANGED <<outcome, pending, lock>>
       ELSE /\ PublishFailed(r)
            /\ outbox' = IF call[r].name \in Qos1 THEN outbox \cup {<<r, pos[r]>>} ELSE outbox
    /\ UNCHANGED <<storeVars, call, slots, pos, acks, gen0, sentAt, confirmedAt, seenAt,
                   recent, net, wire, traffic, drops, answered, fresh>>

\* Mutation: one command more than was built.
ReturnedOneMore(r, ack) ==
    /\ acks' = [acks EXCEPT ![r][pos[r]] = ack]
    /\ pending' = [pending EXCEPT ![<<r, pos[r]>>] = "absent"]
    /\ IF pos[r] <= slots[r]
       THEN pos' = [pos EXCEPT ![r] = @ + 1] /\ Goto(r, "register") /\ UNCHANGED lock
       ELSE Goto(r, "judge") /\ lock' = NoOne /\ UNCHANGED pos
    /\ UNCHANGED <<storeVars, call, slots, gen0, outcome, sentAt, confirmedAt, seenAt,
                   recent, linkVars, published>>

\* Mutation: a missing answer ends the loop over the slots.
ReturnedGivesUp(r, ack) ==
    /\ acks' = [acks EXCEPT ![r][pos[r]] = ack]
    /\ pending' = [pending EXCEPT ![<<r, pos[r]>>] = "absent"]
    /\ IF pos[r] < slots[r] /\ ack # "none"
       THEN pos' = [pos EXCEPT ![r] = @ + 1] /\ Goto(r, "register") /\ UNCHANGED lock
       ELSE Goto(r, "judge") /\ lock' = NoOne /\ UNCHANGED pos
    /\ UNCHANGED <<storeVars, call, slots, gen0, outcome, sentAt, confirmedAt, seenAt,
                   recent, linkVars, published>>

\* publish_and_wait returns ack; the next command follows or the lock is left.
Returned(r, ack) ==
    /\ acks' = [acks EXCEPT ![r][pos[r]] = ack]
    /\ pending' = [pending EXCEPT ![<<r, pos[r]>>] = "absent"]
    /\ IF pos[r] < slots[r]
       THEN /\ pos' = [pos EXCEPT ![r] = @ + 1]
            /\ Goto(r, "register")
            /\ UNCHANGED lock
       ELSE Goto(r, "judge") /\ lock' = NoOne /\ UNCHANGED pos
    /\ UNCHANGED <<storeVars, call, slots, gen0, outcome, sentAt, confirmedAt, seenAt,
                   recent, linkVars, published>>

ReceiveAck(r) ==
    /\ pc[r] = "await"
    /\ pending[<<r, pos[r]>>] \in {"success", "failed", "lost"}
    /\ Returned(r, pending[<<r, pos[r]>>])

AckTimeout(r) ==
    /\ pc[r] = "await"
    /\ pending[<<r, pos[r]>>] = "empty"
    /\ Returned(r, "none")

Judge(r) ==
    /\ pc[r] = "judge"
    /\ IF \E k \in 1 .. slots[r] : acks[r][k] \in {"failed", "lost"}
       THEN Finish(r, "rejected")
       ELSE IF call[r].name \in DRYING_COMMANDS
       THEN Goto(r, "confirm") /\ UNCHANGED outcome
       ELSE Finish(r, IF \A k \in 1 .. slots[r] : acks[r][k] # "none"
                      THEN "acknowledged" ELSE "timeout")
    /\ UNCHANGED <<call, unchangedByGate>>

Reached(r) == DryingReached(call[r].unit, call[r].name = "start_drying", gen0[r])

ConfirmDrying(r) ==
    /\ pc[r] = "confirm"
    /\ Reached(r)
    /\ Finish(r, "confirmed")
    /\ confirmedAt' = [confirmedAt EXCEPT ![r] = unitsAt]
    /\ UNCHANGED <<storeVars, call, slots, pos, acks, gen0, sentAt, seenAt, lock, recent,
                   pending, linkVars, published>>

ConfirmTimeout(r) ==
    /\ pc[r] = "confirm"
    /\ ~Reached(r)
    /\ Finish(r, "unconfirmed")
    /\ UNCHANGED <<call, unchangedByGate>>

SpacingElapses ==
    /\ recent
    /\ recent' = FALSE
    /\ UNCHANGED <<storeVars, requestVars, lock, pending, linkVars, published>>

StoreBecomesStale ==
    /\ BecomesStale
    /\ UNCHANGED <<requestVars, lock, recent, pending, linkVars, published>>

(***************************************************************************)
(* The network thread.                                                     *)
(***************************************************************************)
\* paho processes CONNACK: is_connected() holds before on_connect has run.
ConnAck ==
    /\ net = "down"
    /\ net' = "connack"
    /\ fresh' = {}
    /\ UNCHANGED <<storeVars, requestVars, lock, recent, pending, outbox, wire, traffic,
                   drops, answered, published>>

on_connect ==
    /\ net = "connack"
    /\ net' = "up"
    /\ mark_connection("online")
    /\ UNCHANGED <<requestVars, lock, recent, pending, outbox, wire, traffic, drops,
                   answered, fresh, published>>

\* on_connect finds another certificate than the pinned one and disconnects for
\* good.  on_disconnect then returns at once: it marks nothing and leaves the
\* commands that were published since CONNACK to their own timeout.
CertificateRefused ==
    /\ net = "connack"
    /\ net' = "refused"
    /\ mark_connection("error")
    /\ UNCHANGED <<requestVars, lock, recent, pending, outbox, wire, traffic, drops,
                   answered, fresh, published>>

\* on_connect with a refusing return code, or on_connect_fail.
ConnectFails(state) ==
    /\ net = "down"
    /\ mark_connection(state)
    /\ UNCHANGED <<requestVars, lock, recent, pending, linkVars, published>>

\* The connection breaks; of the commands in transit some still arrive.
LinkDrops(kept) ==
    /\ net = "up"
    /\ drops < MaxDrops
    /\ net' = "lost"
    /\ drops' = drops + 1
    /\ wire' = <<>>
    /\ outbox' = kept
    /\ UNCHANGED <<storeVars, requestVars, lock, recent, pending, traffic, answered,
                   fresh, published>>

fail_pending == [id \in Ids |-> IF pending[id] = "absent" THEN "absent" ELSE "lost"]

on_disconnect ==
    /\ net = "lost"
    /\ net' = "down"
    /\ mark_connection("offline")
    /\ pending' = fail_pending
    /\ UNCHANGED <<requestVars, lock, recent, outbox, wire, traffic, drops, answered,
                   fresh, published>>

\* Mutation: an answer counts for the sequence id alone.
resolve_by_id(m) ==
    IF pending[m.id] # "absent" THEN [pending EXCEPT ![m.id] = m.result] ELSE pending

\* An answer counts for a registered command with the same sequence id and name.
resolve_pending(m) ==
    IF pending[m.id] # "absent" /\ m.name = ProtocolName(call[m.id[1]].name)
    THEN [pending EXCEPT ![m.id] = m.result]
    ELSE pending

on_message ==
    /\ net = "up"
    /\ wire # <<>>
    /\ wire' = Tail(wire)
    /\ LET m == Head(wire) IN
       \/ /\ m.kind = "ack"
          /\ pending' = resolve_pending(m)
          /\ UNCHANGED <<storeVars, fresh>>
       \/ /\ m.kind = "push_status"
          /\ apply_report(m.report)
          /\ fresh' = fresh \cup (DOMAIN m.report.body \cap FULL_STATUS_FIELD_GROUPS)
          /\ UNCHANGED pending
       \/ /\ m.kind = "get_version"
          /\ apply_version(m.ids)
          /\ UNCHANGED <<pending, fresh>>
    /\ UNCHANGED <<requestVars, lock, recent, net, outbox, traffic, drops, answered,
                   published>>

(***************************************************************************)
(* The printer and the other clients of its broker (external).             *)
(***************************************************************************)
CanTransmit == net = "up" /\ Len(wire) < WireCap

unchangedByPrinter == <<storeVars, requestVars, lock, recent, pending, net, drops,
                        fresh, published>>

\* A QoS 1 command may be delivered again, and be answered again.
PrinterAnswers(id, result, again) ==
    /\ CanTransmit
    /\ id \in outbox
    /\ again => call[id[1]].name \in Qos1
    /\ outbox' = IF again THEN outbox ELSE outbox \ {id}
    /\ wire' = Append(wire, Answer(id, ProtocolName(call[id[1]].name), result))
    /\ answered' = IF result = "success" THEN answered \cup {id} ELSE answered
    /\ UNCHANGED <<traffic, unchangedByPrinter>>

Unasked(m) ==
    /\ CanTransmit
    /\ traffic < MaxReports
    /\ traffic' = traffic + 1
    /\ wire' = Append(wire, m)
    /\ UNCHANGED <<outbox, answered, unchangedByPrinter>>

PrinterReports(m) == Unasked(Status(m))
PrinterNamesModules(ids) == Unasked(Version(ids))

\* Another client's command carries the number of one of ours.
OtherClientAnswered(id, name, result) ==
    /\ pc[id[1]] # "idle"
    /\ name # ProtocolName(call[id[1]].name)
    /\ Unasked(Answer(id, name, result))

-----------------------------------------------------------------------------
Init ==
    /\ StoreInit
    /\ pc = [r \in Requests |-> "idle"]
    /\ call = [r \in Requests |-> CHOOSE c \in Calls : TRUE]
    /\ slots = [r \in Requests |-> 1]
    /\ pos = [r \in Requests |-> 1]
    /\ acks = [r \in Requests |-> [k \in Slots |-> "none"]]
    /\ gen0 = [r \in Requests |-> 0]
    /\ outcome = [r \in Requests |-> "none"]
    /\ lock = NoOne
    /\ recent = FALSE
    /\ pending = [id \in Ids |-> "absent"]
    /\ net = "down"
    /\ outbox = {}
    /\ wire = <<>>
    /\ traffic = 0
    /\ drops = 0
    /\ answered = {}
    /\ sentAt = [r \in Requests |-> 0]
    /\ confirmedAt = [r \in Requests |-> 0]
    /\ seenAt = [r \in Requests |-> 0]
    /\ published = <<>>
    /\ fresh = {}

Thread(r) ==
    \/ ValidateState(r)
    \/ BuildCommands(r)
    \/ CheckOperationRisk(r)
    \/ EnterLock(r)
    \/ RegisterPending(r)
    \/ CheckConnected(r)
    \/ Publish(r)
    \/ ReceiveAck(r)
    \/ AckTimeout(r)
    \/ Judge(r)
    \/ ConfirmDrying(r)
    \/ ConfirmTimeout(r)

Network ==
    \/ ConnAck
    \/ on_connect
    \/ CertificateRefused
    \/ \E state \in {"error", "offline"} : ConnectFails(state)
    \/ \E kept \in SUBSET outbox : LinkDrops(kept)
    \/ on_disconnect
    \/ on_message

Printer ==
    \/ \E id \in outbox, result \in {"success", "failed"}, again \in BOOLEAN :
           PrinterAnswers(id, result, again)
    \/ \E m \in Reports : PrinterReports(m)
    \/ \E ids \in SUBSET AmsIds : PrinterNamesModules(ids)
    \/ \E id \in Ids, name \in ForeignNames, result \in {"success", "failed"} :
           OtherClientAnswered(id, name, result)

Next ==
    \/ \E r \in Requests, c \in Calls : Submit(r, c)
    \/ \E r \in Requests : Thread(r)
    \/ SpacingElapses
    \/ StoreBecomesStale
    \/ Network
    \/ Printer

Spec == Init /\ [][Next]_vars

\* A pool thread that can run is run, and both waits have a deadline.
FairSpec == Spec /\ \A r \in Requests : WF_vars(Thread(r))

-----------------------------------------------------------------------------
\* Every variable of the command path and of the store has its type: the index of
\* the command being published stays within the slots, the pending table holds
\* only what publish_and_wait, the answers and a disconnect write.
TypeOK ==
    /\ StoreTypeOK
    /\ pc \in [Requests -> PcStates]
    /\ call \in [Requests -> Calls]
    /\ slots \in [Requests -> Slots]
    /\ pos \in [Requests -> Slots]
    /\ acks \in [Requests -> [Slots -> AckValues]]
    /\ gen0 \in [Requests -> Nat]
    /\ outcome \in [Requests -> Outcomes]
    /\ lock \in Requests \cup {NoOne}
    /\ recent \in BOOLEAN
    /\ pending \in [Ids -> {"absent", "empty", "success", "failed", "lost"}]
    /\ net \in {"down", "connack", "up", "lost", "refused"}
    /\ outbox \in SUBSET Ids
    /\ wire \in Seq(Messages)
    /\ traffic \in 0 .. MaxReports
    /\ drops \in 0 .. MaxDrops
    /\ answered \in SUBSET Ids
    /\ sentAt \in [Requests -> Nat]
    /\ confirmedAt \in [Requests -> Nat]
    /\ seenAt \in [Requests -> Nat]
    /\ published \in Seq(Ids)
    /\ fresh \in SUBSET FULL_STATUS_FIELD_GROUPS

(***************************************************************************)
(* Safety.                                                                 *)
(***************************************************************************)
\* The pending table of the MQTT client holds at most the command that the
\* owner of the command lock is publishing: no path out of publish_and_wait
\* leaves an entry that a late answer or a disconnect could still write to.
PendingInFlight ==
    \A id \in Ids : pending[id] # "absent" =>
        /\ lock = id[1]
        /\ pc[id[1]] \in {"check", "publish", "await"}
        /\ pos[id[1]] = id[2]

\* A request is reported as acknowledged only when the printer answered every
\* command built for it with success, whatever late, repeated or foreign
\* answers arrived and whenever the connection broke.
AcknowledgedByPrinter ==
    \A r \in Requests : outcome[r] = "acknowledged" =>
        \A k \in 1 .. slots[r] : <<r, k>> \in answered

\* A drying command is reported as confirmed only on the strength of an AMS list
\* that reached the store after the command's generation was captured, never of
\* one that was there when the command entered the pending table.  The capture
\* comes before is_connected() and publish: a list that is merged between the two
\* confirms the command although the printer wrote it before the command came.
ConfirmedFresh ==
    \A r \in Requests : outcome[r] = "confirmed" => confirmedAt[r] > sentAt[r]

\* The commands one request builds for several slots leave the service in slot
\* order and without a command of another request between them.
BurstsContiguous ==
    \A i, j \in 1 .. Len(published) :
        (i < j /\ published[i][1] = published[j][1]) =>
            /\ published[i + 1] = <<published[i][1], published[i][2] + 1>>
            /\ published[j][2] - published[i][2] = j - i

PublishedOf(r) == {k \in Slots : \E i \in 1 .. Len(published) : published[i] = <<r, k>>}

\* What the audit log says about what left the service: nothing after forbidden
\* and rate_limited, every command after an answer, a missing answer or a
\* confirmation wait, and after failed exactly the commands before the one that
\* was not handed over (paho may keep that one, if it is QoS 1, for later).
AuditTellsWhatLeft ==
    \A r \in Requests :
        /\ outcome[r] \in {"forbidden", "rate_limited"} => PublishedOf(r) = {}
        /\ outcome[r] \in {"acknowledged", "timeout", "confirmed", "unconfirmed"} =>
               PublishedOf(r) = 1 .. slots[r]
        /\ outcome[r] = "failed" => PublishedOf(r) = 1 .. (pos[r] - 1)

\* The state counts as complete only when the printer named every group of a full
\* report on the current connection: the print status and the light nodes that the
\* gates read are never left over from before a reconnect.  Nothing is said of the
\* other fields they read (Developer LAN mode, camera, AMS list and movement):
\* a full report may lack them, and then the merged report keeps the old ones.
CompleteIsCurrent == (Connected /\ complete) => FULL_STATUS_FIELD_GROUPS \subseteq fresh

\* Whoever could start a drying run can stop it: as long as the printer is online
\* with a complete state and still reports the unit, stop_drying passes every
\* gate, whatever the print status, Developer LAN mode and the AMS do meanwhile.
StartedCanStop ==
    \A r \in Requests :
        LET stop == [call[r] EXCEPT !.name = "stop_drying"] IN
        /\ outcome[r] \in {"confirmed", "unconfirmed"}
        /\ call[r].name = "start_drying"
        /\ Online /\ ~Partial /\ Shown(call[r].unit) # {}
        => Permitted(stop) /\ Gates(stop)

(***************************************************************************)
(* Liveness and a claim of the documentation.                              *)
(***************************************************************************)
\* Every request that passed the permission check ends with an audit record:
\* no lost answer, lost connection or waiting thread blocks it for ever.
EveryRequestEnds == \A r \in Requests : (pc[r] = "validate") ~> (pc[r] = "done")

\* "Every write command ... passes ... current-state gates" (README.md:176): a
\* start_drying that queued behind another command is not let through to be
\* published for a unit that the store already shows drying.
QueuedStartSeesDryer ==
    [][\A r \in Requests :
          /\ pc[r] = "lock" /\ pc'[r] = "register"
          /\ call[r].name = "start_drying"
          /\ seenAt[r] < Len(published)
          => Shown(call[r].unit) # {} /\ ShownDry(call[r].unit) <= 0]_vars

(***************************************************************************)
(* The inductive invariant behind the safety theorems, in named parts.     *)
(***************************************************************************)
\* Exactly the requests inside publish_and_wait hold the command lock.
LockOwner ==
    \A r \in Requests : lock = r <=> pc[r] \in {"register", "check", "publish", "await"}

\* A counted dry_time since the capture came with a younger AMS list.
GenerationIsFresh ==
    \A r \in Requests :
        (pc[r] \in {"check", "publish", "await", "judge", "confirm"}
           /\ call[r].name \in DRYING_COMMANDS)
        => (generation[call[r].unit] > gen0[r] => unitsAt > sentAt[r])
           /\ sentAt[r] <= epoch

\* Only drying commands wait for a confirmation.
OnlyDryingConfirms ==
    \A r \in Requests : pc[r] = "confirm" => call[r].name \in DRYING_COMMANDS

\* The audit record of a command is written once, at its end.
OutcomeAtEnd == \A r \in Requests : outcome[r] # "none" => pc[r] = "done"

\* Nothing in transit belongs to a request that was not submitted.
OursOnly ==
    /\ \A id \in outbox : pc[id[1]] # "idle"
    /\ \A i \in 1 .. Len(wire) : wire[i].kind = "ack" =>
           pc[wire[i].id[1]] # "idle"

\* A success that is in transit, held or returned was given by the printer.
WireIsTrue ==
    \A i \in 1 .. Len(wire) :
        /\ wire[i].kind = "ack"
        /\ wire[i].result = "success"
        /\ wire[i].name = ProtocolName(call[wire[i].id[1]].name)
        => wire[i].id \in answered
PendingIsTrue == \A id \in Ids : pending[id] = "success" => id \in answered
AcksAreTrue == \A r \in Requests, k \in Slots : acks[r][k] = "success" => <<r, k>> \in answered

\* on_disconnect has withdrawn the complete state before the next CONNACK.
NothingKeptOffline == net = "down" => ~complete

IInv ==
    /\ TypeOK
    /\ LockOwner
    /\ PendingInFlight
    /\ OutcomeAtEnd
    /\ GenerationIsFresh
    /\ OnlyDryingConfirms
    /\ ConfirmedFresh
    /\ OursOnly
    /\ WireIsTrue
    /\ PendingIsTrue
    /\ AcksAreTrue
    /\ AcknowledgedByPrinter
    /\ NothingKeptOffline
    /\ CompleteIsCurrent
=============================================================================
