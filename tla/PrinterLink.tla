---------------------------- MODULE PrinterLink -----------------------------
(***************************************************************************)
(* Connection and timers of one PrinterMqttClient (app/mqtt_client.py):    *)
(* start() and stop(), the timer threads that look for the pinned          *)
(* certificate, paho's thread with its callbacks, and the timer threads    *)
(* that ask for the full state again.  start() and stop() are called one   *)
(* after the other, the threads run between any two of their steps; a      *)
(* step ends where a thread reads or writes what another one writes.       *)
(*                                                                         *)
(* What else the messages do is in module CommandPath.  A refresh period   *)
(* of 0 (full_refresh_seconds), which turns the refresh timers off, is not *)
(* modelled.  paho is external:                                            *)
(* loop_start() starts the thread unless there is one, disconnect() and    *)
(* loop_stop() make it leave, loop_stop() joins it, and tls_set_context()  *)
(* raises when there is a context already.                                 *)
(***************************************************************************)
EXTENDS Naturals, FiniteSets

CONSTANTS
    Pins,       \* timers of _schedule_pin_retry
    Refreshes,  \* timers of _schedule_full_refresh
    Pinned,     \* the certificate is pinned: no TLS context before start()
    MaxStarts,  \* bound on calls of start()
    MaxDrops    \* bound on lost connections

NoTimer == "none"

ASSUME LinkAssumption ==
    /\ NoTimer \notin Pins \cup Refreshes
    /\ Pinned \in BOOLEAN
    /\ MaxStarts \in Nat /\ MaxDrops \in Nat

VARIABLES
    control,     \* the caller of start() and stop(): where it is, and the timer it read
    stopping,    \* _stopping
    context,     \* the client has a TLS context
    configured,  \* _tls_context_configured
    pin_timer,   \* _pin_retry_timer
    refresh_timer,
    probe,       \* per pin timer: where its thread is; "armed" before it fires
    refresher,   \* per refresh timer: the same, and the timer it read
    loop,        \* paho's thread: the same
    leaving,     \* the thread was told to end
    tls_failed,  \* _tls_failed
    status,      \* the connection state of the store
    complete,    \* _complete of the store: shown as "partial" when it is missing
    starts, drops,
    late,        \* history: how far a probe was when stop() set _stopping
    bare         \* history: the last _on_connect found _stopping set

timers == <<pin_timer, refresh_timer>>
link_vars == <<stopping, context, configured, leaving, tls_failed, status, complete>>
bounds == <<starts, drops, late, bare>>
vars == <<control, link_vars, timers, probe, refresher, loop, bounds>>

Ready(where) == [pc |-> where, seen |-> NoTimer]
NoProbe == "none"

\* Timer.cancel() of a timer that has not fired.
PinCancelled(t) == [p \in Pins |-> IF p = t /\ probe[p] = "armed" THEN NoProbe ELSE probe[p]]
RefreshCancelled(t) ==
    [r \in Refreshes |-> IF r = t /\ refresher[r].pc = "armed" THEN Ready("none")
                                                             ELSE refresher[r]]

\* A new timer: one that is not in use, which one does not matter.
ArmPin(p) ==
    /\ probe[p] = NoProbe
    /\ p = CHOOSE free \in Pins : probe[free] = NoProbe
    /\ pin_timer' = p

(***************************************************************************)
(* start() and stop().                                                     *)
(***************************************************************************)
mark_connection(state) ==
    /\ status' = state
    /\ complete' = IF state = "online" THEN complete ELSE FALSE

ControlStep(where) == control.pc = where
ControlGoes(where) == control' = Ready(where)

\* mark_connection; the manager starts its workers once and after an update that failed.
Start ==
    /\ control.pc \in {"new", "stopped"}
    /\ starts < MaxStarts
    /\ starts' = starts + 1
    /\ ControlGoes("clear")
    /\ mark_connection("connecting")
    /\ late' = "no"
    /\ UNCHANGED <<stopping, context, configured, leaving, tls_failed, timers, probe, refresher,
                   loop, drops, bare>>

ClearStopping ==
    /\ ControlStep("clear")
    /\ stopping' = FALSE
    /\ ControlGoes("begin")
    /\ UNCHANGED <<context, configured, leaving, tls_failed, status, complete, timers, probe,
                   refresher, loop, bounds>>

\* connect_async() and loop_start().
StartLoop ==
    IF loop.pc = "none" THEN loop' = Ready("connecting") /\ leaving' = FALSE
                        ELSE UNCHANGED <<loop, leaving>>

\* Mutation: the connection is opened while the certificate is still looked for.
ConnectWhileProbing ==
    /\ ControlStep("begin")
    /\ ~configured
    /\ \E p \in Pins : ArmPin(p) /\ probe' = [probe EXCEPT ![p] = "armed"]
    /\ StartLoop
    /\ ControlGoes("started")
    /\ UNCHANGED <<stopping, context, configured, tls_failed, status, complete, refresh_timer,
                   refresher, bounds>>

\* _schedule_pin_retry(delay=0).
ScheduleFirstProbe ==
    /\ ControlStep("begin")
    /\ ~configured
    /\ \E p \in Pins : ArmPin(p) /\ probe' = [probe EXCEPT ![p] = "armed"]
    /\ ControlGoes("started")
    /\ UNCHANGED <<link_vars, refresh_timer, refresher, loop, bounds>>

StartConfigured ==
    /\ ControlStep("begin")
    /\ configured
    /\ StartLoop
    /\ ControlGoes("started")
    /\ UNCHANGED <<stopping, context, configured, tls_failed, status, complete, timers, probe,
                   refresher, bounds>>

\* Past its last look at _stopping a probe cannot be held back any more.
LateProbes ==
    IF \E p \in Pins : probe[p] \in {"context", "starting"} THEN "starting"
    ELSE IF \E p \in Pins : probe[p] \in {"probing", "failed"} THEN "probing" ELSE "no"

Stop ==
    /\ ControlStep("started")
    /\ stopping' = TRUE
    /\ late' = LateProbes
    /\ control' = [pc |-> "pin", seen |-> pin_timer]
    /\ UNCHANGED <<context, configured, leaving, tls_failed, status, complete, timers, probe,
                   refresher, loop,
                   starts, drops, bare>>

CancelPin ==
    /\ ControlStep("pin")
    /\ pin_timer' = NoTimer
    /\ probe' = PinCancelled(control.seen)
    /\ control' = [pc |-> "refresh", seen |-> refresh_timer]
    /\ UNCHANGED <<link_vars, refresh_timer, refresher, loop, bounds>>

\* _cancel_full_refresh, after the timer was read.
CancelRefresh(seen) == refresh_timer' = NoTimer /\ refresher' = RefreshCancelled(seen)

StopCancelsRefresh ==
    /\ ControlStep("refresh")
    /\ CancelRefresh(control.seen)
    /\ ControlGoes("disconnect")
    /\ UNCHANGED <<link_vars, pin_timer, probe, loop, bounds>>

\* disconnect(), then loop_stop(), which waits for the thread.
StopDisconnects ==
    /\ control.pc \in {"disconnect", "join"}
    /\ leaving' = TRUE
    /\ ControlGoes(IF ControlStep("disconnect") THEN "join" ELSE "joining")
    /\ UNCHANGED <<stopping, context, configured, tls_failed, status, complete, timers, probe,
                   refresher, loop, bounds>>

\* Mutation: loop_stop() does not wait.
StopWithoutJoin ==
    /\ ControlStep("joining")
    /\ mark_connection("stopped")
    /\ ControlGoes("stopped")
    /\ UNCHANGED <<stopping, context, configured, leaving, tls_failed, timers, probe, refresher,
                   loop, bounds>>

\* A thread that does not leave was started after the one waited for had ended.
Stopped ==
    /\ ControlStep("joining")
    /\ loop.pc = "none" \/ ~leaving
    /\ mark_connection("stopped")
    /\ ControlGoes("stopped")
    /\ UNCHANGED <<stopping, context, configured, leaving, tls_failed, timers, probe, refresher,
                   loop, bounds>>

(***************************************************************************)
(* _start_pinned_connection, on the thread of a pin timer.                 *)
(***************************************************************************)
ProbeStep(p, where, next) ==
    /\ probe[p] = where
    /\ probe' = [probe EXCEPT ![p] = next]
    /\ UNCHANGED <<control, stopping, tls_failed, refresh_timer, refresher, bounds>>
SameLink == UNCHANGED <<context, configured, leaving, status, complete, loop>>

PinFires(p) ==
    /\ ProbeStep(p, "armed", IF stopping THEN NoProbe ELSE "probing")
    /\ UNCHANGED pin_timer /\ SameLink

\* Mutation: a probe that fails is the last one.
ProbeGivesUp(p) ==
    /\ ProbeStep(p, "probing", NoProbe)
    /\ mark_connection("offline")
    /\ UNCHANGED <<context, configured, leaving, loop, pin_timer>>

\* No answer or another certificate.
ProbeFails(p) ==
    /\ ProbeStep(p, "probing", "failed")
    /\ mark_connection("offline")
    /\ UNCHANGED <<context, configured, leaving, loop, pin_timer>>

\* _schedule_pin_retry(delay=10): its look at _stopping ...
RetryWanted(p) ==
    /\ ProbeStep(p, "failed", IF stopping THEN NoProbe ELSE "retry")
    /\ UNCHANGED pin_timer /\ SameLink

\* ... and the new timer.
Retry(p) ==
    /\ \E q \in Pins \ {p} :
           /\ ArmPin(q)
           /\ probe' = [probe EXCEPT ![q] = "armed", ![p] = NoProbe]
    /\ probe[p] = "retry"
    /\ UNCHANGED <<control, stopping, tls_failed, refresh_timer, refresher, bounds>> /\ SameLink

ProbeSucceeds(p) ==
    /\ ProbeStep(p, "probing", IF stopping THEN NoProbe ELSE "context")
    /\ UNCHANGED pin_timer /\ SameLink

\* Mutation: the connection is not opened.
SetContextOnly(p) ==
    /\ ProbeStep(p, "context", NoProbe)
    /\ context' = TRUE
    /\ configured' = TRUE
    /\ pin_timer' = IF context THEN pin_timer ELSE NoTimer
    /\ UNCHANGED <<leaving, status, complete, loop>>

\* tls_set_context(); another probe may have been first.  The two assignments after it
\* are in the same step: a start() or stop() that reads configured or pin_timer between
\* them goes on like one that read it before the context was set.
SetContext(p) ==
    /\ ProbeStep(p, "context", IF context THEN NoProbe ELSE "starting")
    /\ context' = TRUE
    /\ configured' = TRUE
    /\ pin_timer' = IF context THEN pin_timer ELSE NoTimer
    /\ UNCHANGED <<leaving, status, complete, loop>>

PinnedStart(p) ==
    /\ ProbeStep(p, "starting", NoProbe)
    /\ StartLoop
    /\ UNCHANGED <<context, configured, status, complete, pin_timer>>

(***************************************************************************)
(* paho's thread.                                                          *)
(***************************************************************************)
LoopStep(where, next) ==
    /\ loop.pc = where
    /\ loop' = next
    /\ UNCHANGED <<control, stopping, context, configured, leaving, pin_timer, probe>>
SameRefresh == UNCHANGED <<refresh_timer, refresher>>

\* _on_connect_fail.
ConnectFails ==
    /\ LoopStep("connecting", loop)
    /\ mark_connection("offline")
    /\ SameRefresh /\ UNCHANGED <<tls_failed, bounds>>

\* _on_connect with a refusal; the printer breaks the connection, and _on_disconnect
\* returns early when the last certificate did not match.
Refused ==
    /\ LoopStep("connecting", Ready(IF tls_failed THEN "connecting" ELSE "lost"))
    /\ mark_connection("error")
    /\ SameRefresh /\ UNCHANGED <<tls_failed, bounds>>

\* _on_connect: the certificate matches, online, the requests, then
\* _schedule_full_refresh in four steps.
Connects ==
    /\ ~leaving
    /\ LoopStep("connecting", Ready("read"))
    /\ tls_failed' = FALSE
    /\ mark_connection("online")
    /\ SameRefresh /\ UNCHANGED bounds

\* _on_connect: it does not, and disconnect() ends the thread.
Mismatch ==
    /\ ~leaving /\ Pinned
    /\ LoopStep("connecting", Ready("dropping"))
    /\ tls_failed' = TRUE
    /\ mark_connection("error")
    /\ SameRefresh /\ UNCHANGED bounds

\* Mutation: a report does not touch the connection state.
MergedKept(full) == complete' = (complete \/ full) /\ UNCHANGED status

\* apply_report.
Merged(full) == complete' = (complete \/ full) /\ status' = "online"

\* The printer reports what it likes, when it likes (external).
Report ==
    /\ LoopStep("up", loop)
    /\ \E full \in BOOLEAN : Merged(full)
    /\ SameRefresh /\ UNCHANGED <<tls_failed, bounds>>

LoopReads ==
    /\ \/ LoopStep("read", [pc |-> "cancel", seen |-> refresh_timer])
       \/ LoopStep("lost", [pc |-> "cancelLost", seen |-> refresh_timer])
    /\ SameRefresh /\ UNCHANGED <<tls_failed, status, complete, bounds>>

LoopCancels ==
    /\ LoopStep("cancel", Ready("check"))
    /\ CancelRefresh(loop.seen)
    /\ UNCHANGED <<tls_failed, status, complete, bounds>>

LoopChecks ==
    /\ LoopStep("check", Ready(IF stopping THEN "up" ELSE "arm"))
    /\ bare' = stopping
    /\ SameRefresh /\ UNCHANGED <<tls_failed, status, complete, starts, drops, late>>

\* A new refresh timer, one that is not in use.
ArmRefresh(old) ==
    \E r \in Refreshes :
        /\ old[r].pc = "none"
        /\ r = CHOOSE free \in Refreshes : old[free].pc = "none"
        /\ refresh_timer' = r
        /\ refresher' = [old EXCEPT ![r] = Ready("armed")]

LoopArms ==
    /\ LoopStep("arm", Ready("up"))
    /\ ArmRefresh(refresher)
    /\ UNCHANGED <<tls_failed, status, complete, bounds>>

\* The connection breaks, or is given up: _on_disconnect, which reads and cancels the timer.
Breaks ==
    /\ LoopStep("up", Ready("lost"))
    /\ IF leaving THEN UNCHANGED drops ELSE drops < MaxDrops /\ drops' = drops + 1
    /\ SameRefresh /\ UNCHANGED <<tls_failed, status, complete, starts, late, bare>>

Broken ==
    /\ LoopStep("cancelLost", Ready("connecting"))
    /\ CancelRefresh(loop.seen)
    /\ mark_connection("offline")
    /\ UNCHANGED <<tls_failed, bounds>>

LoopEnds ==
    /\ \/ leaving /\ LoopStep("connecting", Ready("none"))
       \/ LoopStep("dropping", Ready("none"))
    /\ SameRefresh /\ UNCHANGED <<tls_failed, status, complete, bounds>>

(***************************************************************************)
(* _refresh_full_state, on the thread of a refresh timer.                  *)
(***************************************************************************)
RefreshStep(r, where, next) ==
    /\ refresher[r].pc = where
    /\ refresher' = [refresher EXCEPT ![r] = next]
    /\ UNCHANGED <<control, link_vars, pin_timer, probe, loop, bounds>>

\* The request is published, unless there is no connection or _stopping is set.
RefreshFires(r) ==
    /\ RefreshStep(r, "armed", IF stopping THEN Ready("none") ELSE Ready("read"))
    /\ UNCHANGED refresh_timer

\* The same, and the printer answers the request with its full state (external).  An
\* answer that takes its time is a Report.
RefreshAnswered(r) ==
    /\ ~stopping /\ loop.pc = "up"
    /\ refresher[r].pc = "armed"
    /\ refresher' = [refresher EXCEPT ![r] = Ready("read")]
    /\ Merged(TRUE)
    /\ UNCHANGED <<control, stopping, context, configured, leaving, tls_failed, timers, probe,
                   loop, bounds>>

\* Mutation: a request that raised is the last one.
RefreshGivesUp(r) ==
    /\ \/ RefreshStep(r, "read", [pc |-> "cancel", seen |-> refresh_timer])
       \/ RefreshStep(r, "read", Ready("none"))
    /\ UNCHANGED refresh_timer

\* finally: _schedule_full_refresh.
RefreshReads(r) ==
    /\ RefreshStep(r, "read", [pc |-> "cancel", seen |-> refresh_timer])
    /\ UNCHANGED refresh_timer

RefreshCancels(r) ==
    /\ refresher[r].pc = "cancel"
    /\ refresh_timer' = NoTimer
    /\ refresher' = [RefreshCancelled(refresher[r].seen) EXCEPT ![r] = Ready("check")]
    /\ UNCHANGED <<control, link_vars, pin_timer, probe, loop, bounds>>

RefreshChecks(r) ==
    /\ RefreshStep(r, "check", Ready(IF stopping THEN "none" ELSE "arm"))
    /\ UNCHANGED refresh_timer

RefreshArms(r) ==
    /\ refresher[r].pc = "arm"
    /\ ArmRefresh([refresher EXCEPT ![r] = Ready("none")])
    /\ UNCHANGED <<control, link_vars, pin_timer, probe, loop, bounds>>

-----------------------------------------------------------------------------
Init ==
    /\ control = Ready("new")
    /\ stopping = FALSE
    /\ context = ~Pinned
    /\ configured = ~Pinned
    /\ pin_timer = NoTimer
    /\ refresh_timer = NoTimer
    /\ probe = [p \in Pins |-> NoProbe]
    /\ refresher = [r \in Refreshes |-> Ready("none")]
    /\ loop = Ready("none")
    /\ leaving = FALSE /\ tls_failed = FALSE
    /\ status = "starting" /\ complete = FALSE
    /\ starts = 0 /\ drops = 0
    /\ late = "no" /\ bare = FALSE

Control ==
    \/ ClearStopping \/ ScheduleFirstProbe \/ StartConfigured
    \/ CancelPin \/ StopCancelsRefresh \/ StopDisconnects \/ Stopped

Probe(p) ==
    \/ PinFires(p) \/ RetryWanted(p) \/ Retry(p) \/ ProbeSucceeds(p) \/ ProbeFails(p)
    \/ SetContext(p) \/ PinnedStart(p)

Callback == LoopReads \/ LoopCancels \/ LoopChecks \/ LoopArms \/ Broken \/ LoopEnds
            \/ (leaving /\ Breaks)

Refresh(r) ==
    \/ RefreshFires(r) \/ RefreshReads(r) \/ RefreshCancels(r) \/ RefreshChecks(r)
    \/ RefreshArms(r) \/ RefreshAnswered(r)

Next ==
    \/ Start \/ Stop \/ Control
    \/ Callback \/ ConnectFails \/ Refused \/ Connects \/ Mismatch \/ Breaks
    \/ Report
    \/ \E p \in Pins : Probe(p)
    \/ \E r \in Refreshes : Refresh(r)

Spec == Init /\ [][Next]_vars

\* Calls go on, threads run and timers fire.  Of the printer two things are assumed:
\* probed often enough it answers with its certificate, and asked often enough for its
\* full state it sends it.
FairSpec ==
    /\ Spec
    /\ WF_vars(Control)
    /\ WF_vars(Callback)
    /\ \A p \in Pins : WF_vars(Probe(p)) /\ SF_vars(ProbeSucceeds(p))
    /\ \A r \in Refreshes : WF_vars(Refresh(r))
    /\ SF_vars(\E r \in Refreshes : RefreshAnswered(r))

-----------------------------------------------------------------------------
ControlRecords ==
    [pc : {"new", "clear", "begin", "started", "pin", "refresh", "disconnect", "join",
           "joining", "stopped"},
     seen : Pins \cup Refreshes \cup {NoTimer}]
ProbeStates == {NoProbe, "armed", "probing", "failed", "retry", "context", "starting"}
RefresherRecords == [pc : {"none", "armed", "read", "cancel", "check", "arm"},
                     seen : Refreshes \cup {NoTimer}]
LoopRecords ==
    [pc : {"none", "connecting", "read", "cancel", "check", "arm", "up", "lost",
           "cancelLost", "dropping"},
     seen : Refreshes \cup {NoTimer}]

\* Every variable has its type.
TypeOK ==
    /\ control \in ControlRecords
    /\ stopping \in BOOLEAN /\ context \in BOOLEAN /\ configured \in BOOLEAN
    /\ leaving \in BOOLEAN /\ tls_failed \in BOOLEAN /\ bare \in BOOLEAN
    /\ complete \in BOOLEAN
    /\ pin_timer \in Pins \cup {NoTimer}
    /\ refresh_timer \in Refreshes \cup {NoTimer}
    /\ probe \in [Pins -> ProbeStates]
    /\ refresher \in [Refreshes -> RefresherRecords]
    /\ loop \in LoopRecords
    /\ status \in {"starting", "connecting", "offline", "online", "error", "stopped"}
    /\ starts \in 0 .. MaxStarts /\ drops \in 0 .. MaxDrops
    /\ late \in {"no", "probing", "starting"}

\* "The leaf pin is established [...] before Paho opens a connection that could carry the
\* LAN access code": no thread of paho without a TLS context.
PinBeforeConnect == loop.pc # "none" => context

\* After stop() nothing is connected and the state says so, until the next start().  A
\* probe that had looked at _stopping for the last time is the exception: it may still
\* start the connection, and one under way may still report its failure.
StopIsStop ==
    control.pc = "stopped" =>
        /\ loop.pc # "none" => late = "starting"
        /\ status # "stopped" => late # "no"

\* While the client is started it is connected, connecting, or will probe again, unless
\* the certificate of a connection did not match.
LinkNotForgotten ==
    control.pc = "started" =>
        loop.pc # "none" \/ tls_failed \/ \E p \in Pins : probe[p] # NoProbe

\* While the connection is up, a timer will ask for the full state or a thread is about
\* to set one, whatever callbacks, refreshes and stop() have cancelled meanwhile.  The
\* exception is a connection a late probe opened after stop(): _on_connect sets no timer
\* then, and a start() that finds the thread running does not either.
RefreshNotForgotten ==
    control.pc = "started" /\ loop.pc = "up" /\ ~bare =>
        \E r \in Refreshes : refresher[r].pc # "none"

\* A client that stays started gets as far as paho's thread, which connects and
\* reconnects from then on; whether the printer lets it is not said.
LinkComesUp == <>[](control.pc = "started") => <>(loop.pc # "none")

\* A connection that lasts is shown as online and complete, also when a probe from
\* before a restart fails while it is up, which marks the printer offline and drops the
\* complete state: the refresh timers ask for the full state until it comes.  A
\* connection that a late probe opened has no timer and is excepted.
StatusRecovers ==
    <>[](loop.pc = "up" /\ ~bare) => <>[](status = "online" /\ complete)
=============================================================================
