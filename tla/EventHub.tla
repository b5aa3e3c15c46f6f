------------------------------ MODULE EventHub ------------------------------
(***************************************************************************)
(* How a change of a printer's state reaches the browsers: class EventHub  *)
(* of app/web.py, the on_change callbacks app/main.py gives the managers,  *)
(* and the exchange of the manager by a configuration update.              *)
(*                                                                         *)
(* A snapshot is the number of the change it was taken after.  A thread    *)
(* changes the store, takes a snapshot and hands it to the loop in three   *)
(* steps; the loop gives it to the queues in a fourth.                     *)
(***************************************************************************)
EXTENDS Naturals, Sequences

CONSTANTS
    Sockets,     \* WebSocket connections, each with a queue of the hub
    Networks,    \* paho's threads, which a manager's stop() joins
    Probes,      \* pin probes of the first manager, which stop() leaves alone
    MaxChanges   \* bound on the changes of one behaviour

Reload == "reload"   \* the handler of a configuration update
Callers == Networks \cup Probes \cup {Reload}

ASSUME HubAssumption ==
    /\ Networks \cap Probes = {}
    /\ Reload \notin Networks \cup Probes
    /\ MaxChanges \in Nat \ {0}

VARIABLES
    changes,     \* number of changes so far
    version,     \* the last change of app.state.manager's store
    candidate,   \* the same of the manager an update has started
    retired,     \* the same of the manager an update has replaced
    reload,      \* where the update is
    caller,      \* per thread: where it is, and the snapshot it holds
    scheduled,   \* call_soon_threadsafe: snapshots on their way to the loop
    queues,      \* the subscribers' queues
    subscribed,  \* EventHub._queues
    newest,      \* history: newest snapshot of the current manager that was scheduled
    outdated     \* history: what was scheduled last was not the newest state then

hub_vars == <<changes, version, candidate, retired, reload, caller, scheduled, queues,
              subscribed, newest, outdated>>

Idle == [pc |-> "idle", snap |-> 0]
CallerRecords == [pc : {"idle", "changed", "holding", "ended"}, snap : 0 .. MaxChanges]

\* A probe that is still under way when its manager is replaced.
Late(c) == c \in Probes /\ retired # 0

(***************************************************************************)
(* A thread changes the store and announces it.                            *)
(***************************************************************************)
Change(c) ==
    /\ c # Reload
    /\ caller[c].pc = "idle"
    /\ changes < MaxChanges
    /\ changes' = changes + 1
    /\ UNCHANGED <<reload, scheduled, queues, subscribed, newest, outdated>>
    /\ IF c \in Networks /\ reload = "stopped"
       THEN \* the candidate's callback does nothing yet
            candidate' = changes + 1 /\ UNCHANGED <<version, retired, caller>>
       ELSE /\ caller' = [caller EXCEPT ![c].pc = "changed"]
            /\ IF Late(c) THEN retired' = changes + 1 /\ UNCHANGED <<version, candidate>>
                          ELSE version' = changes + 1 /\ UNCHANGED <<candidate, retired>>

\* The callback: a snapshot of the thread's own manager ...
Snapshot(c) ==
    /\ caller[c].pc = "changed"
    /\ caller' = [caller EXCEPT ![c] = [pc |-> "holding",
                                        snap |-> IF Late(c) THEN retired ELSE version]]
    /\ UNCHANGED <<changes, version, candidate, retired, reload, scheduled, queues,
                   subscribed, newest, outdated>>

Newer(a, b) == IF a < b THEN b ELSE a

\* ... which publish_threadsafe hands to the loop.
publish_threadsafe(c) ==
    /\ caller[c].pc = "holding"
    /\ scheduled' = Append(scheduled, caller[c].snap)
    /\ caller' = [caller EXCEPT ![c] = IF Late(c) THEN [Idle EXCEPT !.pc = "ended"] ELSE Idle]
    /\ newest' = IF Late(c) THEN newest ELSE Newer(newest, caller[c].snap)
    /\ outdated' = (Late(c) \/ caller[c].snap < newest)
    /\ UNCHANGED <<changes, version, candidate, retired, reload, queues, subscribed>>

(***************************************************************************)
(* The loop.                                                               *)
(***************************************************************************)
\* Mutation: a full queue keeps what it has.
publish_if_room ==
    /\ scheduled # <<>>
    /\ scheduled' = Tail(scheduled)
    /\ queues' = [s \in Sockets |->
                     IF s \in subscribed /\ queues[s] = <<>> THEN <<Head(scheduled)>> ELSE queues[s]]
    /\ UNCHANGED <<changes, version, candidate, retired, reload, caller, subscribed,
                   newest, outdated>>

\* _publish: the queues have room for one message, the newest replaces it.
publish ==
    /\ scheduled # <<>>
    /\ scheduled' = Tail(scheduled)
    /\ queues' = [s \in Sockets |-> IF s \in subscribed THEN <<Head(scheduled)>> ELSE queues[s]]
    /\ UNCHANGED <<changes, version, candidate, retired, reload, caller, subscribed,
                   newest, outdated>>

(***************************************************************************)
(* update_admin_config: another manager.                                   *)
(***************************************************************************)
\* old_manager.stop() joins the network threads; the candidate starts.  One exchange
\* per behaviour is enough: retired = 0 is the bound.  That stop() shows each printer
\* as stopped and publishes it is left out: one more snapshot of the same thread, before
\* the one of the candidate.
StopOld ==
    /\ reload = "idle"
    /\ retired = 0
    /\ \A c \in Networks : caller[c] = Idle
    /\ reload' = "stopped"
    /\ candidate' = 0
    /\ UNCHANGED <<changes, version, retired, caller, scheduled, queues, subscribed, newest,
                   outdated>>

\* The candidate or the commit fails: the old manager connects again, and nobody is
\* told until it has.
StartOld ==
    /\ reload = "stopped"
    /\ changes < MaxChanges
    /\ changes' = changes + 1
    /\ version' = changes + 1
    /\ newest' = changes + 1
    /\ outdated' = TRUE
    /\ reload' = "idle"
    /\ candidate' = 0
    /\ UNCHANGED <<retired, caller, scheduled, queues, subscribed>>

\* The managers are exchanged and the callback set; the handler will publish.
Swap ==
    /\ reload = "stopped"
    /\ candidate # 0     \* start() has marked its printers
    /\ reload' = "swapped"
    /\ version' = candidate
    /\ retired' = version
    /\ candidate' = 0
    /\ newest' = 0
    /\ caller' = [caller EXCEPT ![Reload].pc = "changed"]
    /\ UNCHANGED <<changes, scheduled, queues, subscribed, outdated>>

Reloaded ==
    /\ reload = "swapped"
    /\ caller[Reload] = Idle
    /\ reload' = "idle"
    /\ UNCHANGED <<changes, version, candidate, retired, caller, scheduled, queues,
                   subscribed, newest, outdated>>

HubInit ==
    /\ changes = 1
    /\ version = 1
    /\ candidate = 0
    /\ retired = 0
    /\ reload = "idle"
    /\ caller = [c \in Callers |-> Idle]
    /\ scheduled = <<>>
    /\ queues = [s \in Sockets |-> <<>>]
    /\ subscribed = {}
    /\ newest = 0
    /\ outdated = FALSE

HubTypeOK ==
    /\ {changes, version, candidate, retired, newest} \subseteq 0 .. MaxChanges
    /\ reload \in {"idle", "stopped", "swapped"}
    /\ caller \in [Callers -> CallerRecords]
    /\ scheduled \in Seq(1 .. MaxChanges)
    /\ queues \in [Sockets -> Seq(1 .. MaxChanges)]
    /\ \A s \in Sockets : Len(queues[s]) <= 1
    /\ subscribed \subseteq Sockets
    /\ outdated \in BOOLEAN
=============================================================================
