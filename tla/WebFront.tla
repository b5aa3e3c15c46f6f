------------------------------ MODULE WebFront ------------------------------
(***************************************************************************)
(* websocket_endpoint of app/main.py with websocket_user and               *)
(* WebSocketIdentity of app/web.py, where sessions and snapshots meet: a   *)
(* connection gets every newer state as long as its session lives, and     *)
(* nothing afterwards.  A configuration update exchanges the manager and   *)
(* may replace all sessions.                                               *)
(***************************************************************************)
EXTENDS EventHub, WebSessions, FiniteSets

\* pc: "accepting" in accept(), "sending" in send_json(), "waiting" in asyncio.wait(),
\* "woken" in gather().  token: identity.session_token, 0 for Basic credentials.
\* shown: the last snapshot sent.  got: state_task's result, 0 for none.
\* gone: receive_task saw the disconnect.  due: next_revalidation has come.
\* since: history, the number of changes when the session of the connection ended.
VARIABLES
    socket,
    rotating    \* the update under way has changed the credentials

front_vars == <<socket, rotating>>
vars == <<hub_vars, session_vars, front_vars>>

NoSocket == [pc |-> "none", token |-> 0, shown |-> 0, got |-> 0, gone |-> FALSE,
             due |-> FALSE, since |-> 0]
SocketRecords == [pc : {"none", "accepting", "sending", "waiting", "woken"},
                  token : 0 .. MaxIssued, shown : 0 .. MaxChanges, got : 0 .. MaxChanges,
                  gone : BOOLEAN, due : BOOLEAN, since : 0 .. MaxChanges]

is_current(s) == socket[s].token = 0 \/ socket[s].token \in Live
SocketAt(s, where) == socket[s].pc = where

\* The sessions that leave the store in this step are remembered with their connections.
NoteRevocations ==
    socket' = [s \in Sockets |->
                  IF socket[s].token \in Live \ TokensOf(sessions')
                  THEN [socket[s] EXCEPT !.since = changes] ELSE socket[s]]

(***************************************************************************)
(* websocket_endpoint.                                                     *)
(***************************************************************************)
HubKeeps == UNCHANGED <<changes, version, candidate, retired, reload, caller, scheduled,
                        newest, outdated>>
Others == UNCHANGED <<session_vars, rotating>>

\* websocket_user: by a session cookie or by Basic credentials.
Connect(s, token) ==
    /\ SocketAt(s, "none")
    /\ token \in Live \cup {0}
    /\ socket' = [socket EXCEPT ![s].pc = "accepting", ![s].token = token]
    /\ UNCHANGED hub_vars /\ Others

\* The connection ends: finally, unsubscribe.
Leave(s) ==
    /\ socket' = [socket EXCEPT ![s] = NoSocket]
    /\ subscribed' = subscribed \ {s}
    /\ queues' = [queues EXCEPT ![s] = <<>>]
    /\ HubKeeps /\ Others

Show(s, snapshot) ==
    socket' = [socket EXCEPT ![s] = [@ EXCEPT !.pc = "sending", !.shown = snapshot,
                                              !.got = 0, !.due = FALSE]]

\* Accepted: the queue first, then the snapshot.
Subscribe(s) ==
    /\ SocketAt(s, "accepting")
    /\ is_current(s)
    /\ subscribed' = subscribed \cup {s}
    /\ Show(s, version)
    /\ UNCHANGED queues /\ HubKeeps /\ Others

Refuse(s) == SocketAt(s, "accepting") /\ ~is_current(s) /\ Leave(s)

Sent(s) ==
    /\ SocketAt(s, "sending")
    /\ socket' = [socket EXCEPT ![s].pc = "waiting"]
    /\ UNCHANGED hub_vars /\ Others

SendFails(s) == SocketAt(s, "sending") /\ Leave(s)

\* asyncio.wait returns with the snapshot of the queue, a message of the client, its
\* disconnect, or at next_revalidation, which only sessions have.  A get() that is
\* cancelled takes nothing.
Wake(s, take, client, due) ==
    /\ SocketAt(s, "waiting")
    /\ take => queues[s] # <<>>
    /\ due => socket[s].token # 0
    /\ take \/ due \/ client # "none"
    /\ socket' = [socket EXCEPT ![s] = [@ EXCEPT !.pc = "woken",
                                                 !.got = IF take THEN Head(queues[s]) ELSE 0,
                                                 !.gone = (client = "disconnect"),
                                                 !.due = due]]
    /\ queues' = [queues EXCEPT ![s] = IF take THEN <<>> ELSE @]
    /\ UNCHANGED subscribed /\ HubKeeps /\ Others

\* Mutation: only the interval decides about a revalidation.
MustLeaveWhenDue(s) == socket[s].gone \/ (socket[s].due /\ ~is_current(s))

\* Mutation: only a snapshot is a reason to look at the session.
MustLeaveBeforeSnapshots(s) == socket[s].gone \/ (socket[s].got # 0 /\ ~is_current(s))

\* The session is looked at when it is time, and before each snapshot.
MustLeave(s) ==
    socket[s].gone \/ ((socket[s].due \/ socket[s].got # 0) /\ ~is_current(s))

Disconnect(s) == SocketAt(s, "woken") /\ MustLeave(s) /\ Leave(s)

Forward(s) ==
    /\ SocketAt(s, "woken")
    /\ ~MustLeave(s)
    /\ IF socket[s].got # 0
       THEN Show(s, socket[s].got)
       ELSE socket' = [socket EXCEPT ![s] = [@ EXCEPT !.pc = "waiting", !.due = FALSE]]
    /\ UNCHANGED <<subscribed, queues>> /\ HubKeeps /\ Others

(***************************************************************************)
(* update_admin_config, as far as browsers notice it.                      *)
(***************************************************************************)
SwapManager(rotate) ==
    /\ Swap
    /\ rotating' = rotate
    /\ IF rotate THEN ChangeCredential ELSE UNCHANGED session_vars
    /\ UNCHANGED socket

\* Mutation: the sessions of the old credentials stay.
EndReloadKeeping ==
    /\ Reloaded
    /\ rotating' = FALSE
    /\ UNCHANGED <<session_vars, socket>>

EndReload ==
    /\ Reloaded
    /\ rotating' = FALSE
    /\ IF rotating THEN replace_all ELSE UNCHANGED session_vars
    /\ NoteRevocations

-----------------------------------------------------------------------------
Init ==
    /\ HubInit
    /\ SessionInit
    /\ socket = [s \in Sockets |-> NoSocket]
    /\ rotating = FALSE

Threads == \E c \in Callers : Change(c) \/ Snapshot(c) \/ publish_threadsafe(c)

HubStep == (Threads \/ publish \/ StopOld \/ StartOld)
           /\ UNCHANGED <<session_vars, front_vars>>

LimiterStep == WindowPasses \/ \E b \in Basics : BasicChecked(b) \/ BasicCompared(b)

LoginStep(l) ==
    \/ LoginBegins(l)
    \/ LoginFails(l)
    \/ \E cookie \in Live \cup {0} : LoginSucceeds(l, cookie)

SessionStep ==
    /\ \/ Expire
       \/ \E l \in Logins : LoginStep(l)
       \/ \E t \in Live : logout(t)
       \/ LimiterStep
    /\ NoteRevocations
    /\ UNCHANGED <<hub_vars, rotating>>

Revalidates(s) == \E take \in BOOLEAN : Wake(s, take, "none", TRUE)
Serves(s) == Subscribe(s) \/ Refuse(s) \/ Sent(s) \/ Disconnect(s) \/ Forward(s)

Client(s) ==
    \/ \E t \in 0 .. MaxIssued : Connect(s, t)
    \/ SendFails(s)
    \/ \E take, due \in BOOLEAN, event \in {"message", "disconnect"} :
           Wake(s, take, event, due)

Endpoint(s) == Serves(s) \/ Revalidates(s) \/ Wake(s, TRUE, "none", FALSE)

Next ==
    \/ HubStep
    \/ SessionStep
    \/ \E s \in Sockets : Endpoint(s) \/ Client(s)
    \/ \E rotate \in BOOLEAN : SwapManager(rotate)
    \/ EndReload

Spec == Init /\ [][Next]_vars

\* The loop and the threads run what can run, and a client takes what it is sent or its
\* connection breaks.  next_revalidation is a time that passes also when other events
\* keep interrupting the wait: strong fairness.
Fairness ==
    /\ WF_vars(publish /\ UNCHANGED <<session_vars, front_vars>>)
    /\ \A c \in Callers : WF_vars((Snapshot(c) \/ publish_threadsafe(c))
                                  /\ UNCHANGED <<session_vars, front_vars>>)
    /\ WF_vars(EndReload)
    /\ \A s \in Sockets : WF_vars(Serves(s) \/ SendFails(s)) /\ SF_vars(Revalidates(s))

FairSpec == Spec /\ Fairness

-----------------------------------------------------------------------------
\* Every variable has its type.
TypeOK ==
    /\ HubTypeOK
    /\ SessionTypeOK
    /\ socket \in [Sockets -> SocketRecords]
    /\ rotating \in BOOLEAN

\* Nothing is on its way to a browser.
Quiet(s) ==
    /\ SocketAt(s, "waiting")
    /\ queues[s] = <<>>
    /\ scheduled = <<>>
    /\ reload = "idle"
    /\ \A c \in Callers : caller[c].pc \in {"idle", "ended"}

\* When nothing is on its way any more, a browser shows the state of the manager that
\* is in service, also when it connected during a change or an update.  Two cases are
\* excepted, and recorded in outdated: a thread that was overtaken between its snapshot
\* and publish_threadsafe (or belongs to the old manager), and an update that was given
\* up, until the old manager connects.
ShowsNewest == \A s \in Sockets : Quiet(s) /\ ~outdated => socket[s].shown = version

\* A browser whose session ended, by logout, expiry, eviction or replacement, is sent
\* no state later than that.
RevokedSeesNoLater ==
    \A s \in Sockets : socket[s].since # 0 => socket[s].shown <= socket[s].since

\* After an update that changed the credentials only sessions of the new ones exist,
\* but for logins that had already begun to read their body.
SessionsCurrent ==
    reload = "idle" =>
        \A i \in DOMAIN sessions : sessions[i].under = credential \/ sessions[i].slow

\* The rate limit between two successes: of the wrong credentials that one client
\* address has presented since its last success, no more than this many fall into one
\* window, however many requests are between check and comparison at the same time and
\* whether they passed the check before that success or after it.  It is no bound on all
\* wrong credentials of a window: with a success, of any user behind the address,
\* reset_on_success clears the counter and the address starts another round.
GuessesBounded ==
    Len(guesses) <= MaxAttempts + (MaxAttempts + 1) * Cardinality(Basics)

\* A connection whose session ended is closed, also when no state changes any more.
RevokedSocketCloses ==
    \A s \in Sockets, t \in 1 .. MaxIssued :
        (socket[s].token = t /\ t \notin Live) ~> (socket[s].token # t)
=============================================================================
