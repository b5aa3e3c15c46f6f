---------------------------- MODULE CameraStreams ---------------------------
(***************************************************************************)
(* app/camera.py, classes CameraStreamManager and CameraStream, with the   *)
(* camera and logout handlers of app/main.py that drive them.              *)
(*                                                                         *)
(* The server is one asyncio loop.  An action is what a task does between  *)
(* two awaits, or one section under the manager's lock.  (A free           *)
(* asyncio.Lock is taken without suspending, so that today some sections   *)
(* of one handler run together; the model lets other tasks in between      *)
(* them, which is what the lock and the comments of the code provide for.) *)
(*                                                                         *)
(* Of a stream, the task that opened it is modelled by the field pc, the   *)
(* one shared cleanup task by the field cleanup.  Everything is_authorized *)
(* reads besides the web session (camera enabled, model, TLS, online, not  *)
(* stale, RTSPS reported) is the printer's membership in ready.  Timeouts  *)
(* may fire at any time.  ffmpeg is external: it starts or not, sends or   *)
(* not, and may end.                                                       *)
(***************************************************************************)
EXTENDS Naturals, Sequences, FiniteSets

CONSTANTS
    Printers,
    Sessions,      \* web sessions, all of the one account
    Streams,       \* requests for /camera/stream
    Closers,       \* requests to stop, to log out, to reload or to shut down
    TicketCap,     \* MAX_CAMERA_TICKETS
    MaxTotal,      \* limits.max_total_sessions
    MaxRestarts,   \* limits.max_restarts
    MaxIssued      \* bound on the tickets of one behaviour

All == "all"       \* a closer that is about every stream

ASSUME CameraAssumption ==
    /\ Printers \cap Sessions = {}
    /\ All \notin Printers \cup Sessions
    /\ TicketCap \in Nat \ {0}
    /\ MaxTotal \in Nat \ {0}
    /\ MaxRestarts \in Nat
    /\ MaxIssued \in Nat

VARIABLES
    valid,      \* the web sessions SessionStore authenticates
    ready,      \* the printers whose camera may be watched
    tickets,    \* _tickets: numbered in the order they were issued
    grants,     \* history: the binding of every ticket ever issued
    registered, \* _sessions and, by the printer of each, _sessions_by_printer
    stream,     \* the CameraStream object of each request and its task
    closer      \* the task of each closer

managerVars == <<valid, ready, tickets, grants, registered>>
vars == <<managerVars, stream, closer>>

PcStates == {"idle", "arrived", "begin", "spawning", "discard", "first", "stopfailed",
             "killfailed", "ready", "iterate", "reading", "delivered", "stopold",
             "killold", "closing", "abandoned", "done"}

\* printer, session and ticket: what the request came with.  opening: start()
\* has not returned.  closed, buffered, restarts: _closed, _first_chunk is there,
\* _restarts.  expired: max_session_seconds are over.  plock: holder of
\* _process_lock.  process: the ffmpeg process, and held: _process refers to it.
\* cleanup: _close_task.  spawns: history, processes started.
NewStream == [pc |-> "idle", printer |-> All, session |-> All, ticket |-> 0,
              opening |-> TRUE, closed |-> FALSE, buffered |-> FALSE, restarts |-> 0,
              expired |-> FALSE, plock |-> "free", process |-> "gone", held |-> FALSE,
              cleanup |-> "none", spawns |-> 0]

\* aim: the printer of a stop, the session of a logout, or All.  todo, waits:
\* streams still to close and to wait for.  before: history, tickets issued when
\* the closer began.
NewCloser == [pc |-> "idle", aim |-> All, todo |-> {}, waits |-> {}, before |-> 0]

Authorized(s) == s.session \in valid /\ s.printer \in ready
Becomes(st, new) == stream' = [stream EXCEPT ![st] = new]
Step(st, where, new) ==
    /\ stream[st].pc = where
    /\ Becomes(st, new)
    /\ UNCHANGED <<managerVars, closer>>

(***************************************************************************)
(* Tickets.                                                                *)
(***************************************************************************)
\* All tickets but the oldest.
Newer(T) == {t \in T : \E older \in T : older.number < t.number}

\* POST camera/ticket: a new ticket replaces the one of the same printer and
\* session, and the oldest one when the table is full.
issue_ticket(p, s) ==
    /\ Len(grants) < MaxIssued
    /\ s \in valid /\ p \in ready
    /\ LET others == {t \in tickets : <<t.printer, t.session>> # <<p, s>>}
           kept == IF Cardinality(others) >= TicketCap THEN Newer(others) ELSE others
       IN tickets' = kept \cup {[number |-> Len(grants) + 1, printer |-> p, session |-> s]}
    /\ grants' = Append(grants, <<p, s>>)
    /\ UNCHANGED <<valid, ready, registered, stream, closer>>

\* The oldest ticket expires; the next section under the lock prunes it.
TicketExpires ==
    /\ tickets # {}
    /\ tickets' = Newer(tickets)
    /\ UNCHANGED <<valid, ready, grants, registered, stream, closer>>

\* GET camera/stream up to the manager: session and printer are looked at.
Arrive(st, p, s, n) ==
    /\ s \in valid /\ p \in ready
    /\ Step(st, "idle", [stream[st] EXCEPT !.pc = "arrived", !.printer = p, !.session = s,
                                           !.ticket = n])

TicketAccepted(s) ==
    /\ Authorized(s)
    /\ \E t \in tickets : /\ t.number = s.ticket
                          /\ t.printer = s.printer /\ t.session = s.session

\* Mutation: the limit per printer, but not the one on all streams.
BusyPrinter(s) == \E other \in registered : stream[other].printer = s.printer

Busy(s) ==
    \/ \E other \in registered : stream[other].printer = s.printer
    \/ Cardinality(registered) >= MaxTotal

\* _reserve_stream_locked, or CameraTicketRejected or CameraBusy.
Reserve(st) ==
    LET s == stream[st] IN
    IF TicketAccepted(s) /\ ~Busy(s)
    THEN registered' = registered \cup {st} /\ Becomes(st, [s EXCEPT !.pc = "begin"])
    ELSE Becomes(st, [s EXCEPT !.pc = "done"]) /\ UNCHANGED registered

\* Mutation: the ticket stays in the table.
open_keeping_ticket(st) ==
    /\ stream[st].pc = "arrived"
    /\ Reserve(st)
    /\ UNCHANGED <<valid, ready, tickets, grants, closer>>

\* Take the ticket, look at the session again and reserve the printer, in one
\* section; the ticket is gone even when it is refused or the printer is busy.
open_ticketed_stream(st) ==
    /\ stream[st].pc = "arrived"
    /\ tickets' = {t \in tickets : t.number # stream[st].ticket}
    /\ Reserve(st)
    /\ UNCHANGED <<valid, ready, grants, closer>>

(***************************************************************************)
(* CameraStream: starting a process.  The operators on s give the stream   *)
(* object and its task as they are at the next await.                      *)
(***************************************************************************)
\* close(): the first caller sets _closed and creates the cleanup task.
Close(s) == [s EXCEPT !.closed = TRUE, !.cleanup = IF @ = "none" THEN "lock" ELSE @]

\* Leave, but await close() first.
GiveUp(s) == Close([s EXCEPT !.pc = "closing"])

\* CameraUnavailable: start() tries again, _restart() does not.
Failed(s) ==
    IF s.opening /\ ~s.closed /\ s.restarts < MaxRestarts
    THEN [s EXCEPT !.restarts = @ + 1, !.pc = "begin"]
    ELSE GiveUp(s)

\* _start_process takes the process lock and calls _spawn, or finds _closed.
start_process(st) ==
    LET s == stream[st] IN
    /\ s.plock = "free"
    /\ Step(st, "begin", IF s.closed THEN Failed(s)
                         ELSE [s EXCEPT !.pc = "spawning", !.plock = "task"])

Kept(s) == [s EXCEPT !.spawns = @ + 1, !.process = "running", !.held = TRUE,
                     !.plock = "free", !.pc = "first"]

\* The process is there: keep it, or stop it when the stream was closed meanwhile.
Spawned(st) ==
    LET s == stream[st] IN
    Step(st, "spawning", IF ~s.closed THEN Kept(s)
                         ELSE [s EXCEPT !.spawns = @ + 1, !.process = "terminated",
                                        !.pc = "discard"])

\* Mutation: a failed _spawn leaves the process lock taken.
SpawnFailsLocked(st) == Step(st, "spawning", Failed(stream[st]))

SpawnFails(st) == Step(st, "spawning", Failed([stream[st] EXCEPT !.plock = "free"]))

\* _stop_process returns: the process ended or was killed.
Stopped(s) == [s EXCEPT !.process = "gone", !.plock = "free"]

Discarded(st) == Step(st, "discard", Failed(Stopped(stream[st])))

\* The first chunk: it is kept unless the stream is closed or not authorized.
FirstChunk(st) ==
    LET s == stream[st] IN
    /\ s.process # "gone"
    /\ Step(st, "first",
            IF s.closed \/ ~Authorized(s) THEN [s EXCEPT !.pc = "stopfailed"]
            ELSE [s EXCEPT !.buffered = TRUE, !.opening = FALSE,
                           !.pc = IF s.opening THEN "ready" ELSE "iterate"])

\* startup_timeout_seconds pass, or the pipe ends.
NoFirstChunk(st) == Step(st, "first", [stream[st] EXCEPT !.pc = "stopfailed"])

\* Mutation: the process is waited for, but not told to end.
ForgetOnly(s, who) == [s EXCEPT !.held = FALSE, !.plock = who]

\* _stop_current_process: under the process lock forget the process and terminate it.
Terminate(s, who) ==
    [s EXCEPT !.held = FALSE, !.plock = who,
              !.process = IF @ = "running" THEN "terminated" ELSE @]

StopAfterFailure(st) ==
    LET s == stream[st] IN
    /\ s.plock = "free"
    /\ Step(st, "stopfailed", IF s.held THEN [Terminate(s, "task") EXCEPT !.pc = "killfailed"]
                              ELSE Failed(s))

FailureStopped(st) == Step(st, "killfailed", Failed(Stopped(stream[st])))

(***************************************************************************)
(* CameraStream.iter_bytes, driven by the response.                        *)
(***************************************************************************)
Respond(st) == Step(st, "ready", [stream[st] EXCEPT !.pc = "iterate"])

\* The client is gone before the body was asked for: iter_bytes never runs.
Abandon(st) == Step(st, "ready", [stream[st] EXCEPT !.pc = "abandoned"])

\* Mutation: max_session_seconds is not looked at.
EndsOnlyClosed(s) == s.closed \/ ~Authorized(s)

MustEnd(s) == s.closed \/ ~Authorized(s) \/ s.expired

\* The head of the loop.
Iterate(st) ==
    LET s == stream[st] IN
    Step(st, "iterate",
         IF MustEnd(s) THEN GiveUp(s)
         ELSE [s EXCEPT !.pc = IF s.buffered THEN "delivered" ELSE "reading",
                        !.buffered = FALSE])

ReadChunk(st) ==
    LET s == stream[st] IN
    /\ s.process # "gone"
    /\ Step(st, "reading", IF s.closed \/ ~Authorized(s) THEN GiveUp(s)
                           ELSE [s EXCEPT !.pc = "delivered"])

\* Mutation: a restart is not counted.
RestartUncounted(s) ==
    IF s.closed \/ s.restarts >= MaxRestarts THEN GiveUp(s) ELSE [s EXCEPT !.pc = "stopold"]

\* Mutation: one restart too many.
RestartOnceMore(s) ==
    IF s.closed \/ s.restarts > MaxRestarts THEN GiveUp(s)
    ELSE [s EXCEPT !.restarts = @ + 1, !.pc = "stopold"]

\* _restart: is there one left?
Restart(s) ==
    IF s.closed \/ s.restarts >= MaxRestarts THEN GiveUp(s)
    ELSE [s EXCEPT !.restarts = @ + 1, !.pc = "stopold"]

\* A timeout or the end of the pipe.
ReadNothing(st) ==
    LET s == stream[st] IN
    Step(st, "reading", IF MustEnd(s) THEN GiveUp(s) ELSE Restart(s))

\* _restart stops the old process, sleeps and goes on with _start_process.
StopBeforeRestart(st) ==
    LET s == stream[st] IN
    /\ s.plock = "free"
    /\ Step(st, "stopold", IF s.held THEN [Terminate(s, "task") EXCEPT !.pc = "killold"]
                           ELSE [s EXCEPT !.pc = "begin"])

OldStopped(st) == Step(st, "killold", [Stopped(stream[st]) EXCEPT !.pc = "begin"])

ClientTakes(st) == Step(st, "delivered", [stream[st] EXCEPT !.pc = "iterate"])

\* The task is cancelled at an await: locks are left, close() is awaited.  A
\* process that _stop_process was waiting for keeps the SIGTERM it got.
Cancel(st) ==
    LET s == stream[st] IN
    /\ s.pc \in {"begin", "spawning", "discard", "first", "stopfailed", "killfailed",
                 "reading", "delivered", "stopold", "killold"}
    /\ Becomes(st, GiveUp([s EXCEPT !.plock = IF @ = "task" THEN "free" ELSE @]))
    /\ UNCHANGED <<managerVars, closer>>

Closed(st) ==
    /\ stream[st].cleanup = "done"
    /\ Step(st, "closing", [stream[st] EXCEPT !.pc = "done"])

(***************************************************************************)
(* The cleanup task of a stream: _close_impl.                              *)
(***************************************************************************)
CleanupStep(st, where, new) ==
    /\ stream[st].cleanup = where
    /\ Becomes(st, new)
    /\ UNCHANGED <<valid, ready, tickets, grants, closer>>

CleanupStops(st) ==
    LET s == stream[st] IN
    /\ s.plock = "free"
    /\ CleanupStep(st, "lock", IF s.held THEN [Terminate(s, "cleanup") EXCEPT !.cleanup = "kill"]
                               ELSE [s EXCEPT !.cleanup = "release"])
    /\ UNCHANGED registered

\* _stop_process returns ...
CleanupStopped(st) ==
    /\ CleanupStep(st, "kill", [Stopped(stream[st]) EXCEPT !.cleanup = "release"])
    /\ UNCHANGED registered

\* ... or raises what process.wait raised, and the finally clause goes on.
CleanupRaises(st) ==
    /\ CleanupStep(st, "kill", [stream[st] EXCEPT !.plock = "free", !.cleanup = "release"])
    /\ UNCHANGED registered

release(st) ==
    /\ CleanupStep(st, "release", [stream[st] EXCEPT !.cleanup = "done"])
    /\ registered' = registered \ {st}

(***************************************************************************)
(* Stop, logout, reload and shutdown.                                      *)
(***************************************************************************)
Concerns(x, p, s) == x \in {All, p, s}

CloserStep(c, where, new) ==
    /\ closer[c].pc = where
    /\ closer' = [closer EXCEPT ![c] = new]

Begin(c, x, where) ==
    /\ CloserStep(c, "idle", [closer[c] EXCEPT !.pc = where, !.aim = x, !.before = Len(grants)])
    /\ UNCHANGED <<ready, tickets, grants, registered, stream>>

\* POST camera/stop from any valid session.
camera_stop(c, p) == valid # {} /\ Begin(c, p, "tickets") /\ UNCHANGED valid

\* POST logout revokes the session before its first await.
logout(c, s) == s \in valid /\ Begin(c, s, "tickets") /\ valid' = valid \ {s}

\* close() of the manager: a reload of the configuration, or the shutdown.
close_all(c) == Begin(c, All, "collect") /\ UNCHANGED valid

\* Mutation: the tickets stay when the streams are closed.
revoke_nothing(c) ==
    /\ CloserStep(c, "tickets", [closer[c] EXCEPT !.pc = "collect"])
    /\ UNCHANGED <<managerVars, stream>>

revoke_tickets(c) ==
    /\ CloserStep(c, "tickets", [closer[c] EXCEPT !.pc = "collect"])
    /\ tickets' = {t \in tickets : ~Concerns(closer[c].aim, t.printer, t.session)}
    /\ UNCHANGED <<valid, ready, grants, registered, stream>>

\* The streams concerned, read under the lock ...
Collect(c) ==
    LET found == {st \in registered : Concerns(closer[c].aim, stream[st].printer,
                                               stream[st].session)} IN
    /\ CloserStep(c, "collect", [closer[c] EXCEPT !.pc = "closing", !.todo = found,
                                                  !.waits = found])
    /\ UNCHANGED <<managerVars, stream>>

\* ... are closed one by one ...
CloseOne(c, st) ==
    /\ st \in closer[c].todo
    /\ CloserStep(c, "closing", [closer[c] EXCEPT !.todo = @ \ {st}])
    /\ Becomes(st, Close(stream[st]))
    /\ UNCHANGED managerVars

\* ... and awaited.
Return(c) ==
    /\ closer[c].todo = {}
    /\ \A st \in closer[c].waits : stream[st].cleanup = "done"
    /\ CloserStep(c, "closing", [closer[c] EXCEPT !.pc = "done"])
    /\ UNCHANGED <<managerVars, stream>>

(***************************************************************************)
(* Time, the printer and ffmpeg.                                           *)
(***************************************************************************)
SessionExpires(s) ==
    /\ s \in valid
    /\ valid' = valid \ {s}
    /\ UNCHANGED <<ready, tickets, grants, registered, stream, closer>>

ReadyChanges(p) ==
    /\ ready' = IF p \in ready THEN ready \ {p} ELSE ready \cup {p}
    /\ UNCHANGED <<valid, tickets, grants, registered, stream, closer>>

\* max_session_seconds are far longer than all attempts of start() together.
TimeIsUp(st) ==
    /\ st \in registered /\ ~stream[st].opening /\ ~stream[st].expired
    /\ Becomes(st, [stream[st] EXCEPT !.expired = TRUE])
    /\ UNCHANGED <<managerVars, closer>>

ProcessEnds(st) ==
    /\ stream[st].process # "gone"
    /\ Becomes(st, [stream[st] EXCEPT !.process = "gone"])
    /\ UNCHANGED <<managerVars, closer>>

-----------------------------------------------------------------------------
Init ==
    /\ valid = Sessions
    /\ ready = Printers
    /\ tickets = {}
    /\ grants = <<>>
    /\ registered = {}
    /\ stream = [st \in Streams |-> NewStream]
    /\ closer = [c \in Closers |-> NewCloser]

\* What the loop runs without further help from outside.
Task(st) ==
    \/ open_ticketed_stream(st)
    \/ start_process(st)
    \/ Spawned(st)
    \/ SpawnFails(st)
    \/ Discarded(st)
    \/ FirstChunk(st)
    \/ NoFirstChunk(st)
    \/ StopAfterFailure(st)
    \/ FailureStopped(st)
    \/ Respond(st)
    \/ Iterate(st)
    \/ ReadChunk(st)
    \/ ReadNothing(st)
    \/ StopBeforeRestart(st)
    \/ OldStopped(st)
    \/ Closed(st)

Cleanup(st) == CleanupStops(st) \/ CleanupStopped(st) \/ CleanupRaises(st) \/ release(st)

Closer(c) ==
    \/ revoke_tickets(c)
    \/ Collect(c)
    \/ \E st \in Streams : CloseOne(c, st)
    \/ Return(c)

Client(st) ==
    \/ \E p \in Printers, s \in Sessions, n \in 1 .. Len(grants) : Arrive(st, p, s, n)
    \/ Abandon(st)
    \/ ClientTakes(st)
    \/ Cancel(st)

Environment ==
    \/ \E p \in Printers, s \in Sessions : issue_ticket(p, s)
    \/ TicketExpires
    \/ \E c \in Closers, p \in Printers : camera_stop(c, p)
    \/ \E c \in Closers, s \in Sessions : logout(c, s)
    \/ \E c \in Closers : close_all(c)
    \/ \E s \in Sessions : SessionExpires(s)
    \/ \E p \in Printers : ReadyChanges(p)
    \/ \E st \in Streams : ProcessEnds(st)

Next ==
    \/ \E st \in Streams : Task(st) \/ Cleanup(st) \/ Client(st) \/ TimeIsUp(st)
    \/ \E c \in Closers : Closer(c)
    \/ Environment

Spec == Init /\ [][Next]_vars

Answers(st) == stream[st].pc = "delivered" /\ (ClientTakes(st) \/ Cancel(st))

\* The loop runs every task that can run, all waits have timeouts, the ten
\* minutes of a stream pass, and a client that was sent a chunk takes it or goes.
FairSpec ==
    /\ Spec
    /\ \A st \in Streams : /\ WF_vars(Task(st))
                           /\ WF_vars(Cleanup(st))
                           /\ WF_vars(TimeIsUp(st))
                           /\ WF_vars(Answers(st))
    /\ \A c \in Closers : WF_vars(Closer(c))

-----------------------------------------------------------------------------
StreamRecords ==
    [pc : PcStates, printer : Printers \cup {All}, session : Sessions \cup {All},
     ticket : 0 .. MaxIssued, opening : BOOLEAN, closed : BOOLEAN, buffered : BOOLEAN,
     restarts : 0 .. MaxRestarts, expired : BOOLEAN, plock : {"free", "task", "cleanup"},
     process : {"gone", "running", "terminated"}, held : BOOLEAN,
     cleanup : {"none", "lock", "kill", "release", "done"}, spawns : Nat]

CloserRecords ==
    [pc : {"idle", "tickets", "collect", "closing", "done"},
     aim : Printers \cup Sessions \cup {All}, todo : SUBSET Streams, waits : SUBSET Streams,
     before : 0 .. MaxIssued]

\* Every variable of the manager, the streams and the closers has its type; in
\* particular _restarts never exceeds limits.max_restarts and the ticket table
\* never exceeds MAX_CAMERA_TICKETS.
TypeOK ==
    /\ valid \subseteq Sessions
    /\ ready \subseteq Printers
    /\ tickets \subseteq [number : 1 .. MaxIssued, printer : Printers, session : Sessions]
    /\ IsFiniteSet(tickets) /\ Cardinality(tickets) <= TicketCap
    /\ grants \in Seq(Printers \X Sessions)
    /\ Len(grants) <= MaxIssued
    /\ registered \subseteq Streams
    /\ stream \in [Streams -> StreamRecords]
    /\ closer \in [Closers -> CloserRecords]

(***************************************************************************)
(* Safety.                                                                 *)
(***************************************************************************)
\* A stream that has given its printer back has no ffmpeg process that nobody told
\* to end, wherever close() met _spawn, a restart or a cancelled request.
NoRunningOrphan == \A st \in Streams : stream[st].process = "running" => st \in registered

\* When a stop or a logout has returned, no stream it was about holds a printer:
\* for a stop none that came with a ticket issued before the stop, and for a
\* logout none of that session at all (camera.py:284 "Stop/logout can therefore
\* never finish between authorization and registration").
StopIsFinal ==
    \A c \in Closers, st \in Streams :
        /\ closer[c].pc = "done"
        /\ closer[c].aim \in {stream[st].printer, stream[st].session} \ {All}
        /\ closer[c].aim \in Sessions \/ stream[st].ticket <= closer[c].before
        => st \notin registered

\* A ticket opens one stream at most, for the printer and by the session it was
\* issued to (README.md:182 "short-lived, single-use, session-bound").
TicketSingleUse ==
    \A st \in Streams : stream[st].spawns > 0 =>
        /\ grants[stream[st].ticket] = <<stream[st].printer, stream[st].session>>
        /\ \A other \in Streams \ {st} :
               stream[other].spawns > 0 => stream[other].ticket # stream[st].ticket

\* One request starts at most 1 + limits.max_restarts processes, the attempts of
\* start() and the restarts of iter_bytes counted together.
SpawnsBounded == \A st \in Streams : stream[st].spawns <= 1 + MaxRestarts

Slot == INSTANCE CameraSlot WITH
    holder <- [p \in Printers |-> {st \in registered : stream[st].printer = p}],
    running <- {st \in Streams : stream[st].process = "running"}

\* The manager implements the promise of CameraSlot: one viewer per printer, the
\* limit on all viewers, and no printer given free while its process runs.
SlotSpec == Slot!Spec

(***************************************************************************)
(* Liveness.                                                               *)
(***************************************************************************)
\* A stream whose response is consumed gives its printer back after at most
\* limits.max_session_seconds.
StreamsEnd == \A st \in Streams : (stream[st].pc = "iterate") ~> (st \notin registered)

\* Stop, logout, reload and shutdown return: waiting for the cleanup, which waits
\* for the process lock, which a start may hold, is not a cycle.
ClosersReturn == \A c \in Closers : (closer[c].pc # "idle") ~> (closer[c].pc = "done")
=============================================================================
