---------------------------- MODULE CameraProofs ----------------------------
(***************************************************************************)
(* The inductive invariant of CameraStreams and the refinement of          *)
(* CameraSlot, for any printers, sessions, streams, closers and limits.    *)
(*                                                                         *)
(* The invariant has a part about each stream alone (Sound), which ties    *)
(* _closed, the cleanup task, the process and the reservation together,    *)
(* and parts that relate streams, tickets and closers.  Most steps move    *)
(* one stream and leave those relations alone: Move says what such a step  *)
(* may do, and one lemma shows that it keeps the invariant.                *)
(***************************************************************************)
EXTENDS CameraStreams, FiniteSetTheorems, WellFoundedInduction, TLAPS

\* The request was let in by _reserve_stream_locked.
Known(s) == s.pc \notin {"idle", "arrived"} /\ ~(s.pc = "done" /\ s.cleanup = "none")

\* It holds its printer.
Holds(s) == s.pc \notin {"idle", "arrived", "done"} /\ s.cleanup # "done"

\* A stream by itself: close() and the cleanup task go together, a running process
\* is the one _process refers to, a cleanup past its lock leaves none running, and
\* a start or a restart finds none running and is paid for by a restart.
Sound(s) ==
    /\ s.closed <=> s.cleanup # "none"
    /\ s.pc = "done" => s.cleanup \in {"none", "done"}
    /\ s.process = "running" => s.held
    /\ s.cleanup \in {"kill", "release", "done"} => s.process # "running"
    /\ s.pc \in {"idle", "arrived", "begin", "spawning", "discard", "killfailed", "killold"} =>
           s.process # "running"
    /\ ~Known(s) => s.cleanup = "none" /\ s.process = "gone" /\ s.spawns = 0
    /\ s.spawns <= s.restarts + 1
    /\ s.pc \in {"idle", "arrived", "begin", "spawning", "stopold", "killold"} =>
           s.spawns <= s.restarts

\* Every stream is sound.
StreamsSound == \A st \in Streams : Sound(stream[st])

\* The table of the manager and the streams agree, it stays within the limit on all
\* streams, and no printer is there twice.
TableAgrees ==
    /\ registered = {st \in Streams : Holds(stream[st])}
    /\ IsFiniteSet(registered) /\ Cardinality(registered) <= MaxTotal
    /\ \A a, b \in registered : stream[a].printer = stream[b].printer => a = b

\* A ticket is bound as it was issued; the one a stream came with is used up and
\* no other stream came with it.
TicketsBound ==
    /\ \A t \in tickets :
           t.number \in 1 .. Len(grants) /\ grants[t.number] = <<t.printer, t.session>>
    /\ \A st \in Streams : Known(stream[st]) =>
           /\ stream[st].ticket \in 1 .. Len(grants)
           /\ grants[stream[st].ticket] = <<stream[st].printer, stream[st].session>>
           /\ \A t \in tickets : t.number # stream[st].ticket
    /\ \A a, b \in Streams : Known(stream[a]) /\ Known(stream[b]) /\ a # b =>
           stream[a].ticket # stream[b].ticket

\* The closer c is about stream st.
About(c, st) ==
    /\ closer[c].aim \in {stream[st].printer, stream[st].session} \ {All}
    /\ closer[c].aim \in Sessions \/ stream[st].ticket <= closer[c].before

\* From the revocation on, nothing is left by which a stream that a closer is about
\* could come in, and those that were in are waited for.
ClosersSee ==
    \A c \in Closers :
        /\ closer[c].pc # "idle" => closer[c].aim \notin valid
        /\ closer[c].before <= Len(grants)
        /\ closer[c].pc \in {"collect", "closing", "done"} =>
               \A t \in tickets : t.printer = closer[c].aim => t.number > closer[c].before
        /\ closer[c].pc = "closing" => \A st \in registered : About(c, st) => st \in closer[c].waits
        /\ closer[c].pc = "done" => \A st \in registered : ~About(c, st)
        /\ \A st \in closer[c].todo \cup closer[c].waits : Known(stream[st])

\* The inductive invariant of CameraStreams.
CInv == TypeOK /\ StreamsSound /\ TableAgrees /\ TicketsBound /\ ClosersSee

-----------------------------------------------------------------------------
(***************************************************************************)
(* Steps of one stream.                                                    *)
(***************************************************************************)
\* What a step of one stream may do to its object and task without touching the
\* manager: only who holds a printer may come to have a running process.
Move(s, n) ==
    /\ n \in StreamRecords /\ Sound(n)
    /\ n.printer = s.printer /\ n.session = s.session /\ n.ticket = s.ticket
    /\ Known(n) <=> Known(s)
    /\ Holds(n) <=> Holds(s)
    /\ n.process = "running" => s.process = "running" \/ Holds(s)

\* The steps at which a stream is under way.
Active == PcStates \ {"idle", "arrived", "done"}

\* Two moves of one handler step are one move.
LEMMA MovesCompose ==
    ASSUME NEW s, NEW m, NEW n, Move(s, m), Move(m, n)
    PROVE  Move(s, n)
BY DEF Move

\* close(), by the task itself or by a closer.
LEMMA CloseMoves ==
    ASSUME NEW s \in StreamRecords, Sound(s), Known(s)
    PROVE  Move(s, Close(s))
BY DEF StreamRecords, Sound, Known, Holds, Move, Close

\* The task goes on to another await of iter_bytes or of a restart.
LEMMA GotoMoves ==
    ASSUME NEW s \in StreamRecords, Sound(s), s.pc \in Active, NEW where \in Active,
           where \in {"begin", "spawning", "discard", "killfailed", "killold"} =>
               s.process # "running",
           where \in {"begin", "spawning", "stopold", "killold"} => s.spawns <= s.restarts
    PROVE  Move(s, [s EXCEPT !.pc = where])
BY DEF StreamRecords, Sound, Known, Holds, Move, Active, PcStates

\* The task gives the stream up and closes it.
LEMMA GiveUpMoves ==
    ASSUME NEW s \in StreamRecords, Sound(s), s.pc \in Active
    PROVE  Move(s, GiveUp(s))
<1> DEFINE m == [s EXCEPT !.pc = "closing"]
<1>1. Move(s, m)
  BY GotoMoves DEF Active, PcStates
<1>2. m \in StreamRecords /\ Sound(m) /\ Known(m)
  BY <1>1 DEF Move, Known, Active, PcStates
<1>3. Move(m, Close(m))
  BY <1>2, CloseMoves
<1> QED
  BY <1>1, <1>3, MovesCompose DEF GiveUp

\* CameraUnavailable at an await of _start_process.
LEMMA FailedMoves ==
    ASSUME NEW s \in StreamRecords, Sound(s), s.process # "running",
           s.pc \in {"begin", "spawning", "discard", "stopfailed", "killfailed"}
    PROVE  Move(s, Failed(s))
<1>1. Move(s, GiveUp(s))
  BY GiveUpMoves DEF Active, PcStates
<1>2. CASE s.opening /\ ~s.closed /\ s.restarts < MaxRestarts
  <2> DEFINE n == [s EXCEPT !.restarts = @ + 1, !.pc = "begin"]
  <2>1. s.restarts + 1 \in 0 .. MaxRestarts
    BY <1>2, CameraAssumption DEF StreamRecords
  <2>2. /\ n \in StreamRecords /\ n.restarts = s.restarts + 1 /\ n.pc = "begin"
        /\ n.printer = s.printer /\ n.session = s.session /\ n.ticket = s.ticket
        /\ n.closed = s.closed /\ n.cleanup = s.cleanup /\ n.process = s.process
        /\ n.held = s.held /\ n.spawns = s.spawns
    BY <2>1 DEF StreamRecords, PcStates
  <2>3. s.restarts \in Nat /\ s.spawns \in Nat
    BY DEF StreamRecords
  <2> HIDE DEF n
  <2>4. Sound(n)
    BY <1>2, <2>2, <2>3 DEF Sound, Known
  <2>5. Move(s, n)
    BY <2>2, <2>4 DEF Known, Holds, Move
  <2> QED
    BY <1>2, <2>5 DEF Failed, n
<1> QED
  BY <1>1, <1>2 DEF Failed

\* The process lock is taken by or given back from who is at it.
LEMMA LockMoves ==
    ASSUME NEW s \in StreamRecords, Sound(s), NEW who \in {"free", "task", "cleanup"}
    PROVE  Move(s, [s EXCEPT !.plock = who])
BY DEF StreamRecords, Sound, Known, Holds, Move

\* _stop_process has seen the process end.
LEMMA StoppedMoves ==
    ASSUME NEW s \in StreamRecords, Sound(s)
    PROVE  Move(s, Stopped(s)) /\ Stopped(s).pc = s.pc /\ Stopped(s).process = "gone"
BY DEF StreamRecords, Sound, Known, Holds, Move, Stopped

\* _stop_current_process forgets the process and asks it to end.
LEMMA TerminateMoves ==
    ASSUME NEW s \in StreamRecords, Sound(s), NEW who \in {"free", "task", "cleanup"}
    PROVE  /\ Move(s, Terminate(s, who))
           /\ Terminate(s, who).pc = s.pc
           /\ Terminate(s, who).cleanup = s.cleanup
           /\ Terminate(s, who).process # "running"
<1> DEFINE n == Terminate(s, who)
<1>1. /\ n \in StreamRecords /\ n.restarts = s.restarts /\ n.pc = s.pc
      /\ n.printer = s.printer /\ n.session = s.session /\ n.ticket = s.ticket
      /\ n.closed = s.closed /\ n.cleanup = s.cleanup /\ n.spawns = s.spawns
      /\ n.held = FALSE
      /\ n.process = (IF s.process = "running" THEN "terminated" ELSE s.process)
  BY DEF StreamRecords, Terminate
<1> HIDE DEF n
<1>2. Sound(n)
  BY <1>1 DEF Sound, Known
<1>3. Move(s, n)
  BY <1>1, <1>2 DEF Known, Holds, Move
<1> QED
  BY <1>1, <1>3 DEF n

\* The task changes several fields of its stream, but does not close it.
LEMMA FieldsMove ==
    ASSUME NEW s \in StreamRecords, Sound(s), s.pc \in Active,
           NEW n \in StreamRecords, n.pc \in Active \ {"begin", "killfailed", "killold"},
           n.printer = s.printer, n.session = s.session, n.ticket = s.ticket,
           n.closed = s.closed, n.cleanup = s.cleanup,
           \/ n.process = s.process /\ n.held = s.held /\ n.pc \notin {"spawning", "discard"}
           \/ n.process = "running" /\ n.held /\ ~s.closed /\ n.pc = "first"
           \/ n.process = "terminated",
           n.spawns <= n.restarts + 1,
           n.pc \in {"spawning", "stopold"} => n.spawns <= n.restarts
    PROVE  Move(s, n)
<1>1. Sound(n)
  BY DEF Sound, Known, Active, PcStates
<1> QED
  BY <1>1 DEF Move, Sound, Known, Holds, Active, PcStates

\* What all steps of tasks and cleanups have in common.
Moves(st) ==
    /\ \E n : Move(stream[st], n) /\ Becomes(st, n)
    /\ UNCHANGED <<managerVars, closer>>

\* The steps of the task of a stream, reservation apart.
LEMMA TaskMoves ==
    ASSUME TypeOK, StreamsSound, NEW st \in Streams, Task(st), ~open_ticketed_stream(st)
    PROVE  Moves(st)
<1> DEFINE s == stream[st]
<1>t. s \in StreamRecords /\ Sound(s)
  BY DEF TypeOK, StreamsSound
<1>e. ASSUME NEW n, NEW where, Step(st, where, n), s.pc = where => Move(s, n)
      PROVE  Moves(st)
  BY <1>e DEF Step, Moves
<1>m. ASSUME NEW n, Move(s, n)
      PROVE  /\ n \in StreamRecords /\ Sound(n)
             /\ n.process = "running" => s.process = "running" \/ Holds(s)
  BY <1>m DEF Move
<1> HIDE DEF s
<1> USE DEF Active, PcStates
<1>n. s.restarts \in Nat /\ s.spawns \in Nat /\ s.spawns + 1 \in Nat
  BY <1>t, CameraAssumption DEF StreamRecords
<1>1. CASE start_process(st)
  <2> DEFINE n == [s EXCEPT !.pc = "spawning", !.plock = "task"]
  <2>1. s.pc = "begin" => Move(s, Failed(s))
    BY <1>t, FailedMoves DEF Sound
  <2>2. s.pc = "begin" => Move(s, n)
    BY <1>t DEF StreamRecords, Sound, Known, Holds, Move
  <2> QED
    BY <1>1, <1>e, <2>1, <2>2 DEF start_process, s
<1>2. CASE Spawned(st)
  <2>1. ASSUME s.pc = "spawning", ~s.closed PROVE Move(s, Kept(s))
    <3> DEFINE n == Kept(s)
    <3>1. /\ n \in StreamRecords /\ n.pc = "first" /\ n.process = "running" /\ n.held
          /\ n.printer = s.printer /\ n.session = s.session /\ n.ticket = s.ticket
          /\ n.closed = s.closed /\ n.cleanup = s.cleanup
          /\ n.restarts = s.restarts /\ n.spawns = s.spawns + 1
      BY <1>t, <1>n DEF StreamRecords, Kept
    <3> HIDE DEF n
    <3>2. n.spawns <= n.restarts + 1
      BY <1>t, <1>n, <2>1, <3>1 DEF Sound
    <3> QED
      BY <1>t, <2>1, <3>1, <3>2, FieldsMove DEF n
  <2> DEFINE n == [s EXCEPT !.spawns = @ + 1, !.process = "terminated", !.pc = "discard"]
  <2>2. ASSUME s.pc = "spawning" PROVE Move(s, n)
    <3>1. /\ n \in StreamRecords /\ n.pc = "discard" /\ n.process = "terminated"
          /\ n.printer = s.printer /\ n.session = s.session /\ n.ticket = s.ticket
          /\ n.closed = s.closed /\ n.cleanup = s.cleanup
          /\ n.restarts = s.restarts /\ n.spawns = s.spawns + 1
      BY <1>t, <1>n DEF StreamRecords
    <3> HIDE DEF n
    <3>2. n.spawns <= n.restarts + 1
      BY <1>t, <1>n, <2>2, <3>1 DEF Sound
    <3> QED
      BY <1>t, <2>2, <3>1, <3>2, FieldsMove
  <2> QED
    BY <1>2, <1>e, <2>1, <2>2 DEF Spawned, s
<1>3. CASE SpawnFails(st)
  <2> DEFINE m == [s EXCEPT !.plock = "free"]
  <2>1. Move(s, m) /\ m.pc = s.pc /\ m.process = s.process
    BY <1>t, LockMoves DEF StreamRecords
  <2>2. s.pc = "spawning" => Move(s, Failed(m))
    BY <1>t, <1>m, <2>1, FailedMoves, MovesCompose DEF Sound
  <2> QED
    BY <1>3, <1>e, <2>2 DEF SpawnFails, s
<1>4. CASE Discarded(st)
  <2>1. s.pc = "discard" => Move(s, Failed(Stopped(s)))
    BY <1>t, <1>m, StoppedMoves, FailedMoves, MovesCompose
  <2> QED
    BY <1>4, <1>e, <2>1 DEF Discarded, s
<1>5. CASE FirstChunk(st)
  <2>1. s.pc = "first" => Move(s, [s EXCEPT !.pc = "stopfailed"])
    BY <1>t, GotoMoves
  <2>2. ASSUME NEW where \in {"ready", "iterate"}, s.pc = "first"
        PROVE  Move(s, [s EXCEPT !.buffered = TRUE, !.opening = FALSE, !.pc = where])
    <3> DEFINE n == [s EXCEPT !.buffered = TRUE, !.opening = FALSE, !.pc = where]
    <3>1. /\ n \in StreamRecords /\ n.pc = where /\ n.process = s.process /\ n.held = s.held
          /\ n.printer = s.printer /\ n.session = s.session /\ n.ticket = s.ticket
          /\ n.closed = s.closed /\ n.cleanup = s.cleanup
          /\ n.restarts = s.restarts /\ n.spawns = s.spawns
      BY <1>t DEF StreamRecords
    <3> HIDE DEF n
    <3> QED
      BY <1>t, <2>2, <3>1, FieldsMove DEF n, Sound
  <2> QED
    BY <1>5, <1>e, <2>1, <2>2 DEF FirstChunk, s
<1>6. CASE NoFirstChunk(st)
  <2>1. s.pc = "first" => Move(s, [s EXCEPT !.pc = "stopfailed"])
    BY <1>t, GotoMoves
  <2> QED
    BY <1>6, <1>e, <2>1 DEF NoFirstChunk, s
<1>7. CASE StopAfterFailure(st)
  <2> DEFINE m == Terminate(s, "task")
  <2>1. Move(s, m) /\ m.pc = s.pc /\ m.process # "running"
    BY <1>t, TerminateMoves
  <2>2. s.pc = "stopfailed" => Move(m, [m EXCEPT !.pc = "killfailed"])
    BY <1>m, <2>1, GotoMoves
  <2>3. s.pc = "stopfailed" => Move(s, [m EXCEPT !.pc = "killfailed"])
    BY <2>1, <2>2, MovesCompose
  <2>4. s.pc = "stopfailed" /\ ~s.held => Move(s, Failed(s))
    BY <1>t, FailedMoves DEF Sound
  <2> QED
    BY <1>7, <1>e, <2>3, <2>4 DEF StopAfterFailure, s
<1>8. CASE FailureStopped(st)
  <2>1. s.pc = "killfailed" => Move(s, Failed(Stopped(s)))
    BY <1>t, <1>m, StoppedMoves, FailedMoves, MovesCompose
  <2> QED
    BY <1>8, <1>e, <2>1 DEF FailureStopped, s
<1>9. CASE Respond(st)
  <2>1. s.pc = "ready" => Move(s, [s EXCEPT !.pc = "iterate"])
    BY <1>t, GotoMoves
  <2> QED
    BY <1>9, <1>e, <2>1 DEF Respond, s
<1>10. CASE Iterate(st)
  <2>1. s.pc = "iterate" => Move(s, GiveUp(s))
    BY <1>t, GiveUpMoves
  <2>2. ASSUME NEW where \in {"delivered", "reading"}, s.pc = "iterate"
        PROVE  Move(s, [s EXCEPT !.pc = where, !.buffered = FALSE])
    <3> DEFINE n == [s EXCEPT !.pc = where, !.buffered = FALSE]
    <3>1. /\ n \in StreamRecords /\ n.pc = where /\ n.process = s.process /\ n.held = s.held
          /\ n.printer = s.printer /\ n.session = s.session /\ n.ticket = s.ticket
          /\ n.closed = s.closed /\ n.cleanup = s.cleanup
          /\ n.restarts = s.restarts /\ n.spawns = s.spawns
      BY <1>t DEF StreamRecords
    <3> HIDE DEF n
    <3> QED
      BY <1>t, <2>2, <3>1, FieldsMove DEF n, Sound
  <2> QED
    BY <1>10, <1>e, <2>1, <2>2 DEF Iterate, s
<1>11. CASE ReadChunk(st)
  <2>1. s.pc = "reading" => Move(s, GiveUp(s)) /\ Move(s, [s EXCEPT !.pc = "delivered"])
    BY <1>t, GiveUpMoves, GotoMoves
  <2> QED
    BY <1>11, <1>e, <2>1 DEF ReadChunk, s
<1>12. CASE ReadNothing(st)
  <2>1. s.pc = "reading" => Move(s, GiveUp(s))
    BY <1>t, GiveUpMoves
  <2> DEFINE n == [s EXCEPT !.restarts = @ + 1, !.pc = "stopold"]
  <2>2. s.restarts \in Nat /\ MaxRestarts \in Nat /\ s.spawns \in Nat
    BY <1>t, CameraAssumption DEF StreamRecords
  <2>3. ASSUME s.pc = "reading", s.restarts < MaxRestarts PROVE Move(s, n)
    <3>1. s.restarts + 1 \in 0 .. MaxRestarts
      BY <2>2, <2>3
    <3>2. /\ n \in StreamRecords /\ n.pc = "stopold" /\ n.process = s.process /\ n.held = s.held
          /\ n.printer = s.printer /\ n.session = s.session /\ n.ticket = s.ticket
          /\ n.closed = s.closed /\ n.cleanup = s.cleanup
          /\ n.restarts = s.restarts + 1 /\ n.spawns = s.spawns
      BY <1>t, <3>1 DEF StreamRecords
    <3> HIDE DEF n
    <3>3. n.spawns <= n.restarts /\ n.spawns <= n.restarts + 1
      BY <1>t, <2>2, <3>2 DEF Sound
    <3> QED
      BY <1>t, <2>3, <3>2, <3>3, FieldsMove
  <2> QED
    BY <1>12, <1>e, <2>1, <2>2, <2>3 DEF ReadNothing, Restart, s
<1>13. CASE StopBeforeRestart(st)
  <2> DEFINE m == Terminate(s, "task")
  <2>1. Move(s, m) /\ m.pc = s.pc /\ m.process # "running"
    BY <1>t, TerminateMoves
  <2>2. s.pc = "stopold" => Move(m, [m EXCEPT !.pc = "killold"])
    BY <1>m, <2>1, GotoMoves DEF Sound
  <2>3. s.pc = "stopold" => Move(s, [m EXCEPT !.pc = "killold"])
    BY <2>1, <2>2, MovesCompose
  <2>4. s.pc = "stopold" /\ ~s.held => Move(s, [s EXCEPT !.pc = "begin"])
    BY <1>t, GotoMoves DEF Sound
  <2> QED
    BY <1>13, <1>e, <2>3, <2>4 DEF StopBeforeRestart, s
<1>14. CASE OldStopped(st)
  <2> DEFINE m == Stopped(s)
  <2>1. Move(s, m) /\ m.pc = s.pc /\ m.process # "running"
    BY <1>t, StoppedMoves
  <2>2. s.pc = "killold" => Move(m, [m EXCEPT !.pc = "begin"])
    BY <1>m, <2>1, GotoMoves DEF Sound
  <2>3. s.pc = "killold" => Move(s, [m EXCEPT !.pc = "begin"])
    BY <2>1, <2>2, MovesCompose
  <2> QED
    BY <1>14, <1>e, <2>3 DEF OldStopped, s
<1>15. CASE Closed(st)
  <2>1. s.pc = "closing" /\ s.cleanup = "done" => Move(s, [s EXCEPT !.pc = "done"])
    BY <1>t DEF StreamRecords, Sound, Known, Holds, Move
  <2> QED
    BY <1>15, <1>e, <2>1 DEF Closed, s
<1> QED
  BY <1>1, <1>2, <1>3, <1>4, <1>5, <1>6, <1>7, <1>8, <1>9, <1>10, <1>11, <1>12, <1>13,
     <1>14, <1>15 DEF Task

\* The steps of the cleanup task, the release apart, and of client, clock and ffmpeg.
LEMMA OtherMoves ==
    ASSUME TypeOK, StreamsSound, TableAgrees, NEW st \in Streams,
           \/ CleanupStops(st) \/ CleanupStopped(st) \/ CleanupRaises(st)
           \/ Abandon(st) \/ ClientTakes(st) \/ Cancel(st) \/ TimeIsUp(st) \/ ProcessEnds(st)
    PROVE  Moves(st)
<1> DEFINE s == stream[st]
<1>t. s \in StreamRecords /\ Sound(s)
  BY DEF TypeOK, StreamsSound
<1>e. ASSUME NEW n, Becomes(st, n), UNCHANGED <<managerVars, closer>>, Move(s, n)
      PROVE  Moves(st)
  BY <1>e DEF Moves
<1>m. ASSUME NEW n, Move(s, n)
      PROVE  /\ n \in StreamRecords /\ Sound(n)
             /\ n.process = "running" => s.process = "running" \/ Holds(s)
  BY <1>m DEF Move
<1> HIDE DEF s
<1>c. ASSUME NEW n \in StreamRecords, Sound(n), n.cleanup \in {"lock", "kill"},
             NEW where \in {"kill", "release"}, n.process # "running"
      PROVE  Move(n, [n EXCEPT !.cleanup = where])
  BY <1>c DEF StreamRecords, Sound, Known, Holds, Move
<1>1. CASE CleanupStops(st)
  <2>1. /\ s.cleanup = "lock" /\ UNCHANGED <<managerVars, closer>>
        /\ \/ s.held /\ Becomes(st, [Terminate(s, "cleanup") EXCEPT !.cleanup = "kill"])
           \/ ~s.held /\ Becomes(st, [s EXCEPT !.cleanup = "release"])
    BY <1>1 DEF CleanupStops, CleanupStep, managerVars, s
  <2> DEFINE m == Terminate(s, "cleanup")
  <2>2. Move(s, m) /\ m.cleanup = s.cleanup /\ m.process # "running"
    BY <1>t, TerminateMoves
  <2>3. Move(m, [m EXCEPT !.cleanup = "kill"])
    BY <1>c, <1>m, <2>1, <2>2
  <2>4. Move(s, [m EXCEPT !.cleanup = "kill"])
    BY <2>2, <2>3, MovesCompose
  <2>5. ~s.held => Move(s, [s EXCEPT !.cleanup = "release"])
    BY <1>c, <1>t, <2>1 DEF Sound
  <2> QED
    BY <1>e, <2>1, <2>4, <2>5
<1>2. CASE CleanupStopped(st)
  <2> DEFINE m == Stopped(s)
  <2>1. /\ s.cleanup = "kill" /\ UNCHANGED <<managerVars, closer>>
        /\ Becomes(st, [m EXCEPT !.cleanup = "release"])
    BY <1>2 DEF CleanupStopped, CleanupStep, managerVars, s
  <2>2. Move(s, m) /\ m.process # "running"
    BY <1>t, StoppedMoves
  <2>3. m.cleanup = s.cleanup
    BY <1>t DEF Stopped, StreamRecords
  <2>4. Move(m, [m EXCEPT !.cleanup = "release"])
    BY <1>c, <1>m, <2>1, <2>2, <2>3
  <2>5. Move(s, [m EXCEPT !.cleanup = "release"])
    BY <2>2, <2>4, MovesCompose
  <2> QED
    BY <1>e, <2>1, <2>5
<1>3. CASE CleanupRaises(st)
  <2>1. /\ s.cleanup = "kill" /\ UNCHANGED <<managerVars, closer>>
        /\ Becomes(st, [s EXCEPT !.plock = "free", !.cleanup = "release"])
    BY <1>3 DEF CleanupRaises, CleanupStep, managerVars, s
  <2> DEFINE n == [s EXCEPT !.plock = "free", !.cleanup = "release"]
  <2>2. /\ n \in StreamRecords /\ n.pc = s.pc /\ n.process = s.process /\ n.held = s.held
        /\ n.printer = s.printer /\ n.session = s.session /\ n.ticket = s.ticket
        /\ n.closed = s.closed /\ n.cleanup = "release"
        /\ n.restarts = s.restarts /\ n.spawns = s.spawns
    BY <1>t DEF StreamRecords
  <2> HIDE DEF n
  <2>3. Move(s, n)
    BY <1>t, <2>1, <2>2 DEF Sound, Known, Holds, Move
  <2> QED
    BY <1>e, <2>1, <2>3 DEF n
<1>4. CASE Abandon(st) \/ ClientTakes(st)
  <2>1. s.pc = "ready" => Move(s, [s EXCEPT !.pc = "abandoned"])
    BY <1>t, GotoMoves DEF Active, PcStates
  <2>2. s.pc = "delivered" => Move(s, [s EXCEPT !.pc = "iterate"])
    BY <1>t, GotoMoves DEF Active, PcStates
  <2> QED
    BY <1>4, <1>e, <2>1, <2>2 DEF Abandon, ClientTakes, Step, s
<1>5. CASE Cancel(st)
  <2> DEFINE m == [s EXCEPT !.plock = IF @ = "task" THEN "free" ELSE @]
  <2>1. s.pc \in Active /\ UNCHANGED <<managerVars, closer>> /\ Becomes(st, GiveUp(m))
    BY <1>5 DEF Cancel, Active, PcStates, s
  <2>2. Move(s, m) /\ m.pc = s.pc
    <3>1. \E who \in {"free", "task", "cleanup"} : m = [s EXCEPT !.plock = who]
      BY <1>t DEF StreamRecords
    <3> QED
      BY <1>t, <3>1, LockMoves DEF StreamRecords
  <2>3. Move(m, GiveUp(m))
    BY <1>m, <2>1, <2>2, GiveUpMoves
  <2> QED
    BY <1>e, <2>1, <2>2, <2>3, MovesCompose
<1>6. CASE TimeIsUp(st)
  <2>1. Move(s, [s EXCEPT !.expired = TRUE])
    BY <1>t DEF StreamRecords, Sound, Known, Holds, Move
  <2> QED
    BY <1>6, <1>e, <2>1 DEF TimeIsUp, s
<1>7. CASE ProcessEnds(st)
  <2>1. Move(s, [s EXCEPT !.process = "gone"])
    BY <1>t DEF StreamRecords, Sound, Known, Holds, Move
  <2> QED
    BY <1>7, <1>e, <2>1 DEF ProcessEnds, s
<1> QED
  BY <1>1, <1>2, <1>3, <1>4, <1>5, <1>6, <1>7

-----------------------------------------------------------------------------
(***************************************************************************)
(* Steps and the invariant.                                                *)
(***************************************************************************)
\* A step that moves one stream keeps the invariant.
LEMMA MoveKeeps ==
    ASSUME CInv, NEW st \in Streams, NEW n, Move(stream[st], n), Becomes(st, n),
           UNCHANGED <<tickets, grants, registered, ready, valid>>
    PROVE  /\ StreamsSound' /\ TableAgrees' /\ TicketsBound'
           /\ stream' \in [Streams -> StreamRecords]
           /\ \A a \in Streams : /\ stream'[a].printer = stream[a].printer
                                 /\ stream'[a].session = stream[a].session
                                 /\ stream'[a].ticket = stream[a].ticket
                                 /\ Known(stream'[a]) <=> Known(stream[a])
                                 /\ Holds(stream'[a]) <=> Holds(stream[a])
<1>t. stream \in [Streams -> StreamRecords] /\ registered \subseteq Streams
  BY DEF CInv, TypeOK
<1>1. \A a \in Streams : stream'[a] = IF a = st THEN n ELSE stream[a]
  BY <1>t DEF Becomes
<1>2. \A a \in Streams : /\ stream'[a].printer = stream[a].printer
                         /\ stream'[a].session = stream[a].session
                         /\ stream'[a].ticket = stream[a].ticket
                         /\ Known(stream'[a]) <=> Known(stream[a])
                         /\ Holds(stream'[a]) <=> Holds(stream[a])
  BY <1>1 DEF Move
<1>3. StreamsSound'
  BY <1>1 DEF CInv, StreamsSound, Move
<1>4. TableAgrees'
  BY <1>t, <1>2 DEF CInv, TableAgrees
<1>5. TicketsBound'
  BY <1>2 DEF CInv, TicketsBound
<1>6. stream' \in [Streams -> StreamRecords]
  BY <1>t DEF Becomes, Move
<1> QED
  BY <1>2, <1>3, <1>4, <1>5, <1>6

\* Every step of tasks and cleanups that leaves the manager alone keeps the invariant.
LEMMA MovesKeep ==
    ASSUME CInv, NEW st \in Streams, Moves(st)
    PROVE  CInv'
<1>1. PICK n : Move(stream[st], n) /\ Becomes(st, n)
  BY DEF Moves
<1>2. UNCHANGED <<valid, ready, tickets, grants, registered, closer>>
  BY DEF Moves, managerVars
<1>3. /\ StreamsSound' /\ TableAgrees' /\ TicketsBound'
      /\ stream' \in [Streams -> StreamRecords]
      /\ \A a \in Streams : /\ stream'[a].printer = stream[a].printer
                            /\ stream'[a].session = stream[a].session
                            /\ stream'[a].ticket = stream[a].ticket
                            /\ Known(stream'[a]) <=> Known(stream[a])
  BY <1>1, <1>2, MoveKeeps
<1>4. TypeOK'
  BY <1>2, <1>3 DEF CInv, TypeOK
<1>5. closer \in [Closers -> CloserRecords] /\ registered \subseteq Streams
  BY DEF CInv, TypeOK
<1>6. ClosersSee'
  BY <1>2, <1>3, <1>5 DEF CInv, ClosersSee, About, CloserRecords
<1> QED
  BY <1>3, <1>4, <1>6 DEF CInv

\* A request arrives with a printer, a session and a ticket of its choice.
LEMMA ArriveKeeps ==
    ASSUME CInv, NEW st \in Streams, NEW p \in Printers, NEW x \in Sessions,
           NEW k \in 1 .. Len(grants), Arrive(st, p, x, k)
    PROVE  CInv'
<1> DEFINE s == stream[st]
           n == [s EXCEPT !.pc = "arrived", !.printer = p, !.session = x, !.ticket = k]
<1>t. /\ stream \in [Streams -> StreamRecords] /\ registered \subseteq Streams
      /\ closer \in [Closers -> CloserRecords]
      /\ Len(grants) \in Nat /\ Len(grants) <= MaxIssued /\ MaxIssued \in Nat
  BY CameraAssumption DEF CInv, TypeOK
<1>s. s \in StreamRecords /\ Sound(s) /\ s.pc = "idle"
  BY <1>t DEF CInv, StreamsSound, Arrive, Step
<1>1. /\ n \in StreamRecords /\ n.pc = "arrived" /\ n.process = s.process /\ n.held = s.held
      /\ n.closed = s.closed /\ n.cleanup = s.cleanup
      /\ n.restarts = s.restarts /\ n.spawns = s.spawns
  <2>1. k \in 0 .. MaxIssued
    BY <1>t
  <2> QED
    BY <1>s, <2>1 DEF StreamRecords, PcStates
<1>2. /\ stream' = [stream EXCEPT ![st] = n]
      /\ UNCHANGED <<valid, ready, tickets, grants, registered, closer>>
  BY DEF Arrive, Step, Becomes, managerVars
<1> HIDE DEF n
<1>3. Sound(n) /\ ~Known(n) /\ ~Holds(n) /\ ~Known(s) /\ ~Holds(s)
  BY <1>1, <1>s DEF Sound, Known, Holds
<1>4. \A a \in Streams : stream'[a] = IF a = st THEN n ELSE stream[a]
  BY <1>2, <1>t
<1>5. stream' \in [Streams -> StreamRecords]
  BY <1>1, <1>2, <1>t
<1>6. StreamsSound'
  BY <1>3, <1>4 DEF CInv, StreamsSound
<1>7. st \notin registered
  BY <1>3 DEF CInv, TableAgrees
<1>8. TableAgrees'
  BY <1>2, <1>3, <1>4, <1>7 DEF CInv, TableAgrees
<1>9. TicketsBound'
  BY <1>2, <1>3, <1>4 DEF CInv, TicketsBound
<1>10. ClosersSee'
  <2>1. \A c \in Closers : closer[c].todo \cup closer[c].waits \subseteq Streams
    BY <1>t DEF CloserRecords
  <2>2. \A c \in Closers : st \notin closer[c].todo \cup closer[c].waits
    BY <1>3 DEF CInv, ClosersSee
  <2> QED
    BY <1>t, <1>2, <1>4, <1>7, <2>1, <2>2 DEF CInv, ClosersSee, About
<1>11. TypeOK'
  BY <1>2, <1>5 DEF CInv, TypeOK
<1> QED
  BY <1>6, <1>8, <1>9, <1>10, <1>11 DEF CInv

\* The printer is given back: the stream leaves the table.
LEMMA ReleaseKeeps ==
    ASSUME CInv, NEW st \in Streams, release(st)
    PROVE  CInv'
<1> DEFINE s == stream[st]
           n == [s EXCEPT !.cleanup = "done"]
<1>t. /\ stream \in [Streams -> StreamRecords] /\ registered \subseteq Streams
      /\ closer \in [Closers -> CloserRecords]
  BY DEF CInv, TypeOK
<1>s. s \in StreamRecords /\ Sound(s) /\ s.cleanup = "release"
  BY <1>t DEF CInv, StreamsSound, release, CleanupStep
<1>1. /\ n \in StreamRecords /\ n.pc = s.pc /\ n.process = s.process /\ n.held = s.held
      /\ n.printer = s.printer /\ n.session = s.session /\ n.ticket = s.ticket
      /\ n.closed = s.closed /\ n.cleanup = "done"
      /\ n.restarts = s.restarts /\ n.spawns = s.spawns
  BY <1>s DEF StreamRecords
<1>2. /\ stream' = [stream EXCEPT ![st] = n] /\ registered' = registered \ {st}
      /\ UNCHANGED <<valid, ready, tickets, grants, closer>>
  BY DEF release, CleanupStep, Becomes
<1> HIDE DEF n
<1>3. Sound(n) /\ Known(n) /\ Known(s) /\ ~Holds(n)
  BY <1>1, <1>s DEF Sound, Known, Holds
<1>4. \A a \in Streams : stream'[a] = IF a = st THEN n ELSE stream[a]
  BY <1>2, <1>t
<1>5. stream' \in [Streams -> StreamRecords]
  BY <1>1, <1>2, <1>t
<1>6. StreamsSound'
  BY <1>3, <1>4 DEF CInv, StreamsSound
<1>8. TableAgrees'
  <2>1. registered' = {a \in Streams : Holds(stream'[a])}
    BY <1>2, <1>3, <1>4 DEF CInv, TableAgrees
  <2>2. IsFiniteSet(registered') /\ Cardinality(registered') <= MaxTotal
    <3>1. IsFiniteSet(registered) /\ Cardinality(registered) <= MaxTotal
      BY DEF CInv, TableAgrees
    <3>2. IsFiniteSet(registered') /\ Cardinality(registered') <= Cardinality(registered)
      BY <1>2, <3>1, FS_Subset
    <3>3. Cardinality(registered') \in Nat /\ Cardinality(registered) \in Nat /\ MaxTotal \in Nat
      BY <3>1, <3>2, FS_CardinalityType, CameraAssumption
    <3> QED
      BY <3>1, <3>2, <3>3
  <2> QED
    BY <1>t, <1>1, <1>2, <1>4, <2>1, <2>2 DEF CInv, TableAgrees
<1>9. TicketsBound'
  <2>1. \A a \in Streams : /\ stream'[a].printer = stream[a].printer
                           /\ stream'[a].session = stream[a].session
                           /\ stream'[a].ticket = stream[a].ticket
                           /\ Known(stream'[a]) <=> Known(stream[a])
    BY <1>1, <1>3, <1>4
  <2> QED
    BY <1>2, <2>1 DEF CInv, TicketsBound
<1>10. ClosersSee'
  <2>1. \A a \in Streams : /\ stream'[a].printer = stream[a].printer
                           /\ stream'[a].session = stream[a].session
                           /\ stream'[a].ticket = stream[a].ticket
                           /\ Known(stream'[a]) <=> Known(stream[a])
    BY <1>1, <1>3, <1>4
  <2> QED
    BY <1>t, <1>2, <2>1 DEF CInv, ClosersSee, About, CloserRecords
<1>11. TypeOK'
  BY <1>t, <1>2, <1>5 DEF CInv, TypeOK
<1> QED
  BY <1>6, <1>8, <1>9, <1>10, <1>11 DEF CInv

\* The ticket is used up and the printer reserved, or the request is refused.
LEMMA OpenKeeps ==
    ASSUME CInv, NEW st \in Streams, open_ticketed_stream(st)
    PROVE  CInv'
<1> DEFINE s == stream[st]
           rest == {t \in tickets : t.number # s.ticket}
           lets == TicketAccepted(s) /\ ~Busy(s)
           n == [s EXCEPT !.pc = IF lets THEN "begin" ELSE "done"]
<1>t. /\ stream \in [Streams -> StreamRecords] /\ registered \subseteq Streams
      /\ closer \in [Closers -> CloserRecords]
  BY DEF CInv, TypeOK
<1>s. s \in StreamRecords /\ Sound(s) /\ s.pc = "arrived"
  BY <1>t DEF CInv, StreamsSound, open_ticketed_stream
<1>1. /\ n \in StreamRecords /\ n.pc = (IF lets THEN "begin" ELSE "done")
      /\ n.process = s.process /\ n.held = s.held
      /\ n.printer = s.printer /\ n.session = s.session /\ n.ticket = s.ticket
      /\ n.closed = s.closed /\ n.cleanup = s.cleanup
      /\ n.restarts = s.restarts /\ n.spawns = s.spawns
  BY <1>s DEF StreamRecords, PcStates
<1>2. /\ stream' = [stream EXCEPT ![st] = n] /\ tickets' = rest
      /\ registered' = registered \cup (IF lets THEN {st} ELSE {})
      /\ UNCHANGED <<valid, ready, grants, closer>>
  BY DEF open_ticketed_stream, Reserve, Becomes
<1> HIDE DEF n, lets
<1>3. /\ Sound(n) /\ ~Known(s) /\ ~Holds(s)
      /\ Known(n) <=> lets
      /\ Holds(n) <=> lets
  BY <1>1, <1>s DEF Sound, Known, Holds
<1>4. \A a \in Streams : stream'[a] = IF a = st THEN n ELSE stream[a]
  BY <1>2, <1>t
<1>b. \A a \in Streams : /\ stream'[a].printer = stream[a].printer
                         /\ stream'[a].session = stream[a].session
                         /\ stream'[a].ticket = stream[a].ticket
                         /\ Known(stream'[a]) <=> (Known(stream[a]) \/ (a = st /\ lets))
                         /\ Holds(stream'[a]) <=> (Holds(stream[a]) \/ (a = st /\ lets))
  BY <1>1, <1>3, <1>4
<1>5. stream' \in [Streams -> StreamRecords]
  BY <1>1, <1>2, <1>t
<1>6. StreamsSound'
  BY <1>3, <1>4 DEF CInv, StreamsSound
<1>7. lets => /\ s.session \in valid
              /\ \E t \in tickets : /\ t.number = s.ticket
                                    /\ t.printer = s.printer /\ t.session = s.session
              /\ \A a \in registered : stream[a].printer # s.printer
              /\ ~(Cardinality(registered) >= MaxTotal)
  BY DEF lets, TicketAccepted, Authorized, Busy
<1>8. TableAgrees'
  <2>1. registered' = {a \in Streams : Holds(stream'[a])}
    BY <1>2, <1>b DEF CInv, TableAgrees
  <2>2. ASSUME NEW a \in registered', NEW b \in registered',
               stream'[a].printer = stream'[b].printer
        PROVE  a = b
    BY <1>t, <1>2, <1>7, <1>b, <2>2 DEF CInv, TableAgrees
  <2>3. IsFiniteSet(registered') /\ Cardinality(registered') <= MaxTotal
    <3>1. /\ IsFiniteSet(registered) /\ Cardinality(registered) <= MaxTotal
          /\ Cardinality(registered) \in Nat /\ MaxTotal \in Nat
      BY FS_CardinalityType, CameraAssumption DEF CInv, TableAgrees
    <3>2. /\ IsFiniteSet(registered \cup {st})
          /\ Cardinality(registered \cup {st}) \in
                 {Cardinality(registered), Cardinality(registered) + 1}
      BY <3>1, FS_AddElement
    <3>3. CASE lets
      BY <1>2, <1>7, <3>1, <3>2, <3>3
    <3>4. CASE ~lets
      BY <1>2, <3>1, <3>4
    <3> QED
      BY <3>3, <3>4
  <2> QED
    BY <2>1, <2>2, <2>3 DEF TableAgrees
<1>9. TicketsBound'
  <2>1. \A t \in tickets' :
           t.number \in 1 .. Len(grants') /\ grants'[t.number] = <<t.printer, t.session>>
    BY <1>2 DEF CInv, TicketsBound
  <2>2. ASSUME NEW a \in Streams, Known(stream'[a])
        PROVE  /\ stream'[a].ticket \in 1 .. Len(grants')
               /\ grants'[stream'[a].ticket] = <<stream'[a].printer, stream'[a].session>>
               /\ \A t \in tickets' : t.number # stream'[a].ticket
    BY <1>2, <1>7, <1>b, <2>2 DEF CInv, TicketsBound
  <2>3. ASSUME NEW a \in Streams, NEW b \in Streams, Known(stream'[a]), Known(stream'[b]), a # b
        PROVE  stream'[a].ticket # stream'[b].ticket
    BY <1>7, <1>b, <2>3 DEF CInv, TicketsBound
  <2> QED
    BY <2>1, <2>2, <2>3 DEF TicketsBound
<1>10. ClosersSee'
  <2>1. ASSUME NEW c \in Closers, About(c, st), closer[c].pc \in {"closing", "done"} PROVE ~lets
    <3>1. closer[c].aim \notin valid
      BY <2>1 DEF CInv, ClosersSee
    <3>2. \A t \in tickets : t.printer = closer[c].aim => t.number > closer[c].before
      BY <2>1 DEF CInv, ClosersSee
    <3>3. closer[c].before \in Nat /\ s.ticket \in Nat
      BY <1>t, CameraAssumption DEF CloserRecords, StreamRecords
    <3>4. \A t \in tickets : t.number \in Nat
      BY DEF CInv, TypeOK
    <3>5. closer[c].aim \in Printers => closer[c].aim \notin Sessions
      BY CameraAssumption
    <3>6. \A t \in tickets : t.printer \in Printers /\ t.session \in Sessions
      BY DEF CInv, TypeOK
    <3> QED
      BY <2>1, <3>1, <3>2, <3>3, <3>4, <3>5, <3>6, <1>7 DEF About
  <2>2. \A c \in Closers, a \in Streams : About(c, a)' <=> About(c, a)
    BY <1>2, <1>b DEF About
  <2>3. ASSUME NEW c \in Closers, closer[c].pc = "closing", NEW a \in registered', About(c, a)'
        PROVE  a \in closer[c].waits
    BY <1>t, <1>2, <2>1, <2>2, <2>3 DEF CInv, ClosersSee
  <2>4. ASSUME NEW c \in Closers, closer[c].pc = "done", NEW a \in registered'
        PROVE  ~About(c, a)'
    BY <1>t, <1>2, <2>1, <2>2, <2>4 DEF CInv, ClosersSee
  <2>5. \A c \in Closers : \A a \in closer[c].todo \cup closer[c].waits : Known(stream'[a])
    BY <1>t, <1>b DEF CInv, ClosersSee, CloserRecords
  <2> QED
    BY <1>2, <2>3, <2>4, <2>5 DEF CInv, ClosersSee
<1>11. TypeOK'
  <2>1. /\ tickets' \subseteq [number : 1 .. MaxIssued, printer : Printers, session : Sessions]
        /\ IsFiniteSet(tickets') /\ Cardinality(tickets') <= TicketCap
    <3>1. IsFiniteSet(rest) /\ Cardinality(rest) <= Cardinality(tickets)
      BY FS_Subset DEF CInv, TypeOK
    <3>2. Cardinality(rest) \in Nat /\ Cardinality(tickets) \in Nat /\ TicketCap \in Nat
      BY <3>1, FS_CardinalityType, CameraAssumption DEF CInv, TypeOK
    <3> QED
      BY <1>2, <3>1, <3>2 DEF CInv, TypeOK
  <2> QED
    BY <1>t, <1>2, <1>5, <2>1 DEF CInv, TypeOK
<1> QED
  BY <1>6, <1>8, <1>9, <1>10, <1>11 DEF CInv

-----------------------------------------------------------------------------
(***************************************************************************)
(* Closers.                                                                *)
(***************************************************************************)
\* A closer looks at every stream of the table, or closes one, or waits.
LEMMA CloserKeeps ==
    ASSUME CInv, NEW c \in Closers, Closer(c)
    PROVE  CInv'
<1> DEFINE x == closer[c]
<1>t. /\ stream \in [Streams -> StreamRecords] /\ registered \subseteq Streams
      /\ closer \in [Closers -> CloserRecords] /\ x \in CloserRecords
      /\ IsFiniteSet(tickets) /\ TicketCap \in Nat
  BY CameraAssumption DEF CInv, TypeOK
<1>f. ASSUME NEW y \in CloserRecords, closer' = [closer EXCEPT ![c] = y],
             y.aim = x.aim, y.before = x.before, x.pc # "idle",
             UNCHANGED <<valid, ready, grants, registered>>, tickets' \subseteq tickets,
             \A a \in Streams : /\ stream'[a].printer = stream[a].printer
                                /\ stream'[a].session = stream[a].session
                                /\ stream'[a].ticket = stream[a].ticket
                                /\ Known(stream'[a]) <=> Known(stream[a]),
             y.pc \in {"collect", "closing", "done"} =>
                 \A t \in tickets' : t.printer = x.aim => t.number > x.before,
             y.pc = "closing" => \A st \in registered : About(c, st) => st \in y.waits,
             y.pc = "done" => \A st \in registered : ~About(c, st),
             \A st \in y.todo \cup y.waits : Known(stream[st])
      PROVE  ClosersSee'
  <2>1. \A d \in Closers : closer'[d] = IF d = c THEN y ELSE closer[d]
    BY <1>f, <1>t
  <2>2. \A d \in Closers, a \in Streams : About(d, a)' <=> About(d, a)
    BY <1>f, <2>1 DEF About
  <2>3. \A d \in Closers :
           closer'[d].todo \subseteq Streams /\ closer'[d].waits \subseteq Streams
    BY <1>f, <1>t, <2>1 DEF CloserRecords
  <2>4. ASSUME NEW d \in Closers
        PROVE  /\ closer'[d].pc # "idle" => closer'[d].aim \notin valid'
               /\ closer'[d].before <= Len(grants')
               /\ closer'[d].pc \in {"collect", "closing", "done"} =>
                      \A t \in tickets' : t.printer = closer'[d].aim => t.number > closer'[d].before
               /\ closer'[d].pc = "closing" =>
                      \A st \in registered' : About(d, st)' => st \in closer'[d].waits
               /\ closer'[d].pc = "done" => \A st \in registered' : ~About(d, st)'
               /\ \A st \in closer'[d].todo \cup closer'[d].waits : Known(stream'[st])
    <3>1. CASE d = c
      BY <1>f, <1>t, <2>1, <2>2, <2>3, <3>1 DEF CInv, ClosersSee
    <3>2. CASE d # c
      BY <1>f, <1>t, <2>1, <2>2, <2>3, <3>2 DEF CInv, ClosersSee
    <3> QED
      BY <3>1, <3>2
  <2> QED
    BY <2>4 DEF ClosersSee
<1>g. ASSUME UNCHANGED <<valid, ready, grants, registered, stream>>, tickets' \subseteq tickets,
             closer' \in [Closers -> CloserRecords]
      PROVE  TypeOK' /\ StreamsSound' /\ TableAgrees' /\ TicketsBound'
  <2>1. IsFiniteSet(tickets') /\ Cardinality(tickets') <= TicketCap
    <3>1. IsFiniteSet(tickets') /\ Cardinality(tickets') <= Cardinality(tickets)
      BY <1>g, <1>t, FS_Subset
    <3>2. Cardinality(tickets') \in Nat /\ Cardinality(tickets) \in Nat
      BY <1>t, <3>1, FS_CardinalityType
    <3> QED
      BY <1>t, <3>1, <3>2 DEF CInv, TypeOK
  <2>2. TypeOK'
    BY <1>g, <2>1 DEF CInv, TypeOK
  <2> QED
    BY <1>g, <2>2 DEF CInv, StreamsSound, TableAgrees, TicketsBound
<1>1. CASE revoke_tickets(c)
  <2> DEFINE y == [x EXCEPT !.pc = "collect"]
  <2>1. /\ y \in CloserRecords /\ y.aim = x.aim /\ y.before = x.before /\ y.pc = "collect"
        /\ y.todo = x.todo /\ y.waits = x.waits
    BY <1>t DEF CloserRecords
  <2>2. /\ x.pc = "tickets" /\ closer' = [closer EXCEPT ![c] = y]
        /\ UNCHANGED <<valid, ready, grants, registered, stream>>
        /\ tickets' = {t \in tickets : ~Concerns(x.aim, t.printer, t.session)}
    BY <1>1 DEF revoke_tickets, CloserStep
  <2> HIDE DEF y
  <2>3. ClosersSee'
    <3>1. \A t \in tickets' : t.printer # x.aim
      BY <2>2 DEF Concerns
    <3>2. \A st \in y.todo \cup y.waits : Known(stream[st])
      BY <2>1 DEF CInv, ClosersSee
    <3> QED
      BY <1>f, <2>1, <2>2, <3>1, <3>2
  <2> QED
    BY <1>g, <1>t, <2>1, <2>2, <2>3 DEF CInv
<1>2. CASE Collect(c)
  <2> DEFINE found == {st \in registered : Concerns(x.aim, stream[st].printer, stream[st].session)}
             y == [x EXCEPT !.pc = "closing", !.todo = found, !.waits = found]
  <2>1. /\ y \in CloserRecords /\ y.aim = x.aim /\ y.before = x.before /\ y.pc = "closing"
        /\ y.todo = found /\ y.waits = found
    BY <1>t DEF CloserRecords
  <2>2. /\ x.pc = "collect" /\ closer' = [closer EXCEPT ![c] = y]
        /\ UNCHANGED <<valid, ready, tickets, grants, registered, stream>>
    BY <1>2 DEF Collect, CloserStep, managerVars
  <2>3. \A st \in registered : About(c, st) => st \in found
    BY DEF About, Concerns
  <2>4. \A st \in found : Known(stream[st])
    BY DEF CInv, TableAgrees, Known, Holds
  <2> HIDE DEF y, found
  <2>5. ClosersSee'
    <3>1. \A t \in tickets' : t.printer = x.aim => t.number > x.before
      BY <2>2 DEF CInv, ClosersSee
    <3> QED
      BY <1>f, <2>1, <2>2, <2>3, <2>4, <3>1
  <2> QED
    BY <1>g, <1>t, <2>1, <2>2, <2>5 DEF CInv
<1>3. ASSUME NEW st \in Streams, CloseOne(c, st) PROVE CInv'
  <2> DEFINE y == [x EXCEPT !.todo = @ \ {st}]
             n == Close(stream[st])
  <2>1. /\ y \in CloserRecords /\ y.aim = x.aim /\ y.before = x.before /\ y.pc = x.pc
        /\ y.todo = x.todo \ {st} /\ y.waits = x.waits
    BY <1>t DEF CloserRecords
  <2>2. /\ x.pc = "closing" /\ closer' = [closer EXCEPT ![c] = y] /\ st \in x.todo
        /\ Becomes(st, n) /\ UNCHANGED <<valid, ready, tickets, grants, registered>>
    BY <1>3 DEF CloseOne, CloserStep, managerVars
  <2>3. Known(stream[st])
    BY <2>2 DEF CInv, ClosersSee
  <2>4. Move(stream[st], n)
    BY <1>t, <2>3, CloseMoves DEF CInv, StreamsSound
  <2> HIDE DEF y, n
  <2>5. /\ StreamsSound' /\ TableAgrees' /\ TicketsBound'
        /\ stream' \in [Streams -> StreamRecords]
        /\ \A a \in Streams : /\ stream'[a].printer = stream[a].printer
                              /\ stream'[a].session = stream[a].session
                              /\ stream'[a].ticket = stream[a].ticket
                              /\ Known(stream'[a]) <=> Known(stream[a])
    BY <2>2, <2>4, MoveKeeps
  <2>6. ClosersSee'
    <3>1. /\ \A t \in tickets' : t.printer = x.aim => t.number > x.before
          /\ \A a \in registered : About(c, a) => a \in y.waits
          /\ \A a \in y.todo \cup y.waits : Known(stream[a])
      BY <2>1, <2>2 DEF CInv, ClosersSee
    <3> QED
      BY <1>f, <2>1, <2>2, <2>5, <3>1
  <2>7. TypeOK'
    BY <1>t, <2>1, <2>2, <2>5 DEF CInv, TypeOK
  <2> QED
    BY <2>5, <2>6, <2>7 DEF CInv
<1>4. CASE Return(c)
  <2> DEFINE y == [x EXCEPT !.pc = "done"]
  <2>1. /\ y \in CloserRecords /\ y.aim = x.aim /\ y.before = x.before /\ y.pc = "done"
        /\ y.todo = x.todo /\ y.waits = x.waits
    BY <1>t DEF CloserRecords
  <2>2. /\ x.pc = "closing" /\ closer' = [closer EXCEPT ![c] = y]
        /\ UNCHANGED <<valid, ready, tickets, grants, registered, stream>>
        /\ \A st \in x.waits : stream[st].cleanup = "done"
    BY <1>4 DEF Return, CloserStep, managerVars
  <2> HIDE DEF y
  <2>3. \A st \in registered : ~About(c, st)
    <3>1. \A st \in registered : stream[st].cleanup # "done"
      BY DEF CInv, TableAgrees, Holds
    <3>2. \A st \in registered : About(c, st) => st \in x.waits
      BY <2>2 DEF CInv, ClosersSee
    <3> QED
      BY <2>2, <3>1, <3>2
  <2>4. ClosersSee'
    <3>1. /\ \A t \in tickets' : t.printer = x.aim => t.number > x.before
          /\ \A a \in y.todo \cup y.waits : Known(stream[a])
      BY <2>1, <2>2 DEF CInv, ClosersSee
    <3> QED
      BY <1>f, <2>1, <2>2, <2>3, <3>1
  <2> QED
    BY <1>g, <1>t, <2>1, <2>2, <2>4 DEF CInv
<1> QED
  BY <1>1, <1>2, <1>3, <1>4 DEF Closer

\* A stop, a logout, a reload or a shutdown begins.
LEMMA BeginKeeps ==
    ASSUME CInv, NEW c \in Closers, NEW aim \in Printers \cup Sessions \cup {All},
           NEW where \in {"tickets", "collect"}, Begin(c, aim, where),
           valid' \subseteq valid, aim \notin valid', where = "collect" => aim = All
    PROVE  CInv'
<1> DEFINE x == closer[c]
           y == [x EXCEPT !.pc = where, !.aim = aim, !.before = Len(grants)]
<1>t. /\ closer \in [Closers -> CloserRecords] /\ x \in CloserRecords
      /\ registered \subseteq Streams /\ Len(grants) \in 0 .. MaxIssued
  BY CameraAssumption DEF CInv, TypeOK
<1>1. /\ y \in CloserRecords /\ y.aim = aim /\ y.before = Len(grants) /\ y.pc = where
      /\ y.todo = x.todo /\ y.waits = x.waits
  BY <1>t DEF CloserRecords
<1>2. /\ closer' = [closer EXCEPT ![c] = y]
      /\ UNCHANGED <<ready, tickets, grants, registered, stream>>
  BY DEF Begin, CloserStep
<1> HIDE DEF y
<1>3. \A d \in Closers : closer'[d] = IF d = c THEN y ELSE closer[d]
  BY <1>2, <1>t
<1>4. \A t \in tickets : t.printer # All
  BY CameraAssumption DEF CInv, TypeOK
<1>5. ClosersSee'
  <2>1. ASSUME NEW d \in Closers
        PROVE  /\ closer'[d].pc # "idle" => closer'[d].aim \notin valid'
               /\ closer'[d].before <= Len(grants')
               /\ closer'[d].pc \in {"collect", "closing", "done"} =>
                      \A t \in tickets' : t.printer = closer'[d].aim => t.number > closer'[d].before
               /\ closer'[d].pc = "closing" =>
                      \A st \in registered' : About(d, st)' => st \in closer'[d].waits
               /\ closer'[d].pc = "done" => \A st \in registered' : ~About(d, st)'
               /\ \A st \in closer'[d].todo \cup closer'[d].waits : Known(stream'[st])
    <3>1. CASE d = c
      BY <1>1, <1>2, <1>3, <1>4, <1>t, <3>1 DEF CInv, ClosersSee
    <3>2. CASE d # c
      <4>1. \A st \in Streams : About(d, st)' <=> About(d, st)
        BY <1>2, <1>3, <3>2 DEF About
      <4> QED
        BY <1>2, <1>3, <1>t, <3>2, <4>1 DEF CInv, ClosersSee
    <3> QED
      BY <3>1, <3>2
  <2> QED
    BY <2>1 DEF ClosersSee
<1>6. TypeOK'
  BY <1>t, <1>1, <1>2 DEF CInv, TypeOK
<1>7. StreamsSound' /\ TableAgrees' /\ TicketsBound'
  BY <1>2 DEF CInv, StreamsSound, TableAgrees, TicketsBound
<1> QED
  BY <1>5, <1>6, <1>7 DEF CInv

-----------------------------------------------------------------------------
(***************************************************************************)
(* Tickets and the world.                                                  *)
(***************************************************************************)
\* The order on the numbers of tickets, in which the oldest is the least.
NatLess == {p \in Nat \X Nat : p[1] < p[2]}

\* What a ticket is, as TypeOK has it.
TicketRecords == [number : 1 .. MaxIssued, printer : Printers, session : Sessions]

\* Dropping the oldest ticket makes room for one.
LEMMA NewerIsSmaller ==
    ASSUME NEW T \in SUBSET TicketRecords, IsFiniteSet(T), T # {}
    PROVE  /\ IsFiniteSet(Newer(T)) /\ Newer(T) \subseteq T
           /\ Cardinality(Newer(T)) + 1 <= Cardinality(T)
           /\ Cardinality(Newer(T)) \in Nat
<1> DEFINE Numbers == {t.number : t \in T}
<1>1. Numbers \in SUBSET Nat /\ Numbers # {}
  BY DEF TicketRecords
<1>2. IsWellFoundedOn(NatLess, Nat)
  BY NatLessThanWellFounded DEF OpToRel, NatLess
<1>3. PICK k \in Numbers : \A j \in Numbers : ~ (<<j, k>> \in NatLess)
  BY <1>1, <1>2, WFMin
<1>4. PICK t \in T : t.number = k
  OBVIOUS
<1>5. t \notin Newer(T)
  <2>1. ASSUME NEW u \in T PROVE ~(u.number < t.number)
    <3>1. u.number \in Numbers /\ u.number \in Nat /\ k \in Nat
      BY <1>1
    <3> QED
      BY <1>3, <1>4, <3>1 DEF NatLess
  <2> QED
    BY <2>1 DEF Newer
<1>6. Newer(T) \subseteq T \ {t}
  BY <1>5 DEF Newer
<1>7. IsFiniteSet(T \ {t}) /\ Cardinality(T \ {t}) = Cardinality(T) - 1
  BY FS_RemoveElement
<1>8. IsFiniteSet(Newer(T)) /\ Cardinality(Newer(T)) <= Cardinality(T \ {t})
  BY <1>6, <1>7, FS_Subset
<1>9. Cardinality(Newer(T)) \in Nat /\ Cardinality(T) \in Nat
  BY <1>8, FS_CardinalityType
<1> QED
  BY <1>6, <1>7, <1>8, <1>9

\* A new ticket has a number of its own, and the table keeps its bound.
LEMMA IssueKeeps ==
    ASSUME CInv, NEW p \in Printers, NEW x \in Sessions, issue_ticket(p, x)
    PROVE  CInv'
<1> DEFINE others == {t \in tickets : <<t.printer, t.session>> # <<p, x>>}
           kept == IF Cardinality(others) >= TicketCap THEN Newer(others) ELSE others
           k == Len(grants) + 1
           new == [number |-> k, printer |-> p, session |-> x]
<1>t. /\ tickets \in SUBSET TicketRecords /\ IsFiniteSet(tickets)
      /\ Cardinality(tickets) <= TicketCap /\ TicketCap \in Nat \ {0}
      /\ grants \in Seq(Printers \X Sessions) /\ Len(grants) \in Nat
      /\ closer \in [Closers -> CloserRecords] /\ MaxIssued \in Nat
      /\ registered \subseteq Streams
  BY CameraAssumption DEF CInv, TypeOK, TicketRecords
<1>1. /\ Len(grants) < MaxIssued /\ tickets' = kept \cup {new}
      /\ grants' = Append(grants, <<p, x>>)
      /\ UNCHANGED <<valid, ready, registered, stream, closer>>
  BY DEF issue_ticket
<1>2. k \in 1 .. MaxIssued /\ new \in TicketRecords
  BY <1>t, <1>1 DEF TicketRecords
<1>3. /\ Len(grants') = k /\ grants'[k] = <<p, x>> /\ grants' \in Seq(Printers \X Sessions)
      /\ \A i \in 1 .. Len(grants) : grants'[i] = grants[i]
  BY <1>t, <1>1
<1>4. /\ kept \subseteq tickets /\ IsFiniteSet(kept)
      /\ Cardinality(kept) \in Nat /\ Cardinality(kept) + 1 <= TicketCap
  <2>1. /\ others \in SUBSET TicketRecords /\ IsFiniteSet(others) /\ others \subseteq tickets
        /\ Cardinality(others) <= Cardinality(tickets)
    BY <1>t, FS_Subset
  <2>2. Cardinality(others) \in Nat /\ Cardinality(tickets) \in Nat
    BY <1>t, <2>1, FS_CardinalityType
  <2>3. CASE Cardinality(others) >= TicketCap
    <3>1. others # {}
      <4>1. others = {} => Cardinality(others) = 0
        BY <2>1, FS_EmptySet
      <4> HIDE DEF others
      <4> QED
        BY <1>t, <2>2, <2>3, <4>1
    <3>2. /\ IsFiniteSet(Newer(others)) /\ Newer(others) \subseteq others
          /\ Cardinality(Newer(others)) + 1 <= Cardinality(others)
          /\ Cardinality(Newer(others)) \in Nat
      BY <2>1, <3>1, NewerIsSmaller
    <3> QED
      BY <1>t, <2>1, <2>2, <2>3, <3>2
  <2>4. CASE ~(Cardinality(others) >= TicketCap)
    BY <1>t, <2>1, <2>2, <2>4
  <2> QED
    BY <2>3, <2>4
<1> HIDE DEF kept, new, k
<1>5. IsFiniteSet(tickets') /\ Cardinality(tickets') <= TicketCap
  <2>1. IsFiniteSet(kept \cup {new})
        /\ Cardinality(kept \cup {new}) \in {Cardinality(kept), Cardinality(kept) + 1}
    BY <1>4, FS_AddElement
  <2> QED
    BY <1>1, <1>4, <1>t, <2>1
<1>6. TypeOK'
  <2>1. tickets' \subseteq TicketRecords /\ Len(grants') <= MaxIssued
    BY <1>t, <1>1, <1>2, <1>3, <1>4
  <2> QED
    BY <1>1, <1>3, <1>5, <2>1 DEF CInv, TypeOK, TicketRecords
<1>7. \A t \in tickets' : t = new \/ t \in tickets
  BY <1>1, <1>4
<1>8. new.number = k /\ new.printer = p /\ new.session = x /\ k = Len(grants) + 1
  BY DEF new, k
<1>9. TicketsBound'
  <2>1. \A t \in tickets' :
           t.number \in 1 .. Len(grants') /\ grants'[t.number] = <<t.printer, t.session>>
    BY <1>t, <1>3, <1>7, <1>8 DEF CInv, TicketsBound
  <2>2. ASSUME NEW st \in Streams, Known(stream[st])
        PROVE  /\ stream[st].ticket \in 1 .. Len(grants')
               /\ grants'[stream[st].ticket] = <<stream[st].printer, stream[st].session>>
               /\ \A t \in tickets' : t.number # stream[st].ticket
    BY <1>t, <1>3, <1>7, <1>8, <2>2 DEF CInv, TicketsBound
  <2> QED
    BY <1>1, <2>1, <2>2 DEF CInv, TicketsBound
<1>10. ClosersSee'
  <2>1. \A c \in Closers : closer[c].before \in Nat /\ closer[c].before <= Len(grants)
    BY <1>t DEF CInv, ClosersSee, CloserRecords
  <2>2. \A c \in Closers : closer[c].pc \in {"collect", "closing", "done"} =>
            \A t \in tickets' : t.printer = closer[c].aim => t.number > closer[c].before
    BY <1>t, <1>7, <1>8, <2>1 DEF CInv, ClosersSee
  <2>3. \A c \in Closers : closer[c].before <= Len(grants')
    BY <1>t, <1>3, <1>8, <2>1
  <2> QED
    BY <1>1, <2>2, <2>3 DEF CInv, ClosersSee, About
<1>11. StreamsSound' /\ TableAgrees'
  BY <1>1 DEF CInv, StreamsSound, TableAgrees
<1> QED
  BY <1>6, <1>9, <1>10, <1>11 DEF CInv

\* Tickets that expire, sessions that end and configurations that change keep the invariant.
LEMMA WorldKeeps ==
    ASSUME CInv, UNCHANGED <<grants, registered, stream, closer>>,
           valid' \subseteq valid, ready' \subseteq Printers, tickets' \subseteq tickets
    PROVE  CInv'
<1>1. IsFiniteSet(tickets') /\ Cardinality(tickets') <= TicketCap
  <2>1. IsFiniteSet(tickets') /\ Cardinality(tickets') <= Cardinality(tickets)
    BY FS_Subset DEF CInv, TypeOK
  <2>2. Cardinality(tickets') \in Nat /\ Cardinality(tickets) \in Nat /\ TicketCap \in Nat
    BY <2>1, FS_CardinalityType, CameraAssumption DEF CInv, TypeOK
  <2> QED
    BY <2>1, <2>2 DEF CInv, TypeOK
<1>2. TypeOK'
  BY <1>1 DEF CInv, TypeOK
<1>3. StreamsSound' /\ TableAgrees' /\ TicketsBound'
  BY DEF CInv, StreamsSound, TableAgrees, TicketsBound
<1>4. ClosersSee'
  BY DEF CInv, ClosersSee, About
<1> QED
  BY <1>2, <1>3, <1>4 DEF CInv

\* Every step keeps the invariant.
LEMMA CameraStep == CInv /\ [Next]_vars => CInv'
<1> SUFFICES ASSUME CInv, [Next]_vars PROVE CInv'
  OBVIOUS
<1>1. ASSUME NEW st \in Streams, Task(st) PROVE CInv'
  BY <1>1, OpenKeeps, TaskMoves, MovesKeep DEF CInv
<1>2. ASSUME NEW st \in Streams, Cleanup(st) \/ TimeIsUp(st) PROVE CInv'
  BY <1>2, ReleaseKeeps, OtherMoves, MovesKeep DEF CInv, Cleanup
<1>3. ASSUME NEW st \in Streams, Client(st) PROVE CInv'
  BY <1>3, ArriveKeeps, OtherMoves, MovesKeep DEF CInv, Client
<1>4. ASSUME NEW c \in Closers, Closer(c) PROVE CInv'
  BY <1>4, CloserKeeps
<1>5. CASE Environment
  <2>v. valid \subseteq Sessions /\ valid \cap Printers = {} /\ All \notin valid
    BY CameraAssumption DEF CInv, TypeOK
  <2>1. ASSUME NEW p \in Printers, NEW x \in Sessions, issue_ticket(p, x) PROVE CInv'
    BY <2>1, IssueKeeps
  <2>2. CASE TicketExpires
    <3>1. Newer(tickets) \subseteq tickets
      BY DEF Newer
    <3> QED
      BY <2>2, <3>1, WorldKeeps DEF TicketExpires, CInv, TypeOK
  <2>3. ASSUME NEW c \in Closers, NEW p \in Printers, camera_stop(c, p) PROVE CInv'
    BY <2>3, <2>v, BeginKeeps DEF camera_stop
  <2>4. ASSUME NEW c \in Closers, NEW x \in Sessions, logout(c, x) PROVE CInv'
    BY <2>4, <2>v, BeginKeeps DEF logout
  <2>5. ASSUME NEW c \in Closers, close_all(c) PROVE CInv'
    BY <2>5, <2>v, BeginKeeps DEF close_all
  <2>6. ASSUME NEW x \in Sessions, SessionExpires(x) PROVE CInv'
    BY <2>6, WorldKeeps DEF SessionExpires, CInv, TypeOK
  <2>7. ASSUME NEW p \in Printers, ReadyChanges(p) PROVE CInv'
    BY <2>7, WorldKeeps DEF ReadyChanges, CInv, TypeOK
  <2>8. ASSUME NEW st \in Streams, ProcessEnds(st) PROVE CInv'
    BY <2>8, OtherMoves, MovesKeep DEF CInv
  <2> QED
    BY <1>5, <2>1, <2>2, <2>3, <2>4, <2>5, <2>6, <2>7, <2>8 DEF Environment
<1>6. CASE UNCHANGED vars
  BY <1>6, WorldKeeps DEF vars, managerVars, CInv, TypeOK
<1> QED
  BY <1>1, <1>2, <1>3, <1>4, <1>5, <1>6 DEF Next

\* The initial state satisfies the invariant.
LEMMA InitCInv == Init => CInv
<1> SUFFICES ASSUME Init PROVE CInv
  OBVIOUS
<1>1. \A st \in Streams : stream[st] = NewStream
  BY DEF Init
<1>2. NewStream \in StreamRecords
  BY CameraAssumption DEF NewStream, StreamRecords, PcStates
<1>3. NewCloser \in CloserRecords
  BY CameraAssumption DEF NewCloser, CloserRecords
<1>4. TypeOK
  <2>1. IsFiniteSet(tickets) /\ Cardinality(tickets) <= TicketCap
    BY FS_EmptySet, CameraAssumption DEF Init
  <2> QED
    BY <1>2, <1>3, <2>1, CameraAssumption DEF Init, TypeOK
<1>5. StreamsSound
  BY <1>1 DEF StreamsSound, Sound, Known, NewStream
<1>6. TableAgrees /\ TicketsBound
  <2>1. IsFiniteSet(registered) /\ Cardinality(registered) <= MaxTotal
    BY FS_EmptySet, CameraAssumption DEF Init
  <2> QED
    BY <1>1, <2>1 DEF Init, TableAgrees, TicketsBound, Known, Holds, NewStream
<1>7. ClosersSee
  BY <1>1 DEF Init, ClosersSee, NewCloser
<1> QED
  BY <1>4, <1>5, <1>6, <1>7 DEF CInv

-----------------------------------------------------------------------------
\* The invariant of the camera streams holds at every step.
THEOREM CameraInductive == Spec => []CInv
BY InitCInv, CameraStep, PTL DEF Spec

\* TypeOK: the ticket table stays below MAX_CAMERA_TICKETS and the restarts of a
\* stream below limits.max_restarts.
THEOREM CameraTypeCorrect == Spec => []TypeOK
<1>1. CInv => TypeOK
  BY DEF CInv
<1> QED
  BY <1>1, CameraInductive, PTL

\* NoRunningOrphan: _close_impl never gives a printer back while a process runs that
\* nobody told to end.
THEOREM NoRunningOrphanAlways == Spec => []NoRunningOrphan
<1>1. CInv => NoRunningOrphan
  <2> SUFFICES ASSUME CInv, NEW st \in Streams, stream[st].process = "running"
               PROVE  st \in registered
    BY DEF NoRunningOrphan
  <2>1. Sound(stream[st])
    BY DEF CInv, StreamsSound
  <2>2. Holds(stream[st])
    BY <2>1 DEF Sound, Known, Holds
  <2> QED
    BY <2>2 DEF CInv, TableAgrees
<1> QED
  BY <1>1, CameraInductive, PTL

\* StopIsFinal: after stop_printer or close_session nothing they were about holds a
\* printer, and no ticket issued before can make it so.
THEOREM StopIsFinalAlways == Spec => []StopIsFinal
<1>1. CInv => StopIsFinal
  BY DEF CInv, ClosersSee, StopIsFinal, About
<1> QED
  BY <1>1, CameraInductive, PTL

\* TicketSingleUse: open_ticketed_stream lets a ticket in once, for its printer and
\* its session.
THEOREM TicketSingleUseAlways == Spec => []TicketSingleUse
<1>1. CInv => TicketSingleUse
  <2> SUFFICES ASSUME CInv PROVE TicketSingleUse
    OBVIOUS
  <2>1. \A st \in Streams : stream[st].spawns > 0 => Known(stream[st])
    BY DEF CInv, StreamsSound, Sound
  <2> QED
    BY <2>1 DEF CInv, TicketsBound, TicketSingleUse
<1> QED
  BY <1>1, CameraInductive, PTL

\* SpawnsBounded: start() and _restart() together start at most 1 + max_restarts
\* processes for a stream.
THEOREM SpawnsBoundedAlways == Spec => []SpawnsBounded
<1>1. CInv => SpawnsBounded
  <2> SUFFICES ASSUME CInv, NEW st \in Streams PROVE stream[st].spawns <= 1 + MaxRestarts
    BY DEF SpawnsBounded
  <2>1. stream[st] \in StreamRecords /\ Sound(stream[st])
    BY DEF CInv, TypeOK, StreamsSound
  <2>2. stream[st].restarts \in 0 .. MaxRestarts /\ stream[st].spawns \in Nat /\ MaxRestarts \in Nat
    BY <2>1, CameraAssumption DEF StreamRecords
  <2>3. stream[st].spawns <= stream[st].restarts + 1
    BY <2>1 DEF Sound
  <2> QED
    BY <2>2, <2>3
<1> QED
  BY <1>1, CameraInductive, PTL

-----------------------------------------------------------------------------
(***************************************************************************)
(* The refinement of CameraSlot.                                           *)
(***************************************************************************)
\* What the refinement mapping gives for the variables of CameraSlot.
Holder == [p \in Printers |-> {st \in registered : stream[st].printer = p}]
Running == {st \in Streams : stream[st].process = "running"}

\* Exactly the registered streams hold a printer, each its own.
LEMMA HoldersRegistered ==
    ASSUME CInv
    PROVE  /\ Slot!Holding = registered
           /\ \A st \in registered : stream[st].printer \in Printers
           /\ Slot!Cardinality(registered) = Cardinality(registered)
<1>2. Slot!Cardinality(registered) = Cardinality(registered)
  BY DEF Slot!Cardinality, Cardinality
<1>1. ASSUME NEW st \in registered PROVE st \in Streams /\ stream[st].printer \in Printers
  <2>1. st \in Streams /\ Known(stream[st])
    BY DEF CInv, TypeOK, TableAgrees, Known, Holds
  <2>2. grants[stream[st].ticket] \in Printers \X Sessions
    BY <2>1 DEF CInv, TypeOK, TicketsBound
  <2> QED
    BY <2>1, <2>2 DEF CInv, TicketsBound
<1> QED
  BY <1>1, <1>2 DEF Slot!Holding

\* A step that moves one stream starts a process for a holder, stops one, or neither.
LEMMA MoveRefines ==
    ASSUME CInv, NEW st \in Streams, NEW n, Move(stream[st], n), Becomes(st, n),
           registered' = registered
    PROVE  [Slot!Next]_(Slot!slotVars)
<1>t. stream \in [Streams -> StreamRecords] /\ registered \subseteq Streams
  BY DEF CInv, TypeOK
<1>1. \A a \in Streams : stream'[a] = IF a = st THEN n ELSE stream[a]
  BY <1>t DEF Becomes
<1>2. Holder' = Holder
  BY <1>1, <1>t DEF Holder, Move
<1>3. CASE (n.process = "running") <=> (stream[st].process = "running")
  <2>1. Running' = Running
    BY <1>1, <1>3 DEF Running
  <2> QED
    BY <1>2, <2>1 DEF Slot!slotVars, Holder, Running
<1>4. CASE n.process = "running" /\ stream[st].process # "running"
  <2>1. Running' = Running \cup {st} /\ st \notin Running
    BY <1>1, <1>4 DEF Running
  <2>2. st \in Slot!Holding
    BY <1>4, HoldersRegistered DEF CInv, TableAgrees, Move
  <2>3. Slot!Spawn(st)
    BY <1>2, <2>1, <2>2 DEF Slot!Spawn, Holder, Running
  <2> QED
    BY <2>3 DEF Slot!Next
<1>5. CASE n.process # "running" /\ stream[st].process = "running"
  <2>1. Running' = Running \ {st} /\ st \in Running
    BY <1>1, <1>5 DEF Running
  <2>2. Slot!Stop(st)
    BY <1>2, <2>1 DEF Slot!Stop, Holder, Running
  <2> QED
    BY <2>2 DEF Slot!Next
<1> QED
  BY <1>3, <1>4, <1>5

\* Letting a request in reserves its printer; refusing it is a stutter.
LEMMA OpenRefines ==
    ASSUME CInv, NEW st \in Streams, open_ticketed_stream(st)
    PROVE  [Slot!Next]_(Slot!slotVars)
<1> DEFINE s == stream[st]
           p == s.printer
<1>t. stream \in [Streams -> StreamRecords] /\ registered \subseteq Streams
  BY DEF CInv, TypeOK
<1>1. s.pc = "arrived" /\ s \in StreamRecords /\ st \notin registered
  BY <1>t DEF open_ticketed_stream, CInv, TableAgrees, Holds
<1>2. PICK where \in {"begin", "done"} : stream' = [stream EXCEPT ![st] = [s EXCEPT !.pc = where]]
  BY DEF open_ticketed_stream, Reserve, Becomes
<1>3. \A a \in Streams : /\ stream'[a].printer = stream[a].printer
                         /\ stream'[a].process = stream[a].process
  BY <1>t, <1>1, <1>2 DEF StreamRecords
<1>4. Running' = Running
  BY <1>3 DEF Running
<1>5. CASE TicketAccepted(s) /\ ~Busy(s)
  <2>1. registered' = registered \cup {st}
    BY <1>5 DEF open_ticketed_stream, Reserve
  <2>2. p \in Printers
    BY <1>5 DEF TicketAccepted, CInv, TypeOK
  <2>3. Holder[p] = {} /\ Cardinality(registered) < MaxTotal
    <3>1. Cardinality(registered) < MaxTotal
      <4>1. ~(Cardinality(registered) >= MaxTotal)
        BY <1>5 DEF Busy
      <4>2. Cardinality(registered) \in Nat /\ MaxTotal \in Nat
        BY FS_CardinalityType, CameraAssumption DEF CInv, TableAgrees
      <4> QED
        BY <4>1, <4>2
    <3> QED
      BY <1>5, <2>2, <3>1 DEF Busy, Holder
  <2>4. Holder' = [Holder EXCEPT ![p] = {st}]
    <3>1. ASSUME NEW q \in Printers
          PROVE  Holder'[q] = IF q = p THEN {st} ELSE Holder[q]
      BY <1>t, <1>3, <2>1, <2>2, <2>3 DEF Holder
    <3> QED
      BY <2>2, <3>1 DEF Holder
  <2>5. st \notin Slot!Holding /\ Slot!Cardinality(Slot!Holding) < MaxTotal
    BY <1>1, <2>3, HoldersRegistered
  <2>6. PICK q \in Printers : q = p
    BY <2>2
  <2> HIDE DEF p
  <2>7. Slot!Reserve(q, st)
    BY <1>4, <2>3, <2>4, <2>5, <2>6 DEF Slot!Reserve, Holder, Running
  <2> QED
    BY <2>2, <2>6, <2>7 DEF Slot!Next
<1>6. CASE ~(TicketAccepted(s) /\ ~Busy(s))
  <2>1. registered' = registered
    BY <1>6 DEF open_ticketed_stream, Reserve
  <2>2. Holder' = Holder
    BY <1>t, <1>3, <2>1 DEF Holder
  <2> QED
    BY <1>4, <2>2 DEF Slot!slotVars, Holder, Running
<1> QED
  BY <1>5, <1>6

\* release gives the printer free, when no process runs for it.
LEMMA ReleaseRefines ==
    ASSUME CInv, NEW st \in Streams, release(st)
    PROVE  [Slot!Next]_(Slot!slotVars)
<1> DEFINE s == stream[st]
           p == s.printer
<1>t. stream \in [Streams -> StreamRecords] /\ registered \subseteq Streams
  BY DEF CInv, TypeOK
<1>1. /\ s.cleanup = "release" /\ s \in StreamRecords /\ Sound(s)
      /\ stream' = [stream EXCEPT ![st] = [s EXCEPT !.cleanup = "done"]]
      /\ registered' = registered \ {st}
  BY <1>t DEF release, CleanupStep, Becomes, CInv, StreamsSound
<1>2. st \in registered
  BY <1>1 DEF CInv, TableAgrees, Holds, Sound, Known
<1>3. \A a \in Streams : /\ stream'[a].printer = stream[a].printer
                         /\ stream'[a].process = stream[a].process
  BY <1>t, <1>1 DEF StreamRecords
<1>4. Running' = Running /\ st \notin Running
  BY <1>1, <1>3 DEF Running, Sound
<1>5. p \in Printers
  BY <1>2, HoldersRegistered
<1>6. st \in Holder[p]
  BY <1>2, <1>5 DEF Holder
<1>7. Holder' = [Holder EXCEPT ![p] = {}]
  <2>1. ASSUME NEW q \in Printers PROVE Holder'[q] = IF q = p THEN {} ELSE Holder[q]
    BY <1>t, <1>1, <1>2, <1>3 DEF Holder, CInv, TableAgrees
  <2> QED
    BY <1>5, <2>1 DEF Holder
<1>8. PICK q \in Printers : q = p
  BY <1>5
<1> HIDE DEF p
<1>9. Slot!Release(q, st)
  BY <1>4, <1>6, <1>7, <1>8 DEF Slot!Release, Holder, Running
<1> QED
  BY <1>9 DEF Slot!Next

\* A step that touches neither the table nor a stream is a stutter of CameraSlot.
LEMMA RestRefines ==
    ASSUME CInv, UNCHANGED <<registered, stream>>
    PROVE  [Slot!Next]_(Slot!slotVars)
BY DEF Slot!slotVars

\* A request that arrives is no step of CameraSlot.
LEMMA ArriveRefines ==
    ASSUME CInv, NEW st \in Streams, NEW p \in Printers, NEW x \in Sessions, NEW k,
           Arrive(st, p, x, k)
    PROVE  [Slot!Next]_(Slot!slotVars)
<1> DEFINE s == stream[st]
<1>t. stream \in [Streams -> StreamRecords] /\ registered \subseteq Streams
  BY DEF CInv, TypeOK
<1>1. /\ s.pc = "idle" /\ s \in StreamRecords /\ registered' = registered
      /\ stream' = [stream EXCEPT ![st] = [s EXCEPT !.pc = "arrived", !.printer = p,
                                                    !.session = x, !.ticket = k]]
  BY <1>t DEF Arrive, Step, Becomes, managerVars
<1>2. st \notin registered
  BY <1>1 DEF CInv, TableAgrees, Holds
<1>3. \A a \in Streams : /\ a # st => stream'[a] = stream[a]
                         /\ stream'[a].process = stream[a].process
  BY <1>t, <1>1 DEF StreamRecords
<1>4. Running' = Running
  BY <1>3 DEF Running
<1>5. Holder' = Holder
  BY <1>t, <1>1, <1>2, <1>3 DEF Holder
<1> QED
  BY <1>4, <1>5 DEF Slot!slotVars, Holder, Running

\* Every step of CameraStreams is a step of CameraSlot or leaves its variables alone.
LEMMA StepRefines == CInv /\ [Next]_vars => [Slot!Next]_(Slot!slotVars)
<1> SUFFICES ASSUME CInv, [Next]_vars PROVE [Slot!Next]_(Slot!slotVars)
  OBVIOUS
<1> DEFINE Goal == [Slot!Next]_(Slot!slotVars)
<1>m. ASSUME NEW st \in Streams, Moves(st) PROVE Goal
  BY <1>m, MoveRefines DEF Moves, managerVars
<1>r. ASSUME UNCHANGED <<registered, stream>> PROVE Goal
  BY <1>r, RestRefines
<1>o. TypeOK /\ StreamsSound /\ TableAgrees
  BY DEF CInv
<1> HIDE DEF Goal
<1>1. ASSUME NEW st \in Streams, Task(st) PROVE Goal
  BY <1>1, <1>m, <1>o, OpenRefines, TaskMoves DEF Goal
<1>2. ASSUME NEW st \in Streams, Cleanup(st) \/ TimeIsUp(st) PROVE Goal
  BY <1>2, <1>m, <1>o, ReleaseRefines, OtherMoves DEF Cleanup, Goal
<1>3. ASSUME NEW st \in Streams, Client(st) PROVE Goal
  BY <1>3, <1>m, <1>o, ArriveRefines, OtherMoves DEF Client, Goal
<1>4. ASSUME NEW c \in Closers, Closer(c) PROVE Goal
  <2>1. ASSUME NEW st \in Streams, CloseOne(c, st) PROVE Goal
    <3>1. st \in closer[c].todo /\ Becomes(st, Close(stream[st])) /\ registered' = registered
      BY <2>1 DEF CloseOne, managerVars
    <3>2. Move(stream[st], Close(stream[st]))
      BY <3>1, CloseMoves DEF CInv, TypeOK, StreamsSound, ClosersSee
    <3> QED
      BY <3>1, <3>2, MoveRefines DEF Goal
  <2>2. ~(\E st \in Streams : CloseOne(c, st)) => UNCHANGED <<registered, stream>>
    BY <1>4 DEF Closer, revoke_tickets, Collect, Return, managerVars
  <2> QED
    BY <1>r, <2>1, <2>2
<1>5. CASE Environment
  <2>1. \/ \E st \in Streams : ProcessEnds(st)
        \/ UNCHANGED <<registered, stream>>
    BY <1>5 DEF Environment, issue_ticket, TicketExpires, camera_stop, logout, close_all, Begin,
                SessionExpires, ReadyChanges
  <2> QED
    BY <1>m, <1>r, <1>o, <2>1, OtherMoves DEF Goal
<1>6. CASE UNCHANGED vars
  BY <1>6, <1>r DEF vars, managerVars, Goal
<1> QED
  BY <1>1, <1>2, <1>3, <1>4, <1>5, <1>6 DEF Next, Goal

\* SlotSpec: CameraStreamManager keeps the promise of CameraSlot, for any number of
\* viewers, printers and closers.
THEOREM ImplementsSlot == Spec => SlotSpec
<1>1. Init => Slot!Init
  BY DEF Init, Slot!Init, NewStream
<1> QED
  BY <1>1, StepRefines, CameraInductive, PTL DEF Spec, SlotSpec, Slot!Spec
=============================================================================
