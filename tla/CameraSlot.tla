----------------------------- MODULE CameraSlot -----------------------------
(***************************************************************************)
(* What app/camera.py promises to the printers, without tickets, sessions, *)
(* locks and tasks: a printer has at most one viewer, at most MaxTotal     *)
(* printers have one, an ffmpeg process runs only for the stream that      *)
(* holds its printer, and a printer is given free only when the process is *)
(* gone or has been told to go.                                            *)
(***************************************************************************)
EXTENDS Naturals, FiniteSets

CONSTANTS Printers, Streams, MaxTotal

VARIABLES
    holder,     \* per printer, the set of streams that hold it
    running     \* streams whose process runs

slotVars == <<holder, running>>

Holding == {st \in Streams : \E p \in Printers : st \in holder[p]}

Init ==
    /\ holder = [p \in Printers |-> {}]
    /\ running = {}

Reserve(p, st) ==
    /\ holder[p] = {}
    /\ st \notin Holding
    /\ Cardinality(Holding) < MaxTotal
    /\ holder' = [holder EXCEPT ![p] = {st}]
    /\ UNCHANGED running

Spawn(st) ==
    /\ st \in Holding \ running
    /\ running' = running \cup {st}
    /\ UNCHANGED holder

Stop(st) ==
    /\ st \in running
    /\ running' = running \ {st}
    /\ UNCHANGED holder

Release(p, st) ==
    /\ st \in holder[p]
    /\ st \notin running
    /\ holder' = [holder EXCEPT ![p] = {}]
    /\ UNCHANGED running

Next ==
    \/ \E p \in Printers, st \in Streams : Reserve(p, st) \/ Release(p, st)
    \/ \E st \in Streams : Spawn(st) \/ Stop(st)

Spec == Init /\ [][Next]_slotVars
=============================================================================
