--------------------------- MODULE SnapshotProofs ---------------------------
(***************************************************************************)
(* Theorems about WebFront: what a browser shows when nothing is on its    *)
(* way to it any more, for any number of threads, connections and changes. *)
(*                                                                         *)
(* A snapshot is taken, handed to the loop, put into the queue and sent in *)
(* four steps of different actors.  CurrentInv says that the newest state  *)
(* is never lost between them: as long as a thread of the current manager  *)
(* has not announced its change, some thread will announce the newest one, *)
(* or it has been announced.  FollowInv carries it to each connection.     *)
(***************************************************************************)
EXTENDS WebFrontProofs

\* A thread that is going to announce the newest state of the current manager.
Bears(c) ==
    /\ ~Late(c)
    /\ \/ caller[c].pc = "changed"
       \/ caller[c].pc = "holding" /\ caller[c].snap = version
InFlight == \E c \in Callers : Bears(c)

\* A snapshot nothing newer than which is known to the hub.
AtEnd(snapshot) == snapshot = version \/ InFlight

\* A thread of the current manager that has yet to announce a change.
OnWay(c) == caller[c].pc \in {"changed", "holding"} /\ ~Late(c)

\* Who is idle when, and that the newest state is announced or will be.
CurrentInv ==
    /\ newest <= version
    /\ \A c \in Callers : ~Late(c) => caller[c].snap <= version
    /\ \A c \in Callers : OnWay(c) => AtEnd(newest)
    /\ reload = "stopped" => \A c \in Networks : caller[c] = Idle
    /\ reload \in {"idle", "stopped"} => caller[Reload] = Idle
    /\ ~outdated /\ scheduled # <<>> => AtEnd(scheduled[Len(scheduled)])

\* The snapshot nearest to the browser that it has not been sent, or the last that it was.
Nearest(s) == IF queues[s] # <<>> THEN queues[s][1]
              ELSE IF socket[s].got # 0 THEN socket[s].got ELSE socket[s].shown

\* A connection is subscribed before it takes its first snapshot, and what is in its
\* queue or its hands is the end, unless the hub has something for it.
Following(s) ==
    /\ socket[s].pc # "woken" => socket[s].got = 0
    /\ s \in subscribed <=> socket[s].pc \notin {"none", "accepting"}
    /\ s \notin subscribed => queues[s] = <<>>
    /\ s \in subscribed /\ scheduled = <<>> /\ ~outdated => AtEnd(Nearest(s))
FollowInv == \A s \in Sockets : Following(s)

\* Where every newest state is on its way to every browser.
SnapInv == IInv /\ CurrentInv /\ FollowInv

\* What the type invariant says of the hub.
LEMMA HubFacts ==
    ASSUME HubInv
    PROVE  /\ changes \in Nat /\ version \in Nat /\ newest \in Nat /\ candidate \in Nat
           /\ retired \in Nat /\ version # 0 /\ version <= changes /\ candidate <= changes
           /\ caller \in [Callers -> CallerRecords]
           /\ \A c \in Callers : caller[c].snap \in Nat /\ caller[c].snap <= changes
           /\ scheduled \in Seq(Nat) /\ queues \in [Sockets -> Seq(Nat)]
           /\ \A s \in Sockets : Len(queues[s]) <= 1
           /\ subscribed \subseteq Sockets
           /\ Reload \in Callers /\ Reload \notin Probes /\ Reload \notin Networks
           /\ Networks \cap Probes = {} /\ \A c \in Networks \cup Probes : c \in Callers
<1>1. /\ MaxChanges \in Nat
      /\ {changes, version, candidate, retired, newest} \subseteq 0 .. MaxChanges
      /\ caller \in [Callers -> CallerRecords]
  BY HubAssumption DEF HubInv, HubTypeOK
<1>2. scheduled \in Seq(Nat)
  <2>1. scheduled \in Seq(1 .. MaxChanges)
    BY DEF HubInv, HubTypeOK
  <2> QED
    BY <1>1, <2>1
<1>3. queues \in [Sockets -> Seq(Nat)]
  <2>1. queues \in [Sockets -> Seq(1 .. MaxChanges)]
    BY DEF HubInv, HubTypeOK
  <2> QED
    BY <1>1, <2>1
<1>4. \A c \in Callers : caller[c].snap \in 0 .. MaxChanges
  BY <1>1 DEF CallerRecords
<1> QED
  BY <1>1, <1>2, <1>3, <1>4, HubAssumption DEF HubInv, HubTypeOK, Callers

\* A thread changes the store.
LEMMA ChangeCurrent ==
    ASSUME HubInv, CurrentInv, NEW c \in Callers, Change(c)
    PROVE  CurrentInv' /\ \A x : AtEnd(x) => AtEnd(x)'
<1>0. /\ c # Reload /\ caller[c].pc = "idle" /\ changes' = changes + 1
      /\ UNCHANGED <<reload, scheduled, queues, subscribed, newest, outdated>>
  BY DEF Change
<1>h. /\ changes \in Nat /\ version \in Nat /\ newest \in Nat /\ version <= changes
      /\ caller \in [Callers -> CallerRecords]
      /\ \A d \in Callers : caller[d].snap \in Nat
      /\ Reload \notin Probes /\ Networks \cap Probes = {} /\ Networks \subseteq Callers
      /\ Reload \in Callers
  BY HubFacts
<1>1. CASE UNCHANGED <<version, retired, caller>>
  BY <1>0, <1>1 DEF CurrentInv, AtEnd, InFlight, Bears, OnWay, Late
<1>2. CASE Late(c) /\ UNCHANGED version /\ retired' = changes + 1
           /\ caller' = [caller EXCEPT ![c].pc = "changed"]
  <2>1. c \in Probes /\ retired # 0 /\ retired' # 0
    BY <1>2, <1>h DEF Late
  <2>2. \A d \in Callers : d # c => caller'[d] = caller[d]
    BY <1>2, <1>h
  <2>3. \A d \in Callers : (Bears(d) <=> Bears(d)') /\ (Late(d) <=> Late(d)')
                           /\ (OnWay(d)' => OnWay(d))
    BY <1>2, <2>1, <2>2 DEF Bears, Late, OnWay
  <2>4. \A x : AtEnd(x) <=> AtEnd(x)'
    BY <1>2, <2>3 DEF AtEnd, InFlight
  <2>5. \A d \in Callers : ~Late(d)' => d # c
    BY <1>2, <2>3
  <2>6. \A d \in Networks \cup {Reload} : caller'[d] = caller[d]
    BY <1>0, <1>h, <2>1, <2>2
  <2> QED
    BY <1>0, <1>2, <1>h, <2>2, <2>3, <2>4, <2>5, <2>6 DEF CurrentInv
<1>3. CASE /\ ~Late(c) /\ version' = changes + 1 /\ UNCHANGED retired
           /\ ~(c \in Networks /\ reload = "stopped")
           /\ caller' = [caller EXCEPT ![c].pc = "changed"]
  <2>1. \A d \in Callers : /\ caller'[d].snap = caller[d].snap
                           /\ d # c => caller'[d] = caller[d]
                           /\ Late(d)' <=> Late(d)
    BY <1>3, <1>h DEF CallerRecords, Late
  <2>2. Bears(c)'
    BY <1>3, <1>h, <2>1 DEF Bears, CallerRecords
  <2>3. InFlight' /\ \A x : AtEnd(x)'
    BY <2>2 DEF InFlight, AtEnd
  <2>4. \A d \in Callers : ~Late(d)' => caller'[d].snap <= version'
    <3>1. \A d \in Callers : ~Late(d) => caller[d].snap <= version
      BY DEF CurrentInv
    <3> QED
      BY <1>3, <1>h, <2>1, <3>1
  <2>5. newest' <= version'
    BY <1>0, <1>3, <1>h DEF CurrentInv
  <2> QED
    BY <1>0, <1>3, <1>h, <2>1, <2>3, <2>4, <2>5 DEF CurrentInv
<1> QED
  BY <1>0, <1>1, <1>2, <1>3 DEF Change

\* A thread takes its snapshot.
LEMMA SnapshotCurrent ==
    ASSUME HubInv, CurrentInv, NEW c \in Callers, Snapshot(c)
    PROVE  CurrentInv' /\ \A x : AtEnd(x) => AtEnd(x)'
<1> DEFINE r == [pc |-> "holding", snap |-> IF Late(c) THEN retired ELSE version]
<1>0. /\ caller[c].pc = "changed" /\ caller' = [caller EXCEPT ![c] = r]
      /\ UNCHANGED <<changes, version, candidate, retired, reload, scheduled, queues,
                     subscribed, newest, outdated>>
  BY DEF Snapshot
<1>h. /\ caller \in [Callers -> CallerRecords] /\ version \in Nat
      /\ Networks \subseteq Callers /\ Reload \in Callers
  BY HubFacts
<1>1. /\ \A d \in Callers : d # c => caller'[d] = caller[d]
      /\ caller'[c] = r /\ \A d \in Callers : Late(d)' <=> Late(d)
  BY <1>0, <1>h DEF Late
<1>2. \A d \in Callers : (Bears(d) => Bears(d)') /\ (OnWay(d)' <=> OnWay(d))
  BY <1>0, <1>1 DEF Bears, OnWay
<1>3. \A x : AtEnd(x) => AtEnd(x)'
  BY <1>0, <1>2 DEF AtEnd, InFlight
<1>4. \A d \in Callers : ~Late(d)' => caller'[d].snap <= version'
  BY <1>0, <1>1, <1>h DEF CurrentInv
<1>5. \A d \in Callers : caller[d] = Idle => caller'[d] = Idle
  BY <1>0, <1>1 DEF Idle
<1> HIDE DEF r
<1>6. /\ \A d \in Callers : OnWay(d)' => AtEnd(newest)'
      /\ ~outdated' /\ scheduled' # <<>> => AtEnd(scheduled[Len(scheduled)])'
  BY <1>0, <1>2, <1>3 DEF CurrentInv, AtEnd
<1> QED
  BY <1>0, <1>3, <1>4, <1>5, <1>6, <1>h DEF CurrentInv

\* publish_threadsafe: the thread's snapshot is the newest, or another thread has that
\* one, or the hub has had a newer one.
LEMMA PublishCurrent ==
    ASSUME HubInv, CurrentInv, NEW c \in Callers, publish_threadsafe(c)
    PROVE  CurrentInv' /\ scheduled' # <<>>
<1> DEFINE snap == caller[c].snap
           done == IF Late(c) THEN [Idle EXCEPT !.pc = "ended"] ELSE Idle
<1>0. /\ caller[c].pc = "holding" /\ scheduled' = Append(scheduled, snap)
      /\ caller' = [caller EXCEPT ![c] = done]
      /\ newest' = IF Late(c) THEN newest ELSE Newer(newest, snap)
      /\ outdated' = (Late(c) \/ snap < newest)
      /\ UNCHANGED <<changes, version, candidate, retired, reload, queues, subscribed>>
  BY DEF publish_threadsafe
<1>h. /\ caller \in [Callers -> CallerRecords] /\ version \in Nat /\ newest \in Nat
      /\ snap \in Nat /\ scheduled \in Seq(Nat)
      /\ Networks \subseteq Callers /\ Reload \in Callers
  BY HubFacts
<1>1. /\ scheduled' # <<>> /\ Len(scheduled') = Len(scheduled) + 1
      /\ scheduled'[Len(scheduled')] = snap
  BY <1>0, <1>h
<1>2. /\ \A d \in Callers : d # c => caller'[d] = caller[d]
      /\ caller'[c] = done /\ \A d \in Callers : Late(d)' <=> Late(d)
  BY <1>0, <1>h DEF Late
<1>3. /\ done.pc \in {"idle", "ended"} /\ done.snap = 0 /\ (~Late(c) => done = Idle)
  BY DEF Idle
<1> HIDE DEF done
<1>4. \A d \in Callers : OnWay(d)' => OnWay(d) /\ d # c
  BY <1>0, <1>2, <1>3 DEF OnWay
<1>5. \A d \in Callers : d # c /\ Bears(d) => Bears(d)'
  BY <1>0, <1>2 DEF Bears
<1>6. \A d \in Callers : ~Late(d)' => caller'[d].snap <= version'
  BY <1>0, <1>2, <1>3, <1>h DEF CurrentInv
<1>7. /\ reload' = "stopped" => \A d \in Networks : caller'[d] = Idle
      /\ reload' \in {"idle", "stopped"} => caller'[Reload] = Idle
  <2>1. \A d \in Callers : caller[d] = Idle => caller'[d] = Idle
    BY <1>0, <1>2 DEF Idle
  <2> QED
    BY <1>0, <1>h, <2>1 DEF CurrentInv
<1>8. CASE Late(c)
  <2>1. ~Bears(c)
    BY <1>8 DEF Bears
  <2>2. InFlight => InFlight'
    BY <1>5, <2>1 DEF InFlight
  <2>3. outdated' = TRUE /\ newest' = newest
    BY <1>0, <1>8
  <2> QED
    BY <1>0, <1>1, <1>4, <1>6, <1>7, <2>2, <2>3 DEF CurrentInv, AtEnd
<1>9. CASE ~Late(c)
  <2>0. /\ newest' = Newer(newest, snap) /\ (outdated' <=> snap < newest)
        /\ snap <= version /\ newest <= version
    BY <1>0, <1>9 DEF CurrentInv
  <2>1. newest' <= version'
    BY <1>0, <1>h, <2>0 DEF Newer
  <2>2. AtEnd(newest)
    BY <1>0, <1>9 DEF CurrentInv, OnWay
  <2>3. (version = newest' \/ InFlight') /\ (~outdated' => snap = version \/ InFlight')
    <3>1. CASE snap = version
      BY <1>h, <2>0, <3>1 DEF Newer
    <3>2. CASE snap # version /\ version = newest
      BY <1>h, <2>0, <3>2 DEF Newer
    <3>3. CASE snap # version /\ InFlight
      <4>1. ~Bears(c)
        BY <1>0, <3>3 DEF Bears
      <4> QED
        BY <1>5, <3>3, <4>1 DEF InFlight
    <3> QED
      BY <2>2, <3>1, <3>2, <3>3 DEF AtEnd
  <2>4. AtEnd(newest)' /\ (~outdated' => AtEnd(scheduled[Len(scheduled)])')
    BY <1>0, <1>1, <2>3 DEF AtEnd
  <2> QED
    BY <1>1, <1>6, <1>7, <2>1, <2>4 DEF CurrentInv
<1> QED
  BY <1>8, <1>9

\* The loop, and the handler of an update.
LEMMA LoopCurrent ==
    ASSUME HubInv, CurrentInv, publish \/ StopOld \/ Swap \/ Reloaded
    PROVE  CurrentInv' /\ (\A x : AtEnd(x) => AtEnd(x)') /\ UNCHANGED outdated
<1>h. /\ caller \in [Callers -> CallerRecords] /\ version \in Nat /\ version # 0 /\ newest \in Nat
      /\ scheduled \in Seq(Nat) /\ candidate \in Nat /\ Reload \in Callers
      /\ Reload \notin Probes /\ Reload \notin Networks /\ Networks \subseteq Callers
  BY HubFacts
<1>1. CASE publish
  <2>1. /\ scheduled # <<>> /\ scheduled' = Tail(scheduled)
        /\ UNCHANGED <<version, retired, reload, caller, newest, outdated>>
    BY <1>1 DEF publish
  <2>2. scheduled' # <<>> => scheduled'[Len(scheduled')] = scheduled[Len(scheduled)]
    BY <1>h, <2>1
  <2>3. \A x : AtEnd(x) <=> AtEnd(x)'
    BY <2>1 DEF AtEnd, InFlight, Bears, Late
  <2>4. \A d \in Callers : (OnWay(d) <=> OnWay(d)') /\ (Late(d) <=> Late(d)')
    BY <2>1 DEF OnWay, Late
  <2>5. AtEnd(newest) => AtEnd(newest)'
    BY <2>1, <2>3 DEF AtEnd
  <2>6. ~outdated' /\ scheduled' # <<>> => AtEnd(scheduled[Len(scheduled)])'
    BY <2>1, <2>2, <2>3 DEF CurrentInv, AtEnd
  <2> QED
    BY <2>1, <2>3, <2>4, <2>5, <2>6 DEF CurrentInv
<1>2. CASE StopOld
  <2>1. /\ UNCHANGED <<version, retired, caller, scheduled, newest, outdated>>
        /\ \A d \in Networks : caller[d] = Idle
        /\ caller[Reload] = Idle
    BY <1>2 DEF StopOld, CurrentInv
  <2>2. /\ \A x : AtEnd(x) <=> AtEnd(x)'
        /\ \A d \in Callers : (OnWay(d) <=> OnWay(d)') /\ (Late(d) <=> Late(d)')
    BY <2>1 DEF AtEnd, InFlight, Bears, Late, OnWay
  <2> QED
    BY <2>1, <2>2 DEF CurrentInv, AtEnd
<1>3. CASE Swap
  <2>1. /\ reload = "stopped" /\ reload' = "swapped" /\ version' = candidate
        /\ retired' = version /\ newest' = 0
        /\ caller' = [caller EXCEPT ![Reload].pc = "changed"]
        /\ UNCHANGED <<scheduled, outdated>>
    BY <1>3 DEF Swap
  <2>2. /\ caller'[Reload].pc = "changed" /\ caller'[Reload].snap = caller[Reload].snap
        /\ \A d \in Callers : d # Reload => caller'[d] = caller[d]
    BY <1>h, <2>1 DEF CallerRecords
  <2>3. \A d \in Callers : ~Late(d)' => d \in Networks \cup {Reload}
    BY <1>h, <2>1 DEF Late, Callers
  <2>4. Bears(Reload)'
    BY <1>h, <2>2 DEF Bears, Late
  <2>5. InFlight'
    BY <1>h, <2>4 DEF InFlight
  <2>6. \A d \in Networks \cup {Reload} : caller[d].snap = 0
    BY <2>1 DEF CurrentInv, Idle
  <2>7. \A d \in Callers : ~Late(d)' => caller'[d].snap <= version'
    BY <1>h, <2>1, <2>2, <2>3, <2>6
  <2> QED
    BY <1>h, <2>1, <2>5, <2>7 DEF CurrentInv, AtEnd
<1>4. CASE Reloaded
  <2>1. /\ UNCHANGED <<version, retired, caller, scheduled, newest, outdated>>
        /\ caller[Reload] = Idle /\ reload' = "idle"
    BY <1>4 DEF Reloaded
  <2>2. /\ \A x : AtEnd(x) <=> AtEnd(x)'
        /\ \A d \in Callers : (OnWay(d) <=> OnWay(d)') /\ (Late(d) <=> Late(d)')
    BY <2>1 DEF AtEnd, InFlight, Bears, Late, OnWay
  <2> QED
    BY <2>1, <2>2 DEF CurrentInv, AtEnd
<1> QED
  BY <1>1, <1>2, <1>3, <1>4

\* An update that is given up.
LEMMA StartOldCurrent ==
    ASSUME HubInv, CurrentInv, StartOld
    PROVE  CurrentInv' /\ outdated'
<1>0. /\ reload = "stopped" /\ reload' = "idle" /\ version' = changes + 1 /\ newest' = changes + 1
      /\ outdated' = TRUE /\ UNCHANGED <<retired, caller, scheduled>>
  BY DEF StartOld
<1>h. changes \in Nat /\ \A c \in Callers : caller[c].snap \in Nat /\ caller[c].snap <= changes
  BY HubFacts
<1>1. AtEnd(newest)'
  BY <1>0 DEF AtEnd
<1>2. \A c \in Callers : caller'[c].snap <= version'
  BY <1>0, <1>h
<1> QED
  BY <1>0, <1>1, <1>2, <1>h DEF CurrentInv

\* What leaves the hub alone leaves its newest state alone.
LEMMA AsideCurrent ==
    ASSUME CurrentInv,
           UNCHANGED <<version, retired, reload, caller, scheduled, newest, outdated>>
    PROVE  CurrentInv' /\ \A x : AtEnd(x) <=> AtEnd(x)'
<1>1. /\ \A x : AtEnd(x) <=> AtEnd(x)'
      /\ \A d \in Callers : (OnWay(d) <=> OnWay(d)') /\ (Late(d) <=> Late(d)')
  BY DEF AtEnd, InFlight, Bears, Late, OnWay
<1> QED
  BY <1>1 DEF CurrentInv, AtEnd

\* Steps in which no connection and no queue moves.
SocketsKeep ==
    \A s \in Sockets : /\ socket'[s].pc = socket[s].pc /\ socket'[s].got = socket[s].got
                       /\ socket'[s].shown = socket[s].shown

\* They carry what is said of connections, unless the hub has something for them.
LEMMA FollowKept ==
    ASSUME FollowInv, SocketsKeep, UNCHANGED <<queues, subscribed>>,
           \/ outdated' \/ scheduled' # <<>>
           \/ UNCHANGED <<outdated, scheduled>> /\ \A x : AtEnd(x) => AtEnd(x)'
    PROVE  FollowInv'
<1> SUFFICES ASSUME NEW s \in Sockets PROVE Following(s)'
  BY DEF FollowInv
<1>1. Following(s)
  BY DEF FollowInv
<1>2. Nearest(s)' = Nearest(s)
  BY DEF Nearest, SocketsKeep
<1> QED
  BY <1>1, <1>2 DEF Following, SocketsKeep, AtEnd

\* The loop puts a snapshot into the queues.
LEMMA PublishFollow ==
    ASSUME HubInv, CurrentInv, FollowInv, SocketsKeep, publish
    PROVE  FollowInv'
<1>0. /\ scheduled # <<>> /\ scheduled' = Tail(scheduled)
      /\ queues' = [s \in Sockets |-> IF s \in subscribed THEN <<Head(scheduled)>> ELSE queues[s]]
      /\ UNCHANGED <<version, retired, reload, caller, subscribed, newest, outdated>>
  BY DEF publish
<1>h. scheduled \in Seq(Nat)
  BY HubFacts
<1>1. ~outdated => AtEnd(scheduled[Len(scheduled)])
  BY <1>0 DEF CurrentInv
<1>2. \A x : AtEnd(x) <=> AtEnd(x)'
  BY <1>0 DEF AtEnd, InFlight, Bears, Late
<1> SUFFICES ASSUME NEW s \in Sockets PROVE Following(s)'
  BY DEF FollowInv
<1>3. Following(s)
  BY DEF FollowInv
<1>4. CASE s \notin subscribed
  BY <1>0, <1>3, <1>4 DEF Following, SocketsKeep
<1>5. CASE s \in subscribed
  <2>1. queues'[s] = <<Head(scheduled)>>
    BY <1>0, <1>5
  <2>2. queues'[s] # <<>> /\ queues'[s][1] = Head(scheduled)
    BY <2>1
  <2>3. Nearest(s)' = Head(scheduled)
    BY <2>2 DEF Nearest
  <2>4. scheduled' = <<>> => Head(scheduled) = scheduled[Len(scheduled)]
    <3>1. Len(scheduled') = Len(scheduled) - 1 /\ Len(scheduled) \in Nat
      BY <1>0, <1>h
    <3>2. scheduled' = <<>> => Len(scheduled') = 0
      OBVIOUS
    <3>3. Head(scheduled) = scheduled[1]
      BY <1>0, <1>h
    <3>4. scheduled' = <<>> => Len(scheduled) = 1
      BY <3>1, <3>2
    <3> QED
      BY <3>3, <3>4
  <2>5. scheduled' = <<>> /\ ~outdated' => AtEnd(Nearest(s))'
    BY <1>0, <1>1, <1>2, <2>3, <2>4 DEF AtEnd
  <2> QED
    BY <1>0, <1>3, <1>5, <2>5 DEF Following, SocketsKeep
<1> QED
  BY <1>4, <1>5

\* One connection moves.
LEMMA OneFollows ==
    ASSUME FollowInv, CurrentInv, NEW s \in Sockets, HubKeeps,
           \A t \in Sockets : t # s => /\ socket'[t] = socket[t] /\ queues'[t] = queues[t]
                                       /\ t \in subscribed' <=> t \in subscribed,
           Following(s)'
    PROVE  CurrentInv' /\ FollowInv'
<1>1. UNCHANGED <<version, retired, reload, caller, scheduled, newest, outdated>>
  BY DEF HubKeeps
<1>2. CurrentInv' /\ \A x : AtEnd(x) <=> AtEnd(x)'
  BY <1>1, AsideCurrent
<1>3. ASSUME NEW t \in Sockets, t # s PROVE Following(t)'
  <2>1. Following(t)
    BY DEF FollowInv
  <2>2. Nearest(t)' = Nearest(t)
    BY <1>3 DEF Nearest
  <2> QED
    BY <1>1, <1>2, <1>3, <2>1, <2>2 DEF Following, AtEnd
<1> QED
  BY <1>2, <1>3 DEF FollowInv

\* The handler of a connection: what it takes from the queue it has in its hands, and
\* what it has in its hands it shows.
LEMMA SocketFollow ==
    ASSUME IInv, CurrentInv, FollowInv, NEW s \in Sockets, Client(s) \/ Endpoint(s)
    PROVE  CurrentInv' /\ FollowInv'
<1>h. /\ socket \in [Sockets -> SocketRecords] /\ queues \in [Sockets -> Seq(1 .. MaxChanges)]
      /\ \A t \in Sockets : Len(queues[t]) <= 1
      /\ version \in Nat /\ version # 0 /\ MaxChanges \in Nat /\ subscribed \subseteq Sockets
  BY HubFacts, HubAssumption DEF IInv, SocketInv, HubInv, HubTypeOK
<1>f. Following(s)
  BY DEF FollowInv
<1>k. HubKeeps => /\ UNCHANGED <<version, retired, reload, caller, scheduled, newest, outdated>>
                  /\ \A x : AtEnd(x) <=> AtEnd(x)'
  BY DEF HubKeeps, AtEnd, InFlight, Bears, Late
<1>0. ASSUME NEW r, socket' = [socket EXCEPT ![s] = r], HubKeeps, UNCHANGED <<queues, subscribed>>,
             r.pc # "woken" => r.got = 0,
             s \in subscribed <=> r.pc \notin {"none", "accepting"},
             \/ r.pc \in {"none", "accepting"}
             \/ r.got = socket[s].got /\ r.shown = socket[s].shown
             \/ socket[s].got # 0 /\ r.got = 0 /\ r.shown = socket[s].got
      PROVE  CurrentInv' /\ FollowInv'
  <2>1. socket'[s] = r /\ \A t \in Sockets : t # s => socket'[t] = socket[t]
    BY <1>0, <1>h
  <2>2. s \in subscribed => Nearest(s)' = Nearest(s)
    BY <1>0, <2>1 DEF Nearest
  <2>3. Following(s)'
    BY <1>0, <1>f, <1>k, <2>1, <2>2 DEF Following, AtEnd
  <2> QED
    BY <1>0, <2>1, <2>3, OneFollows
<1>1. ASSUME Leave(s) PROVE CurrentInv' /\ FollowInv'
  <2>1. /\ socket' = [socket EXCEPT ![s] = NoSocket] /\ subscribed' = subscribed \ {s}
        /\ queues' = [queues EXCEPT ![s] = <<>>] /\ HubKeeps
    BY <1>1 DEF Leave
  <2>2. /\ socket'[s] = NoSocket /\ queues'[s] = <<>> /\ s \notin subscribed'
        /\ \A t \in Sockets : t # s => /\ socket'[t] = socket[t] /\ queues'[t] = queues[t]
                                       /\ t \in subscribed' <=> t \in subscribed
    BY <1>h, <2>1
  <2>3. Following(s)'
    BY <2>2 DEF Following, NoSocket
  <2> QED
    BY <2>1, <2>2, <2>3, OneFollows
<1>2. ASSUME NEW t, Connect(s, t) PROVE CurrentInv' /\ FollowInv'
  <2>1. PICK r : r = [socket[s] EXCEPT !.pc = "accepting", !.token = t]
    OBVIOUS
  <2>2. /\ socket[s].pc = "none" /\ socket' = [socket EXCEPT ![s] = r]
        /\ HubKeeps /\ UNCHANGED <<queues, subscribed>>
    BY <1>2, <1>h, <2>1 DEF Connect, SocketAt, HubKeeps, hub_vars
  <2>3. r.pc = "accepting" /\ r.got = socket[s].got
    BY <1>h, <2>1 DEF SocketRecords
  <2> QED
    BY <1>0, <1>f, <2>2, <2>3 DEF Following
<1>3. CASE Subscribe(s)
  <2>1. /\ socket[s].pc = "accepting" /\ subscribed' = subscribed \cup {s} /\ Show(s, version)
        /\ UNCHANGED queues /\ HubKeeps
    BY <1>3 DEF Subscribe, SocketAt
  <2>2. PICK r : r = [socket[s] EXCEPT !.pc = "sending", !.shown = version,
                                       !.got = 0, !.due = FALSE]
    OBVIOUS
  <2>3. /\ socket' = [socket EXCEPT ![s] = r] /\ r.pc = "sending" /\ r.got = 0
        /\ r.shown = version
    BY <1>h, <2>1, <2>2 DEF Show, SocketRecords
  <2>4. /\ socket'[s] = r /\ queues'[s] = <<>> /\ s \in subscribed'
        /\ \A t \in Sockets : t # s => /\ socket'[t] = socket[t] /\ queues'[t] = queues[t]
                                       /\ t \in subscribed' <=> t \in subscribed
    BY <1>f, <1>h, <2>1, <2>3 DEF Following
  <2>5. Nearest(s)' = version
    BY <2>3, <2>4 DEF Nearest
  <2>6. Following(s)'
    BY <1>k, <2>1, <2>3, <2>4, <2>5 DEF Following, AtEnd
  <2> QED
    BY <2>1, <2>4, <2>6, OneFollows
<1>4. CASE Sent(s)
  <2>1. PICK r : r = [socket[s] EXCEPT !.pc = "waiting"]
    OBVIOUS
  <2>2. /\ socket[s].pc = "sending" /\ socket' = [socket EXCEPT ![s] = r]
        /\ HubKeeps /\ UNCHANGED <<queues, subscribed>>
    BY <1>4, <1>h, <2>1 DEF Sent, SocketAt, HubKeeps, hub_vars
  <2>3. r.pc = "waiting" /\ r.got = socket[s].got /\ r.shown = socket[s].shown
    BY <1>h, <2>1 DEF SocketRecords
  <2> QED
    BY <1>0, <1>f, <2>2, <2>3 DEF Following
<1>5. ASSUME NEW take \in BOOLEAN, NEW client, NEW due \in BOOLEAN, Wake(s, take, client, due)
      PROVE  CurrentInv' /\ FollowInv'
  <2>1. PICK r : r = [socket[s] EXCEPT !.pc = "woken",
                                       !.got = IF take THEN Head(queues[s]) ELSE 0,
                                       !.gone = (client = "disconnect"), !.due = due]
    OBVIOUS
  <2>2. /\ socket[s].pc = "waiting" /\ (take => queues[s] # <<>>)
        /\ socket' = [socket EXCEPT ![s] = r]
        /\ queues' = [queues EXCEPT ![s] = IF take THEN <<>> ELSE @]
        /\ HubKeeps /\ UNCHANGED subscribed
    BY <1>5, <2>1 DEF Wake, SocketAt
  <2>3. /\ r.pc = "woken" /\ r.shown = socket[s].shown
        /\ r.got = IF take THEN Head(queues[s]) ELSE 0
    BY <1>h, <2>1 DEF SocketRecords
  <2>4. socket[s].got = 0
    BY <1>f, <2>2 DEF Following
  <2>5. CASE ~take
    <3>1. UNCHANGED queues
      BY <1>h, <2>2, <2>5
    <3> QED
      BY <1>0, <1>f, <2>2, <2>3, <2>4, <2>5, <3>1 DEF Following
  <2>6. CASE take
    <3>1. /\ socket'[s] = r /\ queues'[s] = <<>>
          /\ \A t \in Sockets : t # s => socket'[t] = socket[t] /\ queues'[t] = queues[t]
      BY <1>h, <2>2, <2>6
    <3>2. Head(queues[s]) = queues[s][1] /\ queues[s][1] # 0
      BY <1>h, <2>2, <2>6
    <3>3. Nearest(s)' = Nearest(s)
      BY <2>2, <2>3, <2>6, <3>1, <3>2 DEF Nearest
    <3>4. Following(s)'
      BY <1>f, <1>k, <2>2, <2>3, <3>1, <3>3 DEF Following, AtEnd
    <3> QED
      BY <2>2, <3>1, <3>4, OneFollows
  <2> QED
    BY <2>5, <2>6
<1>6. CASE Forward(s)
  <2>1. /\ socket[s].pc = "woken" /\ HubKeeps /\ UNCHANGED <<queues, subscribed>>
    BY <1>6 DEF Forward, SocketAt
  <2>2. CASE socket[s].got # 0
    <3>1. PICK r : r = [socket[s] EXCEPT !.pc = "sending", !.shown = socket[s].got, !.got = 0,
                                         !.due = FALSE]
      OBVIOUS
    <3>2. /\ socket' = [socket EXCEPT ![s] = r] /\ r.pc = "sending" /\ r.got = 0
          /\ r.shown = socket[s].got
      BY <1>6, <1>h, <2>2, <3>1 DEF Forward, Show, SocketRecords
    <3> QED
      BY <1>0, <1>f, <2>1, <2>2, <3>2 DEF Following
  <2>3. CASE socket[s].got = 0
    <3>1. PICK r : r = [socket[s] EXCEPT !.pc = "waiting", !.due = FALSE]
      OBVIOUS
    <3>2. /\ socket' = [socket EXCEPT ![s] = r] /\ r.pc = "waiting" /\ r.got = socket[s].got
          /\ r.shown = socket[s].shown
      BY <1>6, <1>h, <2>3, <3>1 DEF Forward, SocketRecords
    <3> QED
      BY <1>0, <1>f, <2>1, <2>3, <3>2 DEF Following
  <2> QED
    BY <2>2, <2>3
<1>7. Refuse(s) \/ SendFails(s) \/ Disconnect(s) => Leave(s)
  BY DEF Refuse, SendFails, Disconnect
<1> QED
  BY <1>1, <1>2, <1>3, <1>4, <1>5, <1>6, <1>7 DEF Client, Endpoint, Serves, Revalidates

\* The first state.
LEMMA InitSnap == Init => CurrentInv /\ FollowInv
<1> SUFFICES ASSUME Init PROVE CurrentInv /\ FollowInv
  OBVIOUS
<1>1. /\ version = 1 /\ newest = 0 /\ reload = "idle" /\ scheduled = <<>> /\ subscribed = {}
      /\ caller = [c \in Callers |-> Idle] /\ queues = [s \in Sockets |-> <<>>]
      /\ socket = [s \in Sockets |-> NoSocket]
  BY DEF Init, HubInit
<1>2. \A c \in Callers : caller[c] = Idle /\ caller[c].pc = "idle" /\ caller[c].snap = 0
  BY <1>1 DEF Idle
<1>3. Reload \in Callers /\ Networks \subseteq Callers
  BY DEF Callers
<1>4. CurrentInv
  BY <1>1, <1>2, <1>3 DEF CurrentInv, OnWay
<1>5. FollowInv
  BY <1>1 DEF FollowInv, Following, NoSocket
<1> QED
  BY <1>4, <1>5

\* The newest state is never lost on its way: the invariant of hub and connections.
THEOREM SnapInductive == Spec => []SnapInv
<1>1. ASSUME IInv, CurrentInv, FollowInv, [Next]_vars PROVE CurrentInv' /\ FollowInv'
  <2>0. HubInv
    BY <1>1 DEF IInv
  <2>1. CASE HubStep
    <3>1. UNCHANGED socket
      BY <2>1 DEF HubStep, front_vars
    <3>2. SocketsKeep
      BY <3>1 DEF SocketsKeep
    <3>3. ASSUME NEW c \in Callers, Change(c) PROVE CurrentInv' /\ FollowInv'
      <4>1. UNCHANGED <<queues, subscribed, outdated, scheduled>>
        BY <3>3 DEF Change
      <4> QED
        BY <1>1, <2>0, <3>2, <3>3, <4>1, ChangeCurrent, FollowKept
    <3>4. ASSUME NEW c \in Callers, Snapshot(c) PROVE CurrentInv' /\ FollowInv'
      <4>1. UNCHANGED <<queues, subscribed, outdated, scheduled>>
        BY <3>4 DEF Snapshot
      <4> QED
        BY <1>1, <2>0, <3>2, <3>4, <4>1, SnapshotCurrent, FollowKept
    <3>5. ASSUME NEW c \in Callers, publish_threadsafe(c) PROVE CurrentInv' /\ FollowInv'
      <4>1. UNCHANGED <<queues, subscribed>>
        BY <3>5 DEF publish_threadsafe
      <4> QED
        BY <1>1, <2>0, <3>2, <3>5, <4>1, PublishCurrent, FollowKept
    <3>6. CASE publish
      BY <1>1, <2>0, <3>2, <3>6, LoopCurrent, PublishFollow
    <3>7. CASE StopOld
      <4>1. UNCHANGED <<queues, subscribed, outdated, scheduled>>
        BY <3>7 DEF StopOld
      <4> QED
        BY <1>1, <2>0, <3>2, <3>7, <4>1, LoopCurrent, FollowKept
    <3>8. CASE StartOld
      <4>1. UNCHANGED <<queues, subscribed>>
        BY <3>8 DEF StartOld
      <4> QED
        BY <1>1, <2>0, <3>2, <3>8, <4>1, StartOldCurrent, FollowKept
    <3> QED
      BY <2>1, <3>3, <3>4, <3>5, <3>6, <3>7, <3>8 DEF HubStep, Threads
  <2>2. ASSUME NoteRevocations PROVE SocketsKeep
    BY <1>1, <2>2 DEF NoteRevocations, SocketsKeep, IInv, SocketInv, SocketRecords
  <2>3. CASE SessionStep
    <3>1. UNCHANGED <<version, retired, reload, caller, scheduled, newest, outdated, queues,
                      subscribed>>
      BY <2>3 DEF SessionStep, hub_vars
    <3>2. SocketsKeep
      BY <2>2, <2>3 DEF SessionStep
    <3> QED
      BY <1>1, <3>1, <3>2, AsideCurrent, FollowKept
  <2>4. ASSUME NEW rotate \in BOOLEAN, SwapManager(rotate) PROVE CurrentInv' /\ FollowInv'
    <3>1. Swap /\ UNCHANGED socket
      BY <2>4 DEF SwapManager
    <3>2. SocketsKeep /\ UNCHANGED <<queues, subscribed, outdated, scheduled>>
      BY <3>1 DEF SocketsKeep, Swap
    <3> QED
      BY <1>1, <2>0, <3>1, <3>2, LoopCurrent, FollowKept
  <2>5. CASE EndReload
    <3>1. Reloaded /\ SocketsKeep
      BY <2>2, <2>5 DEF EndReload
    <3>2. UNCHANGED <<queues, subscribed, outdated, scheduled>>
      BY <3>1 DEF Reloaded
    <3> QED
      BY <1>1, <2>0, <3>1, <3>2, LoopCurrent, FollowKept
  <2>6. CASE UNCHANGED vars
    <3>1. UNCHANGED <<version, retired, reload, caller, scheduled, newest, outdated, queues,
                      subscribed, socket>>
      BY <2>6 DEF vars, hub_vars, front_vars
    <3>2. SocketsKeep
      BY <3>1 DEF SocketsKeep
    <3> QED
      BY <1>1, <3>1, <3>2, AsideCurrent, FollowKept
  <2> QED
    BY <1>1, <2>1, <2>3, <2>4, <2>5, <2>6, SocketFollow DEF Next
<1>2. Init => CurrentInv /\ FollowInv
  BY InitSnap
<1> QED
  BY <1>1, <1>2, FrontInductive, PTL DEF Spec, SnapInv

\* When nothing is on its way any more, a browser shows the state of the manager in
\* service (publish_threadsafe, _publish, websocket_endpoint), unless what was announced
\* last was known to be older.
THEOREM ShowsNewestAlways == Spec => []ShowsNewest
<1>1. SnapInv => ShowsNewest
  <2> SUFFICES ASSUME SnapInv, NEW s \in Sockets, Quiet(s), ~outdated
               PROVE  socket[s].shown = version
    BY DEF ShowsNewest
  <2>1. Following(s)
    BY DEF SnapInv, FollowInv
  <2>2. /\ socket[s].pc = "waiting" /\ queues[s] = <<>> /\ scheduled = <<>>
        /\ \A c \in Callers : caller[c].pc \in {"idle", "ended"}
    BY DEF Quiet, SocketAt
  <2>3. ~InFlight
    BY <2>2 DEF InFlight, Bears
  <2>4. Nearest(s) = socket[s].shown
    BY <2>1, <2>2 DEF Following, Nearest
  <2> QED
    BY <2>1, <2>2, <2>3, <2>4 DEF Following, AtEnd
<1> QED
  BY <1>1, SnapInductive, PTL
=============================================================================
