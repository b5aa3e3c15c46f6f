-------------------------- MODULE PrinterLinkProofs --------------------------
(***************************************************************************)
(* Theorems about PrinterLink, for any number of timers, starts and lost   *)
(* connections.                                                            *)
(*                                                                         *)
(* What the safety properties rest on is where start() and stop() are: the *)
(* phases fix _stopping, whether paho's thread was told to leave, and      *)
(* which probes stop() can no longer hold back.                            *)
(***************************************************************************)
EXTENDS PrinterLink, TLAPS

Stopping == {"pin", "refresh", "disconnect", "join", "joining", "stopped"}

\* Nothing has been started yet.
Untouched == loop.pc = "none" /\ \A p \in Pins : probe[p] = NoProbe

\* _stopping, where start() and stop() are.
Phases ==
    /\ control.pc = "new" => Untouched
    /\ control.pc = "clear" => stopping \/ Untouched
    /\ control.pc \in {"begin", "started"} => ~stopping
    /\ control.pc \in Stopping => stopping

\* Whoever may open the connection has set the context before.
PinInv ==
    /\ configured = context
    /\ \A p \in Pins : probe[p] = "starting" => context
    /\ PinBeforeConnect

\* late covers the probes that are past their looks at _stopping.
LateInv ==
    control.pc \in Stopping =>
        \A p \in Pins :
            /\ probe[p] \in {"context", "starting"} => late = "starting"
            /\ probe[p] \in {"probing", "failed"} => late # "no"

\* A thread that stop() does not wait for was started by such a probe.
StopInv ==
    /\ control.pc = "joining" => leaving \/ late = "starting"
    /\ StopIsStop

\* A thread leaves only when stop() says so or the certificate did not match, and a
\* context that was set leads to a thread.
LinkInv ==
    /\ control.pc \notin {"join", "joining"} => loop.pc = "none" \/ ~leaving
    /\ loop.pc = "dropping" => tls_failed
    /\ control.pc = "started" /\ context =>
           loop.pc # "none" \/ tls_failed \/ \E p \in Pins : probe[p] = "starting"
    /\ LinkNotForgotten

\* A thread that outlives stop() has found _stopping set when it connected.
BareInv ==
    (control.pc = "joining" /\ ~leaving) \/ control.pc \in {"stopped", "clear"} =>
        /\ loop.pc # "arm"
        /\ loop.pc = "up" => bare

RefreshInv ==
    control.pc \in {"begin", "started"} /\ loop.pc = "up" /\ ~bare =>
        \E r \in Refreshes : refresher[r].pc # "none"

Parts == Phases /\ PinInv /\ LateInv /\ StopInv /\ LinkInv /\ BareInv /\ RefreshInv

IInv == TypeOK /\ Parts

\* A client that was just made (PrinterMqttClient.__init__).
LEMMA InitIInv == Init => IInv
<1> SUFFICES ASSUME Init PROVE IInv
    OBVIOUS
<1>1. TypeOK
  <2>1. context \in BOOLEAN /\ configured \in BOOLEAN
      BY Zenon DEF Init
  <2>2. starts \in 0 .. MaxStarts /\ drops \in 0 .. MaxDrops
      BY LinkAssumption DEF Init
  <2>3. control \in ControlRecords /\ probe \in [Pins -> ProbeStates]
        /\ refresher \in [Refreshes -> RefresherRecords] /\ loop \in LoopRecords
      BY DEF Init, ControlRecords, ProbeStates, RefresherRecords, LoopRecords, Ready, NoProbe
  <2> QED
      BY <2>1, <2>2, <2>3 DEF Init, TypeOK
<1>2. Phases /\ LateInv /\ StopInv /\ LinkInv /\ BareInv /\ RefreshInv
    BY DEF Init, Phases, LateInv, StopInv, LinkInv, BareInv, RefreshInv, StopIsStop,
           LinkNotForgotten, Untouched, Stopping, Ready
<1>3. PinInv
    BY <1>1 DEF Init, PinInv, PinBeforeConnect, Ready, NoProbe, TypeOK
<1> QED
    BY <1>1, <1>2, <1>3 DEF IInv, Parts

\* No step of mqtt_client.py or paho leaves the types.
LEMMA TypeStep == TypeOK /\ [Next]_vars => TypeOK'
<1> SUFFICES ASSUME TypeOK, [Next]_vars PROVE TypeOK'
    OBVIOUS
<1> USE LinkAssumption DEF TypeOK, ControlRecords, ProbeStates, RefresherRecords,
        LoopRecords, link_vars, timers, bounds, NoProbe, mark_connection
<1>1. CASE Start
    BY <1>1 DEF Start, Ready, ControlGoes
<1>2. CASE Stop
    BY <1>2 DEF Stop, ControlStep, LateProbes
<1>3. CASE ClearStopping
  <2>1. stopping' \in BOOLEAN /\ context' \in BOOLEAN /\ configured' \in BOOLEAN
        /\ leaving' \in BOOLEAN /\ tls_failed' \in BOOLEAN /\ bare' \in BOOLEAN
        /\ complete' \in BOOLEAN
      BY <1>3, Zenon DEF ClearStopping, ControlStep, ControlGoes, Ready
  <2>2. control' \in ControlRecords /\ loop' \in LoopRecords /\ probe' \in [Pins -> ProbeStates]
      BY <1>3 DEF ClearStopping, ControlStep, ControlGoes, Ready
  <2> QED
      BY <1>3, <2>1, <2>2 DEF ClearStopping, ControlStep, ControlGoes, Ready
<1>4. CASE ScheduleFirstProbe
    BY <1>4 DEF ScheduleFirstProbe, ControlStep, ControlGoes, Ready, ArmPin
<1>5. CASE StartConfigured
  <2>1. stopping' \in BOOLEAN /\ context' \in BOOLEAN /\ configured' \in BOOLEAN
        /\ leaving' \in BOOLEAN /\ tls_failed' \in BOOLEAN /\ bare' \in BOOLEAN
        /\ complete' \in BOOLEAN
      BY <1>5, Zenon DEF StartConfigured, ControlStep, ControlGoes, Ready, StartLoop
  <2>2. control' \in ControlRecords /\ loop' \in LoopRecords /\ probe' \in [Pins -> ProbeStates]
      BY <1>5 DEF StartConfigured, ControlStep, ControlGoes, Ready, StartLoop
  <2> QED
      BY <1>5, <2>1, <2>2 DEF StartConfigured, ControlStep, ControlGoes, Ready, StartLoop
<1>6. CASE CancelPin
    BY <1>6 DEF CancelPin, ControlStep, PinCancelled
<1>7. CASE StopCancelsRefresh
    BY <1>7 DEF StopCancelsRefresh, ControlStep, ControlGoes, Ready, CancelRefresh,
           RefreshCancelled
<1>8. CASE StopDisconnects
    BY <1>8 DEF StopDisconnects, ControlStep, ControlGoes, Ready
<1>9. CASE Stopped
    BY <1>9 DEF Stopped, ControlStep, ControlGoes, Ready
<1>10. CASE LoopReads
    BY <1>10 DEF LoopReads, LoopStep, SameRefresh, Ready
<1>11. CASE LoopCancels
    BY <1>11 DEF LoopCancels, LoopStep, SameRefresh, Ready, CancelRefresh, RefreshCancelled
<1>12. CASE LoopChecks
    BY <1>12 DEF LoopChecks, LoopStep, SameRefresh, Ready
<1>13. CASE LoopArms
    BY <1>13 DEF LoopArms, LoopStep, SameRefresh, Ready, ArmRefresh
<1>14. CASE Broken
    BY <1>14 DEF Broken, LoopStep, SameRefresh, Ready, CancelRefresh, RefreshCancelled
<1>15. CASE LoopEnds
    BY <1>15 DEF LoopEnds, LoopStep, SameRefresh, Ready
<1>16. CASE Report
    BY <1>16 DEF Report, Merged, LoopStep, SameRefresh, Ready
<1>17. CASE Breaks
    BY <1>17 DEF Breaks, LoopStep, SameRefresh, Ready
<1>18. CASE ConnectFails
    BY <1>18 DEF ConnectFails, LoopStep, SameRefresh, Ready
<1>19. CASE Refused
    BY <1>19 DEF Refused, LoopStep, SameRefresh, Ready
<1>20. CASE Connects
  <2>1. stopping' \in BOOLEAN /\ context' \in BOOLEAN /\ configured' \in BOOLEAN
        /\ leaving' \in BOOLEAN /\ tls_failed' \in BOOLEAN /\ bare' \in BOOLEAN
        /\ complete' \in BOOLEAN
      BY <1>20, Zenon DEF Connects, LoopStep, SameRefresh, Ready
  <2>2. control' \in ControlRecords /\ loop' \in LoopRecords /\ probe' \in [Pins -> ProbeStates]
      BY <1>20 DEF Connects, LoopStep, SameRefresh, Ready
  <2> QED
      BY <1>20, <2>1, <2>2 DEF Connects, LoopStep, SameRefresh, Ready
<1>21. CASE Mismatch
    BY <1>21 DEF Mismatch, LoopStep, SameRefresh, Ready
<1>22. ASSUME NEW p \in Pins, PinFires(p) PROVE TypeOK'
    BY <1>22 DEF PinFires, ProbeStep, SameLink
<1>23. ASSUME NEW p \in Pins, RetryWanted(p) PROVE TypeOK'
    BY <1>23 DEF RetryWanted, ProbeStep, SameLink
<1>24. ASSUME NEW p \in Pins, Retry(p) PROVE TypeOK'
  <2>1. PICK q \in Pins \ {p} :
            /\ probe[q] = NoProbe /\ pin_timer' = q
            /\ probe' = [probe EXCEPT ![q] = "armed", ![p] = NoProbe]
      BY <1>24 DEF Retry, ArmPin
  <2>2. /\ probe[p] = "retry"
        /\ UNCHANGED <<control, stopping, tls_failed, refresh_timer, refresher, bounds>>
        /\ SameLink
      BY <1>24 DEF Retry
  <2> QED
      BY <2>1, <2>2 DEF SameLink
<1>25. ASSUME NEW p \in Pins, ProbeSucceeds(p) PROVE TypeOK'
    BY <1>25 DEF ProbeSucceeds, ProbeStep, SameLink
<1>26. ASSUME NEW p \in Pins, ProbeFails(p) PROVE TypeOK'
    BY <1>26 DEF ProbeFails, ProbeStep, SameLink
<1>27. ASSUME NEW p \in Pins, SetContext(p) PROVE TypeOK'
    BY <1>27 DEF SetContext, ProbeStep, SameLink
<1>28. ASSUME NEW p \in Pins, PinnedStart(p) PROVE TypeOK'
  <2>1. stopping' \in BOOLEAN /\ context' \in BOOLEAN /\ configured' \in BOOLEAN
        /\ leaving' \in BOOLEAN /\ tls_failed' \in BOOLEAN /\ bare' \in BOOLEAN
        /\ complete' \in BOOLEAN
      BY <1>28, Zenon DEF PinnedStart, ProbeStep, SameLink, StartLoop, Ready
  <2>2. control' \in ControlRecords /\ loop' \in LoopRecords /\ probe' \in [Pins -> ProbeStates]
      BY <1>28 DEF PinnedStart, ProbeStep, SameLink, StartLoop, Ready
  <2> QED
      BY <1>28, <2>1, <2>2 DEF PinnedStart, ProbeStep, SameLink, StartLoop, Ready
<1>29. ASSUME NEW r \in Refreshes, RefreshFires(r) PROVE TypeOK'
    BY <1>29 DEF RefreshFires, RefreshStep, Ready
<1>30. ASSUME NEW r \in Refreshes, RefreshReads(r) PROVE TypeOK'
    BY <1>30 DEF RefreshReads, RefreshStep, Ready
<1>31. ASSUME NEW r \in Refreshes, RefreshCancels(r) PROVE TypeOK'
    BY <1>31 DEF RefreshCancels, RefreshCancelled, Ready
<1>32. ASSUME NEW r \in Refreshes, RefreshChecks(r) PROVE TypeOK'
    BY <1>32 DEF RefreshChecks, RefreshStep, Ready
<1>33. ASSUME NEW r \in Refreshes, RefreshArms(r) PROVE TypeOK'
    BY <1>33 DEF RefreshArms, ArmRefresh, Ready
<1>33b. ASSUME NEW r \in Refreshes, RefreshAnswered(r) PROVE TypeOK'
    BY <1>33b DEF RefreshAnswered, Merged, Ready
<1>34. CASE UNCHANGED vars
    BY <1>34 DEF vars
<1> QED
    BY <1>1, <1>2, <1>3, <1>4, <1>5, <1>6, <1>7, <1>8, <1>9, <1>10, <1>11, <1>12, <1>13,
           <1>14, <1>15, <1>16, <1>17, <1>18, <1>19, <1>20, <1>21, <1>22, <1>23, <1>24, <1>25,
           <1>26, <1>27, <1>28, <1>29, <1>30, <1>31, <1>32, <1>33, <1>33b, <1>34 DEF Next, Control,
           Callback, Probe, Refresh

\* No step of mqtt_client.py or paho breaks a part of the invariant.
LEMMA PartStep == IInv /\ TypeOK' /\ [Next]_vars => Parts'
<1> SUFFICES ASSUME IInv, TypeOK', [Next]_vars PROVE Parts'
    OBVIOUS
<1> USE LinkAssumption DEF IInv, Parts, TypeOK, ControlRecords, ProbeStates,
        RefresherRecords, LoopRecords, link_vars, timers, bounds, Phases, PinInv, LateInv, StopInv,
        LinkInv, BareInv, RefreshInv, PinBeforeConnect, StopIsStop, LinkNotForgotten, Untouched,
        Stopping, NoProbe, mark_connection
<1>1. CASE Start
    BY <1>1 DEF Start, Ready, ControlGoes
<1>2. CASE Stop
    BY <1>2 DEF Stop, ControlStep, LateProbes
<1>3. CASE ClearStopping
    BY <1>3 DEF ClearStopping, ControlStep, ControlGoes, Ready
<1>4. CASE ScheduleFirstProbe
    BY <1>4 DEF ScheduleFirstProbe, ControlStep, ControlGoes, Ready, ArmPin
<1>5. CASE StartConfigured
  <2>1. context /\ control'.pc = "started"
      BY <1>5 DEF StartConfigured, ControlStep, ControlGoes, Ready, StartLoop
  <2>2. PinInv'
      BY <1>5, <2>1 DEF StartConfigured, ControlStep, ControlGoes, Ready, StartLoop
  <2>3. LinkInv'
      BY <1>5, <2>1 DEF StartConfigured, ControlStep, ControlGoes, Ready, StartLoop
  <2>4. (Phases /\ LateInv /\ StopInv /\ BareInv)'
      BY <1>5, <2>1 DEF StartConfigured, ControlStep, ControlGoes, Ready, StartLoop
  <2>5. RefreshInv'
      BY <1>5, <2>1 DEF StartConfigured, ControlStep, ControlGoes, Ready, StartLoop
  <2> QED
      BY <2>2, <2>3, <2>4, <2>5
<1>6. CASE CancelPin
    BY <1>6 DEF CancelPin, ControlStep, PinCancelled
<1>7. CASE StopCancelsRefresh
    BY <1>7 DEF StopCancelsRefresh, ControlStep, ControlGoes, Ready, CancelRefresh,
           RefreshCancelled
<1>8. CASE StopDisconnects
    BY <1>8 DEF StopDisconnects, ControlStep, ControlGoes, Ready
<1>9. CASE Stopped
    BY <1>9 DEF Stopped, ControlStep, ControlGoes, Ready
<1>10. CASE LoopReads
    BY <1>10 DEF LoopReads, LoopStep, SameRefresh, Ready
<1>11. CASE LoopCancels
    BY <1>11 DEF LoopCancels, LoopStep, SameRefresh, Ready, CancelRefresh, RefreshCancelled
<1>12. CASE LoopChecks
    BY <1>12 DEF LoopChecks, LoopStep, SameRefresh, Ready
<1>13. CASE LoopArms
    BY <1>13 DEF LoopArms, LoopStep, SameRefresh, Ready, ArmRefresh
<1>14. CASE Broken
    BY <1>14 DEF Broken, LoopStep, SameRefresh, Ready, CancelRefresh, RefreshCancelled
<1>15. CASE LoopEnds
    BY <1>15 DEF LoopEnds, LoopStep, SameRefresh, Ready
<1>16. CASE Report
    BY <1>16 DEF Report, Merged, LoopStep, SameRefresh, Ready
<1>17. CASE Breaks
    BY <1>17 DEF Breaks, LoopStep, SameRefresh, Ready
<1>18. CASE ConnectFails
    BY <1>18 DEF ConnectFails, LoopStep, SameRefresh, Ready
<1>19. CASE Refused
    BY <1>19 DEF Refused, LoopStep, SameRefresh, Ready
<1>20. CASE Connects
    BY <1>20 DEF Connects, LoopStep, SameRefresh, Ready
<1>21. CASE Mismatch
    BY <1>21 DEF Mismatch, LoopStep, SameRefresh, Ready
<1>22. ASSUME NEW p \in Pins, PinFires(p) PROVE Parts'
    BY <1>22 DEF PinFires, ProbeStep, SameLink
<1>23. ASSUME NEW p \in Pins, RetryWanted(p) PROVE Parts'
    BY <1>23 DEF RetryWanted, ProbeStep, SameLink
<1>24. ASSUME NEW p \in Pins, Retry(p) PROVE Parts'
  <2>1. PICK q \in Pins \ {p} :
            /\ probe[q] = NoProbe /\ pin_timer' = q
            /\ probe' = [probe EXCEPT ![q] = "armed", ![p] = NoProbe]
      BY <1>24 DEF Retry, ArmPin
  <2>2. /\ probe[p] = "retry"
        /\ UNCHANGED <<control, stopping, tls_failed, refresh_timer, refresher, bounds>>
        /\ SameLink
      BY <1>24 DEF Retry
  <2> QED
      BY <2>1, <2>2 DEF SameLink
<1>25. ASSUME NEW p \in Pins, ProbeSucceeds(p) PROVE Parts'
    BY <1>25 DEF ProbeSucceeds, ProbeStep, SameLink
<1>26. ASSUME NEW p \in Pins, ProbeFails(p) PROVE Parts'
    BY <1>26 DEF ProbeFails, ProbeStep, SameLink
<1>27. ASSUME NEW p \in Pins, SetContext(p) PROVE Parts'
    BY <1>27 DEF SetContext, ProbeStep, SameLink
<1>28. ASSUME NEW p \in Pins, PinnedStart(p) PROVE Parts'
    BY <1>28 DEF PinnedStart, ProbeStep, SameLink, StartLoop, Ready
<1>29. ASSUME NEW r \in Refreshes, RefreshFires(r) PROVE Parts'
    BY <1>29 DEF RefreshFires, RefreshStep, Ready
<1>30. ASSUME NEW r \in Refreshes, RefreshReads(r) PROVE Parts'
    BY <1>30 DEF RefreshReads, RefreshStep, Ready
<1>31. ASSUME NEW r \in Refreshes, RefreshCancels(r) PROVE Parts'
    BY <1>31 DEF RefreshCancels, RefreshCancelled, Ready
<1>32. ASSUME NEW r \in Refreshes, RefreshChecks(r) PROVE Parts'
    BY <1>32 DEF RefreshChecks, RefreshStep, Ready
<1>33. ASSUME NEW r \in Refreshes, RefreshArms(r) PROVE Parts'
    BY <1>33 DEF RefreshArms, ArmRefresh, Ready
<1>33b. ASSUME NEW r \in Refreshes, RefreshAnswered(r) PROVE Parts'
    BY <1>33b DEF RefreshAnswered, Merged, Ready
<1>34. CASE UNCHANGED vars
    BY <1>34 DEF vars
<1> QED
    BY <1>1, <1>2, <1>3, <1>4, <1>5, <1>6, <1>7, <1>8, <1>9, <1>10, <1>11, <1>12, <1>13,
           <1>14, <1>15, <1>16, <1>17, <1>18, <1>19, <1>20, <1>21, <1>22, <1>23, <1>24, <1>25,
           <1>26, <1>27, <1>28, <1>29, <1>30, <1>31, <1>32, <1>33, <1>33b, <1>34 DEF Next, Control,
           Callback, Probe, Refresh

\* The invariant from which the theorems below follow is inductive: start, stop, every
\* probe, callback and refresh step of mqtt_client.py keeps it.
THEOREM LinkInductive == Spec => []IInv
<1>1. IInv /\ [Next]_vars => IInv'
    BY TypeStep, PartStep DEF IInv
<1> QED
    BY <1>1, InitIInv, PTL DEF Spec

\* Every variable keeps its type.
THEOREM TypeCorrect == Spec => []TypeOK
<1>1. IInv => TypeOK
    BY DEF IInv
<1> QED
    BY <1>1, LinkInductive, PTL

\* Nothing that could carry the access code is sent before the certificate of the printer
\* was pinned (_start_pinned_connection, start).
THEOREM PinBeforeConnectAlways == Spec => []PinBeforeConnect
<1>1. IInv => PinBeforeConnect
    BY DEF IInv, Parts, PinInv
<1> QED
    BY <1>1, LinkInductive, PTL

\* What stop() leaves running is a probe that had looked at _stopping for the last time,
\* or the connection it opened.
THEOREM StopIsStopAlways == Spec => []StopIsStop
<1>1. IInv => StopIsStop
    BY DEF IInv, Parts, StopInv
<1> QED
    BY <1>1, LinkInductive, PTL

\* A client that was started has a thread, a probe under way or scheduled, or has met
\* another certificate, whatever timers were cancelled meanwhile.
THEOREM LinkNotForgottenAlways == Spec => []LinkNotForgotten
<1>1. IInv => LinkNotForgotten
    BY DEF IInv, Parts, LinkInv
<1> QED
    BY <1>1, LinkInductive, PTL

\* While the connection is up the full state will be asked for again.
THEOREM RefreshNotForgottenAlways == Spec => []RefreshNotForgotten
<1>1. IInv => RefreshNotForgotten
    BY DEF IInv, Parts, RefreshInv, RefreshNotForgotten
<1> QED
    BY <1>1, LinkInductive, PTL
=============================================================================
