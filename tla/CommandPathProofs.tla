-------------------------- MODULE CommandPathProofs --------------------------
(***************************************************************************)
(* The inductive invariant IInv of CommandPath, proved for any number of   *)
(* requests, any calls, payloads, permissions and bounds.                  *)
(***************************************************************************)
EXTENDS CommandPath, FiniteSetTheorems, WellFoundedInduction, TLAPS

NatLess == {p \in Nat \X Nat : p[1] < p[2]}

\* First picks an element of any non-empty set of naturals: there is a smallest.
LEMMA FirstIsMember ==
    ASSUME NEW S \in SUBSET Nat, S # {}
    PROVE  First(S) \in S
<1>1. IsWellFoundedOn(NatLess, Nat)
  BY NatLessThanWellFounded DEF OpToRel, NatLess
<1>2. PICK x \in S : \A y \in S : ~ (<<y, x>> \in NatLess)
  BY <1>1, WFMin
<1>3. ASSUME NEW y \in S PROVE x <= y
  <2>1. y \in Nat /\ x \in Nat
    OBVIOUS
  <2>2. y < x => <<y, x>> \in NatLess
    BY <2>1 DEF NatLess
  <2> QED
    BY <1>2, <2>1, <2>2
<1> QED
  BY <1>3 DEF First

\* A unit the snapshot shows is an entry of the merged AMS list.
LEMMA ShownUnitType ==
    ASSUME StoreTypeOK, NEW u, Shown(u) # {}
    PROVE  ShownUnit(u) \in UnitEntry
<1>1. raw.units \in Seq(UnitEntry)
  BY DEF StoreTypeOK, RawReports
<1>2. Shown(u) \in SUBSET Nat
  BY <1>1 DEF Shown
<1>3. First(Shown(u)) \in DOMAIN raw.units
  BY <1>2, FirstIsMember DEF Shown
<1> QED
  BY <1>1, <1>3 DEF ShownUnit

\* apply_report counts a natural number of dry_time entries.
LEMMA DryEntriesType ==
    ASSUME NEW m, IsPayload(m), NEW u
    PROVE  DryEntries(m.body, u) \in Nat
<1>1. CASE "units" \notin DOMAIN m.body
  BY <1>1 DEF DryEntries
<1>2. CASE "units" \in DOMAIN m.body
  <2> DEFINE list == m.body["units"]
             S == {i \in DOMAIN list : list[i].dry # Missing /\ KeyOf(list, i) = u}
  <2>1. list \in Seq(UnitEntry)
    BY <1>2 DEF IsPayload
  <2>2. IsFiniteSet(1 .. Len(list))
    BY <2>1, FS_Interval
  <2>3. S \subseteq 1 .. Len(list)
    BY <2>1
  <2>4. Cardinality(S) \in Nat
    BY <2>2, <2>3, FS_Subset, FS_CardinalityType
  <2> QED
    BY <1>2, <2>4 DEF DryEntries
<1> QED
  BY <1>1, <1>2

\* Merging a payload keeps the type of the store.
LEMMA ReportKeepsStoreType ==
    ASSUME StoreTypeOK, NEW m \in Reports, apply_report(m)
    PROVE  StoreTypeOK'
<1>1. IsPayload(m)
  BY StoreAssumption
<1>2. raw' \in RawReports
  BY <1>1 DEF StoreTypeOK, apply_report, deep_merge, Merged, IsPayload, RawReports
<1>3. generation' \in [AmsIds -> Nat]
  <2>1. \A u \in AmsIds : DryEntries(m.body, u) \in Nat
    BY <1>1, DryEntriesType
  <2> QED
    BY <2>1 DEF apply_report, StoreTypeOK
<1>4. /\ connection' \in ConnectionStates /\ complete' \in BOOLEAN /\ stale' \in BOOLEAN
      /\ models' \in [AmsIds -> HardwareModels \cup {"unknown"}]
  BY <1>1 DEF apply_report, StoreTypeOK, ConnectionStates, is_full_status, IsPayload
<1>5. epoch \in Nat /\ unitsAt \in 0 .. epoch
  BY DEF StoreTypeOK
<1>6. epoch' \in Nat /\ unitsAt' \in 0 .. epoch'
  BY <1>5 DEF apply_report
<1> QED
  BY <1>2, <1>3, <1>4, <1>6 DEF StoreTypeOK

\* Steps that leave the store alone keep its type.
LEMMA StoreFrame == ASSUME StoreTypeOK, UNCHANGED storeVars PROVE StoreTypeOK'
BY DEF StoreTypeOK, storeVars

\* Marking the connection keeps the type of the store.
LEMMA MarkKeepsStoreType ==
    ASSUME StoreTypeOK, NEW state \in ConnectionStates, mark_connection(state)
    PROVE  StoreTypeOK'
BY DEF StoreTypeOK, mark_connection

\* Naming modules keeps the type of the store.
LEMMA VersionKeepsStoreType ==
    ASSUME StoreTypeOK, NEW ids, apply_version(ids)
    PROVE  StoreTypeOK'
BY StoreAssumption DEF StoreTypeOK, apply_version

\* The number of commands built for a call is a number of slots.
LEMMA CommandCountType ==
    ASSUME StoreTypeOK, NEW c \in Calls, buildable(c)
    PROVE  CommandCount(c) \in Slots
<1>1. CASE c.name = "refresh_rfid" /\ c.slot = 0
  <2>1. Shown(c.unit) # {} /\ ShownUnit(c.unit).slots > 0
    BY <1>1 DEF buildable
  <2>2. ShownUnit(c.unit) \in UnitEntry
    BY <2>1, ShownUnitType
  <2> QED
    BY <1>1, <2>1, <2>2, StoreAssumption DEF CommandCount, UnitEntry, Slots
<1>2. CASE ~ (c.name = "refresh_rfid" /\ c.slot = 0)
  BY <1>2, StoreAssumption, CommandAssumption DEF CommandCount, Slots
<1> QED
  BY <1>1, <1>2

\* A sequence id in the pending table, the outbox or an answer is a pair.
LEMMA IdType ==
    ASSUME NEW id \in Ids
    PROVE  id[1] \in Requests /\ id[2] \in Slots /\ id = <<id[1], id[2]>>
BY DEF Ids

\* The initial state has its type.
LEMMA InitType == Init => TypeOK
<1> SUFFICES ASSUME Init PROVE TypeOK
  OBVIOUS
<1>1. StoreTypeOK
  <2>1. raw \in RawReports
    BY StoreAssumption DEF Init, StoreInit, RawReports
  <2>2. models \in [AmsIds -> HardwareModels \cup {"unknown"}] /\ generation \in [AmsIds -> Nat]
    BY DEF Init, StoreInit
  <2>3. epoch \in Nat /\ unitsAt \in 0 .. epoch
    BY DEF Init, StoreInit
  <2> QED
    BY <2>1, <2>2, <2>3 DEF Init, StoreInit, StoreTypeOK, ConnectionStates
<1>2. 1 \in Slots
  BY StoreAssumption, CommandAssumption DEF Slots
<1>3. (CHOOSE c \in Calls : TRUE) \in Calls
  BY CommandAssumption
<1>4. /\ traffic \in 0 .. MaxReports /\ drops \in 0 .. MaxDrops
      /\ wire \in Seq(Messages) /\ published \in Seq(Ids)
  BY StoreAssumption, CommandAssumption DEF Init
<1>5. /\ pc \in [Requests -> PcStates] /\ acks \in [Requests -> [Slots -> AckValues]]
      /\ outcome \in [Requests -> Outcomes]
  BY DEF Init, PcStates, AckValues, Outcomes
<1> QED
  BY <1>1, <1>2, <1>3, <1>4, <1>5 DEF Init, TypeOK

\* Every step keeps the type invariant.
LEMMA TypeStep == TypeOK /\ [Next]_vars => TypeOK'
<1> SUFFICES ASSUME TypeOK, [Next]_vars PROVE TypeOK'
  OBVIOUS
<1> USE DEF TypeOK
<1>1. ASSUME NEW r \in Requests, NEW c \in Calls, Submit(r, c) PROVE TypeOK'
  <2>1. StoreTypeOK'
    BY <1>1, StoreFrame DEF Submit, unchangedByGate
  <2> QED
    BY <1>1, <2>1 DEF Submit, unchangedByGate, linkVars, Goto, Finish, Record, PcStates,
                      Outcomes
<1>2. ASSUME NEW r \in Requests, Thread(r) PROVE TypeOK'
  <2>0. StoreTypeOK'
    BY <1>2, StoreFrame DEF Thread, ValidateState, BuildCommands, CheckOperationRisk, EnterLock,
        RegisterPending, CheckConnected, Publish, ReceiveAck, AckTimeout, Returned, Judge,
        ConfirmDrying, ConfirmTimeout, unchangedByGate
  <2> USE <2>0 DEF linkVars, Goto, Finish, Record, PcStates, Outcomes, unchangedByGate
  <2>1. CASE ValidateState(r)
    <3>1. Len(published) \in Nat
      OBVIOUS
    <3> QED
      BY <2>1, <3>1 DEF ValidateState
  <2>2. CASE BuildCommands(r)
    <3>1. buildable(call[r]) => CommandCount(call[r]) \in Slots
      BY CommandCountType
    <3> QED
      BY <2>2, <3>1 DEF BuildCommands
  <2>3. CASE CheckOperationRisk(r)
    BY <2>3 DEF CheckOperationRisk
  <2>4. CASE EnterLock(r)
    BY <2>4 DEF EnterLock
  <2>5. CASE RegisterPending(r)
    <3>1. call[r].unit \in AmsIds
      BY CommandAssumption DEF CallRecords
    <3>2. generation[call[r].unit] \in Nat /\ epoch \in Nat
      BY <3>1 DEF StoreTypeOK
    <3> QED
      BY <2>5, <3>2 DEF RegisterPending
  <2>6. CASE CheckConnected(r)
    BY <2>6 DEF CheckConnected, PublishFailed
  <2>7. CASE Publish(r)
    <3>1. <<r, pos[r]>> \in Ids
      BY DEF Ids
    <3>2. outbox' \in SUBSET Ids
      BY <2>7, <3>1 DEF Publish
    <3>3. published' \in Seq(Ids)
      <4>1. Append(published, <<r, pos[r]>>) \in Seq(Ids)
        BY <3>1
      <4>2. published' \in {published, Append(published, <<r, pos[r]>>)}
        BY <2>7 DEF Publish, PublishFailed
      <4> QED
        BY <4>1, <4>2
    <3>4. /\ pc' \in [Requests -> PcStates] /\ outcome' \in [Requests -> Outcomes]
          /\ lock' \in Requests \cup {NoOne}
          /\ pending' \in [Ids -> {"absent", "empty", "success", "failed", "lost"}]
      BY <2>7, <3>1 DEF Publish, PublishFailed
    <3> HIDE DEF Goto, Finish, Record, PcStates, Outcomes
    <3> QED
      BY <2>7, <3>2, <3>3, <3>4 DEF Publish
  <2>8. ASSUME NEW ack \in AckValues, Returned(r, ack) PROVE TypeOK'
    <3>1. pos[r] < slots[r] => pos[r] + 1 \in Slots
      BY StoreAssumption DEF Slots
    <3>2. acks' \in [Requests -> [Slots -> AckValues]]
      BY <2>8 DEF Returned
    <3>3. pos' \in [Requests -> Slots]
      BY <2>8, <3>1 DEF Returned
    <3>4. /\ pc' \in [Requests -> PcStates] /\ lock' \in Requests \cup {NoOne}
          /\ pending' \in [Ids -> {"absent", "empty", "success", "failed", "lost"}]
      BY <2>8 DEF Returned
    <3> HIDE DEF Goto, PcStates, Outcomes
    <3> QED
      BY <2>8, <3>2, <3>3, <3>4 DEF Returned
  <2>9. CASE ReceiveAck(r)
    BY <2>8, <2>9 DEF ReceiveAck, AckValues
  <2>10. CASE AckTimeout(r)
    BY <2>8, <2>10 DEF AckTimeout, AckValues
  <2>11. CASE Judge(r)
    BY <2>11 DEF Judge
  <2>12. CASE ConfirmDrying(r)
    <3>1. unitsAt \in Nat
      BY DEF StoreTypeOK
    <3> QED
      BY <2>12, <3>1 DEF ConfirmDrying
  <2>13. CASE ConfirmTimeout(r)
    BY <2>13 DEF ConfirmTimeout
  <2> QED
    BY <1>2, <2>1, <2>2, <2>3, <2>4, <2>5, <2>6, <2>7, <2>9, <2>10, <2>11, <2>12, <2>13
       DEF Thread
<1>3. CASE SpacingElapses
  BY <1>3, StoreFrame DEF SpacingElapses, requestVars, linkVars
<1>4. CASE StoreBecomesStale
  <2>1. StoreTypeOK'
    BY <1>4 DEF StoreBecomesStale, BecomesStale, StoreTypeOK
  <2> QED
    BY <1>4, <2>1 DEF StoreBecomesStale, requestVars, linkVars
<1>5. CASE ConnAck
  BY <1>5, StoreFrame DEF ConnAck, requestVars
<1>6. CASE on_connect
  <2>1. StoreTypeOK'
    BY <1>6, MarkKeepsStoreType DEF on_connect, ConnectionStates
  <2> QED
    BY <1>6, <2>1 DEF on_connect, requestVars
<1>6b. CASE CertificateRefused
  <2>1. StoreTypeOK'
    BY <1>6b, MarkKeepsStoreType DEF CertificateRefused, ConnectionStates
  <2> QED
    BY <1>6b, <2>1 DEF CertificateRefused, requestVars
<1>7. ASSUME NEW state \in {"error", "offline"}, ConnectFails(state) PROVE TypeOK'
  <2>1. StoreTypeOK'
    BY <1>7, MarkKeepsStoreType DEF ConnectFails, ConnectionStates
  <2> QED
    BY <1>7, <2>1 DEF ConnectFails, requestVars, linkVars
<1>8. ASSUME NEW kept \in SUBSET outbox, LinkDrops(kept) PROVE TypeOK'
  <2>1. drops' \in 0 .. MaxDrops /\ wire' \in Seq(Messages) /\ outbox' \in SUBSET Ids
    BY <1>8, CommandAssumption DEF LinkDrops
  <2> QED
    BY <1>8, <2>1, StoreFrame DEF LinkDrops, requestVars
<1>9. CASE on_disconnect
  <2>1. StoreTypeOK'
    BY <1>9, MarkKeepsStoreType DEF on_disconnect, ConnectionStates
  <2> QED
    BY <1>9, <2>1 DEF on_disconnect, fail_pending, requestVars
<1>10. CASE on_message
  <2> DEFINE m == Head(wire)
  <2>1. m \in Messages /\ wire' \in Seq(Messages)
    BY <1>10 DEF on_message
  <2>2. CASE m.kind = "ack"
    <3>1. m \in [kind : {"ack"}, id : Ids, name : ProtocolNames, result : {"success", "failed"}]
      BY <2>1, <2>2 DEF Messages
    <3>2. UNCHANGED storeVars /\ pending' = resolve_pending(m) /\ fresh' = fresh
      BY <1>10, <2>2 DEF on_message
    <3>3. pending' \in [Ids -> {"absent", "empty", "success", "failed", "lost"}]
      BY <3>1, <3>2 DEF resolve_pending
    <3> QED
      BY <1>10, <2>1, <3>2, <3>3, StoreFrame DEF on_message, requestVars
  <2>3. CASE m.kind = "push_status"
    <3>1. m.report \in Reports
      BY <2>1, <2>3 DEF Messages
    <3>2. apply_report(m.report) /\ pending' = pending
          /\ fresh' = fresh \cup (DOMAIN m.report.body \cap FULL_STATUS_FIELD_GROUPS)
      BY <1>10, <2>3 DEF on_message
    <3>3. StoreTypeOK'
      BY <3>1, <3>2, ReportKeepsStoreType
    <3> QED
      BY <1>10, <2>1, <3>2, <3>3 DEF on_message, requestVars
  <2>4. CASE m.kind = "get_version"
    <3>1. apply_version(m.ids) /\ UNCHANGED <<pending, fresh>>
      BY <1>10, <2>4 DEF on_message
    <3>2. StoreTypeOK'
      BY <3>1, VersionKeepsStoreType
    <3> QED
      BY <1>10, <2>1, <3>1, <3>2 DEF on_message, requestVars
  <2> QED
    BY <1>10, <2>2, <2>3, <2>4 DEF on_message
<1>11. ASSUME NEW id \in outbox, NEW result \in {"success", "failed"}, NEW again \in BOOLEAN,
              PrinterAnswers(id, result, again)
       PROVE  TypeOK'
  <2>1. Answer(id, ProtocolName(call[id[1]].name), result) \in Messages
    <3>1. id \in Ids /\ call[id[1]] \in CallRecords
      BY IdType, CommandAssumption
    <3> QED
      BY <3>1 DEF Answer, Messages, ProtocolNames, CallRecords
  <2>2. wire' \in Seq(Messages) /\ outbox' \in SUBSET Ids /\ answered' \in SUBSET Ids
    BY <1>11, <2>1 DEF PrinterAnswers
  <2> QED
    BY <1>11, <2>2, StoreFrame DEF PrinterAnswers, unchangedByPrinter, requestVars
<1>12. ASSUME NEW m \in Messages, Unasked(m) PROVE TypeOK'
  <2>1. wire' \in Seq(Messages) /\ traffic' \in 0 .. MaxReports
    BY <1>12, StoreAssumption DEF Unasked
  <2> QED
    BY <1>12, <2>1, StoreFrame DEF Unasked, unchangedByPrinter, requestVars
<1>13. CASE Printer
  <2>1. \A m \in Reports : Status(m) \in Messages
    BY DEF Status, Messages
  <2>2. \A ids \in SUBSET AmsIds : Version(ids) \in Messages
    BY DEF Version, Messages
  <2>3. \A id \in Ids, name \in ForeignNames, result \in {"success", "failed"} :
            Answer(id, name, result) \in Messages
    BY CommandAssumption DEF Answer, Messages
  <2> QED
    BY <1>11, <1>12, <1>13, <2>1, <2>2, <2>3
       DEF Printer, PrinterReports, PrinterNamesModules, OtherClientAnswered
<1>14. CASE UNCHANGED vars
  BY <1>14, StoreFrame DEF vars, requestVars, linkVars
<1> QED
  BY <1>1, <1>2, <1>3, <1>4, <1>5, <1>6, <1>6b, <1>7, <1>8, <1>9, <1>10, <1>13, <1>14
     DEF Next, Network

\* TypeOK: no sequence of requests, callbacks and printer messages takes any
\* field of the store, the pending table or a request out of its type.
THEOREM TypeCorrect == Spec => []TypeOK
<1> QED
  BY InitType, TypeStep, PTL DEF Spec

-----------------------------------------------------------------------------
(***************************************************************************)
(* The command lock and the pending table.                                 *)
(***************************************************************************)
\* The lock is held exactly by the request inside publish_and_wait, and only
\* the command that request is publishing is in the pending table.
LEMMA LockStep ==
    ASSUME TypeOK, TypeOK', LockOwner, PendingInFlight, OutcomeAtEnd, [Next]_vars
    PROVE  LockOwner' /\ PendingInFlight' /\ OutcomeAtEnd'
<1> USE CommandAssumption DEF LockOwner, PendingInFlight, OutcomeAtEnd
<1>t. /\ pc \in [Requests -> PcStates] /\ outcome \in [Requests -> Outcomes]
      /\ pos \in [Requests -> Slots]
      /\ pending \in [Ids -> {"absent", "empty", "success", "failed", "lost"}]
  BY DEF TypeOK
<1>1. ASSUME NEW r \in Requests, NEW c \in Calls, Submit(r, c)
      PROVE  LockOwner' /\ PendingInFlight' /\ OutcomeAtEnd'
  BY <1>1, <1>t, IdType DEF Submit, unchangedByGate, Goto, Finish, Record
<1>2. ASSUME NEW r \in Requests, Thread(r)
      PROVE  LockOwner' /\ PendingInFlight' /\ OutcomeAtEnd'
  <2> USE <1>t, IdType DEF Goto, Finish, Record, unchangedByGate
  <2>1. CASE ValidateState(r)
    BY <2>1 DEF ValidateState
  <2>2. CASE BuildCommands(r)
    BY <2>2 DEF BuildCommands
  <2>3. CASE CheckOperationRisk(r)
    BY <2>3 DEF CheckOperationRisk
  <2>4. CASE EnterLock(r)
    BY <2>4 DEF EnterLock
  <2>5. CASE RegisterPending(r)
    BY <2>5 DEF RegisterPending
  <2>6. CASE CheckConnected(r)
    BY <2>6 DEF CheckConnected, PublishFailed
  <2>7. CASE Publish(r)
    BY <2>7 DEF Publish, PublishFailed
  <2>8. CASE ReceiveAck(r)
    BY <2>8 DEF ReceiveAck, Returned
  <2>9. CASE AckTimeout(r)
    BY <2>9 DEF AckTimeout, Returned
  <2>10. CASE Judge(r)
    BY <2>10 DEF Judge
  <2>11. CASE ConfirmDrying(r)
    BY <2>11 DEF ConfirmDrying
  <2>12. CASE ConfirmTimeout(r)
    BY <2>12 DEF ConfirmTimeout
  <2> QED
    BY <1>2, <2>1, <2>2, <2>3, <2>4, <2>5, <2>6, <2>7, <2>8, <2>9, <2>10, <2>11, <2>12
       DEF Thread
<1>3. CASE on_message
  BY <1>3, <1>t DEF on_message, resolve_pending, requestVars
<1>4. CASE on_disconnect
  BY <1>4, <1>t DEF on_disconnect, fail_pending, requestVars
<1>5. CASE UNCHANGED <<requestVars, lock, pending>>
  BY <1>5 DEF requestVars
<1>6. Printer => UNCHANGED <<requestVars, lock, pending>>
  BY DEF Printer, PrinterAnswers, PrinterReports, PrinterNamesModules, OtherClientAnswered,
         Unasked, unchangedByPrinter
<1>7. (SpacingElapses \/ StoreBecomesStale \/ UNCHANGED vars)
         => UNCHANGED <<requestVars, lock, pending>>
  BY DEF SpacingElapses, StoreBecomesStale, vars
<1>8. Network => on_message \/ on_disconnect \/ UNCHANGED <<requestVars, lock, pending>>
  BY DEF Network, ConnAck, on_connect, CertificateRefused, ConnectFails, LinkDrops
<1> QED
  BY <1>1, <1>2, <1>3, <1>4, <1>5, <1>6, <1>7, <1>8 DEF Next

-----------------------------------------------------------------------------
(***************************************************************************)
(* Confirmation of drying commands.                                        *)
(***************************************************************************)
\* A report either brings a new AMS list or leaves every generation alone.
LEMMA ReportMovesTogether ==
    ASSUME StoreTypeOK, NEW m \in Reports, apply_report(m)
    PROVE  /\ epoch' = epoch + 1
           /\ unitsAt' = epoch + 1 \/ (unitsAt' = unitsAt /\ generation' = generation)
<1>1. CASE "units" \in DOMAIN m.body
  BY <1>1 DEF apply_report
<1>2. CASE "units" \notin DOMAIN m.body
  <2>1. \A u : DryEntries(m.body, u) = 0
    BY <1>2 DEF DryEntries
  <2>2. \A u \in AmsIds : generation[u] + 0 = generation[u]
    BY DEF StoreTypeOK
  <2>3. generation' = [u \in AmsIds |-> generation[u]]
    BY <2>1, <2>2 DEF apply_report
  <2>4. generation' = generation
    BY <2>3 DEF StoreTypeOK
  <2> QED
    BY <1>2, <2>4 DEF apply_report
<1> QED
  BY <1>1, <1>2

\* Every step keeps that a count above the captured one came with a younger list.
LEMMA FreshStep ==
    ASSUME TypeOK, TypeOK', GenerationIsFresh, OnlyDryingConfirms, ConfirmedFresh,
           OutcomeAtEnd, [Next]_vars
    PROVE  GenerationIsFresh' /\ OnlyDryingConfirms' /\ ConfirmedFresh'
<1> USE DEF GenerationIsFresh, OnlyDryingConfirms, ConfirmedFresh, OutcomeAtEnd
<1>t. /\ pc \in [Requests -> PcStates] /\ outcome \in [Requests -> Outcomes]
      /\ call \in [Requests -> Calls] /\ gen0 \in [Requests -> Nat]
      /\ sentAt \in [Requests -> Nat] /\ confirmedAt \in [Requests -> Nat]
      /\ generation \in [AmsIds -> Nat] /\ epoch \in Nat /\ unitsAt \in 0 .. epoch
  BY DEF TypeOK, StoreTypeOK
<1>u. \A r \in Requests : call[r].unit \in AmsIds
  BY <1>t, CommandAssumption DEF CallRecords
<1>1. ASSUME NEW r \in Requests, NEW c \in Calls, Submit(r, c)
      PROVE  GenerationIsFresh' /\ OnlyDryingConfirms' /\ ConfirmedFresh'
  BY <1>1, <1>t DEF Submit, unchangedByGate, storeVars, Goto, Finish, Record
<1>2. ASSUME NEW r \in Requests, Thread(r)
      PROVE  GenerationIsFresh' /\ OnlyDryingConfirms' /\ ConfirmedFresh'
  <2> USE <1>t DEF Goto, Finish, Record, unchangedByGate, storeVars
  <2>1. CASE ValidateState(r) \/ BuildCommands(r) \/ CheckOperationRisk(r) \/ EnterLock(r)
    BY <2>1 DEF ValidateState, BuildCommands, CheckOperationRisk, EnterLock
  <2>2. CASE RegisterPending(r)
    BY <2>2, <1>u DEF RegisterPending
  <2>3. CASE CheckConnected(r) \/ Publish(r)
    BY <2>3 DEF CheckConnected, Publish, PublishFailed
  <2>4. CASE ReceiveAck(r) \/ AckTimeout(r)
    BY <2>4 DEF ReceiveAck, AckTimeout, Returned
  <2>5. CASE Judge(r) \/ ConfirmTimeout(r)
    BY <2>5 DEF Judge, ConfirmTimeout
  <2>6. CASE ConfirmDrying(r)
    <3>1. unitsAt > sentAt[r]
      BY <2>6, <1>u DEF ConfirmDrying, Reached, DryingReached
    <3> QED
      BY <2>6, <3>1 DEF ConfirmDrying
  <2> QED
    BY <1>2, <2>1, <2>2, <2>3, <2>4, <2>5, <2>6 DEF Thread
<1>3. ASSUME NEW m \in Reports, apply_report(m), UNCHANGED requestVars
      PROVE  GenerationIsFresh' /\ OnlyDryingConfirms' /\ ConfirmedFresh'
  <2>1. /\ epoch' = epoch + 1
        /\ unitsAt' = epoch + 1 \/ (unitsAt' = unitsAt /\ generation' = generation)
    BY <1>3, ReportMovesTogether DEF TypeOK
  <2> QED
    BY <1>3, <1>t, <2>1 DEF requestVars
<1>4. ASSUME UNCHANGED <<requestVars, generation, epoch, unitsAt>>
      PROVE  GenerationIsFresh' /\ OnlyDryingConfirms' /\ ConfirmedFresh'
  BY <1>4 DEF requestVars
<1>5. Printer => UNCHANGED <<requestVars, generation, epoch, unitsAt>>
  BY DEF Printer, PrinterAnswers, PrinterReports, PrinterNamesModules, OtherClientAnswered,
         Unasked, unchangedByPrinter, storeVars
<1>6. (SpacingElapses \/ StoreBecomesStale \/ UNCHANGED vars)
         => UNCHANGED <<requestVars, generation, epoch, unitsAt>>
  BY DEF SpacingElapses, StoreBecomesStale, BecomesStale, vars, storeVars
<1>7. ASSUME on_message, Head(wire).kind = "push_status"
      PROVE  Head(wire).report \in Reports /\ apply_report(Head(wire).report)
             /\ UNCHANGED requestVars
  <2>1. Head(wire) \in Messages
    BY <1>7 DEF on_message, TypeOK
  <2> QED
    BY <1>7, <2>1 DEF on_message, Messages
<1>8. on_message /\ Head(wire).kind # "push_status"
         => UNCHANGED <<requestVars, generation, epoch, unitsAt>>
  BY DEF on_message, apply_version, storeVars
<1>9. Network => on_message \/ UNCHANGED <<requestVars, generation, epoch, unitsAt>>
  BY DEF Network, ConnAck, on_connect, CertificateRefused, ConnectFails, LinkDrops, on_disconnect,
         mark_connection, storeVars
<1> QED
  BY <1>1, <1>2, <1>3, <1>4, <1>5, <1>6, <1>7, <1>8, <1>9 DEF Next

-----------------------------------------------------------------------------
(***************************************************************************)
(* Acknowledgements.                                                       *)
(***************************************************************************)
\* Every step keeps that a success in transit, held or returned is the printer's.
LEMMA AnswerStep ==
    ASSUME TypeOK, TypeOK', OursOnly, WireIsTrue, PendingIsTrue, AcksAreTrue,
           AcknowledgedByPrinter, OutcomeAtEnd, [Next]_vars
    PROVE  OursOnly' /\ WireIsTrue' /\ PendingIsTrue' /\ AcksAreTrue' /\ AcknowledgedByPrinter'
<1> USE DEF OursOnly, WireIsTrue, PendingIsTrue, AcksAreTrue, AcknowledgedByPrinter, OutcomeAtEnd
<1> DEFINE InTransit == OursOnly' /\ WireIsTrue'
           Returns == PendingIsTrue' /\ AcksAreTrue' /\ AcknowledgedByPrinter'
           Goal == InTransit /\ Returns
<1>t. /\ pc \in [Requests -> PcStates] /\ outcome \in [Requests -> Outcomes]
      /\ call \in [Requests -> Calls] /\ slots \in [Requests -> Slots]
      /\ pos \in [Requests -> Slots] /\ acks \in [Requests -> [Slots -> AckValues]]
      /\ pending \in [Ids -> {"absent", "empty", "success", "failed", "lost"}]
      /\ outbox \in SUBSET Ids /\ wire \in Seq(Messages) /\ answered \in SUBSET Ids
  BY DEF TypeOK
<1>w. \A j \in 1 .. Len(wire) : wire[j].kind = "ack" =>
         wire[j].id \in Ids /\ wire[j].id[1] \in Requests
  BY <1>t, IdType DEF Messages
<1>o. \A id \in outbox : id[1] \in Requests
  BY <1>t, IdType
<1>1. ASSUME NEW r \in Requests, NEW c \in Calls, Submit(r, c) PROVE Goal
  BY <1>1, <1>t, <1>w, <1>o DEF Submit, unchangedByGate, linkVars, Goto, Finish, Record
<1>2. ASSUME NEW r \in Requests, Thread(r) PROVE Goal
  <2>1. UNCHANGED <<wire, answered, call>>
    BY <1>2 DEF Thread, ValidateState, BuildCommands, CheckOperationRisk, EnterLock,
        RegisterPending, CheckConnected, PublishFailed, Publish, ReceiveAck, AckTimeout,
        Returned, Judge, ConfirmDrying, ConfirmTimeout, unchangedByGate, linkVars
  <2>2. pc[r] # "idle" /\ \E w : w # "idle" /\ pc' = [pc EXCEPT ![r] = w]
    BY <1>2, <1>t DEF Thread, ValidateState, BuildCommands, CheckOperationRisk, EnterLock,
        RegisterPending, CheckConnected, PublishFailed, Publish, ReceiveAck, AckTimeout,
        Returned, Judge, ConfirmDrying, ConfirmTimeout, Goto, Finish
  <2>3. outbox' \subseteq outbox \cup {<<r, pos[r]>>}
    BY <1>2 DEF Thread, ValidateState, BuildCommands, CheckOperationRisk, EnterLock,
        RegisterPending, CheckConnected, PublishFailed, Publish, ReceiveAck, AckTimeout,
        Returned, Judge, ConfirmDrying, ConfirmTimeout, unchangedByGate, linkVars
  <2>4. \A q \in Requests : pc[q] # "idle" => pc'[q] # "idle"
    BY <2>2, <1>t
  <2>5. InTransit
    <3>1. \A id \in outbox' : pc'[id[1]] # "idle"
      <4>1. ASSUME NEW id \in outbox' PROVE pc'[id[1]] # "idle"
        <5>1. CASE id \in outbox
          BY <5>1, <2>4, <1>o
        <5>2. CASE id = <<r, pos[r]>>
          BY <5>2, <2>2, <2>4
        <5> QED
          BY <5>1, <5>2, <2>3
      <4> QED
        BY <4>1
    <3>2. WireIsTrue'
      BY <2>1
    <3> QED
      BY <3>1, <3>2, <2>1, <2>4, <1>w
  <2> HIDE DEF OursOnly, WireIsTrue
  <2> USE <1>t, <2>1 DEF Goto, Finish, Record, unchangedByGate
  <2>6. CASE ValidateState(r) \/ CheckOperationRisk(r) \/ ConfirmTimeout(r)
    <3>1. Returns
      BY <2>6 DEF ValidateState, CheckOperationRisk, ConfirmTimeout
    <3> QED
      BY <2>5, <3>1
  <2>7. CASE BuildCommands(r) \/ EnterLock(r) \/ ConfirmDrying(r)
    <3>1. Returns
      BY <2>7 DEF BuildCommands, EnterLock, ConfirmDrying
    <3> QED
      BY <2>5, <3>1
  <2>8. CASE RegisterPending(r) \/ CheckConnected(r) \/ Publish(r)
    <3>1. Returns
      BY <2>8 DEF RegisterPending, CheckConnected, Publish, PublishFailed
    <3> QED
      BY <2>5, <3>1
  <2>9. ASSUME NEW ack, Returned(r, ack), pc[r] = "await",
               ack = "success" => <<r, pos[r]>> \in answered
        PROVE  Goal
    <3>1. PendingIsTrue'
      BY <2>9 DEF Returned
    <3>2. AcksAreTrue'
      BY <2>9 DEF Returned
    <3>3. AcknowledgedByPrinter'
      BY <2>9 DEF Returned
    <3> QED
      BY <2>5, <3>1, <3>2, <3>3
  <2>10. CASE ReceiveAck(r)
    <3>1. <<r, pos[r]>> \in Ids
      BY DEF Ids
    <3> QED
      BY <2>9, <2>10, <3>1 DEF ReceiveAck
  <2>11. CASE AckTimeout(r)
    BY <2>9, <2>11 DEF AckTimeout
  <2>12. CASE Judge(r)
    <3>1. 1 .. slots[r] \subseteq Slots
      BY StoreAssumption DEF Slots
    <3>2. outcome'[r] = "acknowledged" => \A k \in 1 .. slots[r] : acks[r][k] = "success"
      BY <2>12, <3>1 DEF Judge, AckValues
    <3>3. PendingIsTrue' /\ AcksAreTrue'
      BY <2>12 DEF Judge
    <3>4. AcknowledgedByPrinter'
      BY <2>12, <3>1, <3>2 DEF Judge
    <3> QED
      BY <2>5, <3>3, <3>4
  <2> QED
    BY <1>2, <2>6, <2>7, <2>8, <2>10, <2>11, <2>12 DEF Thread
<1>3. CASE on_message
  <2> DEFINE m == Head(wire)
  <2>1. /\ wire # <<>> /\ m = wire[1] /\ 1 \in 1 .. Len(wire) /\ m \in Messages
        /\ \A j \in 1 .. Len(wire') : wire'[j] = wire[j + 1] /\ j + 1 \in 1 .. Len(wire)
    BY <1>3, <1>t DEF on_message
  <2>2. CASE m.kind = "ack"
    <3>1. pending' = resolve_pending(m)
      BY <1>3, <2>2 DEF on_message
    <3>2. \A id \in Ids : pending'[id] = "success" => id \in answered
      BY <3>1, <2>1, <2>2, <1>t DEF resolve_pending
    <3> QED
      BY <1>3, <2>1, <3>2 DEF on_message, requestVars
  <2>3. CASE m.kind # "ack"
    BY <1>3, <2>1, <2>3 DEF on_message, requestVars
  <2> QED
    BY <2>2, <2>3
<1>4. CASE on_disconnect
  BY <1>4, <1>t DEF on_disconnect, fail_pending, requestVars
<1>5. ASSUME NEW kept \in SUBSET outbox, LinkDrops(kept) PROVE Goal
  BY <1>5 DEF LinkDrops, requestVars
<1>6. ASSUME NEW x \in Messages, wire' = Append(wire, x)
      PROVE  \A j \in 1 .. Len(wire') : wire'[j] = x \/ (j \in 1 .. Len(wire) /\ wire'[j] = wire[j])
  BY <1>6, <1>t
<1>7. ASSUME NEW id \in outbox, NEW result \in {"success", "failed"}, NEW again \in BOOLEAN,
             PrinterAnswers(id, result, again)
      PROVE  Goal
  <2> DEFINE x == Answer(id, ProtocolName(call[id[1]].name), result)
  <2>1. x \in Messages
    <3>1. id \in Ids /\ call[id[1]] \in CallRecords
      BY <1>t, <1>o, CommandAssumption
    <3> QED
      BY <3>1 DEF Answer, Messages, ProtocolNames, CallRecords
  <2>2. /\ wire' = Append(wire, x) /\ outbox' \subseteq outbox /\ answered \subseteq answered'
        /\ UNCHANGED <<requestVars, pending>>
        /\ result = "success" => id \in answered'
    BY <1>7 DEF PrinterAnswers, unchangedByPrinter
  <2>3. x.kind = "ack" /\ x.id = id /\ x.result = result
    BY DEF Answer
  <2>4. \A j \in 1 .. Len(wire') : wire'[j] = x \/ (j \in 1 .. Len(wire) /\ wire'[j] = wire[j])
    BY <1>6, <2>1, <2>2
  <2> HIDE DEF x
  <2> QED
    BY <2>2, <2>3, <2>4 DEF requestVars
<1>8. ASSUME NEW x \in Messages, Unasked(x),
             x.kind = "ack" => /\ pc[x.id[1]] # "idle"
                               /\ x.name # ProtocolName(call[x.id[1]].name)
      PROVE  Goal
  <2>1. \A j \in 1 .. Len(wire') : wire'[j] = x \/ (j \in 1 .. Len(wire) /\ wire'[j] = wire[j])
    BY <1>6, <1>8 DEF Unasked
  <2> QED
    BY <1>8, <2>1 DEF Unasked, unchangedByPrinter, requestVars
<1>9. CASE Printer
  <2>1. ASSUME NEW m \in Reports, PrinterReports(m) PROVE Goal
    BY <2>1, <1>8 DEF PrinterReports, Status, Messages
  <2>2. ASSUME NEW ids \in SUBSET AmsIds, PrinterNamesModules(ids) PROVE Goal
    BY <2>2, <1>8 DEF PrinterNamesModules, Version, Messages
  <2>3. ASSUME NEW id \in Ids, NEW name \in ForeignNames, NEW result \in {"success", "failed"},
               OtherClientAnswered(id, name, result)
        PROVE  Goal
    BY <2>3, <1>8, CommandAssumption DEF OtherClientAnswered, Answer, Messages
  <2> QED
    BY <1>7, <1>9, <2>1, <2>2, <2>3 DEF Printer
<1>10. CASE UNCHANGED <<requestVars, pending, outbox, wire, answered>>
  BY <1>10 DEF requestVars
<1>11. (SpacingElapses \/ StoreBecomesStale \/ UNCHANGED vars)
          => UNCHANGED <<requestVars, pending, outbox, wire, answered>>
  BY DEF SpacingElapses, StoreBecomesStale, vars, linkVars
<1>12. Network => \/ on_message \/ on_disconnect
                  \/ \E kept \in SUBSET outbox : LinkDrops(kept)
                  \/ UNCHANGED <<requestVars, pending, outbox, wire, answered>>
  BY DEF Network, ConnAck, on_connect, CertificateRefused, ConnectFails, linkVars
<1> QED
  BY <1>1, <1>2, <1>3, <1>4, <1>5, <1>9, <1>10, <1>11, <1>12 DEF Next

-----------------------------------------------------------------------------
(***************************************************************************)
(* Completeness of the state after a reconnect.                            *)
(***************************************************************************)
\* Every step keeps that a complete state was reported on this connection.
LEMMA CompleteStep ==
    ASSUME TypeOK, NothingKeptOffline, CompleteIsCurrent, [Next]_vars
    PROVE  NothingKeptOffline' /\ CompleteIsCurrent'
<1> USE DEF NothingKeptOffline, CompleteIsCurrent, Connected
<1>1. CASE UNCHANGED <<complete, net, fresh>>
  BY <1>1
<1>2. (\E r \in Requests, c \in Calls : Submit(r, c)) => UNCHANGED <<complete, net, fresh>>
  BY DEF Submit, unchangedByGate, storeVars, linkVars
<1>3. ASSUME NEW r \in Requests, Thread(r) PROVE UNCHANGED <<complete, net, fresh>>
  BY <1>3 DEF Thread, ValidateState, BuildCommands, CheckOperationRisk, EnterLock,
        RegisterPending, CheckConnected, PublishFailed, Publish, ReceiveAck, AckTimeout,
        Returned, Judge, ConfirmDrying, ConfirmTimeout, unchangedByGate, storeVars, linkVars
<1>4. (SpacingElapses \/ StoreBecomesStale \/ Printer \/ UNCHANGED vars)
         => UNCHANGED <<complete, net, fresh>>
  BY DEF SpacingElapses, StoreBecomesStale, BecomesStale, Printer, PrinterAnswers,
         PrinterReports, PrinterNamesModules, OtherClientAnswered, Unasked,
         unchangedByPrinter, vars, storeVars, linkVars
<1>5. CASE Network
  <2>1. CASE ConnAck
    BY <2>1 DEF ConnAck, storeVars
  <2>2. CASE on_connect
    BY <2>2 DEF on_connect, mark_connection
  <2>2b. CASE CertificateRefused
    BY <2>2b DEF CertificateRefused, mark_connection
  <2>3. ASSUME NEW state \in {"error", "offline"}, ConnectFails(state)
        PROVE  NothingKeptOffline' /\ CompleteIsCurrent'
    BY <2>3 DEF ConnectFails, mark_connection, linkVars
  <2>4. ASSUME NEW kept \in SUBSET outbox, LinkDrops(kept)
        PROVE  NothingKeptOffline' /\ CompleteIsCurrent'
    BY <2>4 DEF LinkDrops, storeVars
  <2>5. CASE on_disconnect
    BY <2>5 DEF on_disconnect, mark_connection
  <2>6. CASE on_message
    BY <2>6 DEF on_message, apply_report, apply_version, is_full_status, storeVars, TypeOK,
          StoreTypeOK
  <2> QED
    BY <1>5, <2>1, <2>2, <2>2b, <2>3, <2>4, <2>5, <2>6 DEF Network
<1> QED
  BY <1>1, <1>2, <1>3, <1>4, <1>5 DEF Next

-----------------------------------------------------------------------------
\* The inductive invariant holds at the start and is kept by every step.
THEOREM Inductive == Spec => []IInv
<1>1. Init => IInv
  <2> SUFFICES ASSUME Init PROVE IInv
    OBVIOUS
  <2>1. TypeOK
    BY InitType
  <2>2. LockOwner /\ PendingInFlight /\ OutcomeAtEnd
    BY CommandAssumption DEF Init, LockOwner, PendingInFlight, OutcomeAtEnd
  <2>3. GenerationIsFresh /\ OnlyDryingConfirms /\ ConfirmedFresh
    BY DEF Init, GenerationIsFresh, OnlyDryingConfirms, ConfirmedFresh
  <2>4. OursOnly /\ WireIsTrue
    BY DEF Init, OursOnly, WireIsTrue
  <2>5. PendingIsTrue /\ AcksAreTrue /\ AcknowledgedByPrinter
    BY DEF Init, PendingIsTrue, AcksAreTrue, AcknowledgedByPrinter
  <2>6. NothingKeptOffline /\ CompleteIsCurrent
    BY DEF Init, StoreInit, NothingKeptOffline, CompleteIsCurrent
  <2> QED
    BY <2>1, <2>2, <2>3, <2>4, <2>5, <2>6 DEF IInv
<1>2. IInv /\ [Next]_vars => IInv'
  BY TypeStep, LockStep, FreshStep, AnswerStep, CompleteStep DEF IInv
<1> QED
  BY <1>1, <1>2, PTL DEF Spec

\* PendingInFlight: publish_and_wait never leaves an entry behind.
THEOREM PendingInFlightAlways == Spec => []PendingInFlight
<1>1. IInv => PendingInFlight
  BY DEF IInv
<1> QED
  BY <1>1, Inductive, PTL

\* AcknowledgedByPrinter: send_command reports acknowledged only when the printer
\* answered every command of the request with success.
THEOREM AcknowledgedByPrinterAlways == Spec => []AcknowledgedByPrinter
<1>1. IInv => AcknowledgedByPrinter
  BY DEF IInv
<1> QED
  BY <1>1, Inductive, PTL

\* ConfirmedFresh: wait_for_ams_drying_state never confirms a drying command with an
\* AMS list that was in the store when the generation was captured.
THEOREM ConfirmedFreshAlways == Spec => []ConfirmedFresh
<1>1. IInv => ConfirmedFresh
  BY DEF IInv
<1> QED
  BY <1>1, Inductive, PTL

\* CompleteIsCurrent: after a reconnect the gates stay closed until every group of a
\* full report, print status and lights among them, was heard of again.
THEOREM CompleteIsCurrentAlways == Spec => []CompleteIsCurrent
<1>1. IInv => CompleteIsCurrent
  BY DEF IInv
<1> QED
  BY <1>1, Inductive, PTL
=============================================================================
