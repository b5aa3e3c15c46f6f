-------------------------- MODULE CommandLogProofs --------------------------
(***************************************************************************)
(* What the history of a request says, on top of the inductive invariant   *)
(* of CommandPathProofs: which of its commands have left the service at    *)
(* every step, in which order, and what a started dryer needs to be        *)
(* stopped again.                                                          *)
(***************************************************************************)
EXTENDS CommandPathProofs

\* The positions of publish_and_wait under the command lock.
InLock == {"register", "check", "publish", "await"}

\* Exactly the first n commands of r have left, and the n-th was the last of all.
LeftUpTo(r, n) ==
    /\ PublishedOf(r) = 1 .. n
    /\ n > 0 => published # <<>> /\ published[Len(published)] = <<r, n>>

\* The commands of a request that have left the service, at every step of it.
LeftOf(r) ==
    /\ pc[r] \in {"idle", "validate", "build", "risk", "lock"} =>
           pos[r] = 1 /\ PublishedOf(r) = {}
    /\ pc[r] \in InLock => pos[r] <= slots[r]
    /\ pc[r] \in InLock \ {"await"} => LeftUpTo(r, pos[r] - 1)
    /\ pc[r] = "await" => LeftUpTo(r, pos[r])
    /\ pc[r] \in {"judge", "confirm"} => PublishedOf(r) = 1 .. slots[r]

\* What the audit record of one request says.
ToldOf(r) ==
    /\ outcome[r] \in {"forbidden", "rate_limited"} => PublishedOf(r) = {}
    /\ outcome[r] \in {"acknowledged", "timeout", "confirmed", "unconfirmed"} =>
           PublishedOf(r) = 1 .. slots[r]
    /\ outcome[r] = "failed" => PublishedOf(r) = 1 .. (pos[r] - 1)

\* Every request's account is right at every step.
LeftSoFar == \A r \in Requests : LeftOf(r)

\* A model that get_version named is the hardware's and stays.
ModelsNamed == \A u \in AmsIds : models[u] \in {"unknown", UnitModel[u]}

\* What _build_commands demands of a start_drying, and stop_drying needs of it.
Dryable(c) ==
    /\ c.valid
    /\ Policy = "experimental" => c.ack
    /\ Policy \in {"supported", "experimental"}
    /\ DryCapable(c.unit)

\* The request is past _build_commands, or was answered after it.
PastBuild(r) ==
    \/ pc[r] \in {"risk", "lock", "judge", "confirm"} \cup InLock
    \/ outcome[r] \in {"confirmed", "unconfirmed"}

\* A start_drying on its way has passed the gates that stop_drying shares.
StartsDryable ==
    \A r \in Requests, c \in Calls : (call[r] = c /\ c.name = "start_drying") =>
        /\ pc[r] \in {"validate", "build"} \/ PastBuild(r) => Permitted(c)
        /\ PastBuild(r) => Dryable(c)

\* The invariant; it is inductive together with IInv of CommandPathProofs.
LogInv == LeftSoFar /\ BurstsContiguous /\ AuditTellsWhatLeft /\ ModelsNamed /\ StartsDryable

-----------------------------------------------------------------------------
(***************************************************************************)
(* Which commands have left.                                               *)
(***************************************************************************)
\* Publishing a command adds it to those of its request and to no other's.
LEMMA PublishAdds ==
    ASSUME published \in Seq(Ids), NEW r \in Requests, NEW k \in Slots,
           published' = Append(published, <<r, k>>)
    PROVE  /\ Len(published') = Len(published) + 1
           /\ published'[Len(published')] = <<r, k>>
           /\ \A i \in 1 .. Len(published) : published'[i] = published[i]
           /\ \A q \in Requests : PublishedOf(q)' =
                  PublishedOf(q) \cup (IF q = r THEN {k} ELSE {})
<1>1. <<r, k>> \in Ids /\ Len(published) \in Nat
  BY DEF Ids
<1>2. /\ Len(published') = Len(published) + 1
      /\ published'[Len(published) + 1] = <<r, k>>
      /\ \A i \in 1 .. Len(published) : published'[i] = published[i]
  BY <1>1
<1>3. ASSUME NEW q \in Requests, NEW j \in Slots
      PROVE  (\E i \in 1 .. Len(published') : published'[i] = <<q, j>>)
             <=> ((\E i \in 1 .. Len(published) : published[i] = <<q, j>>) \/ (q = r /\ j = k))
  <2>1. \A i \in 1 .. Len(published') : i \in 1 .. Len(published) \/ i = Len(published) + 1
    BY <1>1, <1>2
  <2>2. Len(published) + 1 \in 1 .. Len(published')
    BY <1>1, <1>2
  <2>3. \A i \in 1 .. Len(published) : i \in 1 .. Len(published')
    BY <1>1, <1>2
  <2> QED
    BY <1>2, <2>1, <2>2, <2>3
<1> QED
  BY <1>1, <1>2, <1>3 DEF PublishedOf

\* Publishing the next command of the request that published last, or the first
\* of one that published nothing, keeps the bursts contiguous.
LEMMA BurstGrows ==
    ASSUME published \in Seq(Ids), BurstsContiguous, NEW r \in Requests, NEW k \in Slots,
           published' = Append(published, <<r, k>>), LeftUpTo(r, k - 1)
    PROVE  BurstsContiguous'
<1> DEFINE n == Len(published)
<1>1. /\ n \in Nat /\ Len(published') = n + 1 /\ published'[n + 1] = <<r, k>>
      /\ \A i \in 1 .. n : published'[i] = published[i]
      /\ \A i \in 1 .. n : published[i][1] \in Requests /\ published[i][2] \in Slots
                           /\ published[i] = <<published[i][1], published[i][2]>>
      /\ k \in Nat /\ k >= 1 /\ Slots \subseteq Nat
  BY PublishAdds DEF Ids, Slots
<1>2. ASSUME NEW i \in 1 .. n, published[i][1] = r
      PROVE  published[n] = <<r, k - 1>> /\ n >= 1
  <2>1. published[i][2] \in PublishedOf(r)
    BY <1>1, <1>2 DEF PublishedOf
  <2>2. k - 1 > 0
    BY <2>1, <1>1 DEF LeftUpTo
  <2> QED
    BY <2>2, <1>1 DEF LeftUpTo
<1>3. ASSUME NEW i \in 1 .. n, published[i][1] = r
      PROVE  /\ published'[i + 1] = <<r, published[i][2] + 1>>
             /\ k - published[i][2] = n + 1 - i
  <2>1. published[n] = <<r, k - 1>> /\ n \in 1 .. n
    BY <1>1, <1>2, <1>3
  <2>2. CASE i = n
    BY <1>1, <2>1, <2>2
  <2>3. CASE i < n
    <3>1. /\ published[i + 1] = <<r, published[i][2] + 1>>
          /\ published[n][2] - published[i][2] = n - i
      BY <1>1, <1>3, <2>1, <2>3 DEF BurstsContiguous
    <3>2. published'[i + 1] = published[i + 1]
      BY <1>1, <2>3
    <3>3. published[n][2] = k - 1
      BY <2>1
    <3>4. published[i][2] \in Nat
      BY <1>1
    <3>5. k - published[i][2] = n + 1 - i
      BY <1>1, <3>1, <3>3, <3>4
    <3> QED
      BY <3>1, <3>2, <3>5
  <2> QED
    BY <1>1, <2>2, <2>3
<1>4. ASSUME NEW i \in 1 .. Len(published'), NEW j \in 1 .. Len(published'),
             i < j, published'[i][1] = published'[j][1]
      PROVE  /\ published'[i + 1] = <<published'[i][1], published'[i][2] + 1>>
             /\ published'[j][2] - published'[i][2] = j - i
  <2>1. i \in 1 .. n
    BY <1>1, <1>4
  <2>2. CASE j \in 1 .. n
    <3>1. i + 1 \in 1 .. n
      BY <1>4, <2>1, <2>2
    <3> QED
      BY <1>1, <1>4, <2>1, <2>2, <3>1 DEF BurstsContiguous
  <2>3. CASE j = n + 1
    BY <1>1, <1>3, <1>4, <2>1, <2>3
  <2>4. j \in 1 .. n \/ j = n + 1
    BY <1>1
  <2> QED
    BY <2>2, <2>3, <2>4
<1> QED
  BY <1>4 DEF BurstsContiguous

\* A step of one request that publishes nothing leaves the others' accounts alone.
LEMMA QuietStep ==
    ASSUME TypeOK, LeftSoFar, BurstsContiguous, AuditTellsWhatLeft,
           NEW r \in Requests, published' = published, LeftOf(r)', ToldOf(r)',
           \A q \in Requests \ {r} : /\ pc'[q] = pc[q] /\ pos'[q] = pos[q]
                                     /\ slots'[q] = slots[q] /\ outcome'[q] = outcome[q]
    PROVE  LeftSoFar' /\ BurstsContiguous' /\ AuditTellsWhatLeft'
<1>1. \A q \in Requests : LeftOf(q) /\ ToldOf(q)
  BY DEF LeftSoFar, AuditTellsWhatLeft, ToldOf
<1>2. ASSUME NEW q \in Requests \ {r} PROVE LeftOf(q)' /\ ToldOf(q)'
  <2>1. PublishedOf(q)' = PublishedOf(q)
    BY DEF PublishedOf
  <2>2. LeftOf(q)'
    BY <1>1, <2>1 DEF LeftOf, LeftUpTo
  <2>3. ToldOf(q)'
    BY <1>1, <2>1 DEF ToldOf
  <2> QED
    BY <2>2, <2>3
<1>3. \A q \in Requests : LeftOf(q)' /\ ToldOf(q)'
  BY <1>2
<1> QED
  BY <1>3 DEF LeftSoFar, AuditTellsWhatLeft, ToldOf, BurstsContiguous

\* Every step keeps the account of what has left.
LEMMA LeftStep ==
    ASSUME TypeOK, TypeOK', LockOwner, OutcomeAtEnd, LeftSoFar, BurstsContiguous,
           AuditTellsWhatLeft, [Next]_vars
    PROVE  LeftSoFar' /\ BurstsContiguous' /\ AuditTellsWhatLeft'
<1> DEFINE Goal == LeftSoFar' /\ BurstsContiguous' /\ AuditTellsWhatLeft'
           Others(r) == \A q \in Requests \ {r} :
               /\ pc'[q] = pc[q] /\ pos'[q] = pos[q]
               /\ slots'[q] = slots[q] /\ outcome'[q] = outcome[q]
<1>t. /\ pc \in [Requests -> PcStates] /\ outcome \in [Requests -> Outcomes]
      /\ pos \in [Requests -> Slots] /\ slots \in [Requests -> Slots]
      /\ published \in Seq(Ids)
  BY DEF TypeOK
<1>s. Slots \subseteq Nat /\ \A k \in Slots : k >= 1
  BY DEF Slots
<1>a. \A q \in Requests : LeftOf(q) /\ ToldOf(q) /\ (pc[q] # "done" => outcome[q] = "none")
  BY DEF LeftSoFar, AuditTellsWhatLeft, ToldOf, OutcomeAtEnd
<1>q. ASSUME NEW r \in Requests, published' = published, Others(r), LeftOf(r)', ToldOf(r)'
      PROVE  Goal
  BY <1>q, QuietStep
<1>f. ASSUME NEW r \in Requests, published' = published
      PROVE  PublishedOf(r)' = PublishedOf(r)
  BY <1>f DEF PublishedOf
<1>1. ASSUME NEW r \in Requests, NEW c \in Calls, Submit(r, c) PROVE Goal
  <2>1. /\ published' = published /\ pos' = pos /\ slots' = slots
        /\ pc[r] = "idle" /\ Others(r)
        /\ \/ pc'[r] = "validate" /\ outcome'[r] = outcome[r]
           \/ pc'[r] = "done" /\ outcome'[r] = "forbidden"
    BY <1>1, <1>t DEF Submit, unchangedByGate, Goto, Finish, Record
  <2>2. LeftOf(r)' /\ ToldOf(r)'
    BY <2>1, <1>a, <1>f DEF LeftOf, ToldOf, InLock
  <2> QED
    BY <2>1, <2>2, <1>q
<1>2. ASSUME NEW r \in Requests, Thread(r) PROVE Goal
  <2> DEFINE Early == {"validate", "build", "risk", "lock"}
  <2>1. CASE ValidateState(r) \/ BuildCommands(r) \/ CheckOperationRisk(r)
    <3>1. /\ published' = published /\ pos' = pos /\ pc[r] \in Early /\ Others(r)
          /\ \/ pc'[r] \in Early /\ outcome'[r] = outcome[r]
             \/ pc'[r] = "done" /\ outcome'[r] = "rejected"
      BY <2>1, <1>t DEF ValidateState, BuildCommands, CheckOperationRisk, unchangedByGate,
                        Goto, Finish, Record
    <3>2. LeftOf(r)' /\ ToldOf(r)'
      BY <3>1, <1>a, <1>f DEF LeftOf, ToldOf, InLock
    <3> QED
      BY <3>1, <3>2, <1>q
  <2>2. CASE EnterLock(r)
    <3>1. /\ published' = published /\ pos' = pos /\ slots' = slots
          /\ pc[r] = "lock" /\ Others(r)
          /\ \/ pc'[r] = "register" /\ outcome'[r] = outcome[r]
             \/ pc'[r] = "done" /\ outcome'[r] = "rate_limited"
      BY <2>2, <1>t DEF EnterLock, Goto, Finish, Record
    <3>2. PublishedOf(r) = {} /\ pos[r] = 1 /\ 1 <= slots[r]
      BY <3>1, <1>a, <1>t, <1>s DEF LeftOf
    <3>3. LeftOf(r)' /\ ToldOf(r)'
      BY <3>1, <3>2, <1>a, <1>f DEF LeftOf, ToldOf, InLock, LeftUpTo
    <3> QED
      BY <3>1, <3>3, <1>q
  <2>3. CASE RegisterPending(r)
    <3>1. /\ published' = published /\ pos' = pos /\ slots' = slots
          /\ pc[r] = "register" /\ Others(r)
          /\ pc'[r] = "check" /\ outcome'[r] = outcome[r]
      BY <2>3, <1>t DEF RegisterPending, Goto
    <3>2. LeftOf(r)' /\ ToldOf(r)'
      BY <3>1, <1>a, <1>f DEF LeftOf, ToldOf, InLock, LeftUpTo
    <3> QED
      BY <3>1, <3>2, <1>q
  <2>4. CASE CheckConnected(r) \/ (Publish(r) /\ ~Connected)
    <3>1. /\ published' = published /\ pos' = pos /\ slots' = slots
          /\ pc[r] \in {"check", "publish"} /\ Others(r)
          /\ \/ pc'[r] = "publish" /\ outcome'[r] = outcome[r]
             \/ pc'[r] = "done" /\ outcome'[r] = "failed"
      BY <2>4, <1>t DEF CheckConnected, Publish, PublishFailed, Goto, Finish, Record
    <3>2. LeftOf(r)' /\ ToldOf(r)'
      BY <3>1, <1>a, <1>f DEF LeftOf, ToldOf, InLock, LeftUpTo
    <3> QED
      BY <3>1, <3>2, <1>q
  <2>5. CASE Publish(r) /\ Connected
    <3>1. /\ published' = Append(published, <<r, pos[r]>>) /\ pos' = pos /\ slots' = slots
          /\ pc[r] = "publish" /\ Others(r)
          /\ pc'[r] = "await" /\ outcome' = outcome
      BY <2>5, <1>t DEF Publish, Goto
    <3>2. LeftUpTo(r, pos[r] - 1) /\ pos[r] <= slots[r] /\ pos[r] \in Slots
      BY <3>1, <1>a, <1>t DEF LeftOf, InLock
    <3>3. BurstsContiguous'
      BY <3>1, <3>2, <1>t, BurstGrows
    <3>4. /\ Len(published') = Len(published) + 1 /\ Len(published) \in Nat
          /\ published'[Len(published')] = <<r, pos[r]>>
          /\ \A q \in Requests : PublishedOf(q)' =
                 PublishedOf(q) \cup (IF q = r THEN {pos[r]} ELSE {})
      BY <3>1, <3>2, <1>t, PublishAdds
    <3>5. PublishedOf(r)' = 1 .. pos[r]
      <4>1. PublishedOf(r)' = (1 .. (pos[r] - 1)) \cup {pos[r]}
        BY <3>2, <3>4 DEF LeftUpTo
      <4>2. pos[r] \in Nat /\ pos[r] >= 1
        BY <3>2, <1>s
      <4>3. \A p \in Nat : p >= 1 => (1 .. (p - 1)) \cup {p} = 1 .. p
        OBVIOUS
      <4> QED
        BY <4>1, <4>2, <4>3
    <3>6. published' # <<>>
      BY <3>4
    <3>7. LeftOf(r)' /\ ToldOf(r)'
      BY <3>1, <3>2, <3>4, <3>5, <3>6, <1>a DEF LeftOf, ToldOf, InLock, LeftUpTo
    <3>8. ASSUME NEW q \in Requests \ {r} PROVE LeftOf(q)' /\ ToldOf(q)'
      <4>1. pc[q] \notin InLock
        BY <3>1, CommandAssumption DEF LockOwner, InLock
      <4>2. PublishedOf(q)' = PublishedOf(q)
        BY <3>4
      <4> QED
        BY <3>1, <4>1, <4>2, <1>a DEF LeftOf, ToldOf, InLock
    <3> QED
      BY <3>3, <3>7, <3>8 DEF LeftSoFar, AuditTellsWhatLeft, ToldOf
  <2>6. ASSUME NEW ack, Returned(r, ack), pc[r] = "await" PROVE Goal
    <3>1. /\ published' = published /\ slots' = slots /\ Others(r) /\ outcome' = outcome
          /\ \/ /\ pos[r] < slots[r] /\ pc'[r] = "register" /\ pos'[r] = pos[r] + 1
             \/ /\ ~(pos[r] < slots[r]) /\ pc'[r] = "judge" /\ pos' = pos
      BY <2>6, <1>t DEF Returned, Goto
    <3>2. LeftUpTo(r, pos[r]) /\ pos[r] <= slots[r] /\ pos[r] \in Nat /\ slots[r] \in Nat
      BY <2>6, <1>a, <1>t, <1>s DEF LeftOf, InLock
    <3>3. LeftOf(r)' /\ ToldOf(r)'
      BY <2>6, <3>1, <3>2, <1>a, <1>f DEF LeftOf, ToldOf, InLock, LeftUpTo
    <3> QED
      BY <3>1, <3>3, <1>q
  <2>7. CASE ReceiveAck(r) \/ AckTimeout(r)
    BY <2>6, <2>7 DEF ReceiveAck, AckTimeout
  <2>8. CASE Judge(r) \/ ConfirmDrying(r) \/ ConfirmTimeout(r)
    <3>1. /\ published' = published /\ pos' = pos /\ slots' = slots
          /\ pc[r] \in {"judge", "confirm"} /\ Others(r)
          /\ \/ pc'[r] = "confirm" /\ outcome'[r] = outcome[r]
             \/ pc'[r] = "done" /\ outcome'[r] \in {"rejected", "acknowledged", "timeout",
                                                     "confirmed", "unconfirmed"}
      BY <2>8, <1>t DEF Judge, ConfirmDrying, ConfirmTimeout, unchangedByGate,
                        Goto, Finish, Record
    <3>2. LeftOf(r)' /\ ToldOf(r)'
      BY <3>1, <1>a, <1>f DEF LeftOf, ToldOf, InLock
    <3> QED
      BY <3>1, <3>2, <1>q
  <2> QED
    BY <1>2, <2>1, <2>2, <2>3, <2>4, <2>5, <2>7, <2>8 DEF Thread
<1>3. CASE UNCHANGED <<requestVars, published>>
  <2>1. UNCHANGED <<pc, pos, slots, outcome, published>>
    BY <1>3 DEF requestVars
  <2>2. ASSUME NEW r \in Requests PROVE LeftOf(r)' /\ ToldOf(r)'
    BY <2>1, <1>a, <1>f DEF LeftOf, ToldOf, LeftUpTo
  <2>3. BurstsContiguous'
    BY <2>1 DEF BurstsContiguous
  <2> QED
    BY <2>2, <2>3 DEF LeftSoFar, AuditTellsWhatLeft, ToldOf
<1>4. (SpacingElapses \/ StoreBecomesStale \/ Network \/ Printer \/ UNCHANGED vars)
         => UNCHANGED <<requestVars, published>>
  BY DEF SpacingElapses, StoreBecomesStale, Network, ConnAck, on_connect, CertificateRefused,
        ConnectFails,
         LinkDrops, on_disconnect, on_message, Printer, PrinterAnswers, PrinterReports,
         PrinterNamesModules, OtherClientAnswered, Unasked, unchangedByPrinter, vars
<1> QED
  BY <1>1, <1>2, <1>3, <1>4 DEF Next

-----------------------------------------------------------------------------
(***************************************************************************)
(* A dryer that was started can be stopped.                                *)
(***************************************************************************)
\* Every step keeps the models that were named.
LEMMA ModelsStep ==
    ASSUME TypeOK, ModelsNamed, [Next]_vars
    PROVE  ModelsNamed' /\ \A u \in AmsIds : DryCapable(u) => DryCapable(u)'
<1>1. CASE models' = models
  BY <1>1 DEF ModelsNamed, DryCapable
<1>2. ASSUME NEW ids, apply_version(ids)
      PROVE  ModelsNamed' /\ \A u \in AmsIds : DryCapable(u) => DryCapable(u)'
  <2>1. models' = [u \in AmsIds |-> IF u \in ids THEN UnitModel[u] ELSE models[u]]
    BY <1>2 DEF apply_version
  <2> QED
    BY <2>1 DEF ModelsNamed, DryCapable
<1>3. (\E r \in Requests, c \in Calls : Submit(r, c)) => models' = models
  BY DEF Submit, unchangedByGate, storeVars
<1>4. ASSUME NEW r \in Requests, Thread(r) PROVE models' = models
  BY <1>4 DEF Thread, ValidateState, BuildCommands, CheckOperationRisk, EnterLock,
        RegisterPending, CheckConnected, PublishFailed, Publish, ReceiveAck, AckTimeout,
        Returned, Judge, ConfirmDrying, ConfirmTimeout, unchangedByGate, storeVars
<1>5. (SpacingElapses \/ StoreBecomesStale \/ Printer \/ UNCHANGED vars) => models' = models
  BY DEF SpacingElapses, StoreBecomesStale, BecomesStale, Printer, PrinterAnswers,
         PrinterReports, PrinterNamesModules, OtherClientAnswered, Unasked,
         unchangedByPrinter, vars, storeVars
<1>6. Network => models' = models \/ \E ids : apply_version(ids)
  BY DEF Network, ConnAck, on_connect, CertificateRefused, ConnectFails, LinkDrops, on_disconnect,
        on_message,
         mark_connection, apply_report, storeVars
<1> QED
  BY <1>1, <1>2, <1>3, <1>4, <1>5, <1>6 DEF Next

\* Every step keeps that a start_drying on its way has passed the shared gates.
LEMMA DryableStep ==
    ASSUME TypeOK, OutcomeAtEnd, ModelsNamed, StartsDryable, [Next]_vars
    PROVE  StartsDryable'
<1>t. /\ pc \in [Requests -> PcStates] /\ outcome \in [Requests -> Outcomes]
      /\ call \in [Requests -> Calls]
  BY DEF TypeOK
<1>m. ASSUME NEW c \in Calls, Dryable(c) PROVE Dryable(c)'
  <2>1. c.unit \in AmsIds
    BY CommandAssumption DEF CallRecords
  <2>2. DryCapable(c.unit) => DryCapable(c.unit)'
    BY <2>1, ModelsStep
  <2> QED
    BY <1>m, <2>2 DEF Dryable
<1>a. ASSUME NEW r \in Requests, NEW c \in Calls, call[r] = c, c.name = "start_drying"
      PROVE  /\ pc[r] \in {"validate", "build"} \/ PastBuild(r) => Permitted(c)
             /\ PastBuild(r) => Dryable(c)
             /\ pc[r] # "done" => outcome[r] = "none"
  BY <1>a DEF StartsDryable, OutcomeAtEnd
<1> DEFINE Kept(r) == \A c \in Calls : (call'[r] = c /\ c.name = "start_drying") =>
               /\ pc'[r] \in {"validate", "build"} \/ PastBuild(r)' => Permitted(c)
               /\ PastBuild(r)' => Dryable(c)'
<1>f. ASSUME NEW r \in Requests, call'[r] = call[r], pc'[r] = pc[r], outcome'[r] = outcome[r]
      PROVE  Kept(r)
  <2>1. PastBuild(r)' <=> PastBuild(r)
    BY <1>f DEF PastBuild
  <2> QED
    BY <1>f, <1>a, <1>m, <2>1
<1>1. ASSUME NEW r \in Requests, NEW c \in Calls, Submit(r, c) PROVE Kept(r)
  <2>1. /\ pc[r] = "idle" /\ call'[r] = c
        /\ \/ pc'[r] = "validate" /\ Permitted(c) /\ outcome'[r] = outcome[r]
           \/ pc'[r] = "done" /\ outcome'[r] = "forbidden"
    BY <1>1, <1>t DEF Submit, Goto, Finish, Record
  <2>2. outcome[r] = "none"
    BY <2>1, <1>t DEF OutcomeAtEnd
  <2>3. ~PastBuild(r)'
    BY <2>1, <2>2 DEF PastBuild, InLock
  <2> QED
    BY <2>1, <2>3
<1>2. ASSUME NEW r \in Requests, Thread(r) PROVE Kept(r)
  <2>c. call' = call
    BY <1>2 DEF Thread, ValidateState, BuildCommands, CheckOperationRisk, EnterLock,
        RegisterPending, CheckConnected, PublishFailed, Publish, ReceiveAck, AckTimeout,
        Returned, Judge, ConfirmDrying, ConfirmTimeout, unchangedByGate
  <2>1. CASE ValidateState(r)
    <3>1. /\ pc[r] = "validate" /\ outcome[r] = "none"
          /\ pc'[r] \in {"build", "done"} /\ outcome'[r] \in {"none", "rejected"}
      BY <2>1, <1>t DEF ValidateState, Goto, Finish, Record, OutcomeAtEnd
    <3>2. ~PastBuild(r)'
      BY <3>1 DEF PastBuild, InLock
    <3> QED
      BY <3>1, <3>2, <1>a, <2>c
  <2>2. CASE BuildCommands(r)
    <3>1. /\ pc[r] = "build" /\ outcome[r] = "none"
          /\ \/ buildable(call[r])
             \/ pc'[r] = "done" /\ outcome'[r] = "rejected"
      BY <2>2, <1>t DEF BuildCommands, Goto, Finish, Record, OutcomeAtEnd
    <3>2. ASSUME NEW c \in Calls, call[r] = c, c.name = "start_drying", buildable(c)
          PROVE  Dryable(c)
      BY <3>2 DEF buildable, validate_drying_command, Dryable, DRYING_COMMANDS
    <3>3. ~buildable(call[r]) => ~PastBuild(r)' /\ pc'[r] \notin {"validate", "build"}
      BY <3>1 DEF PastBuild, InLock
    <3> QED
      BY <3>1, <3>2, <3>3, <1>a, <1>m, <2>c
  <2>3. CASE ~ValidateState(r) /\ ~BuildCommands(r)
    <3>1. /\ pc[r] \in {"risk", "lock", "judge", "confirm"} \cup InLock
          /\ pc'[r] \notin {"validate", "build"}
      BY <1>2, <2>3, <1>t DEF Thread, CheckOperationRisk, EnterLock, RegisterPending,
         CheckConnected, PublishFailed, Publish, ReceiveAck, AckTimeout, Returned, Judge,
         ConfirmDrying, ConfirmTimeout, Goto, Finish, InLock
    <3>2. PastBuild(r)
      BY <3>1 DEF PastBuild
    <3> QED
      BY <3>1, <3>2, <1>a, <1>m, <2>c
  <2> QED
    BY <2>1, <2>2, <2>3
<1>3. ASSUME NEW r \in Requests, Thread(r) \/ (\E c \in Calls : Submit(r, c)),
             NEW q \in Requests \ {r}
      PROVE  call'[q] = call[q] /\ pc'[q] = pc[q] /\ outcome'[q] = outcome[q]
  BY <1>3, <1>t DEF Submit, Thread, ValidateState, BuildCommands, CheckOperationRisk, EnterLock,
        RegisterPending, CheckConnected, PublishFailed, Publish, ReceiveAck, AckTimeout,
        Returned, Judge, ConfirmDrying, ConfirmTimeout, unchangedByGate, Goto, Finish, Record
<1>4. (SpacingElapses \/ StoreBecomesStale \/ Network \/ Printer \/ UNCHANGED vars)
         => UNCHANGED <<call, pc, outcome>>
  BY DEF SpacingElapses, StoreBecomesStale, Network, ConnAck, on_connect, CertificateRefused,
        ConnectFails,
         LinkDrops, on_disconnect, on_message, Printer, PrinterAnswers, PrinterReports,
         PrinterNamesModules, OtherClientAnswered, Unasked, unchangedByPrinter, vars, requestVars
<1>5. \A q \in Requests : Kept(q)
  <2>1. CASE UNCHANGED <<call, pc, outcome>>
    BY <2>1, <1>f
  <2>2. ASSUME NEW r \in Requests, Thread(r) \/ (\E c \in Calls : Submit(r, c))
        PROVE  \A q \in Requests : Kept(q)
    <3>1. Kept(r)
      BY <2>2, <1>1, <1>2
    <3>2. \A q \in Requests \ {r} : Kept(q)
      BY <2>2, <1>3, <1>f
    <3> QED
      BY <3>1, <3>2
  <2> QED
    BY <2>1, <2>2, <1>4 DEF Next
<1> QED
  BY <1>5 DEF StartsDryable

-----------------------------------------------------------------------------
\* The account of what has left, and the gates that a start has passed, at every step.
THEOREM LogInductive == Spec => []LogInv
<1>1. Init => LogInv
  <2> SUFFICES ASSUME Init PROVE LogInv
    OBVIOUS
  <2>1. LeftSoFar /\ BurstsContiguous /\ AuditTellsWhatLeft
    BY DEF Init, LeftSoFar, LeftOf, InLock, PublishedOf, BurstsContiguous, AuditTellsWhatLeft
  <2>2. ModelsNamed /\ StartsDryable
    BY DEF Init, StoreInit, ModelsNamed, StartsDryable, PastBuild, InLock
  <2> QED
    BY <2>1, <2>2 DEF LogInv
<1>2. IInv /\ IInv' /\ LogInv /\ [Next]_vars => LogInv'
  BY LeftStep, ModelsStep, DryableStep DEF IInv, LogInv
<1> QED
  BY <1>1, <1>2, Inductive, PTL DEF Spec

\* BurstsContiguous: send_command publishes the commands of a request in slot order
\* and without another request's between them.
THEOREM BurstsContiguousAlways == Spec => []BurstsContiguous
<1>1. LogInv => BurstsContiguous
  BY DEF LogInv
<1> QED
  BY <1>1, LogInductive, PTL

\* AuditTellsWhatLeft: the result in the audit log tells which commands were published.
THEOREM AuditTellsWhatLeftAlways == Spec => []AuditTellsWhatLeft
<1>1. LogInv => AuditTellsWhatLeft
  BY DEF LogInv
<1> QED
  BY <1>1, LogInductive, PTL

\* StartedCanStop: send_command lets stop_drying through for whoever started the dryer.
THEOREM StartedCanStopAlways == Spec => []StartedCanStop
<1>1. TypeOK /\ LogInv => StartedCanStop
  <2> SUFFICES ASSUME TypeOK, LogInv, NEW r \in Requests,
                      outcome[r] \in {"confirmed", "unconfirmed"},
                      call[r].name = "start_drying", Online, ~Partial,
                      Shown(call[r].unit) # {}
               PROVE  LET stop == [call[r] EXCEPT !.name = "stop_drying"]
                      IN  Permitted(stop) /\ Gates(stop)
    BY DEF StartedCanStop
  <2> DEFINE stop == [call[r] EXCEPT !.name = "stop_drying"]
  <2>1. call[r] \in Calls /\ call[r] \in CallRecords
    BY CommandAssumption DEF TypeOK
  <2>2. /\ stop.name = "stop_drying" /\ stop.unit = call[r].unit
        /\ stop.valid = call[r].valid /\ stop.ack = call[r].ack
    BY <2>1 DEF CallRecords
  <2>3. Permitted(call[r]) /\ Dryable(call[r])
    BY <2>1 DEF LogInv, StartsDryable, PastBuild
  <2> HIDE DEF stop
  <2>4. Permitted(stop)
    BY <2>2, <2>3 DEF Permitted
  <2>5. validate_state(stop)
    BY <2>2 DEF validate_state, StatusAllows
  <2>6. buildable(stop)
    BY <2>2, <2>3 DEF buildable, validate_drying_command, Dryable
  <2>7. Gates(stop)
    BY <2>2, <2>5, <2>6 DEF Gates
  <2> QED
    BY <2>4, <2>7 DEF stop
<1> QED
  BY <1>1, LogInductive, TypeCorrect, PTL
=============================================================================
