--------------------------- MODULE WebFrontProofs ---------------------------
(***************************************************************************)
(* Theorems about WebFront, for any number of connections, threads,        *)
(* requests, sessions and changes.                                         *)
(*                                                                         *)
(* That a revoked browser is sent nothing new rests on three facts: every  *)
(* snapshot anywhere is at most as new as the number of changes, a token   *)
(* that has left the store is never issued again, and the code looks at    *)
(* the session between taking a snapshot and sending it.  The bound on     *)
(* wrong credentials is the last section.                                  *)
(***************************************************************************)
EXTENDS WebFront, TLAPS, SequenceTheorems, FiniteSetTheorems

\* Snapshots are of changes that have happened.
HubInv ==
    /\ HubTypeOK
    /\ 1 <= version /\ version <= changes /\ candidate <= changes /\ retired <= changes
    /\ \A c \in Callers : /\ caller[c].snap <= changes
                          /\ caller[c].pc = "holding" => caller[c].snap # 0
    /\ \A i \in DOMAIN scheduled : scheduled[i] <= changes
    /\ \A s \in Sockets : \A i \in DOMAIN queues[s] : queues[s][i] <= changes

\* Outside of an update the sessions are those of the credentials.
SessionInv ==
    /\ SessionTypeOK
    /\ rotating \in BOOLEAN
    /\ rotating => reload = "swapped"
    /\ ~rotating => \A i \in DOMAIN sessions : sessions[i].under = credential \/ sessions[i].slow

\* A connection whose session has ended keeps what it was sent.
SocketGood(r) ==
    /\ r.pc = "none" => r = NoSocket
    /\ r.shown <= changes /\ r.got <= changes
    /\ r.token <= issued
    /\ r.since # 0 => r.token # 0 /\ r.token \notin Live /\ r.shown <= r.since

SocketInv ==
    /\ socket \in [Sockets -> SocketRecords]
    /\ \A s \in Sockets : SocketGood(socket[s])

IInv == HubInv /\ SessionInv /\ SocketInv

\* SessionStore.revoke leaves sessions that were there.
LEMMA RevokeKeeps ==
  ASSUME NEW S, NEW list \in Seq(S), NEW token
 PROVE /\ revoke(list, token) \in Seq(S) 
       /\ Len(revoke(list,token)) <= Len(list)
       /\ \A i \in DOMAIN revoke(list, token) : \E j \in DOMAIN list : revoke(list, token)[i] = list[j]
<1> DEFINE k == CHOOSE i \in DOMAIN list : list[i].token = token
           before == SubSeq(list, 1, k - 1)
           after == SubSeq(list, k + 1, Len(list))
           rest == before \o after
<1>1. CASE token \in TokensOf(list)
  <2>1. k \in 1 .. Len(list)
    BY <1>1 DEF TokensOf
  <2>2. revoke(list, token) = rest
    BY <1>1 DEF revoke, RemoveAt
  <2> HIDE DEF k
  <2>3. /\ before \in Seq(S) /\ Len(before) = k - 1
        /\ \A i \in 1 .. k - 1 : before[i] = list[i]
    BY <2>1, SubSeqProperties
  <2>4. /\ after \in Seq(S) /\ Len(after) = Len(list) - k
        /\ \A i \in 1 .. Len(list) - k : after[i] = list[k + i]
    BY <2>1, SubSeqProperties
  <2> HIDE DEF before, after
  <2>5. rest \in Seq(S)
    BY <2>3, <2>4, ConcatProperties
  <2>6. Len(rest) = Len(list) - 1
    <3>1. Len(rest) = Len(before) + Len(after)
      BY <2>3, <2>4, ConcatProperties
    <3> QED
      BY <2>1, <2>3, <2>4, <3>1
  <2>7. ASSUME NEW i \in 1 .. Len(list) - 1 PROVE \E j \in 1 .. Len(list) : rest[i] = list[j]
    BY <2>1, <2>3, <2>4, ConcatProperties
  <2> HIDE DEF rest
  <2>8. DOMAIN rest = 1 .. Len(list) - 1 /\ DOMAIN list = 1 .. Len(list)
    BY <2>5, <2>6
  <2>9. Len(rest) <= Len(list)
    BY <2>1, <2>6
  <2> QED
    BY <2>2, <2>5, <2>7, <2>8, <2>9
<1>2. CASE token \notin TokensOf(list)
    BY <1>2 DEF revoke
<1> QED
    BY <1>1, <1>2

\* SessionStore.issue keeps the newest sessions and adds one.
LEMMA IssueKeeps ==
  ASSUME NEW S, NEW list \in Seq(S), NEW session \in S, Len(list) <= MaxSessions
  PROVE  /\ issue(list, session) \in Seq(S)
         /\ Len(issue(list, session)) <= MaxSessions
         /\ \A i \in DOMAIN issue(list, session) :
                issue(list, session)[i] = session \/ \E j \in DOMAIN list : issue(list, session)[i] = list[j]
<1> USE SessionAssumption
<1>1. CASE Len(list) >= MaxSessions
  <2> DEFINE shorter == Tail(list)
  <2>1. list # <<>>
      BY <1>1
  <2>2. /\ shorter \in Seq(S) /\ Len(shorter) = Len(list) - 1
        /\ \A i \in 1 .. Len(shorter) : shorter[i] = list[i + 1]
      BY <2>1
  <2> HIDE DEF shorter
  <2>3. issue(list, session) = Append(shorter, session)
      BY <1>1 DEF issue, shorter
  <2> QED
      BY <2>1, <2>2, <2>3
<1>2. CASE ~(Len(list) >= MaxSessions)
  <2>1. issue(list, session) = Append(list, session)
      BY <1>2 DEF issue
  <2> QED
      BY <1>2, <2>1
<1> QED
    BY <1>1, <1>2

\* A session in the store was there before or has just been issued.
Carried(session) == \E i \in DOMAIN sessions : session = sessions[i]
Fresh(session) ==
    /\ issued' = issued + 1
    /\ session.token = issued'
    /\ session.under = credential \/ session.slow
SessionsFollow ==
    /\ issued' \in {issued, issued + 1}
    /\ \A i \in DOMAIN sessions' : Carried(sessions'[i]) \/ Fresh(sessions'[i])

\* The start of the service.
LEMMA InitIInv == Init => IInv
<1> SUFFICES ASSUME Init PROVE IInv
    OBVIOUS
<1> USE HubAssumption, SessionAssumption
<1>1. HubInv
  <2>1. outdated \in BOOLEAN
      BY Zenon DEF Init, HubInit
  <2>2. scheduled \in Seq(1 .. MaxChanges) /\ queues \in [Sockets -> Seq(1 .. MaxChanges)]
      BY DEF Init, HubInit
  <2>3. caller \in [Callers -> CallerRecords]
      BY DEF Init, HubInit, CallerRecords, Idle
  <2> QED
      BY <2>1, <2>2, <2>3 DEF Init, HubInit, HubInv, HubTypeOK, Idle
<1>2. SessionInv
  <2>1. rotating \in BOOLEAN
      BY Zenon DEF Init
  <2>2. /\ sessions \in Seq([token : 1 .. issued, under : 1 .. credential, slow : BOOLEAN])
        /\ guesses \in Seq(BOOLEAN)
      BY DEF Init, SessionInit
  <2>3. login \in [Logins -> 0 .. credential]
      BY DEF Init, SessionInit
  <2> QED
      BY <2>1, <2>2, <2>3 DEF Init, SessionInit, SessionInv, SessionTypeOK
<1>3. SocketInv
    BY DEF Init, HubInit, SessionInit, SocketInv, SocketGood, SocketRecords, NoSocket
<1> QED
    BY <1>1, <1>2, <1>3 DEF IInv

\* A thread announces a change, and the hub passes it on.
LEMMA HubSteps == HubInv /\ HubStep => HubInv'
<1> SUFFICES ASSUME HubInv, HubStep PROVE HubInv'
    OBVIOUS
<1> USE HubAssumption DEF HubInv, HubTypeOK, CallerRecords, Idle
<1>1. ASSUME NEW c \in Callers, Change(c) PROVE HubInv'
  <2>1. changes' = changes + 1 /\ changes' \in 0 .. MaxChanges
      BY <1>1 DEF Change
  <2>2. /\ {version', candidate', retired'} \subseteq 0 .. MaxChanges
        /\ 1 <= version' /\ version' <= changes' /\ candidate' <= changes' /\ retired' <= changes'
      BY <1>1 DEF Change
  <2>3. caller' = caller \/ caller' = [caller EXCEPT ![c].pc = "changed"]
      BY <1>1 DEF Change
  <2>4. /\ caller' \in [Callers -> CallerRecords]
        /\ \A d \in Callers : /\ caller'[d].snap <= changes'
                              /\ caller'[d].pc = "holding" => caller'[d].snap # 0
    <3>1. CASE caller' = caller
        BY <2>1, <3>1
    <3>2. CASE caller' = [caller EXCEPT ![c].pc = "changed"]
      <4>1. caller \in [Callers -> CallerRecords]
          OBVIOUS
      <4>2. caller[c].snap <= changes' /\ \A d \in Callers : caller[d].snap <= changes'
          BY <2>1
      <4>3. \A d \in Callers : caller[d].pc = "holding" => caller[d].snap # 0
          OBVIOUS
      <4> HIDE DEF HubInv, HubTypeOK
      <4> QED
          BY <3>2, <4>1, <4>2, <4>3
    <3> QED
        BY <2>3, <3>1, <3>2
  <2>5. UNCHANGED <<reload, scheduled, queues, subscribed, newest, outdated>>
      BY <1>1 DEF Change
  <2> QED
      BY <2>1, <2>2, <2>4, <2>5
<1>2. ASSUME NEW c \in Callers, Snapshot(c) PROVE HubInv'
    BY <1>2 DEF Snapshot, Late
<1>3. ASSUME NEW c \in Callers, publish_threadsafe(c) PROVE HubInv'
  <2>1. outdated' \in BOOLEAN
      BY <1>3, Zenon DEF publish_threadsafe, Late
  <2>2. caller[c].snap \in 1 .. MaxChanges /\ newest' \in 0 .. MaxChanges
      BY <1>3 DEF publish_threadsafe, Newer
  <2>3. scheduled' \in Seq(1 .. MaxChanges) /\ \A i \in DOMAIN scheduled' : scheduled'[i] <= changes
      BY <1>3, <2>2 DEF publish_threadsafe
  <2>4. caller' \in [Callers -> CallerRecords]
        /\ \A d \in Callers : /\ caller'[d].snap <= changes
                              /\ caller'[d].pc = "holding" => caller'[d].snap # 0
      BY <1>3 DEF publish_threadsafe
  <2> QED
      BY <1>3, <2>1, <2>2, <2>3, <2>4 DEF publish_threadsafe
<1>4. CASE publish
  <2>1. /\ scheduled # <<>> /\ scheduled' = Tail(scheduled)
        /\ UNCHANGED <<changes, version, candidate, retired, reload, caller, subscribed, newest,
                       outdated>>
      BY <1>4 DEF publish
  <2>2. Head(scheduled) \in 1 .. MaxChanges /\ Head(scheduled) <= changes
      BY <2>1
  <2>3. /\ scheduled' \in Seq(1 .. MaxChanges)
        /\ \A i \in DOMAIN scheduled' : scheduled'[i] <= changes
      BY <2>1
  <2> DEFINE one == <<Head(scheduled)>>
  <2>4. one \in Seq(1 .. MaxChanges) /\ Len(one) = 1 /\ \A i \in DOMAIN one : one[i] <= changes
      BY <2>2
  <2>5. /\ queues' \in [Sockets -> Seq(1 .. MaxChanges)]
        /\ \A s \in Sockets : /\ Len(queues'[s]) <= 1
                              /\ \A i \in DOMAIN queues'[s] : queues'[s][i] <= changes
    <3>1. queues' = [s \in Sockets |-> IF s \in subscribed THEN one ELSE queues[s]]
        BY <1>4 DEF publish
    <3> HIDE DEF one
    <3>2. \A s \in Sockets : queues'[s] = one \/ queues'[s] = queues[s]
        BY <3>1
    <3>3. queues' \in [Sockets -> Seq(1 .. MaxChanges)]
        BY <2>4, <3>1
    <3>4. ASSUME NEW s \in Sockets
          PROVE  Len(queues'[s]) <= 1 /\ \A i \in DOMAIN queues'[s] : queues'[s][i] <= changes
      <4>1. CASE queues'[s] = one
        <5>1. Len(one) <= 1
            BY <2>4
        <5> QED
            BY <2>4, <4>1, <5>1, Zenon
      <4>2. CASE queues'[s] = queues[s]
          BY <4>2
      <4> QED
          BY <3>2, <4>1, <4>2
    <3> QED
        BY <3>3, <3>4
  <2>6. HubTypeOK'
      BY <2>1, <2>3, <2>5
  <2> QED
    <3> HIDE DEF HubTypeOK
    <3> QED
        BY <2>1, <2>3, <2>5, <2>6
<1>5. CASE StopOld
    BY <1>5 DEF StopOld
<1>6. CASE StartOld
  <2>1. outdated' \in BOOLEAN
      BY <1>6, Zenon DEF StartOld
  <2>2. /\ changes' = changes + 1 /\ version' = changes' /\ newest' = changes' /\ candidate' = 0
        /\ changes' \in 0 .. MaxChanges /\ reload' = "idle"
        /\ UNCHANGED <<retired, caller, scheduled, queues, subscribed>>
      BY <1>6 DEF StartOld
  <2>3. /\ \A i \in DOMAIN scheduled' : scheduled'[i] <= changes'
        /\ \A s \in Sockets : \A i \in DOMAIN queues'[s] : queues'[s][i] <= changes'
      BY <2>2
  <2>4. \A d \in Callers : /\ caller'[d].snap <= changes'
                           /\ caller'[d].pc = "holding" => caller'[d].snap # 0
      BY <2>2
  <2>5. {changes', version', candidate', retired', newest'} \subseteq 0 .. MaxChanges
      BY <2>2
  <2>6. HubTypeOK'
      BY <2>1, <2>2, <2>5
  <2>7. /\ 1 <= version' /\ version' <= changes' /\ candidate' <= changes' /\ retired' <= changes'
      BY <2>2
  <2> QED
    <3> HIDE DEF HubTypeOK
    <3> QED
        BY <2>3, <2>4, <2>6, <2>7
<1> QED
    BY <1>1, <1>2, <1>3, <1>4, <1>5, <1>6 DEF HubStep, Threads

\* What the limiter keeps.
LEMMA GuessSteps ==
    /\ guesses \in Seq(BOOLEAN)
    /\ \/ record_failure \/ reset_on_success \/ UNCHANGED guesses
       \/ guesses # <<>> /\ guesses' = Tail(guesses)
    => guesses' \in Seq(BOOLEAN)
<1> SUFFICES ASSUME guesses \in Seq(BOOLEAN),
                    \/ record_failure \/ reset_on_success \/ UNCHANGED guesses
                    \/ guesses # <<>> /\ guesses' = Tail(guesses)
             PROVE  guesses' \in Seq(BOOLEAN)
    OBVIOUS
<1>1. CASE record_failure
  <2>1. attempts \in Nat
    <3>1. IsFiniteSet({i \in DOMAIN guesses : guesses[i]})
      <4>1. DOMAIN guesses = 1 .. Len(guesses) /\ Len(guesses) \in Nat
          OBVIOUS
      <4>2. IsFiniteSet(DOMAIN guesses)
          BY <4>1, FS_Interval
      <4> QED
          BY <4>2, FS_Subset
    <3> QED
        BY <3>1, FS_CardinalityType DEF attempts
  <2>2. check \in BOOLEAN
      BY <2>1, SessionAssumption DEF check
  <2> QED
      BY <1>1, <2>2 DEF record_failure
<1>2. CASE reset_on_success
    BY <1>2 DEF reset_on_success
<1>3. CASE guesses # <<>> /\ guesses' = Tail(guesses)
    BY <1>3
<1> QED
    BY <1>1, <1>2, <1>3

\* A new session is typed, and counted as slow if its credentials are not the current ones.
LEMMA NewSession ==
  ASSUME SessionTypeOK, NextToken, NEW config \in 1 .. credential
  PROVE  /\ Session(issued', config) \in [token : 1 .. issued', under : 1 .. credential, slow : BOOLEAN]
         /\ Fresh(Session(issued', config))
<1>1. /\ issued' = issued + 1 /\ issued' \in Nat /\ issued \in Nat
      /\ credential \in Nat /\ config \in 1 .. credential
    BY SessionAssumption DEF SessionTypeOK, NextToken
<1>2. CASE config = credential
  <2>1. (config # credential) = FALSE
      BY <1>2, Zenon
  <2> DEFINE new == [token |-> issued', under |-> config, slow |-> FALSE]
  <2>2. Session(issued', config) = new
      BY <2>1 DEF Session
  <2>3. new \in [token : 1 .. issued', under : 1 .. credential, slow : BOOLEAN]
      BY <1>1
  <2>4. new.token = issued' /\ new.under = config /\ new.slow = FALSE
      OBVIOUS
  <2> HIDE DEF new
  <2>5. Fresh(new)
    <3>1. new.under = credential \/ new.slow
        BY <1>2, <2>4, Zenon
    <3> QED
        BY <1>1, <2>4, <3>1, Zenon DEF Fresh
  <2> QED
      BY <2>2, <2>3, <2>5, Zenon
<1>3. CASE config # credential
  <2>1. (config # credential) = TRUE
      BY <1>3, Zenon
  <2> DEFINE new == [token |-> issued', under |-> config, slow |-> TRUE]
  <2>2. Session(issued', config) = new
      BY <2>1 DEF Session
  <2>3. new \in [token : 1 .. issued', under : 1 .. credential, slow : BOOLEAN]
      BY <1>1
  <2>4. new.token = issued' /\ new.under = config /\ new.slow = TRUE
      OBVIOUS
  <2> HIDE DEF new
  <2>5. Fresh(new)
    <3>1. new.under = credential \/ new.slow
        BY <1>3, <2>4, Zenon
    <3> QED
        BY <1>1, <2>4, <3>1, Zenon DEF Fresh
  <2> QED
      BY <2>2, <2>3, <2>5, Zenon
<1> QED
    BY <1>2, <1>3

\* What leaves or enters the store outside of an update.
LEMMA SessionSteps ==
  ASSUME SessionTypeOK, SessionStep
  PROVE  SessionTypeOK' /\ SessionsFollow /\ UNCHANGED <<hub_vars, rotating, credential>>
<1> USE SessionAssumption
<1> DEFINE S == [token : 1 .. issued, under : 1 .. credential, slow : BOOLEAN]
<1>0. /\ credential \in Nat \ {0} /\ issued \in 0 .. MaxIssued /\ sessions \in Seq(S)
      /\ Len(sessions) <= MaxSessions /\ login \in [Logins -> 0 .. credential]
      /\ basic \subseteq Basics /\ guesses \in Seq(BOOLEAN)
    BY DEF SessionTypeOK
<1>1. ASSUME Expire PROVE SessionTypeOK' /\ SessionsFollow /\ UNCHANGED credential
  <2>1. UNCHANGED <<credential, issued, login, basic, guesses>> /\ sessions # <<>> /\ sessions' = Tail(sessions)
      BY <1>1 DEF Expire
  <2>2. /\ sessions' \in Seq(S) /\ Len(sessions') <= MaxSessions
        /\ \A i \in DOMAIN sessions' : Carried(sessions'[i])
    <3>1. sessions' \in Seq(S) /\ Len(sessions') = Len(sessions) - 1
        BY <1>0, <2>1
    <3>2. \A i \in 1 .. Len(sessions) - 1 : sessions'[i] = sessions[i + 1] /\ i + 1 \in DOMAIN sessions
        BY <1>0, <2>1
    <3>3. DOMAIN sessions' = 1 .. Len(sessions) - 1
        BY <3>1
    <3>4. \A i \in DOMAIN sessions' : Carried(sessions'[i])
        BY <3>2, <3>3, Zenon DEF Carried
    <3>5. Len(sessions') <= MaxSessions
        BY <1>0, <3>1
    <3> QED
        BY <3>1, <3>4, <3>5
  <2> QED
      BY <1>0, <2>1, <2>2 DEF SessionTypeOK, SessionsFollow
<1>2. ASSUME NEW l \in Logins, LoginBegins(l)
      PROVE  SessionTypeOK' /\ SessionsFollow /\ UNCHANGED credential
    BY <1>0, <1>2 DEF LoginBegins, SessionTypeOK, SessionsFollow, Carried
<1>3. ASSUME NEW l \in Logins, LoginFails(l)
      PROVE  SessionTypeOK' /\ SessionsFollow /\ UNCHANGED credential
  <2>1. guesses' \in Seq(BOOLEAN)
    <3>1. record_failure \/ UNCHANGED guesses
        BY <1>3 DEF LoginFails
    <3> QED
        BY <1>0, <3>1, GuessSteps
  <2> QED
      BY <1>0, <1>3, <2>1 DEF LoginFails, LoginEnds, SessionTypeOK, SessionsFollow, Carried
<1>4. ASSUME NEW l \in Logins, NEW cookie \in Live \cup {0}, LoginSucceeds(l, cookie)
      PROVE  SessionTypeOK' /\ SessionsFollow /\ UNCHANGED credential
  <2> DEFINE T == [token : 1 .. issued', under : 1 .. credential, slow : BOOLEAN]
             rest == revoke(sessions, cookie)
             new == Session(issued', login[l])
  <2>1. guesses' \in Seq(BOOLEAN)
    <3>1. reset_on_success
        BY <1>4 DEF LoginSucceeds
    <3> QED
        BY <1>0, <3>1, GuessSteps
  <2>2. /\ NextToken /\ issued' = issued + 1 /\ issued' \in 0 .. MaxIssued
        /\ login[l] \in 1 .. credential /\ login' \in [Logins -> 0 .. credential]
        /\ UNCHANGED <<credential, basic>> /\ sessions' = issue(rest, new)
      BY <1>0, <1>4 DEF LoginSucceeds, LoginEnds, NextToken
  <2>3. new \in T /\ Fresh(new)
      BY <2>2, NewSession
  <2>4. /\ rest \in Seq(S) /\ Len(rest) <= MaxSessions
        /\ \A i \in DOMAIN rest : Carried(rest[i])
    <3>1. /\ rest \in Seq(S) /\ Len(rest) <= Len(sessions)
          /\ \A i \in DOMAIN rest : Carried(rest[i])
        BY <1>0, RevokeKeeps DEF Carried
    <3> QED
        BY <1>0, <3>1
  <2>5. rest \in Seq(T)
    <3>1. S \subseteq T
        BY <1>0, <2>2
    <3> QED
        BY <2>4, <3>1, SeqMonotonic
  <2> HIDE DEF rest, new, T
  <2>6. /\ sessions' \in Seq(T) /\ Len(sessions') <= MaxSessions
        /\ \A i \in DOMAIN sessions' : sessions'[i] = new \/ \E j \in DOMAIN rest : sessions'[i] = rest[j]
      BY <2>2, <2>3, <2>4, <2>5, IssueKeeps
  <2>7. \A i \in DOMAIN sessions' : Carried(sessions'[i]) \/ Fresh(sessions'[i])
      BY <2>3, <2>4, <2>6
  <2> QED
      BY <1>0, <2>1, <2>2, <2>6, <2>7 DEF SessionTypeOK, SessionsFollow, T
<1>5. ASSUME NEW t \in Live, logout(t)
      PROVE  SessionTypeOK' /\ SessionsFollow /\ UNCHANGED credential
  <2>1. /\ UNCHANGED <<credential, issued, login, basic, guesses>>
        /\ sessions' = revoke(sessions, t)
      BY <1>5 DEF logout
  <2>2. /\ sessions' \in Seq(S) /\ Len(sessions') <= Len(sessions)
        /\ \A i \in DOMAIN sessions' : Carried(sessions'[i])
      BY <1>0, <2>1, RevokeKeeps DEF Carried
  <2>3. Len(sessions') <= MaxSessions
      BY <1>0, <2>2
  <2> QED
      BY <1>0, <2>1, <2>2, <2>3 DEF SessionTypeOK, SessionsFollow
<1>6. ASSUME LimiterStep PROVE SessionTypeOK' /\ SessionsFollow /\ UNCHANGED credential
  <2>1. /\ guesses' \in Seq(BOOLEAN) /\ basic' \subseteq Basics
        /\ UNCHANGED <<credential, sessions, issued, login>>
    <3>1. CASE WindowPasses
        BY <1>0, <3>1, GuessSteps DEF WindowPasses
    <3>2. ASSUME NEW b \in Basics, BasicChecked(b)
          PROVE  /\ guesses' \in Seq(BOOLEAN) /\ basic' \subseteq Basics
                 /\ UNCHANGED <<credential, sessions, issued, login>>
        BY <1>0, <3>2 DEF BasicChecked
    <3>3. ASSUME NEW b \in Basics, BasicCompared(b)
          PROVE  /\ guesses' \in Seq(BOOLEAN) /\ basic' \subseteq Basics
                 /\ UNCHANGED <<credential, sessions, issued, login>>
      <4>1. record_failure \/ reset_on_success
          BY <3>3 DEF BasicCompared
      <4>2. guesses' \in Seq(BOOLEAN)
          BY <1>0, <4>1, GuessSteps
      <4> QED
          BY <1>0, <3>3, <4>2 DEF BasicCompared
    <3> QED
        BY <1>6, <3>1, <3>2, <3>3 DEF LimiterStep
  <2> QED
      BY <1>0, <2>1 DEF SessionTypeOK, SessionsFollow, Carried
<1>7. UNCHANGED <<hub_vars, rotating>>
    BY DEF SessionStep
<1>8. SessionTypeOK' /\ SessionsFollow /\ UNCHANGED credential
    BY <1>1, <1>2, <1>3, <1>4, <1>5, <1>6 DEF SessionStep, LoginStep
<1> QED
    BY <1>7, <1>8

\* update_admin_config exchanges the manager.
LEMMA ReloadSteps == HubInv /\ (Swap \/ Reloaded) => HubInv'
<1> SUFFICES ASSUME HubInv, Swap \/ Reloaded PROVE HubInv'
    OBVIOUS
<1> USE HubAssumption DEF HubInv, HubTypeOK, CallerRecords, Idle
<1>1. CASE Swap
  <2>1. /\ version' = candidate /\ retired' = version /\ candidate' = 0 /\ newest' = 0
        /\ candidate # 0 /\ reload' = "swapped"
        /\ UNCHANGED <<changes, scheduled, queues, subscribed, outdated>>
      BY <1>1 DEF Swap
  <2>2. /\ caller' \in [Callers -> CallerRecords]
        /\ \A c \in Callers : /\ caller'[c].snap <= changes
                              /\ caller'[c].pc = "holding" => caller'[c].snap # 0
      BY <1>1 DEF Swap
  <2>3. {changes', version', candidate', retired', newest'} \subseteq 0 .. MaxChanges
      BY <2>1
  <2> QED
      BY <2>1, <2>2, <2>3
<1>2. CASE Reloaded
    BY <1>2 DEF Reloaded
<1> QED
    BY <1>1, <1>2

\* The sessions at the end of an update, and the other places that leave them alone.
LEMMA SessionInvSteps ==
  ASSUME HubInv, SessionInv,
         SessionStep \/ HubStep \/ EndReload \/ \E rotate \in BOOLEAN : SwapManager(rotate)
  PROVE  SessionInv' /\ SessionsFollow
<1> USE DEF SessionInv
<1>1. CASE SessionStep
  <2>1. /\ SessionTypeOK' /\ SessionsFollow /\ UNCHANGED <<reload, rotating, credential>>
      BY <1>1, SessionSteps DEF hub_vars
  <2>2. ~rotating => \A i \in DOMAIN sessions' : sessions'[i].under = credential \/ sessions'[i].slow
      BY <2>1, Zenon DEF SessionsFollow, Carried, Fresh
  <2> QED
      BY <2>1, <2>2, Zenon
<1>2. CASE HubStep
  <2>1. UNCHANGED <<session_vars, front_vars>> /\ (reload = "swapped" => reload' = "swapped")
      BY <1>2 DEF HubStep, Threads, Change, Snapshot, publish_threadsafe, publish, StopOld, StartOld
  <2> QED
      BY <2>1, SessionAssumption
      DEF SessionTypeOK, session_vars, front_vars, SessionsFollow, Carried
<1>3. ASSUME NEW rotate \in BOOLEAN, SwapManager(rotate) PROVE SessionInv' /\ SessionsFollow
  <2>1. reload' = "swapped" /\ rotating' = rotate
      BY <1>3 DEF SwapManager, Swap
  <2>2. CASE rotate
    <3>1. credential' = credential + 1 /\ UNCHANGED <<sessions, issued, login, basic, guesses>>
        BY <1>3, <2>2 DEF SwapManager, ChangeCredential
    <3>2. SessionsFollow
        BY <3>1 DEF SessionsFollow, Carried
    <3>3. SessionTypeOK'
      <4> DEFINE S == [token : 1 .. issued, under : 1 .. credential, slow : BOOLEAN]
                 T == [token : 1 .. issued, under : 1 .. credential', slow : BOOLEAN]
      <4>1. S \subseteq T
          BY <3>1 DEF SessionTypeOK
      <4>2. sessions \in Seq(T)
          BY <4>1, SeqMonotonic DEF SessionTypeOK
      <4>3. login \in [Logins -> 0 .. credential']
          BY <3>1 DEF SessionTypeOK
      <4> HIDE DEF S
      <4> QED
          BY <3>1, <4>2, <4>3 DEF SessionTypeOK
    <3> QED
        BY <2>1, <2>2, <3>2, <3>3, Zenon
  <2>3. CASE ~rotate
    <3>1. UNCHANGED session_vars /\ ~rotating
        BY <1>3, <2>3 DEF SwapManager, Swap
    <3> QED
        BY <2>1, <2>3, <3>1 DEF session_vars, SessionTypeOK, SessionsFollow, Carried
  <2> QED
      BY <2>2, <2>3
<1>4. CASE EndReload
  <2>1. reload' = "idle" /\ ~rotating' /\ rotating' \in BOOLEAN
      BY <1>4, Zenon DEF EndReload, Reloaded
  <2>2. CASE rotating
    <3> DEFINE new == Session(issued', credential)
               T == [token : 1 .. issued', under : 1 .. credential, slow : BOOLEAN]
    <3>1. NextToken /\ sessions' = <<new>> /\ UNCHANGED <<credential, login, basic, guesses>>
        BY <1>4, <2>2 DEF EndReload, replace_all
    <3>2. new \in T /\ Fresh(new)
      <4>1. credential \in 1 .. credential
          BY DEF SessionTypeOK
      <4> QED
          BY <3>1, <4>1, NewSession
    <3> HIDE DEF new, T
    <3>3. sessions' \in Seq(T) /\ Len(sessions') = 1 /\ \A i \in DOMAIN sessions' : sessions'[i] = new
        BY <3>1, <3>2
    <3>4. issued' = issued + 1 /\ issued' \in 0 .. MaxIssued
        BY <3>1, SessionAssumption DEF NextToken, SessionTypeOK
    <3>5. SessionTypeOK'
        BY <3>1, <3>3, <3>4, SessionAssumption DEF SessionTypeOK, T
    <3>6. \A i \in DOMAIN sessions' : Fresh(sessions'[i])
        BY <3>2, <3>3
    <3>7. \A i \in DOMAIN sessions' : sessions'[i].under = credential \/ sessions'[i].slow
        BY <3>6, Zenon DEF Fresh
    <3> QED
        BY <2>1, <3>1, <3>4, <3>5, <3>6, <3>7, Zenon DEF SessionsFollow
  <2>3. CASE ~rotating
    <3>1. UNCHANGED session_vars
        BY <1>4, <2>3 DEF EndReload
    <3> QED
        BY <2>1, <2>3, <3>1 DEF session_vars, SessionTypeOK, SessionsFollow, Carried
  <2> QED
      BY <2>2, <2>3
<1> QED
    BY <1>1, <1>2, <1>3, <1>4

\* SessionStore holds tokens that were issued.
LEMMA TokensIssued == SessionTypeOK => \A t \in Live : t \in 1 .. issued
<1> SUFFICES ASSUME SessionTypeOK, NEW i \in DOMAIN sessions PROVE sessions[i].token \in 1 .. issued
    BY Zenon DEF Live, TokensOf
<1> DEFINE S == [token : 1 .. issued, under : 1 .. credential, slow : BOOLEAN]
<1>1. sessions \in Seq(S) /\ i \in 1 .. Len(sessions)
    BY DEF SessionTypeOK
<1>2. \A r \in S : r.token \in 1 .. issued
    OBVIOUS
<1> HIDE DEF S
<1>3. sessions[i] \in S
    BY <1>1, ElementOfSeq
<1> QED
    BY <1>2, <1>3

\* Whoever loses the session is noted, and a token does not come back.
LEMMA SocketsFollow ==
  ASSUME HubInv, SessionInv, SocketInv, SessionsFollow, NoteRevocations, UNCHANGED changes
  PROVE  SocketInv'
<1> USE DEF SocketRecords
<1>1. changes \in 0 .. MaxChanges /\ issued \in Nat /\ socket \in [Sockets -> SocketRecords]
    BY HubAssumption, SessionAssumption DEF HubInv, HubTypeOK, SessionInv, SessionTypeOK, SocketInv
<1>2. socket' \in [Sockets -> SocketRecords]
    BY <1>1 DEF NoteRevocations
<1>3. \A t \in Live : t \in 1 .. issued
    BY TokensIssued DEF SessionInv
<1>4. \A t \in Live' : t \in Live \/ t = issued + 1
    BY Zenon DEF Live, TokensOf, SessionsFollow, Carried, Fresh
<1>5. ASSUME NEW s \in Sockets PROVE SocketGood(socket[s])'
  <2>1. SocketGood(socket[s])
      BY DEF SocketInv
  <2>2. CASE socket[s].token \in Live \ Live'
    <3>1. socket'[s] = [socket[s] EXCEPT !.since = changes]
        BY <2>2 DEF NoteRevocations, Live
    <3>2. socket[s].token # 0 /\ socket[s].pc # "none"
        BY <1>3, <2>1, <2>2 DEF SocketGood, NoSocket
    <3> QED
        BY <1>1, <2>1, <2>2, <3>1, <3>2 DEF SocketGood, SessionsFollow
  <2>3. CASE socket[s].token \notin Live \ Live'
    <3>1. socket'[s] = socket[s]
        BY <2>3 DEF NoteRevocations, Live
    <3>2. socket[s].token \notin Live => socket[s].token \notin Live'
        BY <1>1, <1>4, <2>1 DEF SocketGood
    <3> QED
        BY <1>1, <2>1, <3>1, <3>2 DEF SocketGood, SessionsFollow
  <2> QED
      BY <2>2, <2>3
<1> QED
    BY <1>2, <1>5 DEF SocketInv

\* What websocket_endpoint makes of one connection.
LEMMA OneSocket ==
  ASSUME NEW s \in Sockets, NEW r \in SocketRecords, SocketInv, SocketGood(r),
         socket' = [socket EXCEPT ![s] = r], UNCHANGED <<changes, issued, sessions>>
  PROVE  SocketInv'
<1>1. \A t \in Sockets : socket'[t] = r \/ socket'[t] = socket[t]
    BY DEF SocketInv
<1>2. socket' \in [Sockets -> SocketRecords]
    BY DEF SocketInv
<1>3. Live' = Live
    BY DEF Live, TokensOf
<1>4. \A t \in Sockets : SocketGood(socket'[t])
    BY <1>1, Zenon DEF SocketInv
<1> QED
    BY <1>2, <1>3, <1>4 DEF SocketInv, SocketGood

\* The queue of a connection that ends or takes a snapshot is empty.
LEMMA QueueSteps ==
  ASSUME NEW s \in Sockets, HubInv, HubKeeps, subscribed' \subseteq Sockets,
         queues' = queues \/ queues' = [queues EXCEPT ![s] = <<>>]
  PROVE  HubInv'
<1>1. queues' \in [Sockets -> Seq(1 .. MaxChanges)]
  <2>1. <<>> \in Seq(1 .. MaxChanges) /\ queues \in [Sockets -> Seq(1 .. MaxChanges)]
      BY DEF HubInv, HubTypeOK
  <2> QED
      BY <2>1, Zenon
<1>2. \A t \in Sockets : queues'[t] = queues[t] \/ queues'[t] = <<>>
    BY DEF HubInv, HubTypeOK
<1>3. \A t \in Sockets : /\ Len(queues'[t]) <= 1
                         /\ \A i \in DOMAIN queues'[t] : queues'[t][i] <= changes
    BY <1>2 DEF HubInv, HubTypeOK
<1> QED
    BY <1>1, <1>3 DEF HubInv, HubTypeOK, HubKeeps

\* The sessions do not notice a connection.
LEMMA SocketLeavesSessions == SessionInv /\ HubKeeps /\ Others => SessionInv'
    BY DEF SessionInv, SessionTypeOK, HubKeeps, Others, session_vars

\* A step of the handler is given by what it makes of its connection and of its queue.
LEMMA SocketMove ==
  ASSUME IInv, NEW s \in Sockets, NEW r \in SocketRecords, SocketGood(r),
         socket' = [socket EXCEPT ![s] = r], HubKeeps, Others,
         subscribed' \subseteq Sockets,
         queues' = queues \/ queues' = [queues EXCEPT ![s] = <<>>]
  PROVE  IInv'
<1>1. HubInv' /\ SessionInv'
    BY QueueSteps, SocketLeavesSessions DEF IInv
<1>2. UNCHANGED <<changes, issued, sessions>>
    BY DEF HubKeeps, Others, session_vars
<1>3. SocketInv'
    BY <1>2, OneSocket DEF IInv
<1> QED
    BY <1>1, <1>3 DEF IInv

\* The end of a connection.
LEMMA LeaveStep == ASSUME IInv, NEW s \in Sockets, Leave(s) PROVE IInv'
<1>1. /\ socket' = [socket EXCEPT ![s] = NoSocket] /\ HubKeeps /\ Others
      /\ subscribed' = subscribed \ {s} /\ queues' = [queues EXCEPT ![s] = <<>>]
    BY DEF Leave
<1>2. subscribed' \subseteq Sockets
    BY <1>1 DEF IInv, HubInv, HubTypeOK
<1>3. NoSocket \in SocketRecords /\ SocketGood(NoSocket)
    BY HubAssumption, SessionAssumption
    DEF NoSocket, SocketRecords, SocketGood, IInv, HubInv, HubTypeOK, SessionInv, SessionTypeOK
<1> QED
    BY <1>1, <1>2, <1>3, SocketMove

\* A connection shows a snapshot only while its session lives.
LEMMA SocketSteps ==
  ASSUME IInv, NEW s \in Sockets, Client(s) \/ Endpoint(s)
  PROVE  IInv'
<1> DEFINE old == socket[s]
<1>0. /\ old \in SocketRecords /\ SocketGood(old) /\ socket \in [Sockets -> SocketRecords]
      /\ changes \in 0 .. MaxChanges /\ issued \in 0 .. MaxIssued
      /\ subscribed \subseteq Sockets /\ version \in 0 .. MaxChanges /\ version <= changes
    BY HubAssumption DEF IInv, HubInv, HubTypeOK, SessionInv, SessionTypeOK, SocketInv
<1>1. ASSUME NEW token \in 0 .. MaxIssued, Connect(s, token) PROVE IInv'
  <2> DEFINE r == [old EXCEPT !.pc = "accepting", !.token = token]
  <2>1. /\ token \in Live \cup {0} /\ old.pc = "none" /\ socket' = [socket EXCEPT ![s] = r]
        /\ HubKeeps /\ Others /\ UNCHANGED <<queues, subscribed>>
      BY <1>0, <1>1 DEF Connect, SocketAt, HubKeeps, hub_vars, SocketRecords
  <2>2. old = NoSocket
      BY <1>0, <2>1 DEF SocketGood
  <2>3. token <= issued
      BY <1>0, <2>1, TokensIssued DEF IInv, SessionInv
  <2>4. r \in SocketRecords
      BY <1>0 DEF SocketRecords
  <2>5. /\ r.pc = "accepting" /\ r.token = token
        /\ r.shown = 0 /\ r.got = 0 /\ r.since = 0
      BY <2>2 DEF NoSocket
  <2>6. SocketGood(r)
      BY <1>0, <2>3, <2>5 DEF SocketGood
  <2> HIDE DEF r
  <2> QED
      BY <1>0, <2>1, <2>4, <2>6, SocketMove
<1>2. ASSUME Subscribe(s) PROVE IInv'
  <2> DEFINE r == [old EXCEPT !.pc = "sending", !.shown = version, !.got = 0, !.due = FALSE]
  <2>1. /\ is_current(s) /\ socket' = [socket EXCEPT ![s] = r]
        /\ HubKeeps /\ Others /\ UNCHANGED queues /\ subscribed' = subscribed \cup {s}
      BY <1>0, <1>2 DEF Subscribe, Show
  <2>2. old.since = 0
      BY <1>0, <2>1 DEF SocketGood, is_current
  <2>3. r \in SocketRecords
    <3> DEFINE moved == [old EXCEPT !.pc = "sending", !.shown = version, !.got = 0]
    <3>1. 0 \in 0 .. MaxChanges /\ version \in 0 .. MaxChanges
        BY <1>0, HubAssumption DEF SocketRecords
    <3>2. moved \in SocketRecords
        BY <1>0, <3>1 DEF SocketRecords
    <3>3. r = [moved EXCEPT !.due = FALSE]
        BY <1>0 DEF SocketRecords
    <3> HIDE DEF moved, r
    <3> QED
        BY <3>2, <3>3 DEF SocketRecords
  <2>4. /\ r.pc = "sending" /\ r.shown = version /\ r.got = 0 /\ r.since = old.since
        /\ r.token = old.token
      BY <1>0 DEF SocketRecords
  <2>5. SocketGood(r)
      BY <1>0, <2>2, <2>4 DEF SocketGood
  <2> HIDE DEF r
  <2> QED
      BY <1>0, <2>1, <2>3, <2>5, SocketMove
<1>3. ASSUME Sent(s) PROVE IInv'
  <2> DEFINE r == [old EXCEPT !.pc = "waiting"]
  <2>1. /\ socket' = [socket EXCEPT ![s] = r]
        /\ HubKeeps /\ Others /\ UNCHANGED <<queues, subscribed>>
      BY <1>0, <1>3 DEF Sent, HubKeeps, hub_vars, SocketRecords
  <2>2. r \in SocketRecords /\ SocketGood(r)
      BY <1>0 DEF SocketRecords, SocketGood
  <2> HIDE DEF r
  <2> QED
      BY <1>0, <2>1, <2>2, SocketMove
<1>4. ASSUME Forward(s) PROVE IInv'
  <2> DEFINE r == [old EXCEPT !.pc = "sending", !.shown = old.got, !.got = 0, !.due = FALSE]
             w == [old EXCEPT !.pc = "waiting", !.due = FALSE]
  <2>1. /\ HubKeeps /\ Others /\ UNCHANGED <<queues, subscribed>> /\ ~MustLeave(s)
      BY <1>4 DEF Forward
  <2>2. CASE old.got # 0
    <3>1. socket' = [socket EXCEPT ![s] = r]
        BY <1>0, <1>4, <2>2 DEF Forward, Show
    <3>2. old.since = 0
        BY <1>0, <2>1, <2>2 DEF SocketGood, MustLeave, is_current
    <3>3. r \in SocketRecords
      <4> DEFINE moved == [old EXCEPT !.pc = "sending", !.shown = old.got, !.got = 0]
      <4>1. 0 \in 0 .. MaxChanges /\ old.got \in 0 .. MaxChanges
          BY <1>0, HubAssumption DEF SocketRecords
      <4>2. moved \in SocketRecords
          BY <1>0, <4>1 DEF SocketRecords
      <4>3. r = [moved EXCEPT !.due = FALSE]
          BY <1>0 DEF SocketRecords
      <4> HIDE DEF moved, r
      <4> QED
          BY <4>2, <4>3 DEF SocketRecords
    <3>4. /\ r.pc = "sending" /\ r.shown = old.got /\ r.got = 0 /\ r.since = old.since
          /\ r.token = old.token
        BY <1>0 DEF SocketRecords
    <3>5. SocketGood(r)
        BY <1>0, <3>2, <3>4 DEF SocketGood
    <3> HIDE DEF r
    <3> QED
        BY <1>0, <2>1, <3>1, <3>3, <3>5, SocketMove
  <2>3. CASE old.got = 0
    <3>1. socket' = [socket EXCEPT ![s] = w]
        BY <1>0, <1>4, <2>3 DEF Forward
    <3>2. w \in SocketRecords /\ SocketGood(w)
        BY <1>0 DEF SocketRecords, SocketGood
    <3> HIDE DEF w
    <3> QED
        BY <1>0, <2>1, <3>1, <3>2, SocketMove
  <2> QED
      BY <2>2, <2>3
<1>5. ASSUME NEW take \in BOOLEAN, NEW due \in BOOLEAN,
             NEW client \in {"none", "message", "disconnect"}, Wake(s, take, client, due)
      PROVE  IInv'
  <2> DEFINE head == IF take THEN Head(queues[s]) ELSE 0
             gone == (client = "disconnect")
             r == [old EXCEPT !.pc = "woken", !.got = head, !.gone = gone, !.due = due]
  <2>1. /\ socket' = [socket EXCEPT ![s] = r] /\ HubKeeps /\ Others /\ UNCHANGED subscribed
        /\ queues' = [queues EXCEPT ![s] = IF take THEN <<>> ELSE @]
      BY <1>0, <1>5 DEF Wake
  <2>2. head \in 0 .. MaxChanges /\ head <= changes
    <3>1. /\ queues[s] \in Seq(1 .. MaxChanges)
          /\ \A i \in DOMAIN queues[s] : queues[s][i] <= changes
        BY DEF IInv, HubInv, HubTypeOK
    <3>2. take => queues[s] # <<>>
        BY <1>5 DEF Wake
    <3>3. ASSUME take PROVE 1 \in DOMAIN queues[s] /\ head = queues[s][1]
        BY <3>1, <3>2, <3>3
    <3> HIDE DEF head
    <3>4. CASE take
        BY <1>0, <3>1, <3>3, <3>4, HubAssumption
    <3>5. CASE ~take
        BY <1>0, <3>5, HubAssumption DEF head
    <3> QED
        BY <3>4, <3>5
  <2>3. gone \in BOOLEAN
      BY Zenon
  <2>4. queues' = queues \/ queues' = [queues EXCEPT ![s] = <<>>]
      BY <2>1 DEF IInv, HubInv, HubTypeOK
  <2> HIDE DEF head, gone
  <2>5. r \in SocketRecords /\ SocketGood(r)
      BY <1>0, <2>2, <2>3 DEF SocketRecords, SocketGood
  <2> HIDE DEF r
  <2> QED
      BY <1>0, <2>1, <2>4, <2>5, SocketMove
<1>6. ASSUME Refuse(s) \/ SendFails(s) \/ Disconnect(s) PROVE IInv'
    BY <1>6, LeaveStep DEF Refuse, SendFails, Disconnect
<1> QED
    BY <1>1, <1>2, <1>3, <1>4, <1>5, <1>6 DEF Client, Endpoint, Serves, Revalidates

\* The invariant from which the theorems below follow is inductive: every step of a
\* thread, a request, a connection or an update keeps it.
THEOREM FrontInductive == Spec => []IInv
<1>1. ASSUME IInv, [Next]_vars PROVE IInv'
  <2>1. CASE HubStep
    <3>1. HubInv' /\ SessionInv' /\ SessionsFollow /\ UNCHANGED <<sessions, issued, socket>>
      <4>1. HubInv' /\ SessionInv' /\ SessionsFollow
          BY <1>1, <2>1, HubSteps, SessionInvSteps DEF IInv
      <4> QED
          BY <2>1, <4>1 DEF HubStep, session_vars, front_vars
    <3>2. changes \in Nat /\ changes' \in Nat /\ changes <= changes'
        BY <1>1, <2>1, <3>1, HubAssumption DEF IInv, HubInv, HubTypeOK, HubStep, Threads, Change, Snapshot,
           publish_threadsafe, publish, StopOld, StartOld
    <3>3. SocketInv'
        BY <1>1, <3>1, <3>2 DEF IInv, SocketInv, SocketGood, SocketRecords, Live, TokensOf
    <3> QED
        BY <3>1, <3>3 DEF IInv
  <2>2. CASE SessionStep
    <3>1. SessionInv' /\ SessionsFollow
        BY <1>1, <2>2, SessionInvSteps DEF IInv
    <3>2. UNCHANGED hub_vars /\ NoteRevocations
        BY <2>2 DEF SessionStep
    <3>3. SocketInv'
        BY <1>1, <3>1, <3>2, SocketsFollow DEF IInv, hub_vars
    <3>4. HubInv'
        BY <1>1, <3>2 DEF IInv, HubInv, HubTypeOK, hub_vars
    <3> QED
        BY <3>1, <3>3, <3>4 DEF IInv
  <2>3. ASSUME NEW s \in Sockets, Endpoint(s) \/ Client(s) PROVE IInv'
      BY <1>1, <2>3, SocketSteps
  <2>4. ASSUME NEW rotate \in BOOLEAN, SwapManager(rotate) PROVE IInv'
    <3>1. HubInv' /\ SessionInv'
        BY <1>1, <2>4, ReloadSteps, SessionInvSteps DEF IInv, SwapManager
    <3>2. UNCHANGED <<changes, issued, sessions, socket>>
        BY <2>4 DEF SwapManager, Swap, ChangeCredential, session_vars
    <3>3. SocketInv'
        BY <1>1, <3>2 DEF IInv, SocketInv, SocketGood, Live, TokensOf
    <3> QED
        BY <3>1, <3>3 DEF IInv
  <2>5. CASE EndReload
    <3>1. HubInv' /\ SessionInv' /\ SessionsFollow
        BY <1>1, <2>5, ReloadSteps, SessionInvSteps DEF IInv, EndReload
    <3>2. UNCHANGED changes /\ NoteRevocations
        BY <2>5 DEF EndReload, Reloaded
    <3>3. SocketInv'
        BY <1>1, <3>1, <3>2, SocketsFollow DEF IInv
    <3> QED
        BY <3>1, <3>3 DEF IInv
  <2>6. CASE UNCHANGED vars
      BY <1>1, <2>6 DEF vars, hub_vars, session_vars, front_vars, IInv, HubInv, HubTypeOK,
         SessionInv, SessionTypeOK, SocketInv, SocketGood, Live, TokensOf
  <2> QED
      BY <1>1, <2>1, <2>2, <2>3, <2>4, <2>5, <2>6 DEF Next
<1> QED
    BY <1>1, InitIInv, PTL DEF Spec

\* Every variable keeps its type.
THEOREM TypeCorrect == Spec => []TypeOK
<1>1. IInv => TypeOK
    BY DEF IInv, HubInv, SessionInv, SocketInv, TypeOK
<1> QED
    BY <1>1, FrontInductive, PTL

\* Outside of an update, the store holds sessions of the current credentials, and those
\* of logins that took the configuration before it was exchanged.
THEOREM SessionsCurrentAlways == Spec => []SessionsCurrent
<1>1. IInv => SessionsCurrent
    BY DEF IInv, SessionInv, SessionsCurrent
<1> QED
    BY <1>1, FrontInductive, PTL

\* A browser whose session has ended is sent no state that is newer than that.
THEOREM RevokedSeesNoLaterAlways == Spec => []RevokedSeesNoLater
<1>1. IInv => RevokedSeesNoLater
    BY DEF IInv, SocketInv, SocketGood, RevokedSeesNoLater
<1> QED
    BY <1>1, FrontInductive, PTL

(***************************************************************************)
(* The limiter, since the last success of the client.  A wrong credential  *)
(* is not counted only when the limit has been reached since the check,    *)
(* and then its thread is one of those that had passed the check before:   *)
(* after each counted one there are at most as many uncounted ones as      *)
(* threads.                                                                *)
(***************************************************************************)
\* The counted ones among the k-th to the i-th.
Counted(list, k, i) == {j \in k .. i : list[j]}
Count(list, k, i) == Cardinality(Counted(list, k, i))

\* Counted attempts pay for the others before them, back to any k.
Paid(list, n) ==
    \A i \in DOMAIN list : list[i] => \A k \in 1 .. i : i - k + 1 <= (n + 1) * Count(list, k, i)

\* The last counted attempt, 0 when there is none.
LastCounted(list, r) ==
    /\ r \in 0 .. Len(list)
    /\ r # 0 => list[r]
    /\ \A j \in r + 1 .. Len(list) : ~list[j]

\* The limit holds for what is counted; after the last counted attempt there are at most
\* as many others as threads, and at the limit those that still wait can only add theirs.
GuessInv ==
    /\ attempts <= MaxAttempts
    /\ Paid(guesses, Cardinality(Basics))
    /\ \E r \in 0 .. Len(guesses) :
          /\ LastCounted(guesses, r)
          /\ Len(guesses) - r <= Cardinality(Basics)
          /\ attempts = MaxAttempts =>
                Len(guesses) - r + Cardinality(basic) <= Cardinality(Basics)

\* Only finitely many attempts are counted.
LEMMA CountFinite ==
    ASSUME NEW list, NEW k \in Nat, NEW i \in Nat
    PROVE  IsFiniteSet(Counted(list, k, i)) /\ Count(list, k, i) \in Nat
<1>1. IsFiniteSet(k .. i)
    BY FS_Interval
<1>2. IsFiniteSet(Counted(list, k, i))
    BY <1>1, FS_Subset DEF Counted
<1> QED
    BY <1>2, FS_CardinalityType DEF Count

\* A longer stretch counts no fewer.
LEMMA CountGrows ==
    ASSUME NEW list, NEW k \in Nat, NEW i \in Nat, NEW m \in Nat, NEW l \in Nat,
           m <= k, i <= l
    PROVE  Count(list, k, i) <= Count(list, m, l)
<1>1. Counted(list, k, i) \subseteq Counted(list, m, l)
    BY DEF Counted
<1>2. IsFiniteSet(Counted(list, m, l))
    BY CountFinite
<1> QED
    BY <1>1, <1>2, FS_Subset DEF Count

\* A counted attempt counts one.
LEMMA CountOne ==
    ASSUME NEW list, NEW k \in Nat, NEW i \in Nat, k <= i + 1, list[i + 1]
    PROVE  Count(list, k, i + 1) = Count(list, k, i) + 1
<1>1. Counted(list, k, i + 1) = Counted(list, k, i) \cup {i + 1} /\ i + 1 \notin Counted(list, k, i)
    BY DEF Counted
<1>2. IsFiniteSet(Counted(list, k, i))
    BY CountFinite
<1> QED
    BY <1>1, <1>2, FS_AddElement DEF Count

\* What is counted depends on the stretch only.
LEMMA CountSame ==
    ASSUME NEW list, NEW other, NEW k, NEW i, \A j \in k .. i : list[j] = other[j]
    PROVE  Count(list, k, i) = Count(other, k, i)
<1>1. Counted(list, k, i) = Counted(other, k, i)
    BY DEF Counted
<1> QED
    BY <1>1 DEF Count

\* When the oldest attempt has left, the others count the same.
LEMMA CountShift ==
    ASSUME NEW list \in Seq(BOOLEAN), list # <<>>, NEW k \in 1 .. Len(list),
           NEW i \in 0 .. Len(list) - 1
    PROVE  Count(Tail(list), k, i) = Count(list, k + 1, i + 1)
<1> DEFINE S == Counted(Tail(list), k, i)
           R == Counted(list, k + 1, i + 1)
           f == [j \in S |-> j + 1]
<1>1. \A j \in 1 .. Len(list) - 1 : Tail(list)[j] = list[j + 1]
    OBVIOUS
<1>2. \A j \in S : j \in Nat /\ j + 1 \in R
    BY <1>1 DEF Counted
<1>3. ASSUME NEW x \in R PROVE x - 1 \in S /\ x - 1 + 1 = x
  <2>1. x \in k + 1 .. i + 1 /\ list[x]
    BY DEF Counted
  <2>2. x - 1 \in k .. i /\ x - 1 \in 1 .. Len(list) - 1 /\ x - 1 + 1 = x
    BY <2>1
  <2>3. Tail(list)[x - 1] = list[x]
    BY <1>1, <2>2
  <2> QED
    BY <2>1, <2>2, <2>3 DEF Counted
<1>4. IsFiniteSet(S)
    BY k \in Nat, i \in Nat, CountFinite
<1> HIDE DEF S, R
<1>5. f \in Bijection(S, R)
  <2>1. f \in [S -> R]
    BY <1>2
  <2>2. \A a, b \in S : f[a] = f[b] => a = b
    BY <1>2
  <2>3. \A x \in R : \E a \in S : f[a] = x
    BY <1>3
  <2> QED
    BY <2>1, <2>2, <2>3 DEF Bijection, Injection, Surjection, IsInjective
<1>6. ExistsBijection(S, R)
    BY <1>5 DEF ExistsBijection
<1> QED
    BY <1>4, <1>6, FS_Bijection DEF Count, S, R

\* The limiter counts from the oldest attempt on.
LEMMA AttemptsCounted ==
    ASSUME NEW list \in Seq(BOOLEAN)
    PROVE  /\ Cardinality({i \in DOMAIN list : list[i]}) = Count(list, 1, Len(list))
           /\ DOMAIN list = 1 .. Len(list) /\ Len(list) \in Nat
           /\ \A r \in 0 .. Len(list) : /\ Count(list, 1, r) \in Nat
                                        /\ Count(list, 1, r) <= Count(list, 1, Len(list))
<1>1. DOMAIN list = 1 .. Len(list) /\ Len(list) \in Nat
    OBVIOUS
<1>2. ASSUME NEW r \in 0 .. Len(list)
      PROVE  Count(list, 1, r) \in Nat /\ Count(list, 1, r) <= Count(list, 1, Len(list))
    BY <1>1, CountFinite, CountGrows
<1> QED
    BY <1>1, <1>2 DEF Count, Counted
\* An attempt that is not counted leaves what was paid for.
LEMMA PaidUncounted ==
    ASSUME NEW list \in Seq(BOOLEAN), NEW n \in Nat, Paid(list, n)
    PROVE  Paid(Append(list, FALSE), n)
<1> DEFINE more == Append(list, FALSE)
<1>1. /\ DOMAIN more = 1 .. Len(list) + 1 /\ DOMAIN list = 1 .. Len(list) /\ Len(list) \in Nat
      /\ more[Len(list) + 1] = FALSE
      /\ \A j \in 1 .. Len(list) : more[j] = list[j]
    OBVIOUS
<1> HIDE DEF more
<1>2. SUFFICES ASSUME NEW i \in DOMAIN more, more[i], NEW k \in 1 .. i
               PROVE  i - k + 1 <= (n + 1) * Count(more, k, i)
    BY DEF Paid, more
<1>3. i \in DOMAIN list /\ list[i]
    BY <1>1, <1>2
<1>4. Count(more, k, i) = Count(list, k, i)
    BY <1>1, <1>3, CountSame
<1> QED
    BY <1>2, <1>3, <1>4 DEF Paid

\* A counted attempt pays for the uncounted ones after the last counted one.
LEMMA PaidCounted ==
    ASSUME NEW list \in Seq(BOOLEAN), NEW n \in Nat, Paid(list, n),
           NEW r, LastCounted(list, r), Len(list) - r <= n
    PROVE  Paid(Append(list, TRUE), n)
<1> DEFINE more == Append(list, TRUE)
           L == Len(list)
<1>1. /\ DOMAIN more = 1 .. L + 1 /\ DOMAIN list = 1 .. L /\ L \in Nat
      /\ more[L + 1] = TRUE
      /\ \A j \in 1 .. L : more[j] = list[j]
    OBVIOUS
<1>r. r \in 0 .. L /\ (r # 0 => list[r])
    BY DEF LastCounted
<1> HIDE DEF more, L
<1>2. SUFFICES ASSUME NEW i \in DOMAIN more, more[i], NEW k \in 1 .. i
               PROVE  i - k + 1 <= (n + 1) * Count(more, k, i)
    BY DEF Paid, more
<1>3. CASE i \in 1 .. L
  <2>1. Count(more, k, i) = Count(list, k, i)
      BY <1>1, <1>3, CountSame
  <2> QED
      BY <1>1, <1>2, <1>3, <2>1 DEF Paid
<1>4. CASE i = L + 1
  <2> DEFINE t == Count(list, k, L)
             u == Count(list, k, r)
  <2>1. k \in Nat /\ L \in Nat /\ r \in Nat /\ k <= L + 1 /\ r <= L
      BY <1>1, <1>4, <1>r
  <2>2. t \in Nat /\ u \in Nat /\ u <= t
      BY <2>1, CountFinite, CountGrows
  <2>3. Count(more, k, L) = t
      BY <1>1, CountSame
  <2>4. Count(more, k, i) = t + 1
      BY <1>1, <1>4, <2>1, <2>3, CountOne
  <2>5. CASE k <= r
    <3>1. r \in DOMAIN list /\ list[r] /\ k \in 1 .. r
        BY <1>1, <1>r, <2>5
    <3>2. r - k + 1 <= (n + 1) * u
        BY <3>1 DEF Paid
    <3> HIDE DEF t, u
    <3>3. (n + 1) * u <= (n + 1) * t
        BY <2>2
    <3>4. (n + 1) * (t + 1) = (n + 1) * t + (n + 1)
        BY <2>2
    <3>5. (n + 1) * t \in Nat /\ (n + 1) * u \in Nat
        BY <2>2
    <3>6. L - r <= n
        BY DEF L
    <3> DEFINE p == (n + 1) * t
               q == (n + 1) * u
    <3>7. r - k + 1 <= q /\ q <= p /\ p \in Nat /\ q \in Nat /\ (n + 1) * (t + 1) = p + (n + 1)
        BY <3>2, <3>3, <3>4, <3>5
    <3> HIDE DEF p, q
    <3>8. (L + 1) - k + 1 <= (n + 1) * (t + 1)
        BY <2>1, <3>6, <3>7
    <3> QED
        BY <1>4, <2>4, <3>8 DEF t
  <2>6. CASE k > r
    <3> HIDE DEF t, u
    <3>1. (n + 1) * (t + 1) = (n + 1) * t + (n + 1) /\ (n + 1) * t \in Nat
        BY <2>2
    <3>2. L - r <= n
        BY DEF L
    <3> DEFINE p == (n + 1) * t
    <3>3. p \in Nat /\ (n + 1) * (t + 1) = p + (n + 1)
        BY <3>1
    <3> HIDE DEF p
    <3>4. (L + 1) - k + 1 <= (n + 1) * (t + 1)
        BY <2>1, <2>6, <3>2, <3>3
    <3> QED
        BY <1>4, <2>4, <3>4
  <2> QED
      BY <2>1, <2>5, <2>6
<1> QED
    BY <1>1, <1>2, <1>3, <1>4

\* When the oldest attempt has left, the others are still paid for.
LEMMA PaidTail ==
    ASSUME NEW list \in Seq(BOOLEAN), list # <<>>, NEW n \in Nat, Paid(list, n)
    PROVE  Paid(Tail(list), n)
<1> DEFINE rest == Tail(list)
           L == Len(list)
<1>1. /\ DOMAIN list = 1 .. L /\ L \in Nat /\ L >= 1
      /\ DOMAIN rest = 1 .. L - 1
      /\ \A j \in 1 .. L - 1 : rest[j] = list[j + 1]
    OBVIOUS
<1>2. \A k \in 1 .. L : \A i \in 0 .. L - 1 : Count(rest, k, i) = Count(list, k + 1, i + 1)
    BY CountShift
<1> HIDE DEF rest, L
<1>3. SUFFICES ASSUME NEW i \in DOMAIN rest, rest[i], NEW k \in 1 .. i
               PROVE  i - k + 1 <= (n + 1) * Count(rest, k, i)
    BY DEF Paid, rest
<1>4. i + 1 \in DOMAIN list /\ list[i + 1] /\ k + 1 \in 1 .. i + 1
    BY <1>1, <1>3
<1>5. (i + 1) - (k + 1) + 1 <= (n + 1) * Count(list, k + 1, i + 1)
    BY <1>4 DEF Paid
<1>6. Count(rest, k, i) = Count(list, k + 1, i + 1)
    BY <1>1, <1>2, <1>3
<1>7. (i + 1) - (k + 1) + 1 = i - k + 1
    BY <1>1, <1>3
<1> QED
    BY <1>5, <1>6, <1>7
\* What the limiter does when the front does a step.
LimiterMoves ==
    \/ UNCHANGED <<guesses, basic>>
    \/ guesses' = <<>> /\ basic' \subseteq basic
    \/ guesses # <<>> /\ guesses' = Tail(guesses) /\ UNCHANGED basic
    \/ check /\ guesses' = Append(guesses, TRUE) /\ basic' \subseteq basic
    \/ check /\ UNCHANGED guesses
    \/ /\ ~check /\ guesses' = Append(guesses, FALSE)
       /\ \E b \in basic : basic' = basic \ {b}

\* Each action of the front is one of these for the limiter.
LEMMA FrontMovesLimiter ==
    ASSUME IInv, [Next]_vars
    PROVE  LimiterMoves
<1>1. attempts \in Nat /\ MaxAttempts \in Nat
  <2>1. guesses \in Seq(BOOLEAN)
      BY DEF IInv, SessionInv, SessionTypeOK
  <2>2. Len(guesses) \in 0 .. Len(guesses)
      BY <2>1
  <2> QED
      BY <2>1, <2>2, AttemptsCounted, SessionAssumption DEF attempts
<1>2. /\ check => check = TRUE
      /\ ~check => check = FALSE
    BY <1>1 DEF check
<1>3. CASE UNCHANGED <<guesses, basic>>
    BY <1>3 DEF LimiterMoves
<1>4. CASE HubStep \/ UNCHANGED vars
    BY <1>3, <1>4 DEF HubStep, vars, session_vars
<1>5. CASE SessionStep
  <2>1. CASE Expire
      BY <1>3, <2>1 DEF Expire
  <2>2. ASSUME NEW l \in Logins, LoginStep(l) PROVE LimiterMoves
    <3>1. CASE LoginBegins(l)
        BY <1>3, <3>1 DEF LoginBegins
    <3>2. CASE LoginFails(l)
      <4>1. CASE check
          BY <1>2, <3>2, <4>1 DEF LoginFails, record_failure, LimiterMoves
      <4>2. CASE ~check
          BY <1>3, <3>2, <4>2 DEF LoginFails
      <4> QED
          BY <4>1, <4>2
    <3>3. ASSUME NEW cookie, LoginSucceeds(l, cookie) PROVE LimiterMoves
        BY <3>3 DEF LoginSucceeds, reset_on_success, LimiterMoves
    <3> QED
        BY <2>2, <3>1, <3>2, <3>3 DEF LoginStep
  <2>3. ASSUME NEW t \in Live, logout(t) PROVE LimiterMoves
      BY <1>3, <2>3 DEF logout
  <2>4. CASE LimiterStep
    <3>1. CASE WindowPasses
        BY <3>1 DEF WindowPasses, LimiterMoves
    <3>2. ASSUME NEW b \in Basics, BasicChecked(b) PROVE LimiterMoves
        BY <3>2 DEF BasicChecked, LimiterMoves
    <3>3. ASSUME NEW b \in Basics, BasicCompared(b) PROVE LimiterMoves
      <4>1. b \in basic /\ basic' = basic \ {b}
          BY <3>3 DEF BasicCompared
      <4>2. CASE reset_on_success
          BY <4>1, <4>2 DEF reset_on_success, LimiterMoves
      <4>3. CASE record_failure /\ check
          BY <1>2, <4>1, <4>3 DEF record_failure, LimiterMoves
      <4>4. CASE record_failure /\ ~check
          BY <1>2, <4>1, <4>4 DEF record_failure, LimiterMoves
      <4> QED
          BY <3>3, <4>2, <4>3, <4>4 DEF BasicCompared
    <3> QED
        BY <2>4, <3>1, <3>2, <3>3 DEF LimiterStep
  <2> QED
      BY <1>5, <2>1, <2>2, <2>3, <2>4 DEF SessionStep
<1>6. ASSUME NEW s \in Sockets, Endpoint(s) \/ Client(s) PROVE LimiterMoves
  <2>1. CASE Endpoint(s)
      BY <1>3, <2>1 DEF Endpoint, Serves, Revalidates, Subscribe, Refuse, Sent, Disconnect,
                        Forward, Wake, Leave, Others, session_vars
  <2>2. CASE Client(s)
      BY <1>3, <2>2 DEF Client, Connect, SendFails, Wake, Leave, Others, session_vars
  <2> QED
      BY <1>6, <2>1, <2>2
<1>7. ASSUME NEW rotate \in BOOLEAN, SwapManager(rotate) PROVE LimiterMoves
    BY <1>3, <1>7 DEF SwapManager, ChangeCredential, session_vars
<1>8. CASE EndReload
    BY <1>3, <1>8 DEF EndReload, replace_all, session_vars
<1> QED
    BY <1>4, <1>5, <1>6, <1>7, <1>8 DEF Next

\* No step takes the attempts beyond what the threads account for.
LEMMA GuessStep ==
    ASSUME IInv, IInv', GuessInv, LimiterMoves
    PROVE  GuessInv'
<1> DEFINE N == Cardinality(Basics)
           L == Len(guesses)
           A(list) == Cardinality({i \in DOMAIN list : list[i]})
           Ends(list, waiting, r) ==
               /\ LastCounted(list, r)
               /\ Len(list) - r <= N
               /\ A(list) = MaxAttempts => Len(list) - r + Cardinality(waiting) <= N
           Good(list, waiting) ==
               /\ A(list) <= MaxAttempts
               /\ Paid(list, N)
               /\ \E r \in 0 .. Len(list) : Ends(list, waiting, r)
<1>1. /\ guesses \in Seq(BOOLEAN) /\ guesses' \in Seq(BOOLEAN)
      /\ basic \subseteq Basics /\ basic' \subseteq Basics
    BY DEF IInv, SessionInv, SessionTypeOK
<1>2. /\ IsFiniteSet(Basics) /\ N \in Nat /\ MaxAttempts \in Nat \ {0}
      /\ L \in Nat /\ DOMAIN guesses = 1 .. L
    BY <1>1, SessionAssumption, FS_CardinalityType
<1>3. ASSUME NEW part, part \subseteq Basics
      PROVE  IsFiniteSet(part) /\ Cardinality(part) \in Nat /\ Cardinality(part) <= N
    BY <1>2, <1>3, FS_Subset, FS_CardinalityType
<1>4. \A list \in Seq(BOOLEAN) : A(list) = Count(list, 1, Len(list)) /\ A(list) \in Nat
  <2> SUFFICES ASSUME NEW list \in Seq(BOOLEAN)
               PROVE  A(list) = Count(list, 1, Len(list)) /\ A(list) \in Nat
      OBVIOUS
  <2>1. Len(list) \in 0 .. Len(list)
      OBVIOUS
  <2> QED
      BY <2>1, AttemptsCounted
<1>5. Good(guesses, basic) /\ (check <=> A(guesses) < MaxAttempts)
    BY DEF GuessInv, attempts, check
<1>6. SUFFICES Good(guesses', basic')
    BY DEF GuessInv, attempts
<1>7. PICK rest, waiting : rest = guesses' /\ waiting = basic'
    OBVIOUS
<1>8. rest \in Seq(BOOLEAN) /\ waiting \subseteq Basics
    BY <1>1, <1>7
<1> HIDE DEF N, A
<1>9. PICK r \in 0 .. L : Ends(guesses, basic, r)
    BY <1>5
<1>10. SUFFICES Good(rest, waiting)
    BY <1>7
<1>11. CASE rest = guesses /\ waiting = basic
    BY <1>5, <1>11
<1>12. CASE rest = <<>>
  <2>1. A(rest) = 0
    <3>1. {i \in DOMAIN rest : rest[i]} = {}
        BY <1>12
    <3> QED
        BY <3>1, FS_EmptySet DEF A
  <2>2. Paid(rest, N)
      BY <1>12 DEF Paid
  <2>3. Ends(rest, waiting, 0)
      BY <1>2, <1>12, <2>1 DEF LastCounted
  <2> QED
      BY <1>2, <1>12, <2>1, <2>2, <2>3
<1>13. CASE check /\ rest = guesses
  <2>1. A(guesses) < MaxAttempts
      BY <1>5, <1>13
  <2>2. Ends(rest, waiting, r)
      BY <1>2, <1>4, <1>1, <1>9, <1>13, <2>1
  <2> QED
      BY <1>5, <1>9, <1>13, <2>2
<1>14. CASE check /\ rest = Append(guesses, TRUE)
  <2>1. /\ Len(rest) = L + 1 /\ rest[L + 1] = TRUE
        /\ \A j \in 1 .. L : rest[j] = guesses[j]
      BY <1>1, <1>14
  <2>2. A(rest) = A(guesses) + 1
    <3>1. Count(rest, 1, L) = Count(guesses, 1, L)
        BY <2>1, CountSame
    <3>2. Count(rest, 1, L + 1) = Count(rest, 1, L) + 1
        BY <1>2, <2>1, CountOne
    <3> QED
        BY <1>1, <1>4, <1>8, <2>1, <3>1, <3>2
  <2>3. A(rest) <= MaxAttempts
    <3>1. A(guesses) < MaxAttempts /\ A(guesses) \in Nat /\ MaxAttempts \in Nat
        BY <1>1, <1>2, <1>4, <1>5, <1>14
    <3> QED
        BY <2>2, <3>1
  <2>4. Paid(rest, N)
      BY <1>1, <1>2, <1>5, <1>9, <1>14, PaidCounted
  <2>5. Ends(rest, waiting, L + 1)
    <3>1. LastCounted(rest, L + 1)
        BY <1>2, <2>1 DEF LastCounted
    <3>2. Cardinality(waiting) \in Nat /\ Cardinality(waiting) <= N
        BY <1>3, <1>8
    <3> QED
        BY <1>2, <2>1, <3>1, <3>2
  <2> QED
      BY <1>2, <2>1, <2>3, <2>4, <2>5
<1>15. CASE /\ ~check /\ rest = Append(guesses, FALSE)
            /\ \E b \in basic : waiting = basic \ {b}
  <2>1. /\ Len(rest) = L + 1 /\ rest[L + 1] = FALSE
        /\ \A j \in 1 .. L : rest[j] = guesses[j]
      BY <1>1, <1>15
  <2>2. A(rest) = A(guesses)
    <3>1. {i \in DOMAIN rest : rest[i]} = {i \in DOMAIN guesses : guesses[i]}
        BY <1>1, <1>2, <1>8, <2>1
    <3> QED
        BY <3>1 DEF A
  <2>3. A(guesses) = MaxAttempts
      BY <1>1, <1>2, <1>4, <1>5, <1>15
  <2>4. Cardinality(waiting) = Cardinality(basic) - 1 /\ Cardinality(basic) \in Nat
    <3>1. PICK b \in basic : waiting = basic \ {b}
        BY <1>15
    <3>2. IsFiniteSet(basic)
        BY <1>1, <1>3
    <3> QED
        BY <3>1, <3>2, FS_RemoveElement, FS_CardinalityType
  <2>5. Paid(rest, N)
      BY <1>1, <1>2, <1>5, <1>15, PaidUncounted
  <2>6. LastCounted(rest, r)
    <3>1. r \in 0 .. Len(rest)
        BY <1>2, <1>9, <2>1
    <3>2. r # 0 => rest[r]
        BY <1>2, <1>9, <2>1 DEF LastCounted
    <3>3. \A j \in r + 1 .. Len(rest) : ~rest[j]
        BY <1>2, <1>9, <2>1 DEF LastCounted
    <3> QED
        BY <3>1, <3>2, <3>3 DEF LastCounted
  <2>7. L - r + Cardinality(basic) <= N
      BY <1>9, <2>3
  <2>8. Cardinality(waiting) \in Nat
      BY <1>3, <1>8
  <2>9. Len(rest) - r <= N /\ Len(rest) - r + Cardinality(waiting) <= N
      BY <1>2, <1>9, <2>1, <2>4, <2>7, <2>8
  <2>10. Ends(rest, waiting, r) /\ r \in 0 .. Len(rest)
      BY <2>6, <2>9 DEF LastCounted
  <2> QED
      BY <1>2, <2>2, <2>3, <2>5, <2>10
<1>16. CASE guesses # <<>> /\ rest = Tail(guesses) /\ waiting = basic
  <2>1. /\ Len(rest) = L - 1 /\ L >= 1
        /\ \A j \in 1 .. L - 1 : rest[j] = guesses[j + 1]
      BY <1>1, <1>16
  <2>2. A(rest) <= A(guesses)
    <3>1. Count(rest, 1, L - 1) = Count(guesses, 2, L)
      <4>1. 1 \in 1 .. L /\ L - 1 \in 0 .. L - 1 /\ 1 + 1 = 2 /\ (L - 1) + 1 = L
          BY <1>2, <2>1
      <4>2. Count(Tail(guesses), 1, L - 1) = Count(guesses, 1 + 1, (L - 1) + 1)
          BY <1>1, <1>16, <4>1, CountShift
      <4> QED
          BY <1>16, <4>1, <4>2
    <3>2. Count(guesses, 2, L) <= Count(guesses, 1, L)
        BY <1>2, CountGrows
    <3> QED
        BY <1>1, <1>4, <1>8, <2>1, <3>1, <3>2
  <2>3. Paid(rest, N)
      BY <1>1, <1>2, <1>5, <1>16, PaidTail
  <2>4. CASE r = 0
    <3>1. {i \in DOMAIN guesses : guesses[i]} = {}
        BY <1>2, <1>9, <2>4 DEF LastCounted
    <3>2. A(guesses) = 0 /\ A(rest) # MaxAttempts
      <4>1. A(guesses) = 0
          BY <3>1, FS_EmptySet DEF A
      <4>2. A(rest) \in Nat
          BY <1>4, <1>8
      <4> QED
          BY <1>2, <2>2, <4>1, <4>2
    <3>3. \A j \in 1 .. L : ~guesses[j]
        BY <1>9, <2>4 DEF LastCounted
    <3>4. LastCounted(rest, 0)
        BY <1>2, <2>1, <3>3 DEF LastCounted
    <3>5. Ends(rest, waiting, 0)
        BY <1>2, <1>9, <2>1, <2>4, <3>2, <3>4
    <3> QED
        BY <1>1, <1>2, <1>4, <1>5, <1>8, <2>1, <2>2, <2>3, <3>5
  <2>5. CASE r # 0
    <3>1. LastCounted(rest, r - 1)
      <4>1. r - 1 # 0 => rest[r - 1]
          BY <1>2, <1>9, <2>1, <2>5 DEF LastCounted
      <4>2. ASSUME NEW j \in (r - 1) + 1 .. Len(rest) PROVE ~rest[j]
        <5>1. j \in 1 .. L - 1 /\ j + 1 \in r + 1 .. L
            BY <1>2, <1>9, <2>1, <2>5
        <5> QED
            BY <1>9, <2>1, <5>1 DEF LastCounted
      <4> QED
          BY <1>2, <1>9, <2>1, <2>5, <4>1, <4>2 DEF LastCounted
    <3>2. A(rest) = MaxAttempts => A(guesses) = MaxAttempts
        BY <1>1, <1>2, <1>4, <1>5, <1>8, <2>2
    <3>3. Len(rest) - (r - 1) = L - r
        BY <1>2, <1>9, <2>1
    <3>4. Ends(rest, waiting, r - 1)
        BY <1>9, <1>16, <3>1, <3>2, <3>3
    <3>5. A(rest) <= MaxAttempts
        BY <1>1, <1>2, <1>4, <1>5, <1>8, <2>2
    <3>6. r - 1 \in 0 .. Len(rest)
        BY <1>2, <1>9, <2>1, <2>5
    <3> QED
        BY <2>3, <3>4, <3>5, <3>6
  <2> QED
      BY <2>4, <2>5
<1> QED
    BY <1>7, <1>11, <1>12, <1>13, <1>14, <1>15, <1>16 DEF LimiterMoves

\* The invariant of the limiter, between any two successes, holds always.
THEOREM GuessInductive == Spec => []GuessInv
<1>1. Init /\ IInv => GuessInv
  <2> SUFFICES ASSUME Init, IInv PROVE GuessInv
      OBVIOUS
  <2>1. guesses = <<>> /\ basic = {} /\ Cardinality(Basics) \in Nat /\ MaxAttempts \in Nat \ {0}
      BY SessionAssumption, FS_CardinalityType DEF Init, SessionInit
  <2>2. attempts = 0
    <3>1. {i \in DOMAIN guesses : guesses[i]} = {}
        BY <2>1
    <3> QED
        BY <3>1, FS_EmptySet DEF attempts
  <2>3. LastCounted(guesses, 0) /\ Paid(guesses, Cardinality(Basics)) /\ Len(guesses) = 0
      BY <2>1 DEF LastCounted, Paid
  <2> QED
      BY <2>1, <2>2, <2>3 DEF GuessInv
<1>2. IInv /\ IInv' /\ GuessInv /\ [Next]_vars => GuessInv'
    BY FrontMovesLimiter, GuessStep
<1> QED
    BY <1>1, <1>2, FrontInductive, PTL DEF Spec

\* However the threads of one client address interleave, since its last success
\* (reset_on_success) at most one request per thread slips through after each counted
\* attempt of the window.
THEOREM GuessesBoundedAlways == Spec => []GuessesBounded
<1>1. IInv /\ GuessInv => GuessesBounded
  <2> SUFFICES ASSUME IInv, GuessInv PROVE GuessesBounded
      OBVIOUS
  <2> DEFINE N == Cardinality(Basics)
             L == Len(guesses)
  <2>1. /\ guesses \in Seq(BOOLEAN) /\ L \in Nat /\ DOMAIN guesses = 1 .. L
        /\ N \in Nat /\ MaxAttempts \in Nat
      BY SessionAssumption, FS_CardinalityType DEF IInv, SessionInv, SessionTypeOK
  <2>2. PICK r \in 0 .. L : LastCounted(guesses, r) /\ L - r <= N
      BY DEF GuessInv
  <2>3. Count(guesses, 1, r) \in Nat /\ Count(guesses, 1, r) <= MaxAttempts
    <3>1. /\ Count(guesses, 1, r) \in Nat /\ Count(guesses, 1, r) <= Count(guesses, 1, L)
          /\ attempts = Count(guesses, 1, L)
        BY <2>1, AttemptsCounted DEF attempts
    <3>2. Count(guesses, 1, L) \in Nat /\ attempts <= MaxAttempts
        BY <2>1, CountFinite DEF GuessInv
    <3> QED
        BY <2>1, <3>1, <3>2
  <2>4. r <= (N + 1) * Count(guesses, 1, r)
    <3>1. CASE r = 0
        BY <2>1, <2>3, <3>1
    <3>2. CASE r # 0
      <4>1. r \in DOMAIN guesses /\ guesses[r] /\ 1 \in 1 .. r
          BY <2>1, <2>2, <3>2 DEF LastCounted
      <4>2. r - 1 + 1 <= (N + 1) * Count(guesses, 1, r)
          BY <4>1 DEF GuessInv, Paid
      <4> QED
          BY <4>2
    <3> QED
        BY <3>1, <3>2
  <2> DEFINE t == Count(guesses, 1, r)
  <2> HIDE DEF N, L, t
  <2>5. t \in Nat /\ t <= MaxAttempts /\ r <= (N + 1) * t
      BY <2>3, <2>4 DEF t
  <2>6. (N + 1) * t <= (N + 1) * MaxAttempts
      BY <2>1, <2>5
  <2>7. (N + 1) * MaxAttempts + N = MaxAttempts + (MaxAttempts + 1) * N
      BY <2>1
  <2>8. (N + 1) * t \in Nat /\ (N + 1) * MaxAttempts \in Nat
      BY <2>1, <2>5
  <2>9. L <= (N + 1) * MaxAttempts + N
      BY <2>1, <2>2, <2>5, <2>6, <2>8
  <2> QED
      BY <2>7, <2>9 DEF GuessesBounded, N, L
<1> QED
    BY <1>1, FrontInductive, GuessInductive, PTL
=============================================================================
