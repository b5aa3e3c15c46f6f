---------------------------- MODULE WebSessions -----------------------------
(***************************************************************************)
(* Sessions and logins: SessionStore, LoginRateLimiter and their users in  *)
(* app/web.py, and the handlers login, logout and the end of               *)
(* update_admin_config in app/main.py.                                     *)
(*                                                                         *)
(* User name and password are a number, that of the update that set them.  *)
(* All sessions live equally long, so that the sessions in the order in    *)
(* which they were issued are also in the order of their expiry.  The      *)
(* rate limit is that of one client address; the counters of two addresses *)
(* are separate as long as there is room for both.                         *)
(***************************************************************************)
EXTENDS Naturals, FiniteSets, SequencesExt

CONSTANTS
    Logins,       \* requests to /api/login, on the loop
    Basics,       \* requests with Basic credentials, on threads of the pool
    MaxSessions,  \* SessionStore.max_sessions
    MaxIssued,    \* bound on the tokens of one behaviour
    MaxAttempts   \* LoginRateLimiter.max_attempts

ASSUME SessionAssumption ==
    /\ MaxSessions \in Nat \ {0}
    /\ MaxIssued \in Nat
    /\ MaxAttempts \in Nat \ {0}
    /\ IsFiniteSet(Basics)

VARIABLES
    credential,  \* app.state.config.web: user name and password
    sessions,    \* SessionStore._sessions, the oldest first
    issued,      \* number of the last token
    login,       \* per login: the configuration it holds, 0 when there is no request
    basic,       \* Basic requests between check and compare
    guesses      \* wrong credentials of the window since the last success, oldest
                 \* first: was it counted?

session_vars == <<credential, sessions, issued, login, basic, guesses>>

\* under: the credential a session was issued for; slow: it was an old one by then.
Session(token, config) == [token |-> token, under |-> config, slow |-> config # credential]
TokensOf(list) == {list[i].token : i \in DOMAIN list}
Live == TokensOf(sessions)

(***************************************************************************)
(* LoginRateLimiter.                                                       *)
(***************************************************************************)
attempts == Cardinality({i \in DOMAIN guesses : guesses[i]})
check == attempts < MaxAttempts
record_failure == guesses' = Append(guesses, check)

\* A success clears the counter; what was presented before it counts no longer.
reset_on_success == guesses' = <<>>

\* The oldest attempt leaves the window.
WindowPasses ==
    /\ guesses # <<>>
    /\ guesses' = Tail(guesses)
    /\ UNCHANGED <<credential, sessions, issued, login, basic>>

\* Mutation: the check counts only what another thread has not begun.
BasicUnchecked(b) ==
    /\ b \notin basic
    /\ basic' = basic \cup {b}
    /\ UNCHANGED <<credential, sessions, issued, login, guesses>>

\* _request_user on a thread of the pool: the check ...
BasicChecked(b) ==
    /\ b \notin basic
    /\ check
    /\ basic' = basic \cup {b}
    /\ UNCHANGED <<credential, sessions, issued, login, guesses>>

\* ... and, after other threads may have run, the comparison.
BasicCompared(b) ==
    /\ b \in basic
    /\ basic' = basic \ {b}
    /\ record_failure \/ reset_on_success
    /\ UNCHANGED <<credential, sessions, issued, login>>

(***************************************************************************)
(* SessionStore.                                                           *)
(***************************************************************************)
\* Mutation: a full store grows.
issue_without_limit(list, session) == Append(list, session)

issue(list, session) ==
    Append(IF Len(list) >= MaxSessions THEN Tail(list) ELSE list, session)

revoke(list, token) ==
    IF token \in TokensOf(list)
    THEN RemoveAt(list, CHOOSE i \in DOMAIN list : list[i].token = token)
    ELSE list

Expire ==
    /\ sessions # <<>>
    /\ sessions' = Tail(sessions)
    /\ UNCHANGED <<credential, issued, login, basic, guesses>>

(***************************************************************************)
(* The handlers.                                                           *)
(***************************************************************************)
\* login takes the configuration before it awaits the body.
LoginBegins(l) ==
    /\ login[l] = 0
    /\ login' = [login EXCEPT ![l] = credential]
    /\ UNCHANGED <<credential, sessions, issued, basic, guesses>>

LoginEnds(l) == login[l] # 0 /\ login' = [login EXCEPT ![l] = 0]

LoginFails(l) ==
    /\ LoginEnds(l)
    /\ IF check THEN record_failure ELSE UNCHANGED guesses
    /\ UNCHANGED <<credential, sessions, issued, basic>>

NextToken == issued < MaxIssued /\ issued' = issued + 1

\* The credentials are those of the configuration the handler holds; the session of
\* the cookie makes room for the new one.
LoginSucceeds(l, cookie) ==
    /\ LoginEnds(l)
    /\ check
    /\ NextToken
    /\ reset_on_success
    /\ sessions' = issue(revoke(sessions, cookie), Session(issued', login[l]))
    /\ UNCHANGED <<credential, basic>>

logout(token) ==
    /\ token \in Live
    /\ sessions' = revoke(sessions, token)
    /\ UNCHANGED <<credential, issued, login, basic, guesses>>

\* An update has set other credentials ...
ChangeCredential ==
    /\ credential' = credential + 1
    /\ UNCHANGED <<sessions, issued, login, basic, guesses>>

\* ... and at its end gives its client the only session.
replace_all ==
    /\ NextToken
    /\ sessions' = <<Session(issued', credential)>>
    /\ UNCHANGED <<credential, login, basic, guesses>>

SessionInit ==
    /\ credential = 1
    /\ sessions = <<>>
    /\ issued = 0
    /\ login = [l \in Logins |-> 0]
    /\ basic = {}
    /\ guesses = <<>>

SessionTypeOK ==
    /\ credential \in Nat \ {0}
    /\ sessions \in Seq([token : 1 .. issued, under : 1 .. credential, slow : BOOLEAN])
    /\ Len(sessions) <= MaxSessions
    /\ issued \in 0 .. MaxIssued
    /\ login \in [Logins -> 0 .. credential]
    /\ basic \subseteq Basics
    /\ guesses \in Seq(BOOLEAN)
=============================================================================
