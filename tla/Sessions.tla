------------------------------ MODULE Sessions ------------------------------
(***************************************************************************)
(* One browser tab's session (web/src/App.tsx) and the server's side of it *)
(* (internal/api/handlers/auth.go, internal/database/users.go, middleware/ *)
(* userauth.go): registering, logging in, calls of the page, the timer for *)
(* the end of a session, logging out and reloading.  A call is handled by  *)
(* the server, or lost, at any time, and so is its answer.  The clocks of  *)
(* browser and server agree.                                               *)
(***************************************************************************)
EXTENDS Integers

CONSTANTS
  MaxLogins,   \* bound: how many sessions are created
  MaxReloads,  \* bound: how often the tab is reloaded
  None         \* no token

\* Session tokens, numbered as they are made: every login makes a new one.
Token == 1 .. MaxLogins

ASSUME LoginsAssumption == MaxLogins \in Nat
ASSUME NoneIsNoToken == None \notin Nat
ASSUME ReloadsAssumption == MaxReloads \in Nat

VARIABLES
  account,   \* whether the user's account exists
  row,       \* row[t]: the row of sessions for token t
  lapsed,    \* tokens whose expires_at has passed
  session,   \* the session of the component App, a token
  stored,    \* the session in sessionStorage
  timer,     \* the session whose end the timer waits for
  mode,      \* which form is shown
  demo,      \* the demo is shown
  error,     \* which message is shown: one of the form, or of the end of a session
  submit,    \* the call of the form, if any: its state, and the token of its answer
  logout,    \* logout[t]: the logout call for t
  call,      \* call[t]: a call of the page of session t
  reloads    \* how often the tab was reloaded

serverVars == <<account, row, lapsed>>
tabVars == <<session, stored, timer, mode, demo, error>>
callVars == <<submit, logout, call>>
sessionVars == <<serverVars, tabVars, callVars, reloads>>

NoSubmit == [pc |-> "none", token |-> None]
NoCall == [pc |-> "none", guarded |-> FALSE]

SessionTypeOK ==
  /\ account \in BOOLEAN /\ demo \in BOOLEAN
  /\ row \in [Token -> {"none", "live", "revoked"}]
  /\ lapsed \subseteq Token
  /\ {session, stored, timer} \subseteq Token \cup {None}
  /\ mode \in {"login", "register"}
  /\ error \in {"none", "form", "expired", "unrevoked"}
  /\ submit \in [pc : {"none", "registering", "logging in", "created", "logged in", "refused"},
                 token : Token \cup {None}]
  /\ logout \in [Token -> {"none", "sent", "authenticated", "revoked", "failed", "over",
                           "confirmed", "abandoned"}]
  /\ call \in [Token -> [pc : {"none", "sent", "served", "unauthorized"},
                         guarded : BOOLEAN]]
  /\ reloads \in Nat

SessionInit ==
  /\ account = FALSE
  /\ row = [t \in Token |-> "none"] /\ lapsed = {}
  /\ session = None /\ stored = None /\ timer = None
  /\ mode = "login" /\ demo = FALSE /\ error = "none"
  /\ submit = NoSubmit
  /\ logout = [t \in Token |-> "none"]
  /\ call = [t \in Token |-> NoCall]
  /\ reloads = 0

----------------------------------------------------------------------------
(* The server.                                                             *)

\* Mutant: revoked_at is not asked for.
Authentic_Revoked(t) == row[t] \in {"live", "revoked"} /\ t \notin lapsed

\* AuthenticateSession: revoked_at IS NULL AND expires_at > NOW().
Authentic(t) == row[t] = "live" /\ t \notin lapsed

\* Register: the address is unique.
CreateUser ==
  /\ submit.pc = "registering"
  /\ account' = TRUE
  /\ submit' = [submit EXCEPT !.pc = IF account THEN "refused" ELSE "created"]
  /\ UNCHANGED <<row, lapsed, tabVars, logout, call, reloads>>

\* Login: FindUserByEmail, and a session with a new token for seven days.
CreateSession(t) ==
  /\ submit.pc = "logging in" /\ account
  /\ row[t] = "none" /\ \A u \in 1 .. t - 1 : row[u] # "none"
  /\ row' = [row EXCEPT ![t] = "live"]
  /\ submit' = [pc |-> "logged in", token |-> t]
  /\ UNCHANGED <<account, lapsed, tabVars, logout, call, reloads>>

\* No such user or another password, a server error, or no answer, be it that the
\* call was handled.
SubmitFails ==
  /\ submit.pc \in {"registering", "logging in", "created", "logged in"}
  /\ submit' = [pc |-> "refused", token |-> None]
  /\ UNCHANGED <<serverVars, tabVars, logout, call, reloads>>

\* Seven days are over, of a session that was not revoked.  No call takes that long.
Lapse(t) ==
  /\ row[t] = "live" /\ t \notin lapsed /\ submit.token # t
  /\ lapsed' = lapsed \cup {t}
  /\ UNCHANGED <<account, row, tabVars, callVars, reloads>>

\* RequireUserSession before the handler of the logout: 401 if not authentic.
AuthenticateLogout(t) ==
  /\ logout[t] = "sent"
  /\ logout' = [logout EXCEPT ![t] = IF Authentic(t) THEN "authenticated" ELSE "failed"]
  /\ UNCHANGED <<serverVars, tabVars, submit, call, reloads>>

\* RevokeSession, and the answer 204.
RevokeSession(t) ==
  /\ logout[t] = "authenticated"
  /\ row' = [row EXCEPT ![t] = "revoked"]
  /\ logout' = [logout EXCEPT ![t] = "revoked"]
  /\ UNCHANGED <<account, lapsed, tabVars, submit, call, reloads>>

LogoutFails(t) ==
  /\ logout[t] \in {"sent", "authenticated", "revoked"}
  /\ logout' = [logout EXCEPT ![t] = "failed"]
  /\ UNCHANGED <<serverVars, tabVars, submit, call, reloads>>

\* RequireUserSession and the handler of a call of the page, or 401.
ServeCall(t) ==
  /\ call[t].pc = "sent"
  /\ call' = [call EXCEPT ![t] = IF Authentic(t) THEN [NoCall EXCEPT !.pc = "served"]
                                 ELSE [@ EXCEPT !.pc = "unauthorized"]]
  /\ UNCHANGED <<serverVars, tabVars, submit, logout, reloads>>

\* The call does not get through.
CallFails(t) ==
  /\ call[t].pc = "sent"
  /\ call' = [call EXCEPT ![t] = NoCall]
  /\ UNCHANGED <<serverVars, tabVars, submit, logout, reloads>>

Server ==
  \/ CreateUser \/ SubmitFails
  \/ \E t \in Token :
       \/ CreateSession(t) \/ Lapse(t)
       \/ AuthenticateLogout(t) \/ RevokeSession(t) \/ LogoutFails(t)
       \/ ServeCall(t) \/ CallFails(t)

----------------------------------------------------------------------------
(* The tab.                                                                *)

\* The page is shown, else the form.
PageShown == session # None \/ demo

\* submit: the button is disabled while the call is under way.
Submit ==
  /\ ~PageShown /\ submit.pc = "none"
  /\ submit' = [NoSubmit EXCEPT !.pc = IF mode = "register" THEN "registering"
                                       ELSE "logging in"]
  /\ error' = "none"
  /\ UNCHANGED <<serverVars, session, stored, timer, mode, demo, logout, call, reloads>>

AccountCreated ==
  /\ submit.pc = "created" /\ submit' = NoSubmit
  /\ mode' = "login" /\ error' = "form"
  /\ UNCHANGED <<serverVars, session, stored, timer, demo, logout, call, reloads>>

\* Mutant: the effect runs only when the component is mounted.
SetSession_MountOnly(t) == session' = t /\ UNCHANGED timer

\* setSession, and the effect that sets the timer anew.
SetSession(t) == session' = t /\ timer' = t

\* finishLogin
LoggedIn ==
  /\ submit.pc = "logged in" /\ submit' = NoSubmit
  /\ stored' = submit.token
  /\ SetSession(submit.token)
  /\ demo' = FALSE
  /\ UNCHANGED <<serverVars, mode, error, logout, call, reloads>>

NotSubmitted ==
  /\ submit.pc = "refused" /\ submit' = NoSubmit
  /\ error' = "form"
  /\ UNCHANGED <<serverVars, session, stored, timer, mode, demo, logout, call, reloads>>

\* The form's other buttons work while its call is under way.
SwitchMode ==
  /\ ~PageShown
  /\ mode' = IF mode = "login" THEN "register" ELSE "login"
  /\ error' = "none"
  /\ UNCHANGED <<serverVars, session, stored, timer, demo, callVars, reloads>>

ShowDemo ==
  /\ ~PageShown
  /\ demo' = TRUE
  /\ UNCHANGED <<serverVars, session, stored, timer, mode, error, callVars, reloads>>

\* sessionExpired
SessionExpired ==
  /\ stored' = None
  /\ SetSession(None)
  /\ error' = "expired"

\* The effect's timer, or the effect itself.
TimerFires ==
  /\ timer \in lapsed
  /\ SessionExpired
  /\ UNCHANGED <<serverVars, mode, demo, callVars, reloads>>

\* The page of session t calls the API.  A call is guarded if it is dropped when the
\* page goes away (projects, refreshIssue); others are not (loadIssues, loadDetail,
\* updateStatus, createProject).  One at a time is followed.
CallAPI(t, guarded) ==
  /\ session = t /\ call[t].pc = "none"
  /\ call' = [call EXCEPT ![t] = [pc |-> "sent", guarded |-> guarded]]
  /\ UNCHANGED <<serverVars, tabVars, submit, logout, reloads>>

\* The answer of a call; one that is lost, or that a later call of its page made void,
\* is ignored.
\* The session it ends with expireIfNeeded is the one there is.
CallAnswered(t) ==
  /\ call[t].pc \in {"served", "unauthorized"}
  /\ call' = [call EXCEPT ![t] = NoCall]
  /\ \/ /\ call[t].pc = "unauthorized"
        /\ session = t \/ ~call[t].guarded
        /\ SessionExpired
        /\ UNCHANGED <<mode, demo>>
     \/ UNCHANGED tabVars
  /\ UNCHANGED <<serverVars, submit, logout, reloads>>

\* logout: local first, then the server is told.
Logout ==
  \/ /\ session # None /\ ~demo
     /\ stored' = None /\ SetSession(None)
     /\ logout' = [logout EXCEPT ![session] = "sent"]
     /\ UNCHANGED <<serverVars, mode, demo, error, submit, call, reloads>>
  \/ /\ demo /\ demo' = FALSE
     /\ UNCHANGED <<serverVars, session, stored, timer, mode, error, callVars, reloads>>

\* Mutant: a failed logout is not caught.
LogoutAnswered_Silent(t) ==
  /\ logout[t] \in {"revoked", "failed"}
  /\ logout' = [logout EXCEPT ![t] = IF @ = "revoked" THEN "confirmed" ELSE "over"]
  /\ UNCHANGED <<serverVars, session, stored, timer, mode, demo, error, submit, call, reloads>>

LogoutAnswered(t) ==
  /\ logout[t] \in {"revoked", "failed"}
  /\ logout' = [logout EXCEPT ![t] = IF @ = "revoked" THEN "confirmed" ELSE "over"]
  /\ error' = IF logout[t] = "failed" THEN "unrevoked" ELSE error
  /\ UNCHANGED <<serverVars, session, stored, timer, mode, demo, submit, call, reloads>>

\* storedSession: what is stored and has not expired.
StoredSession == IF stored \in lapsed THEN None ELSE stored

\* The tab is loaded again: its calls are given up, and only sessionStorage stays.
Reload ==
  /\ reloads < MaxReloads /\ reloads' = reloads + 1
  /\ stored' = StoredSession /\ SetSession(StoredSession)
  /\ mode' = "login" /\ demo' = FALSE /\ error' = "none"
  /\ submit' = NoSubmit
  /\ logout' = [t \in Token |->
                  IF logout[t] \in {"none", "over", "confirmed"} THEN logout[t] ELSE "abandoned"]
  /\ call' = [t \in Token |-> NoCall]
  /\ UNCHANGED serverVars

Answered ==
  \/ AccountCreated \/ LoggedIn \/ NotSubmitted
  \/ \E t \in Token : CallAnswered(t) \/ LogoutAnswered(t)

Tab ==
  \/ Submit \/ SwitchMode \/ ShowDemo \/ Logout \/ TimerFires \/ Answered
  \/ \E t \in Token, guarded \in BOOLEAN : CallAPI(t, guarded)

SessionNext == Server \/ Tab \/ Reload

SessionSafety == SessionInit /\ [][SessionNext]_sessionVars

\* Timers fire, a logout is handled or fails, and its answer is handled.  Nothing is
\* assumed of what the user does, nor of other calls.
SessionFairness ==
  /\ WF_sessionVars(TimerFires)
  /\ \A t \in Token :
       /\ WF_sessionVars(AuthenticateLogout(t) \/ RevokeSession(t) \/ LogoutFails(t))
       /\ WF_sessionVars(LogoutAnswered(t))

SessionSpec == SessionSafety /\ SessionFairness

----------------------------------------------------------------------------
(* Properties.                                                             *)

\* Once a logout has been answered with success, no call is served with its token,
\* though it was sent before, and whatever the tab does meanwhile.
LogoutIsFinal ==
  [][\A t \in Token :
       logout[t] \in {"revoked", "confirmed"} =>
         ~(call[t].pc = "sent" /\ call'[t].pc = "served")]_sessionVars

\* A session the user logs out of is revoked or runs out, or the user is told that it
\* could not be revoked; a reload gives the logout up.
RevokedOrTold ==
  \A t \in Token :
    logout[t] = "sent"
      ~> row[t] = "revoked" \/ t \in lapsed \/ error = "unrevoked" \/ logout[t] = "abandoned"

\* A session that has run out ends in the tab, and no reload brings it back.
ExpirySignsOut == \A t \in Token : t \in lapsed ~> [](session # t)

\* The tab says that the session expired, and ends it, only if the server would not
\* accept it any more.
ExpiredForCause ==
  [][session # None /\ session' = None /\ error' = "expired" => ~Authentic(session)]_sessionVars
=============================================================================
