--------------------------- MODULE SessionsProofs ---------------------------
(***************************************************************************)
(* Proofs about Sessions, for any number of logins and reloads.            *)
(*                                                                         *)
(* That a logout is final needs more than its answer: a session whose      *)
(* logout the server has carried out stays revoked (Revoked), because no   *)
(* token is made twice and nothing brings a row back.                      *)
(***************************************************************************)
EXTENDS Sessions, TLAPS

\* Where a call of the form has its token from: the session made for it.
TokenOfSubmit == submit.pc = "logged in" => submit.token \in Token

\* What the server carried out, it keeps.
Revoked ==
  \A t \in Token :
    /\ logout[t] \in {"revoked", "confirmed"} => row[t] = "revoked"
    /\ logout[t] = "authenticated" => row[t] # "none"

SessionInv == SessionTypeOK /\ TokenOfSubmit /\ Revoked

LEMMA SessionInvInit == SessionInit => SessionInv
<1>. SUFFICES ASSUME SessionInit PROVE SessionInv
  OBVIOUS
<1>1. call \in [Token -> [pc : {"none", "sent", "served", "unauthorized"}, guarded : BOOLEAN]]
  <2>1. NoCall \in [pc : {"none", "sent", "served", "unauthorized"}, guarded : BOOLEAN]
    BY DEF NoCall
  <2>. QED BY <2>1, Zenon DEF SessionInit
<1>2. SessionTypeOK
  BY <1>1 DEF SessionInit, SessionTypeOK, NoSubmit
<1>. QED BY <1>2 DEF SessionInit, SessionInv, TokenOfSubmit, Revoked, NoSubmit

\* The server makes and revokes sessions, and answers.
LEMMA ServerStep == SessionInv /\ Server => SessionInv'
<1>. SUFFICES ASSUME SessionInv, Server PROVE SessionInv'
  OBVIOUS
<1>. USE DEF SessionInv, SessionTypeOK, TokenOfSubmit, Revoked, serverVars, tabVars, callVars,
             NoSubmit, NoCall
<1>1. CASE CreateUser
  BY <1>1 DEF CreateUser
<1>2. CASE SubmitFails
  BY <1>2 DEF SubmitFails
<1>3. ASSUME NEW t \in Token, CreateSession(t) PROVE SessionInv'
  BY <1>3 DEF CreateSession
<1>4. ASSUME NEW t \in Token, Lapse(t) PROVE SessionInv'
  BY <1>4 DEF Lapse
<1>5. ASSUME NEW t \in Token, AuthenticateLogout(t) PROVE SessionInv'
  BY <1>5 DEF AuthenticateLogout, Authentic
<1>6. ASSUME NEW t \in Token, RevokeSession(t) PROVE SessionInv'
  BY <1>6 DEF RevokeSession
<1>7. ASSUME NEW t \in Token, LogoutFails(t) PROVE SessionInv'
  BY <1>7 DEF LogoutFails
<1>8. ASSUME NEW t \in Token, ServeCall(t) PROVE SessionInv'
  BY <1>8 DEF ServeCall
<1>9. ASSUME NEW t \in Token, CallFails(t) PROVE SessionInv'
  BY <1>9 DEF CallFails
<1>. QED BY <1>1, <1>2, <1>3, <1>4, <1>5, <1>6, <1>7, <1>8, <1>9 DEF Server

\* The tab sends logouts and gives them up, and takes what it is answered.
LEMMA TabStep == SessionInv /\ Tab => SessionInv'
<1>. SUFFICES ASSUME SessionInv, Tab PROVE SessionInv'
  OBVIOUS
<1>. USE DEF SessionInv, SessionTypeOK, TokenOfSubmit, Revoked, serverVars, tabVars, callVars,
             NoSubmit, NoCall
<1>1. CASE Submit
  BY <1>1 DEF Submit
<1>2. CASE SwitchMode \/ ShowDemo
  BY <1>2 DEF SwitchMode, ShowDemo
<1>3. CASE Logout
  <2>1. ASSUME session # None, stored' = None /\ SetSession(None),
               logout' = [logout EXCEPT ![session] = "sent"],
               UNCHANGED <<serverVars, mode, demo, error, submit, call, reloads>>
        PROVE  SessionInv'
    <3>1. session \in Token
      BY <2>1
    <3>2. {session', stored', timer'} \subseteq Token \cup {None}
      BY <2>1 DEF SetSession
    <3>. QED BY <2>1, <3>1, <3>2
  <2>2. ASSUME demo' = FALSE,
               UNCHANGED <<serverVars, session, stored, timer, mode, error, callVars, reloads>>
        PROVE  SessionInv'
    BY <2>2
  <2>. QED BY <1>3, <2>1, <2>2 DEF Logout
<1>4. CASE TimerFires
  BY <1>4 DEF TimerFires, SessionExpired, SetSession
<1>5. CASE AccountCreated
  BY <1>5 DEF AccountCreated
<1>6. CASE NotSubmitted
  BY <1>6 DEF NotSubmitted
<1>10. CASE LoggedIn
  BY <1>10 DEF LoggedIn, SetSession
<1>7. ASSUME NEW t \in Token, CallAnswered(t) PROVE SessionInv'
  BY <1>7 DEF CallAnswered, SessionExpired, SetSession
<1>8. ASSUME NEW t \in Token, LogoutAnswered(t) PROVE SessionInv'
  BY <1>8 DEF LogoutAnswered
<1>9. ASSUME NEW t \in Token, NEW guarded \in BOOLEAN, CallAPI(t, guarded) PROVE SessionInv'
  BY <1>9 DEF CallAPI
<1>. QED BY <1>1, <1>2, <1>3, <1>4, <1>5, <1>6, <1>7, <1>8, <1>9, <1>10 DEF Tab, Answered

LEMMA ReloadStep == SessionInv /\ Reload => SessionInv'
<1>. SUFFICES ASSUME SessionInv, Reload PROVE SessionInv'
  OBVIOUS
<1>1. call' \in [Token -> [pc : {"none", "sent", "served", "unauthorized"}, guarded : BOOLEAN]]
  <2>1. NoCall \in [pc : {"none", "sent", "served", "unauthorized"}, guarded : BOOLEAN]
    BY DEF NoCall
  <2>. QED BY <2>1, Zenon DEF Reload
<1>2. logout' \in [Token -> {"none", "sent", "authenticated", "revoked", "failed", "over",
                           "confirmed", "abandoned"}]
  BY DEF Reload, SessionInv, SessionTypeOK
<1>3. SessionTypeOK'
  <2>1. stored' \in Token \cup {None} /\ session' = stored' /\ timer' = stored'
    BY DEF Reload, StoredSession, SetSession, SessionInv, SessionTypeOK
  <2>2. submit' \in [pc : {"none", "registering", "logging in", "created", "logged in",
                           "refused"}, token : Token \cup {None}]
    BY DEF Reload, NoSubmit
  <2>3. /\ mode' = "login" /\ demo' = FALSE /\ error' = "none"
        /\ account' = account /\ row' = row /\ lapsed' = lapsed
        /\ reloads' = reloads + 1
    BY DEF Reload, serverVars
  <2>4. /\ account' \in BOOLEAN /\ row' \in [Token -> {"none", "live", "revoked"}]
        /\ lapsed' \subseteq Token /\ reloads' \in Nat
    <3>1. account' \in BOOLEAN
      BY <2>3, Zenon DEF SessionInv, SessionTypeOK
    <3>2. row' \in [Token -> {"none", "live", "revoked"}] /\ lapsed' \subseteq Token
      BY <2>3, Zenon DEF SessionInv, SessionTypeOK
    <3>3. reloads' \in Nat
      <4>1. reloads \in Nat /\ reloads' = reloads + 1
        BY <2>3, Zenon DEF SessionInv, SessionTypeOK
      <4>. QED BY <4>1
    <3>. QED BY <3>1, <3>2, <3>3
  <2>5. {session', stored', timer'} \subseteq Token \cup {None}
    BY <2>1, Zenon
  <2>6. /\ mode' \in {"login", "register"} /\ demo' \in BOOLEAN
        /\ error' \in {"none", "form", "expired", "unrevoked"}
    BY <2>3
  <2>. QED
    BY <1>1, <1>2, <2>2, <2>4, <2>5, <2>6, Zenon DEF SessionTypeOK
<1>. QED
  BY <1>3 DEF Reload, SessionInv, SessionTypeOK, TokenOfSubmit, Revoked, serverVars, NoSubmit

LEMMA SessionInvStep == SessionInv /\ [SessionNext]_sessionVars => SessionInv'
<1>1. SessionInv /\ UNCHANGED sessionVars => SessionInv'
  BY DEF SessionInv, SessionTypeOK, TokenOfSubmit, Revoked, sessionVars, serverVars, tabVars,
         callVars
<1>. QED BY <1>1, ServerStep, TabStep, ReloadStep DEF SessionNext

\* The invariant the properties below follow from.
THEOREM SessionInvariance == SessionSafety => []SessionInv
BY SessionInvInit, SessionInvStep, PTL DEF SessionSafety

\* The states of App.tsx, of the form's call and of the sessions' rows are as declared.
THEOREM SessionTypeCorrect == SessionSafety => []SessionTypeOK
<1>1. SessionInv => SessionTypeOK
  BY DEF SessionInv
<1>. QED BY <1>1, SessionInvariance, PTL

\* A call is served in ServeCall only, and to a session that is not revoked.
LEMMA ServedAuthentic ==
  ASSUME SessionInv, SessionNext, NEW t \in Token,
         call[t].pc = "sent", call'[t].pc = "served"
  PROVE  row[t] = "live"
<1>. USE DEF SessionInv, SessionTypeOK, callVars, NoCall
<1>1. call' # call
  OBVIOUS
<1>2. ASSUME NEW u \in Token, ServeCall(u) PROVE row[t] = "live"
  <2>1. call'[u] = IF Authentic(u) THEN [NoCall EXCEPT !.pc = "served"]
                   ELSE [call[u] EXCEPT !.pc = "unauthorized"]
    BY <1>2 DEF ServeCall
  <2>2. ~Authentic(u) => call'[u].pc = "unauthorized"
    BY <2>1
  <2>3. u # t => call'[t] = call[t]
    BY <1>2 DEF ServeCall
  <2>. QED BY <2>2, <2>3 DEF Authentic
<1>3. ASSUME NEW u \in Token, CallFails(u) \/ CallAnswered(u) PROVE FALSE
  <2>1. call' = [call EXCEPT ![u] = NoCall]
    BY <1>3 DEF CallFails, CallAnswered
  <2>2. call'[u].pc = "none" /\ \A v \in Token \ {u} : call'[v] = call[v]
    BY <2>1
  <2>. QED BY <2>2
<1>4. ASSUME NEW u \in Token, NEW guarded \in BOOLEAN, CallAPI(u, guarded) PROVE FALSE
  <2>1. call' = [call EXCEPT ![u] = [pc |-> "sent", guarded |-> guarded]]
    BY <1>4 DEF CallAPI
  <2>2. call'[u].pc = "sent" /\ \A v \in Token \ {u} : call'[v] = call[v]
    BY <2>1
  <2>. QED BY <2>2
<1>5. CASE Reload
  BY <1>5 DEF Reload
<1>6. \/ \E u \in Token : ServeCall(u) \/ CallFails(u) \/ CallAnswered(u)
      \/ \E u \in Token, guarded \in BOOLEAN : CallAPI(u, guarded)
      \/ Reload
  BY <1>1 DEF SessionNext, Server, Tab, Answered, CreateUser, SubmitFails, CreateSession,
              Lapse, AuthenticateLogout, RevokeSession, LogoutFails, Submit, SwitchMode,
              ShowDemo, Logout, TimerFires, AccountCreated, LoggedIn, NotSubmitted,
              LogoutAnswered
<1>. QED BY <1>2, <1>3, <1>4, <1>5, <1>6

\* After a logout the server has answered, no call with its token is served, for any
\* number of logins and reloads and any order of answers.
THEOREM LogoutHolds == SessionSafety => LogoutIsFinal
<1>. DEFINE Final == \A t \in Token :
                       logout[t] \in {"revoked", "confirmed"} =>
                         ~(call[t].pc = "sent" /\ call'[t].pc = "served")
<1>1. SessionInv /\ [SessionNext]_sessionVars => [Final]_sessionVars
  <2>. SUFFICES ASSUME SessionInv, SessionNext, NEW t \in Token,
                       logout[t] \in {"revoked", "confirmed"},
                       call[t].pc = "sent", call'[t].pc = "served"
                PROVE  FALSE
    OBVIOUS
  <2>1. row[t] = "revoked"
    BY DEF SessionInv, Revoked
  <2>2. row[t] = "live"
    BY ServedAuthentic
  <2>. QED BY <2>1, <2>2
<1>. QED BY <1>1, SessionInvariance, PTL DEF SessionSafety, LogoutIsFinal
=============================================================================
