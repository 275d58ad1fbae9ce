---------------------------- MODULE ServerProofs ----------------------------
(***************************************************************************)
(* What holds of sessions, of enrolment, of the rate limiter, of the       *)
(* agent's event file, of the metrics history and of the configured        *)
(* switches, for every number of sessions, requests, codes, installers,    *)
(* events, connections, snapshots, switches and pollers, and every limit   *)
(* and window.                                                             *)
(***************************************************************************)
EXTENDS Sessions, Enrolment, RateLimit, EventSpool, MetricsStore, SwitchPoller,
        FiniteSetTheorems, TLAPS

(* Enrolment: the parts of the state the arguments below speak of.         *)
EnrolType ==
    /\ enr \in [Enroller -> [pc: {"new", "exchanged", "over"}, code: Code \cup {NoCode},
                             token: Token \cup {NoToken}]]
    /\ ticket \in [code: Code \cup {NoCode}, expires: Nat, used: BOOLEAN]
    /\ given \in [Code -> SUBSET Token]
    /\ minted \in [Code -> Nat] /\ clock \in Nat \ {0}
    /\ creds \subseteq made

(* An enroll request between the exchange and the token owns its code.     *)
Owns(e, c) == enr[e].pc = "exchanged" /\ enr[e].code = c

(* A code is owned by at most one request, has no token while it is owned, *)
(* and is marked as used from the exchange on.                             *)
CodeInv ==
    /\ \A e \in Enroller : enr[e].pc = "exchanged" => enr[e].code \in Code
    /\ \A c \in Code : \A d, e \in Enroller : Owns(d, c) /\ Owns(e, c) => d = e
    /\ \A c \in Code : \A e \in Enroller : Owns(e, c) => given[c] = {}
    /\ \A c \in Code : (given[c] # {} \/ \E e \in Enroller : Owns(e, c)) =>
                            /\ minted[c] # 0
                            /\ ticket.code = c => ticket.used
    /\ ticket.code \in Code => minted[ticket.code] # 0
    /\ CodeOnce

(* The ticket is that of the newest code, with its time.                   *)
TicketInv ==
    ticket.code # NoCode => /\ ticket.code = newest /\ ticket.code \in Code
                            /\ ticket.expires = minted[ticket.code] + TTL

EnrolInv == EnrolType /\ CodeInv /\ OneCredential /\ TicketInv

(* The initial state satisfies the invariant of enrolment. *)
LEMMA EnrolInitial == EnrInit => EnrolInv
  BY EnrolAssumption
  DEF EnrInit, EnrolInv, EnrolType, CodeInv, Owns, CodeOnce, OneCredential, TicketInv,
      NoTicket, FreshEnroller

(* Every step of enrolment preserves its invariant. *)
LEMMA EnrolStep == EnrolInv /\ [EnrNext]_enrVars => EnrolInv'
<1> SUFFICES ASSUME EnrolInv, [EnrNext]_enrVars PROVE EnrolInv'
  OBVIOUS
<1> USE EnrolAssumption DEF EnrolInv, EnrolType
<1>1. CASE EnrTick
  BY <1>1 DEF EnrTick, CodeInv, Owns, CodeOnce, OneCredential, TicketInv
<1>2. CASE EnrRestart
  <2>1. EnrolType'
    BY <1>2 DEF EnrRestart, NoTicket
  <2>2. \A e \in Enroller : enr'[e].pc # "exchanged"
    BY <1>2 DEF EnrRestart
  <2>3. ticket'.code = NoCode
    BY <1>2 DEF EnrRestart, NoTicket
  <2> QED
    BY <1>2, <2>1, <2>2, <2>3 DEF EnrRestart, CodeInv, Owns, CodeOnce, OneCredential, TicketInv
<1>3. CASE DeleteAllAgentCredentials
  BY <1>3 DEF DeleteAllAgentCredentials, CodeInv, Owns, CodeOnce, OneCredential, TicketInv
<1>4. ASSUME NEW c \in Code, Mint(c) PROVE EnrolInv'
  <2>1. EnrolType'
    BY <1>4 DEF Mint
  <2>2. CodeInv'
    BY <1>4 DEF Mint, CodeInv, Owns, CodeOnce
  <2> QED
    BY <1>4, <2>1, <2>2 DEF Mint, OneCredential, TicketInv
<1>5. ASSUME NEW c \in Code, NEW e \in Enroller, Exchange(e, c) PROVE EnrolInv'
  <2>1. EnrolType'
    BY <1>5 DEF Exchange
  <2>2. CASE Valid(c)
    BY <1>5, <2>1, <2>2 DEF Exchange, Valid, CodeInv, Owns, CodeOnce, OneCredential, TicketInv
  <2>3. CASE ~Valid(c)
    BY <1>5, <2>1, <2>3 DEF Exchange, CodeInv, Owns, CodeOnce, OneCredential, TicketInv
  <2> QED
    BY <2>2, <2>3
<1>6. ASSUME NEW e \in Enroller, MintFails(e) PROVE EnrolInv'
  <2>1. EnrolType'
    BY <1>6 DEF MintFails
  <2> QED
    BY <1>6, <2>1 DEF MintFails, CodeInv, Owns, CodeOnce, OneCredential, TicketInv
<1>7. ASSUME NEW e \in Enroller, NEW t \in Token, MintAgentCredential(e, t) PROVE EnrolInv'
  <2>1. EnrolType'
    BY <1>7 DEF MintAgentCredential, StoresToken, CodeInv
  <2>2. CodeInv'
    BY <1>7 DEF MintAgentCredential, StoresToken, CodeInv, Owns, CodeOnce
  <2> QED
    BY <1>7, <2>1, <2>2 DEF MintAgentCredential, StoresToken, OneCredential, TicketInv
<1>8. ASSUME NEW t \in Token, DeleteAgentCredential(t) PROVE EnrolInv'
  BY <1>8 DEF DeleteAgentCredential, CodeInv, Owns, CodeOnce, OneCredential, TicketInv
<1>9. ASSUME NEW t \in Token, NEW a \in AgentReq, Authorize(a, t) PROVE EnrolInv'
  BY <1>9 DEF Authorize, CodeInv, Owns, CodeOnce, OneCredential, TicketInv
<1>10. ASSUME NEW a \in AgentReq, TouchAgentCredential(a) PROVE EnrolInv'
  BY <1>10 DEF TouchAgentCredential, CodeInv, Owns, CodeOnce, OneCredential, TicketInv
<1>11. CASE UNCHANGED enrVars
  BY <1>11 DEF enrVars, CodeInv, Owns, CodeOnce, OneCredential, TicketInv
<1> QED
  BY <1>1, <1>2, <1>3, <1>4, <1>5, <1>6, <1>7, <1>8, <1>9, <1>10, <1>11 DEF EnrNext

(* A code yields at most one token, for any number of overlapping          *)
(* enrolments and restarts (CodeStore.Exchange).                           *)
THEOREM CodeOnceHolds == EnrSpec => []CodeOnce
<1>1. EnrolInv => CodeOnce
  BY DEF EnrolInv, CodeInv
<1> QED
  BY EnrolInitial, EnrolStep, <1>1, PTL DEF EnrSpec

(* At most one agent credential is stored at any time                      *)
(* (MintAgentCredential).                                                  *)
THEOREM OneCredentialHolds == EnrSpec => []OneCredential
<1>1. EnrolInv => OneCredential
  BY DEF EnrolInv
<1> QED
  BY EnrolInitial, EnrolStep, <1>1, PTL DEF EnrSpec

(* Only the newest code of the process is exchanged, and only in its time  *)
(* (CodeStore.Mint, CodeStore.Exchange).                                   *)
THEOREM NewestInTimeHolds == EnrSpec => NewestInTime
<1> DEFINE NewestOnly ==
      \A e \in Enroller :
         enr'[e].pc = "exchanged" /\ enr[e].pc = "new" =>
            enr'[e].code = newest /\ clock < minted[enr'[e].code] + TTL
<1>1. EnrolInv /\ [EnrNext]_enrVars => [NewestOnly]_enrVars
  <2> SUFFICES ASSUME EnrolInv, EnrNext, NEW d \in Enroller,
                      enr'[d].pc = "exchanged", enr[d].pc = "new"
               PROVE  enr'[d].code = newest /\ clock < minted[enr'[d].code] + TTL
    OBVIOUS
  <2> USE EnrolAssumption DEF EnrolInv, EnrolType, TicketInv
  <2>1. ASSUME NEW c \in Code, NEW e \in Enroller, Exchange(e, c)
        PROVE  enr'[d].code = newest /\ clock < minted[enr'[d].code] + TTL
    <3>1. d = e /\ Valid(c) /\ enr'[d].code = c
      BY <2>1 DEF Exchange
    <3> QED
      BY <3>1 DEF Valid
  <2>2. ASSUME enr'[d] = enr[d] PROVE FALSE
    BY <2>2
  <2>3. ASSUME NEW e \in Enroller, enr'[e].pc = "over", \A f \in Enroller \ {e} : enr'[f] = enr[f]
        PROVE  FALSE
    BY <2>3
  <2>4. CASE EnrRestart
    BY <2>4 DEF EnrRestart
  <2> QED
    BY <2>1, <2>2, <2>3, <2>4
    DEF EnrNext, EnrTick, DeleteAllAgentCredentials, Mint, MintFails, MintAgentCredential,
        StoresToken, DeleteAgentCredential, Authorize, TouchAgentCredential
<1>2. [NewestOnly]_enrVars =>
        [\A e \in Enroller :
           enr'[e].pc = "exchanged" /\ enr[e].pc = "new" =>
             LET c == enr'[e].code IN c = newest /\ clock < minted[c] + TTL]_enrVars
  OBVIOUS
<1> QED
  BY EnrolInitial, EnrolStep, <1>1, <1>2, PTL DEF EnrSpec, NewestInTime

(* A replaced or revoked token is never authorized again                   *)
(* (ReplaceAgentCredential, TouchAgentCredentialLastUsed).                 *)
THEOREM RevokedForGoodHolds == EnrSpec => RevokedForGood
<1>1. [EnrNext]_enrVars => [made \ creds \subseteq made' \ creds']_enrVars
  BY DEF EnrNext, EnrTick, EnrRestart, DeleteAllAgentCredentials, Mint, Exchange, MintFails,
         MintAgentCredential, StoresToken, DeleteAgentCredential, Authorize,
         TouchAgentCredential
<1> QED
  BY <1>1, PTL DEF EnrSpec, RevokedForGood
-----------------------------------------------------------------------------
(* Sessions. *)

(* A session that is gone does not come back (TouchSession is an UPDATE,   *)
(* CreateSession draws a new id).                                          *)
THEOREM GoneStaysGoneHolds == SessSpec => GoneStaysGone
<1>1. [SessNext]_sessVars =>
        [\A s \in Session : born[s] # 0 /\ s \notin live => s \notin live']_sessVars
  <2> SUFFICES ASSUME SessNext, NEW s \in Session, born[s] # 0, s \notin live
               PROVE  s \notin live'
    OBVIOUS
  <2>1. ASSUME NEW u \in Session, NEW f, CreateSession(u, f) PROVE s \notin live'
    BY <2>1 DEF CreateSession
  <2>2. ASSUME NEW u, DeleteSession(u) PROVE s \notin live'
    BY <2>2 DEF DeleteSession
  <2>3. ASSUME DeleteAllRows PROVE s \notin live'
    BY <2>3 DEF DeleteAllRows
  <2>4. ASSUME NEW u, Touch(u) PROVE s \notin live'
    BY <2>4 DEF Touch
  <2>5. ASSUME UNCHANGED live PROVE s \notin live'
    BY <2>5
  <2> QED
    BY <2>1, <2>2, <2>3, <2>4, <2>5
    DEF SessNext, Tick, BootCompares, BootDeletes, BootStores, Restart, DeleteAllSessions, Login,
        Logout, LookupSession, RejectExpired, Serve, GetSession, OIDCStart, PutOIDCPending,
        OIDCRedirects, OIDCProviderError, CallbackRefused, TakeOIDCPending,
        CallbackReadsSettings, CallbackFails, OIDCCallback, CallbackLogsIn, PutOIDCSettings, store
<1> QED
  BY <1>1, PTL DEF SessSpec, GoneStaysGone

(* Between starts every stored session was made under the password whose   *)
(* fingerprint is stored: the rows go before the fingerprint changes. A    *)
(* callback runs only in a server that serves.                             *)
PasswordInv ==
    /\ \A s \in live : madeUnder[s] = fp
    /\ boot = "store" => live = {}
    /\ Serving => fp = password
    /\ \A k \in Callback : cb[k].pc \notin {"new", "over"} => Serving
    /\ live \subseteq Session /\ madeUnder \in [Session -> Password \cup {NoPassword}]
    /\ cb \in [Callback -> [pc: {"new", "take", "refused", "settings", "exchange", "over"},
                            flow: Flow \cup {NoFlow}, allows: BOOLEAN]]
    /\ settings \in Settings /\ cookie \in Flow \cup {NoFlow}
    /\ boot \in {"compare", "delete", "store", "serving"} /\ password \in Password

(* Initially there is no session and no fingerprint. *)
LEMMA PasswordInitial == SessInit => PasswordInv
  BY DEF SessInit, PasswordInv, Serving, Unused

(* Every step keeps them so. *)
LEMMA PasswordStep == PasswordInv /\ [SessNext]_sessVars => PasswordInv'
<1> SUFFICES ASSUME PasswordInv, [SessNext]_sessVars PROVE PasswordInv'
  OBVIOUS
<1> USE SessionAssumption DEF PasswordInv, Serving
<1>1. CASE Tick \/ UNCHANGED sessVars
  BY <1>1 DEF Tick, sessVars, store, memory, birth
<1>2. CASE BootCompares
  BY <1>2 DEF BootCompares, store, memory, birth
<1>3. CASE BootDeletes
  BY <1>3 DEF BootDeletes, DeleteAllRows, memory, birth
<1>4. CASE BootStores
  BY <1>4 DEF BootStores, memory, birth
<1>5. CASE Restart
  BY <1>5 DEF Restart, store, birth, At
<1>6. CASE DeleteAllSessions
  BY <1>6 DEF DeleteAllSessions, DeleteAllRows, birth
<1>7. ASSUME NEW s \in Session, Login(s) PROVE PasswordInv'
  BY <1>7 DEF Login, CreateSession, memory
<1>8. ASSUME NEW s \in Session, Logout(s) PROVE PasswordInv'
  BY <1>8 DEF Logout, DeleteSession, memory, birth
<1>9. ASSUME NEW r \in Request, LookupSession(r) \/ \E s \in Session : GetSession(r, s)
      PROVE PasswordInv'
  BY <1>9 DEF LookupSession, GetSession, store, birth
<1>10. ASSUME NEW r \in Request, RejectExpired(r) PROVE PasswordInv'
  BY <1>10 DEF RejectExpired, DeleteSession, birth
<1>11. ASSUME NEW r \in Request, Serve(r) PROVE PasswordInv'
  BY <1>11 DEF Serve, Touch, birth
<1>12. ASSUME NEW f \in Flow, \/ OIDCStart(f) \/ PutOIDCPending(f) \/ OIDCRedirects(f)
                             \/ OIDCProviderError(f)
       PROVE PasswordInv'
  BY <1>12 DEF OIDCStart, PutOIDCPending, OIDCRedirects, OIDCProviderError, store, birth
<1>13. ASSUME NEW k \in Callback, \/ CallbackRefused(k) \/ TakeOIDCPending(k)
                                 \/ CallbackReadsSettings(k) \/ CallbackFails(k)
       PROVE PasswordInv'
  <2>1. PICK c \in [pc: {"new", "take", "refused", "settings", "exchange", "over"},
                    flow: Flow \cup {NoFlow}, allows: BOOLEAN] : cb' = [cb EXCEPT ![k] = c]
    BY <1>13 DEF CallbackRefused, TakeOIDCPending, CallbackReadsSettings, CallbackFails, SetCb, At
  <2>2. cb[k].pc \notin {"new", "over"}
    BY <1>13 DEF CallbackRefused, TakeOIDCPending, CallbackReadsSettings, CallbackFails
  <2> QED
    BY <1>13, <2>1, <2>2
    DEF CallbackRefused, TakeOIDCPending, CallbackReadsSettings, CallbackFails, store, birth
<1>14. ASSUME NEW k \in Callback, NEW f \in Flow, OIDCCallback(k, f) PROVE PasswordInv'
  BY <1>14 DEF OIDCCallback, SetCb, store, birth
<1>15. ASSUME NEW k \in Callback, NEW s \in Session, CallbackLogsIn(k, s) PROVE PasswordInv'
  BY <1>15 DEF CallbackLogsIn, CreateSession, SetCb, At
<1>16. ASSUME NEW a \in Settings, PutOIDCSettings(a) PROVE PasswordInv'
  BY <1>16 DEF PutOIDCSettings, birth
<1> QED
  BY <1>1, <1>2, <1>3, <1>4, <1>5, <1>6, <1>7, <1>8, <1>9, <1>10, <1>11, <1>12, <1>13, <1>14,
     <1>15, <1>16
  DEF SessNext

(* While the server serves, every stored session was created under its     *)
(* password, wherever earlier starts were cut off                          *)
(* (SyncPasswordFingerprint).                                              *)
THEOREM SessionsOfPasswordHolds == SessSpec => []SessionsOfPassword
<1>1. PasswordInv => SessionsOfPassword
  BY DEF PasswordInv, SessionsOfPassword, Serving
<1> QED
  BY PasswordInitial, PasswordStep, <1>1, PTL DEF SessSpec
-----------------------------------------------------------------------------
(* A callback that took the row of its flow and has not answered.          *)
Holds(k, f) == cb[k].pc \in {"settings", "exchange"} /\ cb[k].flow = f

CbType == cb \in [Callback -> [pc: {"new", "take", "refused", "settings", "exchange", "over"},
                              flow: Flow \cup {NoFlow}, allows: BOOLEAN]]

(* The row of a flow is stored once, taken by at most one callback, and    *)
(* gone when a callback holds the flow or a session came of it.            *)
FlowInv ==
    /\ CbType
    /\ from \in [Session -> Flow \cup {NoFlow}] /\ pending \in [Flow -> Nat]
    /\ start \in [Flow -> {"new", "read", "put", "sent", "left"}]
    /\ settings \in Settings /\ now \in Nat
    /\ \A k \in Callback : cb[k].pc \notin {"new", "over"} =>
                            cb[k].flow \in Flow /\ start[cb[k].flow] \notin {"new", "read"}
    /\ \A f \in Flow : \A k, l \in Callback : Holds(k, f) /\ Holds(l, f) => k = l
    /\ \A f \in Flow : \A k \in Callback :
            Holds(k, f) => pending[f] = 0 /\ \A s \in Session : from[s] # f
    /\ \A f \in Flow : \A s \in Session :
            from[s] = f => pending[f] = 0 /\ start[f] \notin {"new", "read"}
    /\ OncePerFlow

(* Initially no flow has begun. *)
LEMMA FlowInitial == SessInit => FlowInv
  BY SessionAssumption DEF SessInit, FlowInv, CbType, Holds, OncePerFlow, Unused

(* Every step keeps a flow with at most one callback or one session. *)
LEMMA FlowStep == FlowInv /\ [SessNext]_sessVars => FlowInv'
<1> SUFFICES ASSUME FlowInv, [SessNext]_sessVars PROVE FlowInv'
  OBVIOUS
<1> USE SessionAssumption DEF FlowInv, CbType
<1>1. ASSUME UNCHANGED <<cb, from, pending, start, settings>>, now' \in Nat PROVE FlowInv'
  BY <1>1 DEF Holds, OncePerFlow
<1>2. CASE Tick \/ UNCHANGED sessVars
  BY <1>1, <1>2 DEF Tick, sessVars, store, memory, birth
<1>3. CASE BootCompares \/ BootDeletes \/ BootStores \/ DeleteAllSessions
  BY <1>1, <1>3 DEF BootCompares, BootDeletes, BootStores, DeleteAllSessions, DeleteAllRows,
                    store, memory, birth
<1>4. CASE Restart
  <2>1. CbType' /\ start' \in [Flow -> {"new", "read", "put", "sent", "left"}]
    BY <1>4 DEF Restart, At
  <2>2. \A k \in Callback : cb'[k].pc \in {"new", "over"}
    BY <1>4 DEF Restart, At
  <2>3. \A f \in Flow : start[f] \notin {"new", "read"} => start'[f] \notin {"new", "read"}
    BY <1>4 DEF Restart
  <2> QED
    BY <1>4, <2>1, <2>2, <2>3 DEF Restart, store, birth, Holds, OncePerFlow
<1>5. ASSUME NEW s \in Session, Login(s) PROVE FlowInv'
  BY <1>5 DEF Login, CreateSession, memory, Holds, OncePerFlow
<1>6. ASSUME NEW s \in Session, Logout(s) PROVE FlowInv'
  BY <1>1, <1>6 DEF Logout, DeleteSession, memory, birth
<1>7. ASSUME NEW r \in Request, LookupSession(r) \/ \E s \in Session : GetSession(r, s)
      PROVE FlowInv'
  BY <1>1, <1>7 DEF LookupSession, GetSession, store, birth
<1>8. ASSUME NEW r \in Request, RejectExpired(r) \/ Serve(r) PROVE FlowInv'
  BY <1>1, <1>8 DEF RejectExpired, DeleteSession, Serve, Touch, birth
<1>9. ASSUME NEW f \in Flow, OIDCStart(f) \/ OIDCRedirects(f) PROVE FlowInv'
  BY <1>9 DEF OIDCStart, OIDCRedirects, store, birth, Holds, OncePerFlow
<1>10. ASSUME NEW f \in Flow, PutOIDCPending(f) PROVE FlowInv'
  BY <1>10 DEF PutOIDCPending, birth, Holds, OncePerFlow
<1>11. ASSUME NEW f \in Flow, OIDCProviderError(f) PROVE FlowInv'
  BY <1>11 DEF OIDCProviderError, birth, Holds, OncePerFlow
<1>12. ASSUME NEW k \in Callback, NEW f \in Flow, OIDCCallback(k, f) PROVE FlowInv'
  BY <1>12 DEF OIDCCallback, SetCb, store, birth, Holds, OncePerFlow
<1>13. ASSUME NEW k \in Callback, CallbackRefused(k) \/ CallbackFails(k) PROVE FlowInv'
  <2>1. PICK p \in {"over", "refused"} : cb' = [cb EXCEPT ![k] = At(cb[k], p)]
    BY <1>13 DEF CallbackRefused, CallbackFails, SetCb
  <2>2. CbType'
    BY <2>1 DEF At
  <2>3. cb[k].pc \notin {"new", "over"}
    BY <1>13 DEF CallbackRefused, CallbackFails
  <2>4. \A l \in Callback, f \in Flow : Holds(l, f)' => Holds(l, f)
    BY <2>1 DEF At, Holds
  <2>5. \A l \in Callback : cb'[l].pc \notin {"new", "over"} =>
                              cb'[l].flow \in Flow /\ start[cb'[l].flow] \notin {"new", "read"}
    BY <2>1, <2>3 DEF At
  <2>6. UNCHANGED <<from, pending, start, settings, now>>
    BY <1>13 DEF CallbackRefused, CallbackFails, store, birth
  <2> QED
    BY <2>2, <2>4, <2>5, <2>6 DEF OncePerFlow
<1>14. ASSUME NEW k \in Callback, TakeOIDCPending(k) PROVE FlowInv'
  BY <1>14 DEF TakeOIDCPending, SetCb, At, birth, Holds, OncePerFlow
<1>15. ASSUME NEW k \in Callback, CallbackReadsSettings(k) PROVE FlowInv'
  BY <1>15 DEF CallbackReadsSettings, SetCb, store, birth, Holds, OncePerFlow
<1>16. ASSUME NEW k \in Callback, NEW s \in Session, CallbackLogsIn(k, s) PROVE FlowInv'
  BY <1>16 DEF CallbackLogsIn, CreateSession, SetCb, At, Holds, OncePerFlow
<1>17. ASSUME NEW a \in Settings, PutOIDCSettings(a) PROVE FlowInv'
  BY <1>17 DEF PutOIDCSettings, birth, Holds, OncePerFlow
<1> QED
  BY <1>2, <1>3, <1>4, <1>5, <1>6, <1>7, <1>8, <1>9, <1>10, <1>11, <1>12, <1>13, <1>14,
     <1>15, <1>16, <1>17
  DEF SessNext

(* One OIDC login makes at most one session, for any number of deliveries  *)
(* of its redirect (TakeOIDCPending).                                      *)
THEOREM OncePerFlowHolds == SessSpec => []OncePerFlow
<1>1. FlowInv => OncePerFlow
  BY DEF FlowInv
<1> QED
  BY FlowInitial, FlowStep, <1>1, PTL DEF SessSpec
-----------------------------------------------------------------------------
(* A row, and a copy of it that a request has read, never promises more    *)
(* than the login and the last use allow.                                  *)
TimeInv ==
    /\ live \subseteq Session /\ now \in Nat \ {0}
    /\ {expires, idle, born, seen} \subseteq [Session -> Nat]
    /\ req \in [Request -> [pc: {"idle", "read", "accepted", "expired"},
                            sid: Session \cup {NoSession}, expires: Nat, idle: Nat, seen: Nat]]
    /\ \A s \in Session : seen[s] <= now
    /\ \A s \in live : /\ born[s] # 0
                       /\ expires[s] <= born[s] + SessionAbs /\ idle[s] <= seen[s] + SessionIdle
    /\ \A r \in Request : req[r].pc # "idle" => req[r].sid \in Session /\ born[req[r].sid] # 0
    /\ \A r \in Request :
          req[r].pc = "read" => LET s == req[r].sid
                                IN  /\ req[r].expires <= born[s] + SessionAbs
                                    /\ req[r].idle <= seen[s] + SessionIdle

(* Initially there is no session and no request. *)
LEMMA TimeInitial == SessInit => TimeInv
  BY SessionAssumption DEF SessInit, TimeInv, Quiet

(* Every step keeps rows and copies within the promise. *)
LEMMA TimeStep == TimeInv /\ [SessNext]_sessVars => TimeInv'
<1> SUFFICES ASSUME TimeInv, [SessNext]_sessVars PROVE TimeInv'
  OBVIOUS
<1> USE SessionAssumption DEF TimeInv
<1>1. ASSUME UNCHANGED <<live, expires, idle, born, seen, req>>, now' \in Nat \ {0}, now' >= now
      PROVE  TimeInv'
  BY <1>1
<1>2. CASE Tick \/ UNCHANGED sessVars \/ BootCompares \/ BootStores
  BY <1>1, <1>2 DEF Tick, BootCompares, BootStores, sessVars, store, memory, birth
<1>3. CASE BootDeletes \/ DeleteAllSessions
  BY <1>3 DEF BootDeletes, DeleteAllSessions, DeleteAllRows, memory, birth
<1>4. CASE Restart
  BY <1>4 DEF Restart, store, birth, Quiet
<1>5. ASSUME NEW s \in Session, NEW f, CreateSession(s, f), UNCHANGED <<now, req>> PROVE TimeInv'
  <2>1. /\ born[s] = 0 /\ live' = live \cup {s}
        /\ \A u \in Session \ {s} : /\ expires'[u] = expires[u] /\ idle'[u] = idle[u]
                                    /\ born'[u] = born[u] /\ seen'[u] = seen[u]
        /\ expires'[s] = now + SessionAbs /\ idle'[s] = now + SessionIdle
        /\ born'[s] = now /\ seen'[s] = now
    BY <1>5 DEF CreateSession
  <2>2. {expires, idle, born, seen}' \subseteq [Session -> Nat]
    BY <1>5 DEF CreateSession
  <2>3. \A r \in Request : req[r].pc # "idle" => req[r].sid \in Session \ {s}
    BY <2>1
  <2>4. now # 0
    OBVIOUS
  <2> QED
    BY <1>5, <2>1, <2>2, <2>3, <2>4
<1>6. ASSUME NEW s \in Session, Logout(s) PROVE TimeInv'
  BY <1>6 DEF Logout, DeleteSession, memory, birth
<1>7. ASSUME NEW r \in Request, NEW s \in Session, GetSession(r, s) PROVE TimeInv'
  BY <1>7 DEF GetSession, store, birth
<1>8. ASSUME NEW r \in Request, LookupSession(r) PROVE TimeInv'
  BY <1>8 DEF LookupSession, store, birth
<1>9. ASSUME NEW r \in Request, RejectExpired(r) PROVE TimeInv'
  BY <1>9 DEF RejectExpired, DeleteSession, birth, Quiet
<1>10. ASSUME NEW r \in Request, Serve(r) PROVE TimeInv'
  BY <1>10 DEF Serve, Touch, birth, Quiet
<1>11. ASSUME NEW f \in Flow, \/ OIDCStart(f) \/ PutOIDCPending(f) \/ OIDCRedirects(f)
                             \/ OIDCProviderError(f)
       PROVE TimeInv'
  BY <1>1, <1>11 DEF OIDCStart, PutOIDCPending, OIDCRedirects, OIDCProviderError, store, birth
<1>12. ASSUME NEW k \in Callback, \/ CallbackRefused(k) \/ TakeOIDCPending(k)
                                 \/ CallbackReadsSettings(k) \/ CallbackFails(k)
                                 \/ \E f \in Flow : OIDCCallback(k, f)
       PROVE TimeInv'
  BY <1>1, <1>12 DEF CallbackRefused, TakeOIDCPending, CallbackReadsSettings, CallbackFails,
                     OIDCCallback, store, birth
<1>13. ASSUME NEW a \in Settings, PutOIDCSettings(a) PROVE TimeInv'
  BY <1>1, <1>13 DEF PutOIDCSettings, birth
<1> QED
  BY <1>2, <1>3, <1>4, <1>5, <1>6, <1>7, <1>8, <1>9, <1>10, <1>11, <1>12, <1>13
  DEF SessNext, Login, CallbackLogsIn, memory

(* A request is accepted only within SessionAbs of the login and within    *)
(* SessionIdle of the last use, also when the row it read is stale         *)
(* (LookupSession, TouchSessionIdle).                                      *)
THEOREM AcceptedInTimeHolds == SessSpec => AcceptedInTime
<1> DEFINE InTime ==
      \A r \in Request :
         req'[r].pc = "accepted" /\ req[r].pc # "accepted" =>
            LET s == req'[r].sid
            IN  now <= born[s] + SessionAbs /\ now <= seen[s] + SessionIdle
<1>1. TimeInv /\ [SessNext]_sessVars => [InTime]_sessVars
  <2> SUFFICES ASSUME TimeInv, SessNext, NEW q \in Request,
                      req'[q].pc = "accepted", req[q].pc # "accepted"
               PROVE  /\ now <= born[req'[q].sid] + SessionAbs
                      /\ now <= seen[req'[q].sid] + SessionIdle
    OBVIOUS
  <2> USE SessionAssumption DEF TimeInv
  <2>1. ASSUME NEW r \in Request, LookupSession(r)
        PROVE  /\ now <= born[req'[q].sid] + SessionAbs
               /\ now <= seen[req'[q].sid] + SessionIdle
    <3>1. q = r /\ req'[q].sid = req[q].sid /\ req[q].pc = "read"
      BY <2>1 DEF LookupSession
    <3>2. now <= req[q].expires /\ now <= req[q].idle
      BY <2>1, <3>1 DEF LookupSession
    <3> QED
      BY <3>1, <3>2
  <2>2. ASSUME UNCHANGED req PROVE FALSE
    BY <2>2
  <2>3. ASSUME NEW r \in Request, req' = [req EXCEPT ![r] = Quiet] PROVE FALSE
    BY <2>3 DEF Quiet
  <2>4. ASSUME NEW r \in Request, NEW s \in Session, GetSession(r, s) PROVE FALSE
    BY <2>4 DEF GetSession
  <2>5. CASE Restart
    BY <2>5 DEF Restart, Quiet
  <2> QED
    BY <2>1, <2>2, <2>3, <2>4, <2>5
    DEF SessNext, Tick, BootCompares, BootDeletes, BootStores, DeleteAllSessions, Login,
        Logout, RejectExpired, Serve, OIDCStart, PutOIDCPending, OIDCRedirects,
        OIDCProviderError, CallbackRefused, TakeOIDCPending, CallbackReadsSettings,
        CallbackFails, OIDCCallback, CallbackLogsIn, PutOIDCSettings, memory
<1> QED
  BY TimeInitial, TimeStep, <1>1, PTL DEF SessSpec, AcceptedInTime
-----------------------------------------------------------------------------
(* A row, and a copy of it, promises at least what the login and the last  *)
(* use allow, less the interval of the touch gate; and the deadline is no  *)
(* older than the write that the gate remembers.                           *)
KeptInv ==
    /\ TimeInv /\ last \in [Session -> Nat]
    /\ \A s \in Session : last[s] # 0 => born[s] # 0
    /\ \A s \in live : /\ expires[s] = born[s] + SessionAbs
                       /\ idle[s] + Interval >= seen[s] + SessionIdle
                       /\ last[s] # 0 => idle[s] >= last[s] + SessionIdle
    /\ \A r \in Request :
          req[r].pc = "read" => /\ req[r].expires = born[req[r].sid] + SessionAbs
                                /\ req[r].idle + Interval >= req[r].seen + SessionIdle

(* Initially there is no session and the gate remembers nothing. *)
LEMMA KeptInitial == SessInit => KeptInv
  BY SessionAssumption, TimeInitial DEF SessInit, KeptInv, Quiet

(* Every step keeps the promise. *)
LEMMA KeptStep == KeptInv /\ [SessNext]_sessVars => KeptInv'
<1> SUFFICES ASSUME KeptInv, [SessNext]_sessVars PROVE KeptInv'
  OBVIOUS
<1>0. TimeInv /\ TimeInv'
  BY TimeStep DEF KeptInv
<1> USE SessionAssumption, <1>0 DEF KeptInv
<1>1. ASSUME UNCHANGED <<live, expires, idle, born, seen, req, last>> PROVE KeptInv'
  BY <1>1
<1>2. CASE Tick \/ UNCHANGED sessVars \/ BootCompares \/ BootStores
  BY <1>1, <1>2 DEF Tick, BootCompares, BootStores, sessVars, store, memory, birth
<1>3. CASE BootDeletes \/ DeleteAllSessions
  BY <1>3 DEF BootDeletes, DeleteAllSessions, DeleteAllRows, memory, birth
<1>4. CASE Restart
  <2>1. \A r \in Request : req'[r].pc = "idle"
    BY <1>4 DEF Restart, Quiet
  <2>2. last' = [s \in Session |-> 0] /\ UNCHANGED <<live, expires, idle, born, seen>>
    BY <1>4 DEF Restart, store, birth
  <2>3. live \subseteq Session
    BY DEF TimeInv
  <2> QED
    BY <2>1, <2>2, <2>3
<1>5. ASSUME NEW s \in Session, NEW f, CreateSession(s, f), UNCHANGED <<now, req, last>>
      PROVE  KeptInv'
  <2>1. /\ born[s] = 0 /\ live' = live \cup {s}
        /\ \A u \in Session \ {s} : /\ expires'[u] = expires[u] /\ idle'[u] = idle[u]
                                    /\ born'[u] = born[u] /\ seen'[u] = seen[u]
        /\ expires'[s] = now + SessionAbs /\ idle'[s] = now + SessionIdle
        /\ born'[s] = now /\ seen'[s] = now
    BY <1>5 DEF CreateSession, TimeInv
  <2>2. last[s] = 0 /\ now \in Nat
    BY <2>1 DEF TimeInv
  <2>3. \A r \in Request : req[r].pc = "read" => req[r].sid \in Session \ {s}
    BY <2>1 DEF TimeInv
  <2>4. live \subseteq Session
    BY DEF TimeInv
  <2>6. \A u \in Session : last'[u] # 0 => born'[u] # 0
    BY <1>5, <2>1, <2>2
  <2>7. \A r \in Request :
          req'[r].pc = "read" => /\ req'[r].expires = born'[req'[r].sid] + SessionAbs
                                 /\ req'[r].idle + Interval >= req'[r].seen + SessionIdle
    BY <1>5, <2>1, <2>3
  <2>8. /\ expires'[s] = born'[s] + SessionAbs
        /\ idle'[s] + Interval >= seen'[s] + SessionIdle
        /\ last'[s] = 0
    BY <1>5, <2>1, <2>2
  <2>9. \A u \in live' : /\ expires'[u] = born'[u] + SessionAbs
                         /\ idle'[u] + Interval >= seen'[u] + SessionIdle
                         /\ last'[u] # 0 => idle'[u] >= last'[u] + SessionIdle
    <3> SUFFICES ASSUME NEW u \in live'
                 PROVE  /\ expires'[u] = born'[u] + SessionAbs
                        /\ idle'[u] + Interval >= seen'[u] + SessionIdle
                        /\ last'[u] # 0 => idle'[u] >= last'[u] + SessionIdle
      OBVIOUS
    <3>1. CASE u = s
      BY <2>8, <3>1
    <3>2. CASE u # s
      <4>1. u \in live \ {s}
        BY <2>1, <3>2
      <4> QED
        BY <1>5, <2>1, <2>4, <4>1
    <3> QED
      BY <3>1, <3>2
  <2> QED
    BY <1>0, <1>5, <2>6, <2>7, <2>9
<1>6. ASSUME NEW s \in Session, Logout(s) PROVE KeptInv'
  BY <1>6 DEF Logout, DeleteSession, memory, birth, TimeInv
<1>7. ASSUME NEW r \in Request, NEW s \in Session, GetSession(r, s) PROVE KeptInv'
  BY <1>7 DEF GetSession, store, birth, TimeInv
<1>8. ASSUME NEW r \in Request, LookupSession(r) PROVE KeptInv'
  BY <1>8 DEF LookupSession, store, birth, TimeInv
<1>9. ASSUME NEW r \in Request, RejectExpired(r) PROVE KeptInv'
  BY <1>9 DEF RejectExpired, DeleteSession, birth, Quiet, TimeInv
<1>10. ASSUME NEW r \in Request, Serve(r) PROVE KeptInv'
  BY <1>10 DEF Serve, Touch, Due, birth, Quiet, TimeInv
<1>11. ASSUME NEW f \in Flow, \/ OIDCStart(f) \/ PutOIDCPending(f) \/ OIDCRedirects(f)
                             \/ OIDCProviderError(f)
       PROVE KeptInv'
  BY <1>1, <1>11 DEF OIDCStart, PutOIDCPending, OIDCRedirects, OIDCProviderError, store, birth
<1>12. ASSUME NEW k \in Callback, \/ CallbackRefused(k) \/ TakeOIDCPending(k)
                                 \/ CallbackReadsSettings(k) \/ CallbackFails(k)
                                 \/ \E f \in Flow : OIDCCallback(k, f)
       PROVE KeptInv'
  BY <1>1, <1>12 DEF CallbackRefused, TakeOIDCPending, CallbackReadsSettings, CallbackFails,
                     OIDCCallback, store, birth
<1>13. ASSUME NEW a \in Settings, PutOIDCSettings(a) PROVE KeptInv'
  BY <1>1, <1>13 DEF PutOIDCSettings, birth
<1> QED
  BY <1>2, <1>3, <1>4, <1>5, <1>6, <1>7, <1>8, <1>9, <1>10, <1>11, <1>12, <1>13
  DEF SessNext, Login, CallbackLogsIn, memory

(* A session is turned away only when it is too old or was not used for    *)
(* SessionIdle less the interval of the touch gate, for every choice of    *)
(* the durations (LookupSession, touchGate.due).                           *)
THEOREM NotCutShortHolds == SessSpec => NotCutShort
<1> DEFINE Kept ==
      \A r \in Request :
         req'[r].pc = "expired" /\ req[r].pc # "expired" =>
            \/ now > born[req[r].sid] + SessionAbs
            \/ now + Interval > req[r].seen + SessionIdle
<1>1. KeptInv /\ [SessNext]_sessVars => [Kept]_sessVars
  <2> SUFFICES ASSUME KeptInv, SessNext, NEW q \in Request,
                      req'[q].pc = "expired", req[q].pc # "expired"
               PROVE  \/ now > born[req[q].sid] + SessionAbs
                      \/ now + Interval > req[q].seen + SessionIdle
    OBVIOUS
  <2> USE SessionAssumption DEF KeptInv, TimeInv
  <2>1. ASSUME NEW r \in Request, LookupSession(r)
        PROVE  \/ now > born[req[q].sid] + SessionAbs
               \/ now + Interval > req[q].seen + SessionIdle
    <3>1. q = r /\ req[q].pc = "read"
      BY <2>1 DEF LookupSession
    <3>2. now > req[q].expires \/ now > req[q].idle
      BY <2>1, <3>1 DEF LookupSession
    <3> QED
      BY <3>1, <3>2
  <2>2. ASSUME UNCHANGED req PROVE FALSE
    BY <2>2
  <2>3. ASSUME NEW r \in Request, req' = [req EXCEPT ![r] = Quiet] PROVE FALSE
    BY <2>3 DEF Quiet
  <2>4. ASSUME NEW r \in Request, NEW s \in Session, GetSession(r, s) PROVE FALSE
    BY <2>4 DEF GetSession
  <2>5. CASE Restart
    BY <2>5 DEF Restart, Quiet
  <2> QED
    BY <2>1, <2>2, <2>3, <2>4, <2>5
    DEF SessNext, Tick, BootCompares, BootDeletes, BootStores, DeleteAllSessions, Login,
        Logout, RejectExpired, Serve, OIDCStart, PutOIDCPending, OIDCRedirects,
        OIDCProviderError, CallbackRefused, TakeOIDCPending, CallbackReadsSettings,
        CallbackFails, OIDCCallback, CallbackLogsIn, PutOIDCSettings, memory
<1> QED
  BY KeptInitial, KeptStep, <1>1, PTL DEF SessSpec, NotCutShort

(* One code gives one token, and one credential is stored (Exchange,       *)
(* MintAgentCredential).                                                   *)
THEOREM EnrolledOnceHolds == EnrSpec => []EnrolledOnce
BY CodeOnceHolds, OneCredentialHolds, PTL DEF EnrolledOnce

(* Codes are exchanged in their time only, and credentials end for good.   *)
THEOREM CredentialsEndHolds == EnrSpec => CredentialsEnd
BY NewestInTimeHolds, RevokedForGoodHolds, PTL DEF CredentialsEnd

(* Every stored session is of the password in force, and every OIDC login  *)
(* has at most one (SyncPasswordFingerprint, TakeOIDCPending).             *)
THEOREM SessionsSafeHolds == SessSpec => []SessionsSafe
BY SessionsOfPasswordHolds, OncePerFlowHolds, PTL DEF SessionsSafe

(* Sessions keep their deadlines in both directions and end for good.      *)
THEOREM SessionsEndHolds == SessSpec => SessionsEnd
BY GoneStaysGoneHolds, AcceptedInTimeHolds, NotCutShortHolds, PTL DEF SessionsEnd

-----------------------------------------------------------------------------
(* The rate limiter: the attempts of the window that ends now are all      *)
(* still in the table, whatever was pruned, and nothing else is in it.     *)

RateAttempts == [no: Nat, at: Nat]
RateInv ==
    /\ tick \in Nat /\ tick >= Window /\ cleanup \in Nat
    /\ hits \in [Key -> SUBSET RateAttempts] /\ granted \in [Key -> SUBSET RateAttempts]
    /\ \A k \in Key : /\ IsFiniteSet(granted[k]) /\ hits[k] \subseteq granted[k]
                      /\ \A a \in granted[k] : a.at <= tick
                      /\ \A a \in granted[k] : a.at > tick - Window => a \in hits[k]

LEMMA RateInitInv == RateInit => RateInv /\ WindowKept
  <1> SUFFICES ASSUME RateInit PROVE RateInv /\ WindowKept
    OBVIOUS
  <1>1. IsFiniteSet({}) /\ Cardinality({}) = 0
    BY FS_EmptySet
  <1>2. RateInv
    BY <1>1, RateAssumption DEF RateInit, RateInv, RateAttempts
  <1>3. ASSUME NEW k \in Key, NEW t \in Window..MaxStep PROVE Cardinality(GrantedIn(k, (t + 1) - Window, t)) <= Limit
    <2>1. GrantedIn(k, (t + 1) - Window, t) = {}
      BY <1>3 DEF GrantedIn, RateInit
    <2> QED
      BY <1>1, <2>1, RateAssumption
  <1> QED
    BY <1>2, <1>3 DEF WindowKept

(* What Allow counts are the attempts let through in the window. *)
LEMMA RateCounts ==
    ASSUME RateInv, NEW k \in Key
    PROVE  /\ Fresh(Pruned[k]) = GrantedIn(k, (tick + 1) - Window, tick)
           /\ Fresh(Pruned[k]) \subseteq granted[k] /\ IsFiniteSet(Fresh(Pruned[k]))
           /\ Cardinality(Fresh(Pruned[k])) \in Nat
  <1>1. \A a : a \in Fresh(Pruned[k]) <=> a \in hits[k] /\ a.at > tick - Window
    BY DEF RateInv, Pruned, Fresh
  <1>2. \A a \in granted[k] : a.at \in (tick + 1) - Window .. tick <=> a.at > tick - Window
    BY RateAssumption DEF RateInv, RateAttempts
  <1>3. \A a : a \in Fresh(Pruned[k]) <=> a \in granted[k] /\ a.at > tick - Window
    BY <1>1 DEF RateInv
  <1>4. Fresh(Pruned[k]) = GrantedIn(k, (tick + 1) - Window, tick)
    BY <1>2, <1>3 DEF GrantedIn
  <1>5. Fresh(Pruned[k]) \subseteq granted[k] /\ IsFiniteSet(granted[k])
    BY <1>3 DEF RateInv
  <1> QED
    BY <1>4, <1>5, FS_Subset, FS_CardinalityType

LEMMA RateStepInv == RateInv /\ WindowKept /\ [RateNext]_rateVars => RateInv' /\ WindowKept'
  <1> SUFFICES ASSUME RateInv, WindowKept, [RateNext]_rateVars PROVE RateInv' /\ WindowKept'
    OBVIOUS
  <1>0. /\ tick \in Nat /\ tick >= Window /\ cleanup \in Nat /\ Window \in Nat /\ Limit \in Nat /\ MaxStep \in Nat
        /\ hits \in [Key -> SUBSET RateAttempts] /\ granted \in [Key -> SUBSET RateAttempts]
    BY RateAssumption DEF RateInv
  <1>1. CASE RateTick
    <2>1. tick' = tick + 1 /\ hits' = hits /\ granted' = granted /\ cleanup' = cleanup
      BY <1>1 DEF RateTick
    <2>2. \A k \in Key : \A a \in granted[k] : a.at \in Nat
      BY <1>0 DEF RateAttempts
    <2>3. RateInv'
      BY <1>0, <2>1, <2>2 DEF RateInv
    <2>4. WindowKept'
      BY <2>1 DEF WindowKept, GrantedIn
    <2> QED
      BY <2>3, <2>4
  <1>2. ASSUME NEW k \in Key, Allow(k) PROVE RateInv' /\ WindowKept'
    <2> DEFINE times == Fresh(Pruned[k])
               new == attempt(k)
    <2>1. /\ hits' = [Pruned EXCEPT ![k] = IF Cardinality(times) < Limit THEN times \cup {new} ELSE times]
          /\ granted' = IF Cardinality(times) < Limit THEN [granted EXCEPT ![k] = granted[k] \cup {new}] ELSE granted
          /\ tick' = tick /\ cleanup' \in {cleanup, tick + Window}
      BY <1>2 DEF Allow
    <2>2. new \in RateAttempts /\ new.at = tick
      <3>1. Cardinality(granted[k]) \in Nat
        BY FS_CardinalityType DEF RateInv
      <3> QED
        BY <1>0, <3>1 DEF attempt, RateAttempts
    <2>3. /\ times = GrantedIn(k, (tick + 1) - Window, tick) /\ times \subseteq granted[k]
          /\ IsFiniteSet(times) /\ Cardinality(times) \in Nat
      BY RateCounts
    <2>4. \A j \in Key : /\ Fresh(Pruned[j]) \subseteq Pruned[j] /\ Pruned[j] \subseteq hits[j]
                         /\ \A a \in granted[j] : a.at > tick - Window => a \in Pruned[j] /\ a \in Fresh(Pruned[j])
      BY DEF RateInv, Pruned, Fresh
    <2>5. Pruned \in [Key -> SUBSET RateAttempts] /\ times \in SUBSET RateAttempts
      BY <1>0, <2>3 DEF Pruned, Fresh
    <2>6. \A j \in Key : IsFiniteSet(granted[j]) /\ \A a \in granted[j] : a.at <= tick
      BY DEF RateInv
    <2> HIDE DEF times, new
    <2>7. IsFiniteSet(granted[k] \cup {new})
      BY <2>6, FS_AddElement
    <2>8. \A j \in Key : /\ granted'[j] \in {granted[j], granted[j] \cup {new}}
                         /\ j # k => granted'[j] = granted[j] /\ hits'[j] = Pruned[j]
      BY <1>0, <2>1, <2>5
    <2>9. RateInv'
      <3>1. tick' \in Nat /\ tick' >= Window /\ cleanup' \in Nat
        BY <1>0, <2>1
      <3>2. hits' \in [Key -> SUBSET RateAttempts] /\ granted' \in [Key -> SUBSET RateAttempts]
        BY <1>0, <2>1, <2>2, <2>5
      <3>3. \A j \in Key : IsFiniteSet(granted'[j]) /\ \A a \in granted'[j] : a.at <= tick
        <4>1. CASE granted'[k] = granted[k]
          BY <2>6, <2>8, <4>1
        <4>2. CASE granted'[k] = granted[k] \cup {new}
          <5>1. IsFiniteSet(granted'[k]) /\ \A a \in granted'[k] : a.at <= tick
            BY <1>0, <2>2, <2>6, <2>7, <4>2
          <5> QED
            BY <2>6, <2>8, <5>1
        <4> QED
          BY <2>8, <4>1, <4>2
      <3>4. \A j \in Key : hits'[j] \subseteq granted'[j] /\ \A a \in granted'[j] : a.at > tick - Window => a \in hits'[j]
        <4>1. CASE Cardinality(times) < Limit
          <5>1. hits'[k] = times \cup {new} /\ granted'[k] = granted[k] \cup {new}
            BY <1>0, <2>1, <2>5, <4>1
          <5>2. \A a \in granted[k] : a.at > tick - Window => a \in times
            BY <2>4 DEF times
          <5>3. \A j \in Key : hits[j] \subseteq granted[j]
            BY DEF RateInv
          <5> QED
            BY <2>3, <2>4, <2>8, <5>1, <5>2, <5>3
        <4>2. CASE ~(Cardinality(times) < Limit)
          <5>1. hits'[k] = times /\ granted' = granted
            BY <1>0, <2>1, <2>5, <4>2
          <5>2. \A a \in granted[k] : a.at > tick - Window => a \in times
            BY <2>4 DEF times
          <5>3. \A j \in Key : hits[j] \subseteq granted[j]
            BY DEF RateInv
          <5> QED
            BY <2>3, <2>4, <2>8, <5>1, <5>2, <5>3
        <4> QED
          BY <4>1, <4>2
      <3> QED
        BY <2>1, <3>1, <3>2, <3>3, <3>4 DEF RateInv
    (* A window that holds the new attempt ends now or later: the others in  *)
    (* it are among those that were counted.                                 *)
    <2>10. ASSUME NEW j \in Key, NEW t \in Window..MaxStep
           PROVE  Cardinality(GrantedIn(j, (t + 1) - Window, t)') <= Limit
      <3> DEFINE W == GrantedIn(j, (t + 1) - Window, t)
                 V == {a \in granted'[j] : a.at \in (t + 1) - Window .. t}
      <3>1. GrantedIn(j, (t + 1) - Window, t)' = V
        BY DEF GrantedIn
      <3>2. Cardinality(W) <= Limit
        BY <2>10 DEF WindowKept
      <3>3. CASE V = W
        BY <3>1, <3>2, <3>3
      <3>4. CASE V # W
        <4>1. j = k /\ Cardinality(times) < Limit /\ granted'[j] = granted[j] \cup {new}
          BY <1>0, <2>1, <2>8, <3>4 DEF GrantedIn
        <4>2. t \in Nat /\ tick \in (t + 1) - Window .. t
          BY <1>0, <2>2, <2>10, <3>4, <4>1 DEF GrantedIn
        <4>3. \A a \in granted[k] : a.at \in Nat /\ (a.at \in (t + 1) - Window .. t => a.at \in (tick + 1) - Window .. tick)
          BY <1>0, <2>6, <4>2 DEF RateAttempts
        <4>4. V \subseteq times \cup {new}
          BY <2>3, <4>1, <4>3 DEF GrantedIn
        <4>5. /\ IsFiniteSet(times \cup {new}) /\ Cardinality(times \cup {new}) \in Nat
              /\ Cardinality(times \cup {new}) <= Cardinality(times) + 1
          <5>1. IsFiniteSet(times \cup {new}) /\ Cardinality(times \cup {new}) = IF new \in times THEN Cardinality(times) ELSE Cardinality(times) + 1
            BY <2>3, FS_AddElement
          <5> QED
            BY <2>3, <5>1
        <4>6. Cardinality(V) \in Nat /\ Cardinality(V) <= Cardinality(times \cup {new})
          BY <4>4, <4>5, FS_Subset, FS_CardinalityType
        <4> HIDE DEF V
        <4> QED
          BY <1>0, <2>3, <3>1, <4>1, <4>5, <4>6
      <3> QED
        BY <3>3, <3>4
    <2>11. WindowKept'
      BY <2>10 DEF WindowKept
    <2> QED
      BY <2>9, <2>11
  <1>3. CASE UNCHANGED rateVars
    BY <1>3 DEF rateVars, RateInv, WindowKept, GrantedIn
  <1> QED
    BY <1>1, <1>2, <1>3 DEF RateNext

(* No window, wherever it starts, holds more than Limit attempts of one    *)
(* address that were let through.                                          *)
THEOREM WindowKeptHolds == RateSpec => []WindowKept
  BY RateInitInv, RateStepInv, PTL DEF RateSpec

(* An attempt is refused only when Limit attempts of the same address were *)
(* let through within the window that ends with it.                        *)
THEOREM NoUndueRefusalHolds == RateSpec => NoUndueRefusal
  <1>1. RateInv /\ [RateNext]_rateVars
        => [tick' = tick /\ ~verdict'.ok =>
              Cardinality(GrantedIn(verdict'.key, (tick + 1) - Window, tick)) >= Limit]_rateVars
    <2> SUFFICES ASSUME RateInv, RateNext, tick' = tick, ~verdict'.ok
                 PROVE  Cardinality(GrantedIn(verdict'.key, (tick + 1) - Window, tick)) >= Limit
      OBVIOUS
    <2>1. PICK k \in Key : Allow(k)
      BY DEF RateNext, RateTick, RateInv
    <2>2. verdict'.key = k /\ ~(Cardinality(Fresh(Pruned[k])) < Limit)
      BY <2>1 DEF Allow
    <2> QED
      BY <2>2, RateCounts, RateAssumption
  <1> QED
    BY <1>1, RateInitInv, RateStepInv, PTL DEF RateSpec, NoUndueRefusal

(* The limiter grants Limit attempts a window and refuses only the rest.   *)
THEOREM LimitExactHolds == RateSpec => LimitExact
  BY WindowKeptHolds, NoUndueRefusalHolds, PTL DEF LimitExact

-----------------------------------------------------------------------------
(* The switches as configured, with the types the argument needs. *)
ConfiguredInv ==
    /\ wanted \in [Switch -> Conf \cup {Never, Deleted}]
    /\ AsConfigured

LEMMA StatusKeepsConf ==
    ASSUME ConfiguredInv, NEW x, NEW st, SaveStatus(x, st), wanted' = wanted
    PROVE  ConfiguredInv'
<1>1. CASE x.id \in DOMAIN switches
  <2>1. DOMAIN switches' = DOMAIN switches
    BY <1>1 DEF SaveStatus
  <2>2. ASSUME NEW s \in DOMAIN switches PROVE switches'[s].conf = switches[s].conf
    <3>1. CASE s = x.id
      BY <1>1, <3>1 DEF SaveStatus
    <3>2. CASE s # x.id
      BY <1>1, <3>2 DEF SaveStatus
    <3> QED BY <3>1, <3>2
  <2> QED BY <2>1, <2>2 DEF ConfiguredInv, AsConfigured
<1>2. CASE x.id \notin DOMAIN switches
  BY <1>2 DEF SaveStatus, ConfiguredInv, AsConfigured
<1> QED BY <1>1, <1>2

(* Whatever a poll writes and however late, the stored list is what the    *)
(* user's operations made it.                                              *)
THEOREM AsConfiguredHolds == PollSpec => []AsConfigured
<1>1. PollInit => ConfiguredInv
  BY PollerAssumption DEF PollInit, ConfiguredInv, AsConfigured
<1>2. ConfiguredInv /\ [PollNext]_pollVars => ConfiguredInv'
  <2> SUFFICES ASSUME ConfiguredInv, [PollNext]_pollVars PROVE ConfiguredInv'
    OBVIOUS
  <2>1. ASSUME NEW s \in Switch, NEW c \in Conf, CreateSwitch(s, c) PROVE ConfiguredInv'
    <3>1. wanted' \in [Switch -> Conf \cup {Never, Deleted}]
      BY <2>1 DEF CreateSwitch, ConfiguredInv
    <3>2. DOMAIN switches' = DOMAIN switches \cup {s}
      BY <2>1 DEF CreateSwitch
    <3>3. \A u \in Switch : wanted'[u] = IF u = s THEN c ELSE wanted[u]
      BY <2>1 DEF CreateSwitch, ConfiguredInv
    <3>4. switches'[s].conf = c
      BY <2>1 DEF CreateSwitch, Row
    <3>5. \A u \in DOMAIN switches : u # s => switches'[u] = switches[u]
      BY <2>1 DEF CreateSwitch
    <3>6. DOMAIN switches' = {u \in Switch : wanted'[u] \in Conf}
      BY <3>2, <3>3 DEF ConfiguredInv, AsConfigured
    <3>7. \A u \in DOMAIN switches' : switches'[u].conf = wanted'[u]
      BY <3>2, <3>3, <3>4, <3>5 DEF ConfiguredInv, AsConfigured
    <3> QED BY <3>1, <3>6, <3>7 DEF ConfiguredInv, AsConfigured
  <2>2. ASSUME NEW s \in Switch, NEW c \in Conf, UpdateSwitch(s, c) PROVE ConfiguredInv'
    <3>1. wanted' \in [Switch -> Conf \cup {Never, Deleted}]
      BY <2>2 DEF UpdateSwitch, ConfiguredInv
    <3>2. DOMAIN switches' = DOMAIN switches /\ s \in DOMAIN switches
      BY <2>2 DEF UpdateSwitch
    <3>3. \A u \in Switch : wanted'[u] = IF u = s THEN c ELSE wanted[u]
      BY <2>2 DEF UpdateSwitch, ConfiguredInv
    <3>4. switches'[s].conf = c
      BY <2>2 DEF UpdateSwitch
    <3>5. \A u \in DOMAIN switches : u # s => switches'[u] = switches[u]
      BY <2>2 DEF UpdateSwitch
    <3>6. DOMAIN switches' = {u \in Switch : wanted'[u] \in Conf}
      BY <3>2, <3>3 DEF ConfiguredInv, AsConfigured
    <3>7. \A u \in DOMAIN switches' : switches'[u].conf = wanted'[u]
      BY <3>2, <3>3, <3>4, <3>5 DEF ConfiguredInv, AsConfigured
    <3> QED BY <3>1, <3>6, <3>7 DEF ConfiguredInv, AsConfigured
  <2>3. ASSUME NEW s \in Switch, DeleteSwitch(s) PROVE ConfiguredInv'
    BY <2>3, PollerAssumption DEF DeleteSwitch, ConfiguredInv, AsConfigured
  <2>4. ASSUME NEW p \in Poller, NEW x \in todo[p], Answers(p, x) PROVE ConfiguredInv'
    BY <2>4, StatusKeepsConf DEF Answers
  <2>5. ASSUME NEW p \in Poller, NEW x \in todo[p], NEW e, Refuses(p, x, e) PROVE ConfiguredInv'
    BY <2>5, StatusKeepsConf DEF Refuses
  <2>6. ASSUME UNCHANGED <<switches, wanted>> PROVE ConfiguredInv'
    BY <2>6 DEF ConfiguredInv, AsConfigured
  <2>7. ASSUME StopModule PROVE ConfiguredInv'
    BY <2>6, <2>7 DEF StopModule
  <2>8. ASSUME NEW p \in Poller,
               \/ StartModule(p) \/ ServerBoots(p) \/ PollTick(p) \/ LoopEnds(p)
               \/ ListsSwitches(p) \/ PollEnds(p)
        PROVE  ConfiguredInv'
    BY <2>6, <2>8 DEF StartModule, ServerBoots, PollTick, LoopEnds, ListsSwitches, PollEnds
  <2>9. ASSUME UNCHANGED pollVars PROVE ConfiguredInv'
    BY <2>6, <2>9 DEF pollVars
  <2> QED BY <2>1, <2>2, <2>3, <2>4, <2>5, <2>7, <2>8, <2>9 DEF PollNext
<1>3. ConfiguredInv => AsConfigured
  BY DEF ConfiguredInv
<1> QED BY <1>1, <1>2, <1>3, PTL DEF PollSpec

Active(p) == loop[p] \notin {"unused", "ended"} /\ ~canceled[p]

ModuleInv ==
    /\ running \in Poller \cup {NoPoller}
    /\ loop \in [Poller -> {"unused", "ticked", "waiting", "polling", "ended"}]
    /\ canceled \in [Poller -> BOOLEAN]
    /\ enabled <=> running # NoPoller
    /\ \A p \in Poller : Active(p) => p = running

(* Exactly one poller may poll on while the module is enabled, and none    *)
(* once it is disabled, over any sequence of toggles and restarts.         *)
THEOREM OneModuleHolds == PollSpec => []OneModule
<1>1. PollInit => ModuleInv
  BY DEF PollInit, ModuleInv, Active
<1>2. ModuleInv /\ [PollNext]_pollVars => ModuleInv'
  <2> SUFFICES ASSUME ModuleInv, [PollNext]_pollVars PROVE ModuleInv'
    OBVIOUS
  <2> USE PollerAssumption
  <2>1. ASSUME NEW p \in Poller, StartModule(p) PROVE ModuleInv'
    BY <2>1 DEF StartModule, ModuleInv, Active
  <2>2. ASSUME StopModule PROVE ModuleInv'
    BY <2>2 DEF StopModule, ModuleInv, Active
  <2>3. ASSUME NEW p \in Poller, ServerBoots(p) PROVE ModuleInv'
    BY <2>3 DEF ServerBoots, ModuleInv, Active
  <2>4. ASSUME NEW p \in Poller, PollTick(p) \/ LoopEnds(p) PROVE ModuleInv'
    BY <2>4 DEF PollTick, LoopEnds, ModuleInv, Active
  <2>5. ASSUME NEW p \in Poller, ListsSwitches(p) PROVE ModuleInv'
    BY <2>5 DEF ListsSwitches, ModuleInv, Active
  <2>6. ASSUME NEW p \in Poller, PollEnds(p) PROVE ModuleInv'
    BY <2>6 DEF PollEnds, ModuleInv, Active
  <2>7. ASSUME UNCHANGED <<running, enabled, loop, canceled>> PROVE ModuleInv'
    BY <2>7 DEF ModuleInv, Active
  <2>8. ASSUME NEW s \in Switch, DeleteSwitch(s) PROVE ModuleInv'
    BY <2>7, <2>8 DEF DeleteSwitch, moduleVars
  <2>9. ASSUME NEW s \in Switch, NEW c \in Conf, CreateSwitch(s, c) \/ UpdateSwitch(s, c)
        PROVE  ModuleInv'
    BY <2>7, <2>9 DEF CreateSwitch, UpdateSwitch, moduleVars
  <2>10. ASSUME NEW p \in Poller, NEW x \in todo[p], NEW e, Answers(p, x) \/ Refuses(p, x, e)
         PROVE  ModuleInv'
    BY <2>7, <2>10 DEF Answers, Refuses
  <2>11. ASSUME UNCHANGED pollVars PROVE ModuleInv'
    BY <2>7, <2>11 DEF pollVars
  <2> QED BY <2>1, <2>2, <2>3, <2>4, <2>5, <2>6, <2>8, <2>9, <2>10, <2>11 DEF PollNext
<1>3. ModuleInv => OneModule
  BY DEF ModuleInv, OneModule, Active
<1> QED BY <1>1, <1>2, <1>3, PTL DEF PollSpec
-----------------------------------------------------------------------------
(* The event file. *)
Front(l) ==
    /\ Len(batch[l]) <= Len(file)
    /\ \A i \in 1..Len(batch[l]) : file[i] = batch[l][i]

SpoolType ==
    /\ file \in Seq(Event) /\ batch \in [Link -> Seq(Event)]
    /\ link \in Link \cup {NoLink}
    /\ flush \in [Link -> {"unused", "begun", "read", "sent", "acked", "done"}]
    /\ net \in [Link -> {"idle", "events", "ack"}]

(* What Drop will take is the front of the file, and is recorded: only the *)
(* flush of the open connection, or one that has its acknowledgement, can  *)
(* still drop, and of the latter there is at most one.                     *)
SpoolInv ==
    /\ SpoolType
    /\ \A l \in Link : flush[l] = "acked" => link \in {l, NoLink}
    /\ \A l, m \in Link : flush[l] = "acked" /\ flush[m] = "acked" => l = m
    /\ \A l \in Link : flush[l] = "acked" => Front(l)
    /\ \A l \in Link : link = l /\ flush[l] \in {"read", "sent"} => Front(l)
    /\ \A l \in Link : net[l] = "ack" \/ flush[l] = "acked" => Lines(batch[l]) \subseteq recorded
    /\ \A l \in Link : net[l] # "idle" => flush[l] \in {"sent", "acked", "done"}
    /\ EventKept

(* Drop leaves what is behind the batch, and takes only recorded events. *)
LEMMA DropKeeps ==
    ASSUME SpoolInv, NEW l \in Link, flush[l] = "acked",
           file' = SubSeq(file, Len(batch[l]) + 1, Len(file))
    PROVE  /\ file' \in Seq(Event)
           /\ Lines(file) \subseteq Lines(file') \cup recorded
<1> DEFINE n == Len(batch[l])
<1>1. n \in Nat /\ Len(file) \in Nat /\ n <= Len(file)
  BY DEF SpoolInv, SpoolType, Front
<1>2. file' \in Seq(Event) /\ Len(file') = Len(file) - n
  BY <1>1 DEF SpoolInv, SpoolType
<1>3. \A i \in 1..(Len(file) - n) : file'[i] = file[i + n]
  BY <1>1 DEF SpoolInv, SpoolType
<1>4. ASSUME NEW i \in 1..Len(file) PROVE file[i] \in Lines(file') \cup recorded
  <2> HIDE DEF n
  <2>0. i \in Nat /\ 1 <= i /\ i <= Len(file)
    BY <1>1
  <2>1. CASE i <= n
    <3>1. file[i] = batch[l][i] /\ i \in 1..Len(batch[l])
      BY <1>1, <2>0, <2>1 DEF SpoolInv, Front, n
    <3>2. Lines(batch[l]) \subseteq recorded
      BY DEF SpoolInv
    <3> QED BY <3>1, <3>2 DEF Lines
  <2>2. CASE i > n
    <3>1. i - n \in 1..(Len(file) - n) /\ (i - n) + n = i
      BY <1>1, <2>0, <2>2
    <3>2. file'[i - n] = file[i] /\ i - n \in 1..Len(file')
      BY <1>2, <1>3, <3>1
    <3> QED BY <3>2 DEF Lines
  <2> QED BY <1>1, <2>0, <2>1, <2>2
<1> QED BY <1>2, <1>4 DEF Lines

LEMMA AppendKeeps ==
    ASSUME SpoolType, NEW e \in Event, file' = Append(file, e), batch' = batch
    PROVE  /\ file' \in Seq(Event)
           /\ Lines(file') = Lines(file) \cup {e}
           /\ \A l \in Link : Front(l) => Front(l)'
<1>1. file' \in Seq(Event) /\ Len(file') = Len(file) + 1 /\ Len(file) \in Nat
  BY DEF SpoolType
<1>2. \A i \in 1..Len(file) : file'[i] = file[i]
  BY DEF SpoolType
<1>3. file'[Len(file) + 1] = e
  BY DEF SpoolType
<1>4. Lines(file') = Lines(file) \cup {e}
  <2>1. 1..Len(file') = 1..Len(file) \cup {Len(file) + 1}
    BY <1>1
  <2> QED BY <2>1, <1>2, <1>3 DEF Lines
<1>5. ASSUME NEW l \in Link, Front(l) PROVE Front(l)'
  <2>1. Len(batch[l]) \in Nat
    BY DEF SpoolType
  <2> QED BY <1>1, <1>2, <1>5, <2>1 DEF Front
<1> QED BY <1>1, <1>4, <1>5

(* No event is lost, for any number of events, connections and restarts. *)
THEOREM EventKeptHolds == SpoolSpec => []EventKept
<1>1. SpoolInit => SpoolInv
  <2> SUFFICES ASSUME SpoolInit PROVE SpoolInv
    OBVIOUS
  <2>1. SpoolType
    BY DEF SpoolInit, SpoolType
  <2> QED BY <2>1 DEF SpoolInit, SpoolInv, EventKept, Lines
<1>2. SpoolInv /\ [SpoolNext]_spoolVars => SpoolInv'
  <2> SUFFICES ASSUME SpoolInv, [SpoolNext]_spoolVars PROVE SpoolInv'
    OBVIOUS
  <2> USE SpoolAssumption
  <2>1. ASSUME NEW e \in Event, AppendEvent(e) PROVE SpoolInv'
    <3>1. /\ file' \in Seq(Event) /\ Lines(file') = Lines(file) \cup {e}
          /\ \A l \in Link : Front(l) => Front(l)'
      BY <2>1, AppendKeeps DEF AppendEvent, SpoolInv
    <3>2. SpoolType'
      BY <2>1, <3>1 DEF AppendEvent, SpoolInv, SpoolType
    <3>3. EventKept'
      BY <2>1, <3>1 DEF AppendEvent, SpoolInv, EventKept
    <3> QED BY <2>1, <3>1, <3>2, <3>3 DEF AppendEvent, SpoolInv
  <2>2. ASSUME NEW l \in Link, Dial(l) PROVE SpoolInv'
    <3>1. SpoolType'
      BY <2>2 DEF Dial, SpoolInv, SpoolType
    <3> QED BY <2>2, <3>1 DEF Dial, Settled, SpoolInv, SpoolType, Front, EventKept
  <2>3. ASSUME NEW l \in Link, Pending(l) PROVE SpoolInv'
    <3>1. SpoolType'
      BY <2>3 DEF Pending, SpoolInv, SpoolType
    <3>2. \A m \in Link : m # l => batch'[m] = batch[m] /\ flush'[m] = flush[m]
      BY <2>3 DEF Pending, SpoolInv, SpoolType
    <3>3. batch'[l] = file /\ flush'[l] \in {"done", "read"} /\ net[l] = "idle" /\ Front(l)'
      <4>1. batch'[l] = file /\ file' = file /\ Len(file) \in Nat
        BY <2>3 DEF Pending, SpoolInv, SpoolType
      <4>2. flush'[l] \in {"done", "read"} /\ net[l] = "idle"
        BY <2>3 DEF Pending, SpoolInv, SpoolType
      <4> QED BY <4>1, <4>2 DEF Front
    <3>4. \A m \in Link : m # l /\ Front(m) => Front(m)'
      BY <2>3, <3>2 DEF Pending, Front
    <3> QED BY <2>3, <3>1, <3>2, <3>3, <3>4 DEF Pending, SpoolInv, EventKept
  <2>4. ASSUME NEW l \in Link, SendEvents(l) PROVE SpoolInv'
    <3>1. SpoolType'
      BY <2>4 DEF SendEvents, SpoolInv, SpoolType
    <3>2. \A m \in Link : Front(m) => Front(m)'
      BY <2>4 DEF SendEvents, Front
    <3>3. UNCHANGED <<file, link, batch, recorded, happened>>
      BY <2>4 DEF SendEvents
    <3>4. \A m \in Link : m # l => flush'[m] = flush[m] /\ net'[m] = net[m]
      BY <2>4 DEF SendEvents, SpoolInv, SpoolType
    <3>5. \/ link = l /\ flush'[l] = "sent" /\ net'[l] = "events" /\ flush[l] = "read"
          \/ link # l /\ flush'[l] = "done" /\ net'[l] = net[l]
      BY <2>4 DEF SendEvents, SpoolInv, SpoolType
    <3> QED BY <3>1, <3>2, <3>3, <3>4, <3>5 DEF SpoolInv, EventKept
  <2>5. ASSUME NEW l \in Link, RecordEvents(l) PROVE SpoolInv'
    <3>1. SpoolType'
      BY <2>5 DEF RecordEvents, SpoolInv, SpoolType
    <3>2. \A m \in Link : Front(m) => Front(m)'
      BY <2>5 DEF RecordEvents, Front
    <3> QED BY <2>5, <3>1, <3>2 DEF RecordEvents, SpoolInv, SpoolType, EventKept
  <2>6. ASSUME NEW l \in Link, NEW n \in 0..Len(batch[l]), ServerStops(l, n) PROVE SpoolInv'
    <3>1. SpoolType'
      BY <2>6 DEF ServerStops, SpoolInv, SpoolType
    <3>2. \A m \in Link : Front(m) => Front(m)'
      BY <2>6 DEF ServerStops, Front
    <3>3. recorded \subseteq recorded' /\ UNCHANGED <<file, flush, batch, happened>> /\ link' = NoLink
      BY <2>6 DEF ServerStops
    <3>4. \A m \in Link : net'[m] = net[m] \/ net'[m] = "idle"
      BY <2>6 DEF ServerStops, SpoolInv, SpoolType
    <3> QED BY <3>1, <3>2, <3>3, <3>4 DEF SpoolInv, EventKept
  <2>7. ASSUME NEW l \in Link, EventsAck(l) PROVE SpoolInv'
    <3>1. SpoolType'
      BY <2>7 DEF EventsAck, SpoolInv, SpoolType
    <3>2. \A m \in Link : Front(m) => Front(m)'
      BY <2>7 DEF EventsAck, Front
    <3> QED BY <2>7, <3>1, <3>2 DEF EventsAck, SpoolInv, SpoolType, EventKept
  <2>8. ASSUME NEW l \in Link, DropEvents(l) PROVE SpoolInv'
    <3>1. file' \in Seq(Event) /\ Lines(file) \subseteq Lines(file') \cup recorded
      BY <2>8, DropKeeps DEF DropEvents
    <3>2. SpoolType'
      BY <2>8, <3>1 DEF DropEvents, SpoolInv, SpoolType
    <3>3. \A m \in Link : flush'[m] # "acked" /\ ~(link = m /\ flush'[m] \in {"read", "sent"})
      BY <2>8 DEF DropEvents, SpoolInv, SpoolType
    <3> QED BY <2>8, <3>1, <3>2, <3>3 DEF DropEvents, SpoolInv, SpoolType, EventKept
  <2>9. ASSUME NEW l \in Link, AckTimeout(l) PROVE SpoolInv'
    <3>1. SpoolType'
      BY <2>9 DEF AckTimeout, SpoolInv, SpoolType
    <3>2. \A m \in Link : Front(m) => Front(m)'
      BY <2>9 DEF AckTimeout, Front
    <3> QED BY <2>9, <3>1, <3>2 DEF AckTimeout, SpoolInv, SpoolType, EventKept
  <2>10. ASSUME LinkBreaks PROVE SpoolInv'
    BY <2>10 DEF LinkBreaks, SpoolInv, SpoolType, Front, EventKept
  <2>11. ASSUME AgentRestarts PROVE SpoolInv'
    <3>1. SpoolType'
      BY <2>11 DEF AgentRestarts, SpoolInv, SpoolType
    <3>2. \A m \in Link : flush'[m] \in {"unused", "done"} /\ (flush'[m] = "unused" <=> flush[m] = "unused")
      BY <2>11 DEF AgentRestarts
    <3> QED BY <2>11, <3>1, <3>2 DEF AgentRestarts, SpoolInv, EventKept
  <2>12. ASSUME UNCHANGED spoolVars PROVE SpoolInv'
    BY <2>12 DEF spoolVars, SpoolInv, SpoolType, Front, EventKept
  <2> QED BY <2>1, <2>2, <2>3, <2>4, <2>5, <2>6, <2>7, <2>8, <2>9, <2>10, <2>11, <2>12 DEF SpoolNext
<1>3. SpoolInv => EventKept
  BY DEF SpoolInv
<1> QED BY <1>1, <1>2, <1>3, PTL DEF SpoolSpec
-----------------------------------------------------------------------------
(* The metrics history. *)
MetricsType ==
    /\ time \in Nat /\ posted \subseteq Nat /\ added \in Seq(Nat)
    /\ prev \in Nat \cup {None} /\ lastSnap = prev
    /\ adding \in Nat \cup {None} /\ stage \in {"idle", "insert", "save"}
    /\ stage # "idle" => adding \in Nat
    /\ DOMAIN rows \subseteq Nat /\ \A t \in DOMAIN rows : rows[t] \in Nat

(* A snapshot is new: no stored point has its time already. *)
Unseen ==
    /\ \A t \in posted : t <= time /\ t \notin DOMAIN rows
    /\ \A t \in DOMAIN rows : t <= time
    /\ stage = "insert" => adding \notin DOMAIN rows
    /\ stage # "idle" => adding \notin posted /\ adding <= time

(* The base is the snapshot added last, and between the insertion of a     *)
(* point and the change of the base the point's interval is covered.       *)
MetricsInv ==
    /\ MetricsType /\ Unseen
    /\ prev = None => added = <<>>
    /\ prev # None => added # <<>> /\ prev = added[Len(added)]
    /\ stage = "insert" => prev # None
    /\ stage = "save" /\ prev # None =>
          \A m \in (prev + 1)..adding : m >= time - Retention => Covered(m)
    /\ NoGap

(* What pruning keeps goes on covering what is within the retention. *)
LEMMA CoverKept ==
    ASSUME MetricsType, NEW m \in Int, m >= time - Retention, Covered(m),
           \A t \in DOMAIN rows : t >= time - Retention => t \in DOMAIN rows' /\ rows'[t] = rows[t]
    PROVE  Covered(m)'
<1>1. PICK t \in DOMAIN rows : Rated(t, rows[t]) /\ rows[t] < m /\ m <= t
  BY DEF Covered
<1>2. t >= time - Retention
  BY <1>1, MetricsAssumption DEF MetricsType
<1> QED BY <1>1, <1>2 DEF Covered, Rated

LEMMA GapKept ==
    ASSUME MetricsInv, added' = added, time' = time,
           \A t \in DOMAIN rows : t >= time - Retention => t \in DOMAIN rows' /\ rows'[t] = rows[t]
    PROVE  NoGap'
<1> SUFFICES ASSUME NEW i \in DOMAIN added, NEW m \in (added[1] + 1)..added[i],
                    m >= time - Retention
             PROVE  Covered(m)'
  BY DEF NoGap
<1>1. m \in Int
  BY DEF MetricsInv, MetricsType
<1>2. Covered(m)
  BY DEF MetricsInv, NoGap
<1> QED BY <1>1, <1>2, CoverKept DEF MetricsInv

(* The charts have no hole, however late posts arrive and wherever in Add  *)
(* the server is restarted.                                                *)
THEOREM NoGapHolds == MetricsSpec => []NoGap
<1> USE MetricsAssumption
<1>1. MetricsInit => MetricsInv
  BY DEF MetricsInit, MetricsInv, MetricsType, Unseen, NoGap
<1>2. MetricsInv /\ [MetricsNext]_metricVars => MetricsInv'
  <2> SUFFICES ASSUME MetricsInv, [MetricsNext]_metricVars PROVE MetricsInv'
    OBVIOUS
  <2>1. ASSUME PostSnapshot PROVE MetricsInv'
    <3>1. UNCHANGED <<prev, adding, stage, rows, lastSnap, added>> /\ time' = time + 1
      BY <2>1 DEF PostSnapshot
    <3>2. posted' \subseteq posted \cup {time + 1}
      BY <2>1 DEF PostSnapshot
    <3>3. MetricsType'
      BY <3>1, <3>2 DEF MetricsInv, MetricsType
    <3>4. Unseen'
      BY <3>1, <3>2 DEF MetricsInv, MetricsType, Unseen
    <3>5. \A m \in Int : m >= time' - Retention => m >= time - Retention
      BY <3>1 DEF MetricsInv, MetricsType
    <3>6. \A m : Covered(m) => Covered(m)'
      BY <3>1 DEF Covered
    <3>7. NoGap'
      <4> SUFFICES ASSUME NEW i \in DOMAIN added, NEW m \in (added[1] + 1)..added[i],
                          m >= time' - Retention
                   PROVE  Covered(m)'
        BY <3>1 DEF NoGap
      <4>1. m \in Int
        BY DEF MetricsInv, MetricsType
      <4> QED BY <4>1, <3>5, <3>6 DEF MetricsInv, NoGap
    <3>8. stage' = "save" /\ prev' # None =>
              \A m \in (prev' + 1)..adding' : m >= time' - Retention => Covered(m)'
      <4> SUFFICES ASSUME stage = "save", prev # None, NEW m \in (prev + 1)..adding,
                          m >= time' - Retention
                   PROVE  Covered(m)'
        BY <3>1
      <4>1. m \in Int
        BY DEF MetricsInv, MetricsType
      <4> QED BY <4>1, <3>5, <3>6 DEF MetricsInv
    <3> QED BY <3>1, <3>3, <3>4, <3>7, <3>8 DEF MetricsInv
  <2>2. ASSUME NEW t \in posted, AddDerives(t) PROVE MetricsInv'
    <3>1. /\ UNCHANGED <<time, prev, rows, lastSnap, added>>
          /\ posted' = posted \ {t} /\ adding' = t
          /\ stage' = IF prev = None THEN "save" ELSE "insert"
      BY <2>2 DEF AddDerives
    <3>2. MetricsType'
      BY <3>1 DEF MetricsInv, MetricsType
    <3>3. Unseen'
      BY <3>1 DEF MetricsInv, MetricsType, Unseen
    <3>4. NoGap'
      BY <3>1, GapKept
    <3> QED BY <3>1, <3>2, <3>3, <3>4 DEF MetricsInv
  <2>3. ASSUME InsertHistory PROVE MetricsInv'
    <3> DEFINE r == [t \in DOMAIN rows \cup {adding} |-> IF t = adding THEN prev ELSE rows[t]]
    <3>1. /\ UNCHANGED <<time, posted, prev, adding, lastSnap, added>>
          /\ stage = "insert" /\ stage' = "save" /\ (rows' = Prune(r) \/ rows' = r)
      BY <2>3 DEF InsertHistory
    <3>2. adding \in Nat /\ prev \in Nat /\ adding \notin DOMAIN rows
      BY <3>1 DEF MetricsInv, MetricsType, Unseen
    <3>3. /\ DOMAIN rows' \subseteq DOMAIN rows \cup {adding}
          /\ \A t \in DOMAIN rows' : rows'[t] = IF t = adding THEN prev ELSE rows[t]
          /\ \A t \in DOMAIN rows \cup {adding} : t >= time - Retention => t \in DOMAIN rows'
      BY <3>1 DEF Prune
    <3>4. MetricsType'
      BY <3>1, <3>2, <3>3 DEF MetricsInv, MetricsType
    <3>5. Unseen'
      BY <3>1, <3>2, <3>3 DEF MetricsInv, Unseen
    <3>6. NoGap'
      BY <3>1, <3>2, <3>3, GapKept
    <3>7. ASSUME NEW m \in (prev + 1)..adding, m >= time - Retention PROVE Covered(m)'
      <4>1. adding >= time - Retention /\ prev < m /\ m <= adding /\ prev < adding
        BY <3>2, <3>7 DEF MetricsInv, MetricsType
      <4>2. adding \in DOMAIN rows' /\ rows'[adding] = prev
        BY <3>3, <4>1
      <4>3. prev # None
        BY <3>2
      <4> QED BY <4>1, <4>2, <4>3 DEF Covered, Rated
    <3> QED BY <3>1, <3>4, <3>5, <3>6, <3>7 DEF MetricsInv
  <2>4. ASSUME SaveSnapshot PROVE MetricsInv'
    <3>1. /\ UNCHANGED <<time, posted, rows>> /\ stage = "save" /\ stage' = "idle"
          /\ prev' = adding /\ lastSnap' = adding /\ adding' = None
          /\ added' = Append(added, adding)
      BY <2>4 DEF SaveSnapshot
    <3>2. adding \in Nat /\ added \in Seq(Nat) /\ Len(added) \in Nat
      BY <3>1 DEF MetricsInv, MetricsType
    <3>3. /\ added' \in Seq(Nat) /\ Len(added') = Len(added) + 1
          /\ added'[Len(added) + 1] = adding
          /\ \A i \in 1..Len(added) : added'[i] = added[i]
          /\ DOMAIN added' = 1..(Len(added) + 1) /\ DOMAIN added = 1..Len(added)
      BY <3>1, <3>2
    <3>4. MetricsType'
      BY <3>1, <3>2, <3>3 DEF MetricsInv, MetricsType
    <3>5. Unseen'
      BY <3>1 DEF MetricsInv, Unseen
    <3>6. \A m : Covered(m) => Covered(m)'
      BY <3>1 DEF Covered
    <3>7. ASSUME NEW i \in 1..(Len(added) + 1), NEW m \in (added'[1] + 1)..added'[i],
                 m >= time - Retention
          PROVE  Covered(m)
      <4>1. CASE added = <<>>
        <5>1. i = 1 /\ added'[1] = adding
          BY <3>3, <4>1
        <5> QED BY <5>1, <3>2
      <4>2. CASE added # <<>> /\ i <= Len(added)
        <5>1. added'[1] = added[1] /\ added'[i] = added[i] /\ i \in DOMAIN added
          BY <3>2, <3>3, <4>2
        <5> QED BY <5>1, <3>7 DEF MetricsInv, NoGap
      <4>3. CASE added # <<>> /\ i = Len(added) + 1
        <5>1. added'[1] = added[1] /\ added'[i] = adding /\ Len(added) \in DOMAIN added
          BY <3>2, <3>3, <4>3
        <5>2. prev \in Nat /\ prev = added[Len(added)] /\ added[1] \in Nat /\ prev # None
          BY <3>2, <5>1, <4>3 DEF MetricsInv, MetricsType
        <5>3. m \in Int /\ added[1] < m /\ m <= adding
          BY <3>2, <5>1, <5>2
        <5>4. CASE m <= prev
          <6>1. m \in (added[1] + 1)..added[Len(added)]
            BY <5>2, <5>3, <5>4
          <6> QED BY <3>7, <5>1, <6>1 DEF MetricsInv, NoGap
        <5>5. CASE m > prev
          <6>1. m \in (prev + 1)..adding
            BY <3>2, <5>2, <5>3, <5>5
          <6> QED BY <3>1, <3>7, <5>2, <6>1 DEF MetricsInv
        <5> QED BY <5>2, <5>3, <5>4, <5>5
      <4> QED BY <3>2, <4>1, <4>2, <4>3
    <3>8. NoGap'
      BY <3>1, <3>3, <3>6, <3>7 DEF NoGap
    <3>9. added' # <<>> /\ prev' = added'[Len(added')] /\ prev' # None
      BY <3>1, <3>2, <3>3
    <3> QED BY <3>1, <3>4, <3>5, <3>8, <3>9 DEF MetricsInv
  <2>5. ASSUME ServerRestarts PROVE MetricsInv'
    <3>1. /\ UNCHANGED <<time, posted, lastSnap, added>> /\ prev' = lastSnap
          /\ rows' = Prune(rows) /\ adding' = None /\ stage' = "idle"
      BY <2>5 DEF ServerRestarts
    <3>2. /\ DOMAIN rows' \subseteq DOMAIN rows
          /\ \A t \in DOMAIN rows' : rows'[t] = rows[t]
          /\ \A t \in DOMAIN rows : t >= time - Retention => t \in DOMAIN rows' /\ rows'[t] = rows[t]
      BY <3>1 DEF Prune
    <3>3. MetricsType'
      BY <3>1, <3>2 DEF MetricsInv, MetricsType
    <3>4. Unseen'
      BY <3>1, <3>2 DEF MetricsInv, Unseen
    <3>5. NoGap'
      BY <3>1, <3>2, GapKept
    <3> QED BY <3>1, <3>3, <3>4, <3>5 DEF MetricsInv, MetricsType
  <2>6. ASSUME UNCHANGED metricVars PROVE MetricsInv'
    BY <2>6 DEF metricVars, MetricsInv, MetricsType, Unseen, NoGap, Covered
  <2> QED BY <2>1, <2>2, <2>3, <2>4, <2>5, <2>6 DEF MetricsNext
<1>3. MetricsInv => NoGap
  BY DEF MetricsInv
<1> QED BY <1>1, <1>2, <1>3, PTL DEF MetricsSpec

(* Late polls neither change the configured switches nor outlive their     *)
(* module.                                                                 *)
THEOREM PollsHarmlessHolds == PollSpec => []PollsHarmless
BY AsConfiguredHolds, OneModuleHolds, PTL DEF PollsHarmless
=============================================================================
