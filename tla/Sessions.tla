------------------------------ MODULE Sessions ------------------------------
(***************************************************************************)
(* Browser sessions of the server (server/internal/auth and store/auth.go) *)
(* with authentication enabled: password and OIDC login, the lookup and    *)
(* the coalesced idle extension that every request makes, logout, the      *)
(* change of OIDC settings, and the password fingerprint that is compared  *)
(* when the server starts. Rows live in SQLite, the touch gate in memory.  *)
(* One statement, or one transaction, on the store is one step.            *)
(***************************************************************************)
EXTENDS Naturals

CONSTANTS
    Session,        \* session ids: random, so each is created at most once
    Request,        \* requests that carry a session cookie
    Flow,           \* OIDC logins: state, nonce and verifier
    Callback,       \* deliveries of the redirect back from the provider
    Password,       \* values of AUTH_PASSWORD
    NoSession, NoFlow, NoPassword,
    SessionAbs, SessionIdle, PendingTTL,
    Interval,       \* of the touch gate
    MaxTime         \* bound on the clock

ASSUME SessionAssumption ==
    /\ {SessionAbs, SessionIdle, PendingTTL, Interval, MaxTime} \subseteq Nat
    /\ Interval <= SessionIdle
    /\ NoSession \notin Session /\ NoFlow \notin Flow /\ NoPassword \notin Password

VARIABLES
    now,
    boot,           \* where the start of the server is, or "serving"
    password,       \* AUTH_PASSWORD of the running server
    fp,             \* the stored fingerprint
    live,           \* ids of the rows of auth_sessions
    expires, idle,  \* their deadlines
    last,           \* touchGate.last; 0 when the key is missing
    req,            \* a request: its step and its session
    pending,        \* auth_oidc_pending: the expiry of a flow's row, or 0
    start,          \* OIDCStart of a flow
    cookie,         \* fp_oidc_state of the browser
    cb,             \* a callback: its step, its flow, the allowlist it read
    settings,       \* stored OIDC settings: off, or whom the allowlist admits
    putting,        \* putOIDCSettings has stored but not yet deleted
    born, seen,     \* history: creation and last completed use of a session
    madeUnder, from \* history: the password in force then, and the flow

store == <<fp, live, expires, idle, pending, settings>>
memory == <<last, req, start, cb, putting>>
birth == <<born, madeUnder, from>>
sessVars == <<now, boot, password, store, memory, cookie, birth, seen>>

Times == 0..MaxTime
Settings == {"off", "others", "user"}
Quiet == [pc |-> "idle", sid |-> NoSession, expires |-> 0, idle |-> 0, seen |-> 0]
Unused == [pc |-> "new", flow |-> NoFlow, allows |-> FALSE]
At(c, p) == [pc |-> p, flow |-> c.flow, allows |-> c.allows]

(* Time 0 stands for "never". *)
SessInit ==
    /\ now = 1
    /\ boot = "compare" /\ password \in Password /\ fp = NoPassword
    /\ live = {} /\ expires = [s \in Session |-> 0] /\ idle = [s \in Session |-> 0]
    /\ last = [s \in Session |-> 0]
    /\ req = [r \in Request |-> Quiet]
    /\ pending = [f \in Flow |-> 0] /\ start = [f \in Flow |-> "new"] /\ cookie = NoFlow
    /\ cb = [k \in Callback |-> Unused]
    /\ settings \in Settings /\ putting = FALSE
    /\ born = [s \in Session |-> 0] /\ seen = [s \in Session |-> 0]
    /\ madeUnder = [s \in Session |-> NoPassword] /\ from = [s \in Session |-> NoFlow]

Serving == boot = "serving"

Tick ==
    /\ now < MaxTime
    /\ now' = now + 1
    /\ UNCHANGED <<boot, password, store, memory, cookie, birth, seen>>
-----------------------------------------------------------------------------
(* SyncPasswordFingerprint, before the listener is opened. *)

BootComparesAndStores ==            \* bug: the fingerprint before the deletion
    /\ boot = "compare"
    /\ fp' = password
    /\ boot' = IF fp = password THEN "serving" ELSE "delete"
    /\ UNCHANGED <<now, password, live, expires, idle, pending, settings, memory, cookie, birth, seen>>
BootCompares ==
    /\ boot = "compare"
    /\ boot' = IF fp = password THEN "serving" ELSE "delete"
    /\ UNCHANGED <<now, password, store, memory, cookie, birth, seen>>

DeleteAllRows ==
    /\ live' = {}
    /\ expires' = [s \in Session |-> 0] /\ idle' = [s \in Session |-> 0]
    /\ UNCHANGED <<pending, settings>>

BootDeletes ==
    /\ boot = "delete"
    /\ DeleteAllRows
    /\ boot' = "store"
    /\ UNCHANGED <<now, password, fp, memory, cookie, birth, seen>>

BootStores ==
    /\ boot = "store"
    /\ fp' = password
    /\ boot' = "serving"
    /\ UNCHANGED <<now, password, live, expires, idle, pending, settings, memory, cookie, birth, seen>>

(* The process ends at any point and starts again, perhaps with another    *)
(* password; requests in progress and the touch gate are gone.             *)
Restart ==
    /\ boot' = "compare" /\ password' \in Password
    /\ last' = [s \in Session |-> 0]
    /\ req' = [r \in Request |-> Quiet]
    /\ start' = [f \in Flow |-> IF start[f] = "new" THEN "new" ELSE "left"]
    /\ cb' = [k \in Callback |-> IF cb[k].pc = "new" THEN cb[k] ELSE At(cb[k], "over")]
    /\ putting' = FALSE
    /\ UNCHANGED <<now, store, cookie, birth, seen>>
-----------------------------------------------------------------------------
(* Login and logout. *)

CreateSession(s, f) ==
    /\ born[s] = 0
    /\ live' = live \cup {s}
    /\ expires' = [expires EXCEPT ![s] = now + SessionAbs]
    /\ idle' = [idle EXCEPT ![s] = now + SessionIdle]
    /\ born' = [born EXCEPT ![s] = now] /\ seen' = [seen EXCEPT ![s] = now]
    /\ madeUnder' = [madeUnder EXCEPT ![s] = password] /\ from' = [from EXCEPT ![s] = f]

(* A wrong name or password changes nothing. *)
Login(s) ==
    /\ Serving /\ CreateSession(s, NoFlow)
    /\ UNCHANGED <<now, boot, password, fp, pending, settings, memory, cookie>>

DeleteSession(s) ==
    /\ live' = live \ {s}
    /\ expires' = [expires EXCEPT ![s] = 0] /\ idle' = [idle EXCEPT ![s] = 0]
    /\ UNCHANGED <<fp, pending, settings>>

Logout(s) ==
    /\ Serving /\ s \in live
    /\ DeleteSession(s)
    /\ UNCHANGED <<now, boot, password, memory, cookie, birth, seen>>
-----------------------------------------------------------------------------
(* A request with a session cookie: LookupSession, then the touch. *)

(* GetSession; the deadlines are compared with the clock afterwards.       *)
GetSession(r, s) ==
    /\ Serving /\ req[r].pc = "idle" /\ s \in live
    /\ req' = [req EXCEPT ![r] = [pc |-> "read", sid |-> s, expires |-> expires[s],
                                 idle |-> idle[s], seen |-> seen[s]]]
    /\ UNCHANGED <<now, boot, password, store, last, start, cb, putting, cookie, birth, seen>>

LookupSession(r) ==
    /\ req[r].pc = "read"
    /\ LET q == req[r]
           p == IF now > q.expires \/ now > q.idle THEN "expired" ELSE "accepted"
       IN  req' = [req EXCEPT ![r] = [pc |-> p, sid |-> q.sid, expires |-> q.expires,
                                      idle |-> q.idle, seen |-> q.seen]]
    /\ UNCHANGED <<now, boot, password, store, last, start, cb, putting, cookie, birth, seen>>

RejectExpired(r) ==
    /\ req[r].pc = "expired"
    /\ DeleteSession(req[r].sid)
    /\ req' = [req EXCEPT ![r] = Quiet]
    /\ UNCHANGED <<now, boot, password, last, start, cb, putting, cookie, birth, seen>>

(* touchGate.due and TouchSession. The UPDATE writes nothing when the row  *)
(* is gone.                                                                *)
Due(s) == last[s] = 0 \/ now - last[s] >= Interval

TouchOnce(s) ==                     \* bug: the gate never opens again
    /\ last' = IF last[s] = 0 THEN [last EXCEPT ![s] = now] ELSE last
    /\ idle' = IF last[s] = 0 /\ s \in live THEN [idle EXCEPT ![s] = now + SessionIdle] ELSE idle
    /\ UNCHANGED live
TouchUpserts(s) ==                  \* bug: the row is written back
    /\ last' = IF Due(s) THEN [last EXCEPT ![s] = now] ELSE last
    /\ idle' = IF Due(s) THEN [idle EXCEPT ![s] = now + SessionIdle] ELSE idle
    /\ live' = IF Due(s) THEN live \cup {s} ELSE live
TouchFromDeadline(s) ==             \* bug: adds to the deadline, not to now
    /\ last' = IF Due(s) THEN [last EXCEPT ![s] = now] ELSE last
    /\ idle' = IF Due(s) /\ s \in live THEN [idle EXCEPT ![s] = @ + SessionIdle] ELSE idle
    /\ UNCHANGED live
Touch(s) ==
    /\ last' = IF Due(s) THEN [last EXCEPT ![s] = now] ELSE last
    /\ idle' = IF Due(s) /\ s \in live THEN [idle EXCEPT ![s] = now + SessionIdle] ELSE idle
    /\ UNCHANGED live

Serve(r) ==
    /\ req[r].pc = "accepted"
    /\ Touch(req[r].sid)
    /\ req' = [req EXCEPT ![r] = Quiet]
    /\ seen' = [seen EXCEPT ![req[r].sid] = now]
    /\ UNCHANGED <<now, boot, password, fp, expires, pending, settings, start, cb, putting, cookie,
                   birth>>
-----------------------------------------------------------------------------
(* OIDC login. *)

(* OIDCStart reads the settings, then drops the expired rows and stores its *)
(* own.                                                                    *)
OIDCStart(f) ==
    /\ Serving /\ start[f] = "new" /\ settings # "off"
    /\ start' = [start EXCEPT ![f] = "read"]
    /\ UNCHANGED <<now, boot, password, store, last, req, cb, putting, cookie, birth, seen>>

PutOIDCPending(f) ==
    /\ start[f] = "read"
    /\ start' = [start EXCEPT ![f] = "put"]
    /\ pending' = [g \in Flow |-> IF g = f THEN now + PendingTTL
                                  ELSE IF pending[g] < now THEN 0 ELSE pending[g]]
    /\ UNCHANGED <<now, boot, password, fp, live, expires, idle, settings, last, req, cb, putting,
                   cookie, birth, seen>>

(* Discovery answered: the browser gets the cookie and goes to the         *)
(* provider. Or it failed, and the row is taken back.                      *)
OIDCRedirects(f) ==
    /\ start[f] = "put"
    /\ start' = [start EXCEPT ![f] = "sent"]
    /\ cookie' = f
    /\ UNCHANGED <<now, boot, password, store, last, req, cb, putting, birth, seen>>

OIDCProviderError(f) ==
    /\ start[f] = "put"
    /\ start' = [start EXCEPT ![f] = "left"]
    /\ pending' = [pending EXCEPT ![f] = 0]
    /\ UNCHANGED <<now, boot, password, fp, live, expires, idle, settings, last, req, cb, putting,
                   cookie, birth, seen>>

SetCb(k, c) == cb' = [cb EXCEPT ![k] = c]

(* OIDCCallback up to the cookie. The browser may deliver the redirect more *)
(* than once, and may have dropped the cookie, which has a MaxAge. The     *)
(* answer clears it, so a delivery before the answer may still carry it.   *)
OIDCCallback(k, f) ==
    /\ Serving /\ cb[k].pc = "new" /\ start[f] = "sent"
    /\ \E p \in {"refused"} \cup (IF cookie = f THEN {"take"} ELSE {}) :
          SetCb(k, [pc |-> p, flow |-> f, allows |-> FALSE])
    /\ UNCHANGED <<now, boot, password, store, last, req, start, putting, cookie, birth, seen>>

CallbackRefused(k) ==
    /\ cb[k].pc = "refused"
    /\ SetCb(k, At(cb[k], "over"))
    /\ cookie' = NoFlow
    /\ UNCHANGED <<now, boot, password, store, last, req, start, putting, birth, seen>>

(* TakeOIDCPending, one transaction, then the expiry and the settings.     *)
TakeKeeps(k) ==                     \* bug: the row is not deleted
    LET f == cb[k].flow IN
    /\ cb[k].pc = "take"
    /\ SetCb(k, At(cb[k], IF pending[f] = 0 \/ now > pending[f] THEN "refused" ELSE "settings"))
    /\ UNCHANGED <<now, boot, password, store, last, req, start, putting, cookie, birth, seen>>
TakeOIDCPending(k) ==
    LET f == cb[k].flow IN
    /\ cb[k].pc = "take"
    /\ pending' = [pending EXCEPT ![f] = 0]
    /\ SetCb(k, At(cb[k], IF pending[f] = 0 \/ now > pending[f] THEN "refused" ELSE "settings"))
    /\ UNCHANGED <<now, boot, password, fp, live, expires, idle, settings, last, req, start, putting,
                   cookie, birth, seen>>

CallbackReadsSettings(k) ==
    /\ cb[k].pc = "settings"
    /\ SetCb(k, [pc |-> IF settings = "off" THEN "refused" ELSE "exchange",
                 flow |-> cb[k].flow, allows |-> settings = "user"])
    /\ UNCHANGED <<now, boot, password, store, last, req, start, putting, cookie, birth, seen>>

(* The exchange with the provider fails, or names a user who is not on the *)
(* list that was read.                                                     *)
CallbackFails(k) ==
    /\ cb[k].pc = "exchange"
    /\ SetCb(k, At(cb[k], "refused"))
    /\ UNCHANGED <<now, boot, password, store, last, req, start, putting, cookie, birth, seen>>

CallbackLogsIn(k, s) ==
    /\ cb[k].pc = "exchange" /\ cb[k].allows
    /\ CreateSession(s, cb[k].flow)
    /\ SetCb(k, At(cb[k], "over"))
    /\ cookie' = NoFlow
    /\ UNCHANGED <<now, boot, password, fp, pending, settings, last, req, start, putting>>

(* putOIDCSettings: store, then delete every session. One at a time. *)
PutOIDCSettings(a) ==
    /\ Serving /\ ~putting
    /\ settings' = a /\ putting' = TRUE
    /\ UNCHANGED <<now, boot, password, fp, live, expires, idle, pending, last, req, start, cb,
                   cookie, birth, seen>>

DeleteAllSessions ==
    /\ putting
    /\ DeleteAllRows /\ putting' = FALSE
    /\ UNCHANGED <<now, boot, password, fp, last, req, start, cb, cookie, birth, seen>>
-----------------------------------------------------------------------------
SessNext ==
    \/ Tick \/ BootCompares \/ BootDeletes \/ BootStores \/ Restart \/ DeleteAllSessions
    \/ \E s \in Session : Login(s) \/ Logout(s)
    \/ \E r \in Request : \/ LookupSession(r) \/ RejectExpired(r) \/ Serve(r)
                          \/ \E s \in Session : GetSession(r, s)
    \/ \E f \in Flow : OIDCStart(f) \/ PutOIDCPending(f) \/ OIDCRedirects(f) \/ OIDCProviderError(f)
    \/ \E k \in Callback : \/ CallbackRefused(k) \/ TakeOIDCPending(k)
                           \/ CallbackReadsSettings(k) \/ CallbackFails(k)
                           \/ \E f \in Flow : OIDCCallback(k, f)
                           \/ \E s \in Session : CallbackLogsIn(k, s)
    \/ \E a \in Settings : PutOIDCSettings(a)

SessSpec == SessInit /\ [][SessNext]_sessVars
-----------------------------------------------------------------------------
(* The sessions, the flows and their history are well typed. *)
SessTypeOK ==
    /\ now \in Times /\ boot \in {"compare", "delete", "store", "serving"}
    /\ password \in Password /\ fp \in Password \cup {NoPassword}
    /\ live \subseteq Session /\ settings \in Settings /\ putting \in BOOLEAN
    /\ expires \in [Session -> Nat] /\ idle \in [Session -> Nat]
    /\ last \in [Session -> Times] /\ born \in [Session -> Times] /\ seen \in [Session -> Times]
    /\ req \in [Request -> [pc: {"idle", "read", "accepted", "expired"},
                            sid: Session \cup {NoSession}, expires: Nat, idle: Nat, seen: Times]]
    /\ pending \in [Flow -> Nat] /\ start \in [Flow -> {"new", "read", "put", "sent", "left"}]
    /\ cookie \in Flow \cup {NoFlow}
    /\ cb \in [Callback -> [pc: {"new", "take", "refused", "settings", "exchange", "over"},
                            flow: Flow \cup {NoFlow}, allows: BOOLEAN]]
    /\ madeUnder \in [Session -> Password \cup {NoPassword}]
    /\ from \in [Session -> Flow \cup {NoFlow}]

(* While the server serves, every stored session was created under the     *)
(* password it runs with, wherever earlier starts were cut off             *)
(* (SyncPasswordFingerprint).                                              *)
SessionsOfPassword == Serving => \A s \in live : madeUnder[s] = password

(* A session that was logged out, expired or wiped never comes back, not   *)
(* even when a request that was accepted before still extends it           *)
(* (TouchSession, CreateSession).                                          *)
GoneStaysGone == [][\A s \in Session : born[s] # 0 /\ s \notin live => s \notin live']_sessVars

(* A request is accepted only within SessionAbs of the login and within    *)
(* SessionIdle of the last use (LookupSession, TouchSessionIdle).          *)
AcceptedInTime ==
    [][\A r \in Request :
         req'[r].pc = "accepted" /\ req[r].pc # "accepted" =>
            LET s == req'[r].sid
            IN  now <= born[s] + SessionAbs /\ now <= seen[s] + SessionIdle]_sessVars

(* A session is turned away only when it is too old or, as far as the row  *)
(* that the request read can tell, was not used for SessionIdle less the   *)
(* interval over which the touch gate coalesces.                           *)
NotCutShort ==
    [][\A r \in Request :
         req'[r].pc = "expired" /\ req[r].pc # "expired" =>
            \/ now > born[req[r].sid] + SessionAbs
            \/ now + Interval > req[r].seen + SessionIdle]_sessVars

(* One OIDC login makes at most one session, however often and however     *)
(* concurrently its redirect is delivered (TakeOIDCPending).               *)
OncePerFlow == \A s, u \in Session : from[s] # NoFlow /\ from[s] = from[u] => s = u

(* Whose a stored session may be: of the password the server runs with,    *)
(* and of no OIDC login that has one already.                              *)
SessionsSafe == SessionsOfPassword /\ OncePerFlow

(* How a session ends: never used past its deadlines, never turned away    *)
(* before them, and once gone it stays gone (LookupSession,                *)
(* TouchSessionIdle, DeleteSession).                                       *)
SessionsEnd == GoneStaysGone /\ AcceptedInTime /\ NotCutShort
=============================================================================
