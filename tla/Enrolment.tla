----------------------------- MODULE Enrolment -----------------------------
(***************************************************************************)
(* How an agent gets its credential (enroll/codes.go, api/agent_enroll.go, *)
(* auth/agentcred.go, the credential rows of store/auth.go): the server    *)
(* mints one-time codes, the install script exchanges a code for a token,  *)
(* the token replaces every earlier one, and the agent's requests present  *)
(* it. The code is held in memory, the credentials in SQLite.              *)
(***************************************************************************)
EXTENDS Naturals

CONSTANTS
    Code,           \* codes: random, so each is minted at most once
    Token,          \* agent tokens, each generated at most once
    Enroller,       \* POST /v1/agent/enroll requests
    AgentReq,       \* requests that carry an agent token
    NoCode, NoToken,
    TTL,            \* enroll.DefaultTTL
    MaxClock        \* bound on the clock

ASSUME EnrolAssumption ==
    /\ TTL \in Nat /\ MaxClock \in Nat
    /\ NoCode \notin Code /\ NoToken \notin Token

VARIABLES
    clock,
    ticket,         \* CodeStore.current: code, expiry, used; NoCode when nil
    enr,            \* an enroll request: its step, its code, its token
    creds,          \* rows of auth_agent_credentials
    agentReq,       \* an agent request: its step and its token
    minted,         \* history: when each code was minted, 0 before
    newest,         \* history: the last minted code of this process
    given,          \* history: the codes that were turned into a token
    made            \* history: the tokens that were stored at some time

enrVars == <<clock, ticket, enr, creds, agentReq, minted, newest, given, made>>

NoTicket == [code |-> NoCode, expires |-> 0, used |-> FALSE]
FreshEnroller == [pc |-> "new", code |-> NoCode, token |-> NoToken]
QuietAgent == [pc |-> "idle", token |-> NoToken]

EnrInit ==
    /\ clock = 1 /\ ticket = NoTicket
    /\ enr = [e \in Enroller |-> FreshEnroller]
    /\ creds = {}
    /\ agentReq = [a \in AgentReq |-> QuietAgent]
    /\ minted = [c \in Code |-> 0] /\ newest = NoCode
    /\ given = [c \in Code |-> {}] /\ made = {}

EnrTick ==
    /\ clock < MaxClock
    /\ clock' = clock + 1
    /\ UNCHANGED <<ticket, enr, creds, agentReq, minted, newest, given, made>>

(* The process restarts: the ticket and the requests in progress are gone. *)
EnrRestart ==
    /\ ticket' = NoTicket /\ newest' = NoCode
    /\ enr' = [e \in Enroller |-> IF enr[e].pc = "new" THEN enr[e]
                                  ELSE [enr[e] EXCEPT !.pc = "over"]]
    /\ agentReq' = [a \in AgentReq |-> QuietAgent]
    /\ UNCHANGED <<clock, creds, minted, given, made>>
-----------------------------------------------------------------------------
(* postEnrollCode: a package and a base URL are there; a new code replaces *)
(* the one before it.                                                      *)
MintKeeps(c) ==                     \* bug: an unused code is not replaced
    /\ minted[c] = 0
    /\ minted' = [minted EXCEPT ![c] = clock] /\ newest' = c
    /\ ticket' = IF ticket.code # NoCode /\ ~ticket.used THEN ticket
                 ELSE [code |-> c, expires |-> clock + TTL, used |-> FALSE]
    /\ UNCHANGED <<clock, enr, creds, agentReq, given, made>>
Mint(c) ==
    /\ minted[c] = 0
    /\ minted' = [minted EXCEPT ![c] = clock] /\ newest' = c
    /\ ticket' = [code |-> c, expires |-> clock + TTL, used |-> FALSE]
    /\ UNCHANGED <<clock, enr, creds, agentReq, given, made>>

(* postEnroll: Exchange under the lock of the CodeStore, then the token.   *)
(* The same code may be sent any number of times.                          *)
Valid(c) == ticket.code = c /\ ~ticket.used /\ clock < ticket.expires

ExchangeKeeps(e, c) ==              \* bug: the code is not marked as used
    /\ enr[e].pc = "new" /\ minted[c] # 0
    /\ enr' = [enr EXCEPT ![e] = [pc |-> IF Valid(c) THEN "exchanged" ELSE "over",
                                  code |-> c, token |-> NoToken]]
    /\ UNCHANGED <<clock, ticket, creds, agentReq, minted, newest, given, made>>
Exchange(e, c) ==
    /\ enr[e].pc = "new" /\ minted[c] # 0
    /\ enr' = [enr EXCEPT ![e] = [pc |-> IF Valid(c) THEN "exchanged" ELSE "over",
                                  code |-> c, token |-> NoToken]]
    /\ ticket' = IF Valid(c) THEN [ticket EXCEPT !.used = TRUE] ELSE ticket
    /\ UNCHANGED <<clock, creds, agentReq, minted, newest, given, made>>

(* ReplaceAgentCredential is one transaction: all others go, t comes.      *)
StoresToken(e, t) ==
    /\ enr[e].pc = "exchanged" /\ t \notin made
    /\ enr' = [enr EXCEPT ![e] = [pc |-> "over", code |-> enr[e].code, token |-> t]]
    /\ given' = [given EXCEPT ![enr[e].code] = @ \cup {t}] /\ made' = made \cup {t}
    /\ UNCHANGED <<clock, ticket, agentReq, minted, newest>>

MintAdds(e, t) ==                   \* bug: the earlier credentials stay
    /\ StoresToken(e, t)
    /\ creds' = creds \cup {t}
MintAgentCredential(e, t) ==
    /\ StoresToken(e, t)
    /\ creds' = {t}

(* Storing the token failed; the code stays used. *)
MintFails(e) ==
    /\ enr[e].pc = "exchanged"
    /\ enr' = [enr EXCEPT ![e] = [pc |-> "over", code |-> enr[e].code, token |-> NoToken]]
    /\ UNCHANGED <<clock, ticket, creds, agentReq, minted, newest, given, made>>

(* DELETE of one credential, or of all. *)
DeleteAgentCredential(t) ==
    /\ t \in creds
    /\ creds' = creds \ {t}
    /\ UNCHANGED <<clock, ticket, enr, agentReq, minted, newest, given, made>>

DeleteAllAgentCredentials ==
    /\ creds # {}
    /\ creds' = {}
    /\ UNCHANGED <<clock, ticket, enr, agentReq, minted, newest, given, made>>
-----------------------------------------------------------------------------
(* AuthorizeAgent: the lookup, then the coalesced last-used UPDATE, which   *)
(* does nothing to a row that is gone.                                     *)
Authorize(a, t) ==
    /\ agentReq[a].pc = "idle" /\ t \in creds
    /\ agentReq' = [agentReq EXCEPT ![a] = [pc |-> "authorized", token |-> t]]
    /\ UNCHANGED <<clock, ticket, enr, creds, minted, newest, given, made>>

TouchUpsertsCredential(a) ==        \* bug: the row is written back
    /\ agentReq[a].pc = "authorized"
    /\ creds' = creds \cup {agentReq[a].token}
    /\ agentReq' = [agentReq EXCEPT ![a] = QuietAgent]
    /\ UNCHANGED <<clock, ticket, enr, minted, newest, given, made>>
TouchAgentCredential(a) ==
    /\ agentReq[a].pc = "authorized"
    /\ agentReq' = [agentReq EXCEPT ![a] = QuietAgent]
    /\ UNCHANGED <<clock, ticket, enr, creds, minted, newest, given, made>>

EnrNext ==
    \/ EnrTick \/ EnrRestart \/ DeleteAllAgentCredentials
    \/ \E c \in Code : Mint(c) \/ (\E e \in Enroller : Exchange(e, c))
    \/ \E e \in Enroller : MintFails(e) \/ (\E t \in Token : MintAgentCredential(e, t))
    \/ \E t \in Token : DeleteAgentCredential(t) \/ (\E a \in AgentReq : Authorize(a, t))
    \/ \E a \in AgentReq : TouchAgentCredential(a)

EnrSpec == EnrInit /\ [][EnrNext]_enrVars
-----------------------------------------------------------------------------
(* The ticket, the requests, the rows and their history are well typed. *)
EnrTypeOK ==
    /\ clock \in 0..MaxClock
    /\ ticket \in [code: Code \cup {NoCode}, expires: Nat, used: BOOLEAN]
    /\ enr \in [Enroller -> [pc: {"new", "exchanged", "over"}, code: Code \cup {NoCode},
                             token: Token \cup {NoToken}]]
    /\ creds \subseteq Token
    /\ agentReq \in [AgentReq -> [pc: {"idle", "authorized"}, token: Token \cup {NoToken}]]
    /\ minted \in [Code -> 0..MaxClock] /\ newest \in Code \cup {NoCode}
    /\ given \in [Code -> SUBSET Token] /\ made \subseteq Token

(* A code yields at most one token, however often and however concurrently *)
(* it is sent (CodeStore.Exchange, postEnroll).                            *)
CodeOnce == \A c \in Code : \A t, u \in given[c] : t = u

(* At most one agent credential is stored, whatever enrolments overlap     *)
(* ("deletes all prior credentials", MintAgentCredential).                 *)
OneCredential == \A t, u \in creds : t = u

(* Only the newest code of this process is exchanged, and only before its  *)
(* time is over (CodeStore.Mint, CodeStore.Exchange).                      *)
NewestInTime ==
    [][\A e \in Enroller :
         enr'[e].pc = "exchanged" /\ enr[e].pc = "new" =>
            LET c == enr'[e].code IN c = newest /\ clock < minted[c] + TTL]_enrVars

(* A token that was replaced or revoked is never authorized again, not     *)
(* even when a request that was authorized before still updates its row.   *)
RevokedForGood == [][made \ creds \subseteq made' \ creds']_enrVars

(* One code, one token, one stored credential, whatever enrolments         *)
(* overlap.                                                                *)
EnrolledOnce == CodeOnce /\ OneCredential

(* How codes and credentials end: only the newest code is exchanged and    *)
(* only in its time, and a credential that was replaced or revoked never   *)
(* returns.                                                                *)
CredentialsEnd == NewestInTime /\ RevokedForGood
=============================================================================
