------------------------------ MODULE AgentHub ------------------------------
(***************************************************************************)
(* The server's end of the agent WebSocket (server/internal/agenthub): one *)
(* current connection, a handler goroutine per accepted connection, the    *)
(* two request/reply exchanges (logs.fetch and catalog.push) that HTTP     *)
(* handlers wait for, and the lifecycle rows a hello leaves in the store.  *)
(*                                                                         *)
(* Both exchanges use the same protocol: a single waiter slot, a channel   *)
(* with room for one reply, a deadline, and no correlation between the     *)
(* request and the reply.                                                  *)
(***************************************************************************)
EXTENDS Integers, Sequences

CONSTANTS
    Conn,           \* accepted WebSocket connections, each used once
    Call,           \* RequestFetch / RequestCatalogPush calls, each used once
    Version,        \* agent versions a hello can carry
    Package,        \* the packaged version, NoVersion when there is none
    NoConn, NoCall, NoVersion,
    GapMin,         \* offlineGapMinSec
    MaxClock        \* bound on time

ASSUME HubAssumption ==
    /\ NoConn \notin Conn /\ NoCall \notin Call /\ NoVersion \notin Version
    /\ GapMin \in Nat /\ MaxClock \in Nat \ {0}

Kind == {"fetch", "catalog"}
Statuses == {"ok", "agent_offline"}
Empty == "empty"
Times == 1..MaxClock

VARIABLES
    conn,           \* Hub.conn
    online,         \* Hub.online
    sock,           \* is the TCP connection usable
    pc,             \* where the ServeWS goroutine of each connection is
    replyTo,        \* the exchange that a message being handled completes
    hello,          \* what each connection's hello said and what is left to do
    asked,          \* requests the agent has received and not yet answered
    inbox,          \* messages of the agent the handler has not yet read
    wait,           \* Hub.fetchWait, Hub.catalogWait
    chan,           \* the reply channel of each call
    callPC, callKind, result,   \* the calls themselves
    lastVer,        \* kv agent_last_version
    offlineTS,      \* kv agent_last_offline_ts, 0 when unset
    rows,           \* table agent_events
    clock,
    lastUp          \* history: when a connection last stopped being current

hub == <<conn, online, lastUp>>
handlers == <<pc, replyTo, hello>>
wire == <<asked, inbox>>
calls == <<callPC, callKind, result>>
waiters == <<wait, chan, calls>>
stored == <<lastVer, offlineTS, rows>>
vars == <<hub, sock, handlers, wire, waiters, stored, clock>>

HelloPC == {"readver", "readoff", "setver", "clearoff", "rows", "update"}
Serving == {"read", "complete"} \cup HelloPC
Closing == {"stamp", "failfetch", "failcatalog"}
InFlight == {"registered", "waiting", "leaving"}

Events == [kind: {"offline", "updated", "restarted"},
           from: Version \cup {NoVersion}, to: Version \cup {NoVersion}]
Rows == [ev: Events, seen: Version \cup {NoVersion}, gap: 0..MaxClock]

(* ver and self come from the hello, last is the version that              *)
(* recordHelloEvents read, plan the rows it still has to insert. prev and  *)
(* gap are history: when the previous connection ended, and how long ago   *)
(* that was when the rows were planned.                                    *)
Hellos == [ver: Version \cup {NoVersion}, self: BOOLEAN,
           last: Version \cup {NoVersion}, plan: Seq(Events),
           prev: Times, gap: 0..MaxClock]

NoHello == [ver |-> NoVersion, self |-> FALSE, last |-> NoVersion,
            plan |-> <<>>, prev |-> 1, gap |-> 0]

At(c, p) == pc[c] = p
Goto(c, p) == pc' = [pc EXCEPT ![c] = p]
SetHello(c, h) == hello' = [hello EXCEPT ![c] = h]

(* The server starts; the store is as an earlier run left it. *)
Init ==
    /\ conn = NoConn /\ online = FALSE
    /\ sock = [c \in Conn |-> FALSE]
    /\ pc = [c \in Conn |-> "new"]
    /\ replyTo = [c \in Conn |-> "fetch"]
    /\ hello = [c \in Conn |-> NoHello]
    /\ asked = [c \in Conn |-> {}] /\ inbox = [c \in Conn |-> {}]
    /\ wait = [k \in Kind |-> NoCall]
    /\ chan = [r \in Call |-> Empty]
    /\ callPC = [r \in Call |-> "new"] /\ callKind = [r \in Call |-> "fetch"]
    /\ result = [r \in Call |-> Empty]
    /\ lastVer \in Version \cup {NoVersion} /\ offlineTS \in {0, 1} /\ rows = <<>>
    /\ clock = 1 /\ lastUp = 1
-----------------------------------------------------------------------------
(* Connections. *)

(* ServeWS: a new connection replaces and closes the current one. *)
ServeWS(c) ==
    /\ At(c, "new")
    /\ conn' = c /\ online' = TRUE
    /\ sock' = [x \in Conn |-> x = c]
    /\ Goto(c, "read")
    /\ SetHello(c, [NoHello EXCEPT !.prev = IF conn = NoConn THEN lastUp ELSE clock])
    /\ UNCHANGED <<replyTo, lastUp, wire, waiters, stored, clock>>

(* The agent goes away or the network breaks. *)
Breaks(c) ==
    /\ sock[c]
    /\ sock' = [sock EXCEPT ![c] = FALSE]
    /\ UNCHANGED <<hub, handlers, wire, waiters, stored, clock>>

(* The deferred clean-up of ServeWS; only the current connection clears    *)
(* the hub and stamps the time.                                            *)
TeardownUnguarded(c) ==             \* bug: any connection clears the hub
    /\ At(c, "read") /\ ~sock[c]
    /\ conn' = NoConn /\ online' = FALSE /\ lastUp' = clock
    /\ Goto(c, "stamp")
    /\ UNCHANGED <<sock, replyTo, hello, wire, waiters, stored, clock>>
Teardown(c) ==
    /\ At(c, "read") /\ ~sock[c]
    /\ IF conn = c
       THEN /\ conn' = NoConn /\ online' = FALSE /\ lastUp' = clock
            /\ Goto(c, "stamp")
       ELSE /\ Goto(c, "failfetch")
            /\ UNCHANGED <<conn, online, lastUp>>
    /\ UNCHANGED <<sock, replyTo, hello, wire, waiters, stored, clock>>

StampOffline(c) ==
    /\ At(c, "stamp")
    /\ offlineTS' = clock
    /\ Goto(c, "failfetch")
    /\ UNCHANGED <<hub, sock, replyTo, hello, wire, waiters, lastVer, rows, clock>>

(* completeFetch, completeCatalog: take the waiter out of the slot and     *)
(* send without blocking. Nobody else sends on that channel once it is out *)
(* of the slot, so taking and sending are one step.                        *)
Complete(k, s) ==
    IF wait[k] = NoCall THEN UNCHANGED <<wait, chan>>
    ELSE /\ wait' = [wait EXCEPT ![k] = NoCall]
         /\ chan' = [chan EXCEPT ![wait[k]] = IF @ = Empty THEN s ELSE @]

FailFetch(c) ==
    /\ At(c, "failfetch")
    /\ Complete("fetch", "agent_offline")
    /\ Goto(c, "failcatalog")
    /\ UNCHANGED <<hub, sock, replyTo, hello, wire, calls, stored, clock>>

FailCatalog(c) ==
    /\ At(c, "failcatalog")
    /\ Complete("catalog", "agent_offline")
    /\ Goto(c, "closed")
    /\ UNCHANGED <<hub, sock, replyTo, hello, wire, calls, stored, clock>>
-----------------------------------------------------------------------------
(* Replies. *)

(* A Done batch or a catalog.status is read; lines are inserted, the batch *)
(* is acknowledged and broadcast before the exchange is completed.         *)
ReadsReply(c) ==
    /\ At(c, "read") /\ sock[c]
    /\ \E k \in inbox[c] :
          /\ inbox' = [inbox EXCEPT ![c] = @ \ {k}]
          /\ replyTo' = [replyTo EXCEPT ![c] = k]
    /\ Goto(c, "complete")
    /\ UNCHANGED <<hub, sock, hello, asked, waiters, stored, clock>>

CompletesReply(c) ==
    /\ At(c, "complete")
    /\ Complete(replyTo[c], "ok")
    /\ Goto(c, "read")
    /\ UNCHANGED <<hub, sock, replyTo, hello, wire, calls, stored, clock>>

(* The agent's side of an exchange: it answers what it was asked, in any   *)
(* order; a fetch that meets a running sync is coalesced and gets no reply *)
(* of its own, and a sync of the agent's own sends a Done batch too.       *)
AgentReplies(c) ==
    /\ sock[c]
    /\ \E k \in asked[c] \cap Kind :
          /\ asked' = [asked EXCEPT ![c] = @ \ {k}]
          /\ \/ inbox' = [inbox EXCEPT ![c] = @ \cup {k}]
             \/ k = "fetch" /\ UNCHANGED inbox
    /\ UNCHANGED <<hub, sock, handlers, waiters, stored, clock>>

(* The agent tries the update; if it is applied the agent restarts. *)
AgentUpdates(c) ==
    /\ sock[c] /\ "update" \in asked[c]
    /\ asked' = [asked EXCEPT ![c] = @ \ {"update"}]
    /\ \E ok \in BOOLEAN : sock' = [sock EXCEPT ![c] = ~ok]
    /\ UNCHANGED <<hub, handlers, inbox, waiters, stored, clock>>

AgentSyncs(c) ==
    /\ sock[c]
    /\ inbox' = [inbox EXCEPT ![c] = @ \cup {"fetch"}]
    /\ UNCHANGED <<hub, sock, handlers, asked, waiters, stored, clock>>
-----------------------------------------------------------------------------
(* RequestFetch and RequestCatalogPush. *)

Moves(r, p) == callPC' = [callPC EXCEPT ![r] = p] /\ UNCHANGED <<callKind, result>>
Returns(r, p, s) == /\ callPC' = [callPC EXCEPT ![r] = p]
                    /\ result' = [result EXCEPT ![r] = s]
                    /\ UNCHANGED callKind

(* The online check, made before the slot is looked at. *)
RequestBegins(r, k) ==
    /\ callPC[r] = "new"
    /\ callKind' = [callKind EXCEPT ![r] = k]
    /\ callPC' = [callPC EXCEPT ![r] = IF online THEN "checked" ELSE "returned"]
    /\ result' = [result EXCEPT ![r] = IF online THEN @ ELSE "agent_offline"]
    /\ UNCHANGED <<hub, sock, handlers, wire, wait, chan, stored, clock>>

(* One waiter per exchange; a second call is turned away as busy. *)
RequestRegisters(r) ==
    /\ callPC[r] = "checked"
    /\ IF wait[callKind[r]] # NoCall
       THEN Returns(r, "returned", "busy") /\ UNCHANGED wait
       ELSE Moves(r, "registered") /\ wait' = [wait EXCEPT ![callKind[r]] = r]
    /\ UNCHANGED <<hub, sock, handlers, wire, chan, stored, clock>>

(* Hub.write: fails without a current connection; on a connection that is  *)
(* already broken the write may fail or be lost.                           *)
RequestWrites(r) ==
    /\ callPC[r] = "registered"
    /\ \/ /\ conn # NoConn /\ sock[conn]
          /\ asked' = [asked EXCEPT ![conn] = @ \cup {callKind[r]}]
          /\ Moves(r, "waiting")
       \/ conn # NoConn /\ ~sock[conn] /\ Moves(r, "waiting") /\ UNCHANGED asked
       \/ /\ ~(conn # NoConn /\ sock[conn])
          /\ Returns(r, "leaving", "agent_offline") /\ UNCHANGED asked
    /\ UNCHANGED <<hub, sock, handlers, inbox, wait, chan, stored, clock>>

RequestAnswered(r) ==
    /\ callPC[r] = "waiting" /\ chan[r] # Empty
    /\ Returns(r, "leaving", chan[r])
    /\ UNCHANGED <<hub, sock, handlers, wire, wait, chan, stored, clock>>

(* The timer, or the HTTP request's own deadline. *)
RequestNeverTimesOut(r) == FALSE /\ UNCHANGED vars      \* bug: no deadline
RequestTimesOut(r) ==
    /\ callPC[r] = "waiting"
    /\ Returns(r, "leaving", "timeout")
    /\ UNCHANGED <<hub, sock, handlers, wire, wait, chan, stored, clock>>

(* The deferred clean-up gives back the slot, if it is still this call's. *)
RequestLeavesSlot(r) ==             \* bug: the slot is not given back
    /\ callPC[r] = "leaving"
    /\ Moves(r, "returned")
    /\ UNCHANGED <<hub, sock, handlers, wire, wait, chan, stored, clock>>
RequestLeaves(r) ==
    /\ callPC[r] = "leaving"
    /\ Moves(r, "returned")
    /\ wait' = [k \in Kind |-> IF k = callKind[r] /\ wait[k] = r THEN NoCall
                               ELSE wait[k]]
    /\ UNCHANGED <<hub, sock, handlers, wire, chan, stored, clock>>
-----------------------------------------------------------------------------
(* Hello: presence, then the lifecycle rows. *)

DecideHelloEventsMisnamed(last, off, ver, now) ==     \* bug: unknown kind
    <<[kind |-> "upgraded", from |-> last, to |-> ver]>>
DecideHelloEvents(last, off, ver, now) ==
    LET changed == last # NoVersion /\ ver # NoVersion /\ ver # last
        Ev(k, f, t) == <<[kind |-> k, from |-> f, to |-> t]>>
        updated == IF changed THEN Ev("updated", last, ver) ELSE <<>>
    IN  IF off = 0 \/ now - off < GapMin THEN updated
        ELSE Ev("offline", NoVersion, NoVersion) \o
             CASE last = NoVersion -> <<>>
               [] changed -> updated
               [] OTHER -> Ev("restarted", NoVersion, NoVersion)

(* An agent sends one hello per connection, first thing. *)
OnHello(c, v, self) ==
    /\ At(c, "read") /\ sock[c] /\ hello[c].ver = NoVersion
    /\ Goto(c, "readver")
    /\ SetHello(c, [hello[c] EXCEPT !.ver = v, !.self = self])
    /\ UNCHANGED <<hub, sock, replyTo, wire, waiters, stored, clock>>

HelloReadsVersion(c) ==
    /\ At(c, "readver")
    /\ Goto(c, "readoff")
    /\ SetHello(c, [hello[c] EXCEPT !.last = lastVer])
    /\ UNCHANGED <<hub, sock, replyTo, wire, waiters, stored, clock>>

HelloDecides(c) ==
    /\ At(c, "readoff")
    /\ Goto(c, "setver")
    /\ SetHello(c, [hello[c] EXCEPT !.gap = clock - hello[c].prev,
           !.plan = DecideHelloEvents(hello[c].last, offlineTS, hello[c].ver, clock)])
    /\ UNCHANGED <<hub, sock, replyTo, wire, waiters, stored, clock>>

HelloSetsVersion(c) ==
    /\ At(c, "setver")
    /\ lastVer' = hello[c].ver
    /\ Goto(c, "clearoff")
    /\ UNCHANGED <<hub, sock, replyTo, hello, wire, waiters, offlineTS, rows, clock>>

HelloClearsOffline(c) ==
    /\ At(c, "clearoff")
    /\ offlineTS' = 0
    /\ Goto(c, "rows")
    /\ UNCHANGED <<hub, sock, replyTo, hello, wire, waiters, lastVer, rows, clock>>

HelloInserts(c) ==
    /\ At(c, "rows")
    /\ IF hello[c].plan = <<>>
       THEN Goto(c, "update") /\ UNCHANGED <<hello, rows>>
       ELSE /\ rows' = Append(rows, [ev |-> Head(hello[c].plan), seen |-> lastVer,
                                     gap |-> hello[c].gap])
            /\ SetHello(c, [hello[c] EXCEPT !.plan = Tail(hello[c].plan)])
            /\ UNCHANGED pc
    /\ UNCHANGED <<hub, sock, replyTo, wire, waiters, lastVer, offlineTS, clock>>

(* A version stands for its binary: NeedsUpdate compares digests. *)
NeedsUpdate(v) == v # Package

(* MaybeAutoUpdate: agent.update goes to whichever connection is current.  *)
MaybeAutoUpdate(c) ==
    /\ At(c, "update")
    /\ asked' = IF /\ hello[c].self /\ Package # NoVersion
                   /\ NeedsUpdate(hello[c].ver)
                   /\ conn # NoConn /\ sock[conn]
                THEN [asked EXCEPT ![conn] = @ \cup {"update"}] ELSE asked
    /\ Goto(c, "read")
    /\ UNCHANGED <<hub, sock, replyTo, hello, inbox, waiters, stored, clock>>
-----------------------------------------------------------------------------
Tick ==
    /\ clock < MaxClock
    /\ clock' = clock + 1
    /\ UNCHANGED <<hub, sock, handlers, wire, waiters, stored>>

HandlerStep(c) ==
    \/ Teardown(c) \/ StampOffline(c) \/ FailFetch(c) \/ FailCatalog(c)
    \/ ReadsReply(c) \/ CompletesReply(c)
    \/ HelloReadsVersion(c) \/ HelloDecides(c)
    \/ HelloSetsVersion(c) \/ HelloClearsOffline(c) \/ HelloInserts(c)
    \/ MaybeAutoUpdate(c)

CallStep(r) ==
    \/ RequestRegisters(r) \/ RequestWrites(r)
    \/ RequestAnswered(r) \/ RequestTimesOut(r) \/ RequestLeaves(r)

Next ==
    \/ \E c \in Conn : \/ ServeWS(c) \/ Breaks(c) \/ HandlerStep(c)
                       \/ AgentReplies(c) \/ AgentUpdates(c) \/ AgentSyncs(c)
                       \/ \E v \in Version, self \in BOOLEAN : OnHello(c, v, self)
    \/ \E r \in Call : CallStep(r) \/ \E k \in Kind : RequestBegins(r, k)
    \/ Tick

Spec == Init /\ [][Next]_vars

(* A call runs on its own goroutine with a timer: its steps are weakly     *)
(* fair. Nothing is assumed of the agent or of the network.                *)
Fair == \A r \in Call : WF_vars(CallStep(r))
-----------------------------------------------------------------------------
(* The hub's state is well typed. *)
TypeOK ==
    /\ conn \in Conn \cup {NoConn} /\ online \in BOOLEAN
    /\ sock \in [Conn -> BOOLEAN]
    /\ pc \in [Conn -> Serving \cup Closing \cup {"new", "closed"}]
    /\ replyTo \in [Conn -> Kind] /\ hello \in [Conn -> Hellos]
    /\ asked \in [Conn -> SUBSET (Kind \cup {"update"})] /\ inbox \in [Conn -> SUBSET Kind]
    /\ wait \in [Kind -> Call \cup {NoCall}]
    /\ chan \in [Call -> Statuses \cup {Empty}]
    /\ callPC \in [Call -> {"new", "checked", "returned"} \cup InFlight]
    /\ callKind \in [Call -> Kind]
    /\ result \in [Call -> Statuses \cup {Empty, "busy", "timeout"}]
    /\ lastVer \in Version \cup {NoVersion} /\ offlineTS \in 0..MaxClock
    /\ rows \in Seq(Rows) /\ clock \in Times /\ lastUp \in Times

(* An occupied waiter slot belongs to a call that is still in progress and *)
(* has not been answered. So the slot is never left behind by a call that  *)
(* timed out or was answered, and the non-blocking send of                 *)
(* completeFetch / completeCatalog always finds room.                      *)
NoWedgedSlot ==
    \A k \in Kind : wait[k] # NoCall =>
        /\ callPC[wait[k]] \in InFlight /\ callKind[wait[k]] = k
        /\ chan[wait[k]] = Empty

(* A usable connection is always the hub's current one and the agent is    *)
(* shown online; the current connection is always one whose handler is     *)
(* still serving it. The clean-up of a replaced connection never undoes    *)
(* its successor.                                                          *)
PresenceTrue ==
    /\ online <=> conn # NoConn
    /\ \A c \in Conn : sock[c] => conn = c
    /\ conn # NoConn => pc[conn] \in Serving

(* Every fetch and every catalog request returns, although the agent may   *)
(* never answer (RequestFetch, RequestCatalogPush).                        *)
CallsReturn == \A r \in Call : []<>(callPC[r] \in {"new", "returned"})

(* recordHelloEvents: a reader who sees an "updated" row finds at least    *)
(* that version in agent_last_version, checked when the row is inserted.   *)
VersionBeforeEvent ==
    \A i \in DOMAIN rows : rows[i].ev.kind = "updated" => rows[i].seen = rows[i].ev.to

(* DecideHelloEvents never invents an offline row: the agent really had no *)
(* connection for the least gap before the connection that reports it.     *)
NoInventedOffline ==
    \A i \in DOMAIN rows : rows[i].ev.kind = "offline" => rows[i].gap >= GapMin
=============================================================================
