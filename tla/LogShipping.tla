---------------------------- MODULE LogShipping ----------------------------
(***************************************************************************)
(* How the agent ships log lines (agent/internal/svclogs and wsclient):    *)
(* the coalesced sync (syncOnce, Collect, ApplyCursors), the live follow   *)
(* (Follow), the acknowledgements both wait for, and the cursors they      *)
(* advance. The server's end is the logs.batch case of agenthub.ServeWS.   *)
(*                                                                         *)
(* The two kinds of source differ in what a bounded read returns: the ACL  *)
(* file from the offset on, the journal its newest lines. Lines are those  *)
(* that pass QuietKeep; a cursor is the number of lines before it.         *)
(***************************************************************************)
EXTENDS LogBatches, FiniteSets

CONSTANTS
    Limit,          \* lines one read of a source returns in a sync
    Run,            \* runs of Follow, each used once
    NoRun, NoMsg, NoWaiter,
    Timeouts,       \* TRUE when an ack on a working connection may be late
    MaxLine,        \* bound on the lines of each source
    MaxConns,       \* bound on the connections
    MaxEmit         \* bound on the batches of one run

ASSUME ShipAssumption ==
    /\ {Limit, MaxLine, MaxConns, MaxEmit} \subseteq Nat
    /\ Timeouts \in BOOLEAN
    /\ NoRun \notin Run /\ NoWaiter \notin Run \cup {"sync"} /\ "sync" \notin Run

Source == {"journal", "acl"}
Cursors == [Source -> 0..MaxLine]
Line(s, i) == [src |-> s, at |-> i, cost |-> 1]
Lines == {Line(s, i) : s \in Source, i \in 1..MaxLine}
Ids == ({"b"} \X (1..MaxBatches)) \cup ({"live"} \X (1..MaxEmit))
Waiters == Run \cup {"sync"}

VARIABLES
    size,           \* lines each source has
    cursor,         \* CursorStore, in memory and on disk
    conn, link,     \* the agent's connection and whether it works
    up, down,       \* batches and acknowledgements on the way
    hand,           \* the batch the server's handler of a connection works on
    acks, got,      \* Client.acks, and the waiters whose channel holds a token
    syncPC, syncConn, found, todo, pend,                    \* syncOnce
    active, cancel, sink,                                   \* Follow
    runPC, stop, buf, seq, aclOff, hasACL,                  \* Follow.run
    handled,        \* history: lines in batches the server acknowledged
    dropped         \* history: lines counted as dropped

wire == <<conn, link, up, down, hand>>
syncVars == <<syncPC, syncConn, found, todo, pend>>
follow == <<active, cancel, sink>>
runs == <<runPC, stop, buf, seq, aclOff, hasACL>>
history == <<handled, dropped>>
vars == <<size, cursor, wire, acks, got, syncVars, follow, runs, history>>

Init ==
    /\ size = [s \in Source |-> 0] /\ cursor = [s \in Source |-> 0]
    /\ conn = 0 /\ link = FALSE /\ up = <<>> /\ down = <<>>
    /\ hand = [k \in 1..MaxConns |-> NoMsg]
    /\ acks = [i \in Ids |-> NoWaiter] /\ got = {}
    /\ syncPC = "idle" /\ syncConn = 0 /\ found = <<>> /\ todo = <<>>
    /\ pend = [s \in Source |-> 0]
    /\ active = FALSE /\ cancel = NoRun /\ sink = 0
    /\ runPC = [r \in Run |-> "new"] /\ stop = [r \in Run |-> FALSE]
    /\ buf = [r \in Run |-> {}] /\ seq = [r \in Run |-> 0]
    /\ aclOff = [r \in Run |-> 0] /\ hasACL = [r \in Run |-> FALSE]
    /\ handled = {} /\ dropped = {}
-----------------------------------------------------------------------------
(* The environment: lines appear, the connection comes and goes. *)

Logs(s) ==
    /\ size[s] < MaxLine
    /\ size' = [size EXCEPT ![s] = @ + 1]
    /\ UNCHANGED <<cursor, wire, acks, got, syncVars, follow, runs, history>>

Connects ==
    /\ ~link /\ conn < MaxConns
    /\ conn' = conn + 1 /\ link' = TRUE
    /\ UNCHANGED <<size, cursor, up, down, hand, acks, got, syncVars, follow, runs, history>>

(* Follow.Stop: cancel the run that Start remembered. *)
StopFollow ==
    /\ cancel' = NoRun /\ active' = FALSE
    /\ stop' = [r \in Run |-> stop[r] \/ r = cancel]

(* The session ends, what was on the way is lost, Run stops the follow.    *)
(* The last connection of the bound lasts.                                 *)
Breaks ==
    /\ link /\ conn < MaxConns
    /\ link' = FALSE /\ up' = <<>> /\ down' = <<>>
    /\ StopFollow
    /\ UNCHANGED <<size, cursor, conn, hand, acks, got, syncVars, sink,
                   runPC, buf, seq, aclOff, hasACL, history>>

(* The server reads a batch, inserts its lines and acknowledges it on      *)
(* whichever connection is current by then.                                *)
ServerReads ==
    /\ link /\ up # <<>> /\ hand[conn] = NoMsg
    /\ hand' = [hand EXCEPT ![conn] = Head(up)]
    /\ up' = Tail(up)
    /\ UNCHANGED <<size, cursor, conn, link, down, acks, got, syncVars, follow, runs, history>>

ServerAcks(k) ==
    /\ hand[k] # NoMsg
    /\ handled' = handled \cup hand[k].lines
    /\ down' = IF link THEN Append(down, hand[k].id) ELSE down
    /\ hand' = [hand EXCEPT ![k] = NoMsg]
    /\ UNCHANGED <<size, cursor, conn, link, up, acks, got, syncVars, follow, runs, dropped>>

(* The agent's reader gives the waiter registered under the id a token. *)
AckReads ==
    /\ link /\ down # <<>>
    /\ down' = Tail(down)
    /\ got' = IF acks[Head(down)] = NoWaiter THEN got
              ELSE got \cup {acks[Head(down)]}
    /\ UNCHANGED <<size, cursor, conn, link, up, hand, acks, syncVars, follow, runs, history>>
-----------------------------------------------------------------------------
(* sendBatch, shared by both: register, write, wait, forget. *)

Working(k) == link /\ conn = k
Register(i, w) == acks' = [acks EXCEPT ![i] = w] /\ got' = got \ {w}
Forget(i) == acks' = [acks EXCEPT ![i] = NoWaiter]
Send(i, ls) == up' = Append(up, [id |-> i, lines |-> ls])

(* Ten seconds pass without the ack. Unless Timeouts, that only happens on *)
(* a dead connection, with no batch in the server's hands and no ack on    *)
(* its way to the agent.                                                   *)
Late(k) == \/ Timeouts
           \/ ~Working(k) /\ down = <<>> /\ \A j \in 1..conn : hand[j] = NoMsg
-----------------------------------------------------------------------------
(* syncOnce: at most one at a time (inflight). *)

NewLines(s) == (cursor[s] + 1)..size[s]
Smaller(a, b) == IF a < b THEN a ELSE b

(* ReadNotable returns the first Limit lines, journalctl -n the last.      *)
ReadSource(s) ==
    LET from == IF s = "acl" \/ size[s] - cursor[s] <= Limit THEN cursor[s]
                ELSE size[s] - Limit
    IN  [i \in 1..Smaller(Limit, size[s] - cursor[s]) |-> Line(s, from + i)]

SyncBegins ==
    /\ syncPC = "idle" /\ link
    /\ syncPC' = "journal" /\ syncConn' = conn /\ pend' = cursor
    /\ UNCHANGED <<size, cursor, wire, acks, got, found, todo, follow, runs, history>>

CollectsJournal ==
    /\ syncPC = "journal"
    /\ syncPC' = "acl"
    /\ found' = ReadSource("journal")
    /\ pend' = [pend EXCEPT !["journal"] = size["journal"]]
    /\ UNCHANGED <<size, cursor, wire, acks, got, syncConn, todo, follow, runs, history>>

(* A failing journalctl reads as no lines and the old cursor. *)
JournalFails ==
    /\ syncPC = "journal"
    /\ syncPC' = "acl" /\ found' = <<>>
    /\ UNCHANGED <<size, cursor, wire, acks, got, syncConn, todo, pend, follow, runs, history>>

(* The ACL lines are stamped now and sort after the journal's. An empty    *)
(* invocation still sends one batch, marked done.                          *)
Batches(out) == IF out.batches = <<>> THEN << <<>> >> ELSE out.batches

Packs(all) ==
    /\ syncPC = "acl"
    /\ syncPC' = "send" /\ found' = <<>>
    /\ LET out == splitBatches(all) IN
       /\ todo' = [i \in DOMAIN Batches(out) |->
                       [id |-> <<"b", i>>, lines |-> Range(Batches(out)[i])]]
       /\ dropped' = dropped \cup (Range(all) \ UNION {m.lines : m \in Range(todo')})
    /\ UNCHANGED <<size, cursor, wire, acks, got, syncConn, follow, runs, handled>>

CollectsACL ==
    /\ Packs(found \o ReadSource("acl"))
    /\ pend' = [pend EXCEPT !["acl"] = size["acl"]]

(* The ACL file cannot be read: no lines, and its offset stays. *)
ACLFails == Packs(found) /\ UNCHANGED pend

SyncSends ==
    /\ syncPC = "send"
    /\ Register(Head(todo).id, "sync")
    /\ syncPC' = "wait"
    /\ IF Working(syncConn) THEN Send(Head(todo).id, Head(todo).lines)
                            ELSE UNCHANGED up
    /\ UNCHANGED <<size, cursor, conn, link, down, hand, syncConn, found, todo, pend, follow,
                   runs, history>>

(* The write fails: the connection is gone. *)
SyncCannotSend ==
    /\ syncPC = "send" /\ ~Working(syncConn)
    /\ Forget(Head(todo).id)
    /\ syncPC' = "idle"
    /\ UNCHANGED <<size, cursor, wire, got, syncConn, found, todo, pend, follow, runs, history>>

SyncAcked ==
    /\ syncPC = "wait" /\ "sync" \in got
    /\ Forget(Head(todo).id)
    /\ todo' = Tail(todo)
    /\ syncPC' = IF Tail(todo) = <<>> THEN "apply" ELSE "send"
    /\ UNCHANGED <<size, cursor, wire, got, syncConn, found, pend, follow, runs, history>>

SyncAppliesAnyway ==                \* bug: cursors advance without the ack
    /\ syncPC = "wait" /\ Late(syncConn)
    /\ Forget(Head(todo).id)
    /\ syncPC' = "apply"
    /\ UNCHANGED <<size, cursor, wire, got, syncConn, found, todo, pend, follow, runs, history>>
SyncWaitsOn == FALSE /\ UNCHANGED vars          \* bug: no ack timeout
SyncTimesOut ==
    /\ syncPC = "wait" /\ Late(syncConn)
    /\ Forget(Head(todo).id)
    /\ syncPC' = "idle"
    /\ UNCHANGED <<size, cursor, wire, got, syncConn, found, todo, pend, follow, runs, history>>

ApplyCursors ==
    /\ syncPC = "apply"
    /\ cursor' = pend
    /\ syncPC' = "idle"
    /\ UNCHANGED <<size, wire, acks, got, syncConn, found, todo, pend, follow, runs, history>>

SyncStep == \/ CollectsJournal \/ JournalFails \/ CollectsACL \/ ACLFails \/ SyncSends
            \/ SyncCannotSend \/ SyncAcked \/ SyncTimesOut \/ ApplyCursors
-----------------------------------------------------------------------------
(* Follow. *)

(* Follow.Start: nothing if active, else a run that cancel remembers. *)
StartFollow ==
    IF active THEN UNCHANGED <<active, cancel, runPC>>
    ELSE \E r \in Run : /\ runPC[r] = "new"
                        /\ runPC' = [runPC EXCEPT ![r] = "loop"]
                        /\ active' = TRUE /\ cancel' = r

(* startLive, after its seed: the sink is bound to the connection on which *)
(* the request came.                                                       *)
StartLive(k) ==
    /\ link /\ k \in 1..conn
    /\ sink' = k
    /\ StartFollow
    /\ UNCHANGED <<size, cursor, wire, acks, got, syncVars, stop, buf, seq, aclOff, hasACL, history>>

StopLive ==
    /\ link /\ StopFollow
    /\ UNCHANGED <<size, cursor, wire, acks, got, syncVars, sink, runPC, buf, seq,
                   aclOff, hasACL, history>>

FollowReadsJournal(r) ==
    /\ runPC[r] = "loop" /\ size["journal"] > 0
    /\ buf' = [buf EXCEPT ![r] = @ \cup {Line("journal", size["journal"])}]
    /\ UNCHANGED <<size, cursor, wire, acks, got, syncVars, follow, runPC, stop, seq, aclOff,
                   hasACL, history>>

(* pollACL: the rate limit accepts the first n lines and counts the rest. *)
FollowPollsACL(r) ==
    /\ runPC[r] = "loop" /\ NewLines("acl") # {}
    /\ \E n \in 0..Len(ReadSource("acl")) :
          LET ls == ReadSource("acl") IN
          /\ buf' = [buf EXCEPT ![r] = @ \cup {ls[i] : i \in 1..n}]
          /\ dropped' = dropped \cup {ls[i] : i \in (n + 1)..Len(ls)}
    /\ aclOff' = [aclOff EXCEPT ![r] = size["acl"]]
    /\ hasACL' = [hasACL EXCEPT ![r] = TRUE]
    /\ UNCHANGED <<size, cursor, wire, acks, got, syncVars, follow, runPC, stop, seq, handled>>

FollowEmits(r) ==
    /\ runPC[r] = "loop" /\ buf[r] # {} /\ seq[r] < MaxEmit
    /\ seq' = [seq EXCEPT ![r] = @ + 1]
    /\ buf' = [buf EXCEPT ![r] = {}]
    /\ IF Working(sink)
       THEN /\ Register(<<"live", seq[r] + 1>>, r)
            /\ Send(<<"live", seq[r] + 1>>, buf[r])
            /\ runPC' = [runPC EXCEPT ![r] = "wait"]
       ELSE UNCHANGED <<acks, got, up, runPC>>
    /\ UNCHANGED <<size, cursor, conn, link, down, hand, syncVars, follow, stop, aclOff,
                   hasACL, history>>

FollowAcked(r) ==
    /\ runPC[r] = "wait" /\ r \in got
    /\ Forget(<<"live", seq[r]>>)
    /\ runPC' = [runPC EXCEPT ![r] = "loop"]
    /\ cursor' = IF hasACL[r] THEN [cursor EXCEPT !["acl"] = aclOff[r]] ELSE cursor
    /\ UNCHANGED <<size, wire, got, syncVars, follow, stop, buf, seq, aclOff, hasACL, history>>

FollowTimesOut(r) ==
    /\ runPC[r] = "wait" /\ Late(sink)
    /\ Forget(<<"live", seq[r]>>)
    /\ runPC' = [runPC EXCEPT ![r] = "loop"]
    /\ UNCHANGED <<size, cursor, wire, got, syncVars, follow, stop, buf, seq, aclOff, hasACL,
                   history>>

(* The run ends, stopped or because journalctl did; it clears active.      *)
FollowExitsSilently(r) ==           \* bug: active stays set
    /\ runPC[r] = "loop" /\ buf[r] = {}
    /\ runPC' = [runPC EXCEPT ![r] = "done"]
    /\ UNCHANGED <<size, cursor, wire, acks, got, syncVars, follow, stop, buf, seq,
                   aclOff, hasACL, history>>
FollowExits(r) ==
    /\ runPC[r] = "loop" /\ buf[r] = {}
    /\ runPC' = [runPC EXCEPT ![r] = "done"]
    /\ active' = FALSE
    /\ UNCHANGED <<size, cursor, wire, acks, got, syncVars, cancel, sink, stop, buf, seq,
                   aclOff, hasACL, history>>

FollowStep(r) == \/ FollowReadsJournal(r) \/ FollowPollsACL(r) \/ FollowEmits(r)
                 \/ FollowAcked(r) \/ FollowTimesOut(r) \/ FollowExits(r)
-----------------------------------------------------------------------------
Server == ServerReads \/ (\E k \in 1..MaxConns : ServerAcks(k))
Live == \/ StopLive \/ (\E k \in 1..MaxConns : StartLive(k))
        \/ \E r \in Run : FollowStep(r)

Next == \/ \E s \in Source : Logs(s)
        \/ Connects \/ Breaks \/ Server \/ AckReads
        \/ SyncBegins \/ SyncStep
        \/ Live

Spec == Init /\ [][Next]_vars

(* The hourly sync, left out while the follow covers new lines. *)
HourlySync == ~active /\ SyncBegins

(* Neither journalctl nor the ACL file fails every time it is read. *)
ReadsSucceed == SF_vars(CollectsJournal) /\ SF_vars(CollectsACL)
-----------------------------------------------------------------------------
(* The shipping state is well typed. *)
TypeOK ==
    /\ size \in Cursors /\ cursor \in Cursors /\ pend \in Cursors
    /\ conn \in 0..MaxConns /\ link \in BOOLEAN
    /\ \A i \in DOMAIN up : up[i] \in [id: Ids, lines: SUBSET Lines]
    /\ \A i \in DOMAIN down : down[i] \in Ids
    /\ hand \in [1..MaxConns -> [id: Ids, lines: SUBSET Lines] \cup {NoMsg}]
    /\ acks \in [Ids -> Waiters \cup {NoWaiter}] /\ got \subseteq Waiters
    /\ syncPC \in {"idle", "journal", "acl", "send", "wait", "apply"}
    /\ syncPC \in {"send", "wait"} => todo # <<>>
    /\ active \in BOOLEAN /\ cancel \in Run \cup {NoRun} /\ sink \in 0..conn
    /\ runPC \in [Run -> {"new", "loop", "wait", "done"}]
    /\ handled \subseteq Lines /\ dropped \subseteq Lines

(* A cursor never passes a line that the server has not acknowledged and   *)
(* that was not counted as dropped (Collect, ApplyCursors, Follow.emit).   *)
AckedBeforeCursor ==
    \A s \in Source : \A i \in 1..cursor[s] : Line(s, i) \in handled \cup dropped

(* A line, once logged, reaches the server or is counted as dropped.       *)
EventuallyShipped ==
    ReadsSucceed => \A s \in Source, i \in 1..MaxLine :
                        []<>(i > size[s] \/ Line(s, i) \in handled \cup dropped)

(* While active is set, the run that Stop would cancel is running and has  *)
(* not been stopped (Follow.Start, Stop, run).                             *)
ActiveRuns ==
    active => /\ cancel # NoRun
              /\ runPC[cancel] \in {"loop", "wait"} /\ ~stop[cancel]

(* Start begins a run only if none is running: at most one run is not      *)
(* stopped, so that Stop ends the follow.                                  *)
OneFollow ==
    Cardinality({r \in Run : runPC[r] \in {"loop", "wait"} /\ ~stop[r]}) <= 1
=============================================================================
