------------------------------- MODULE UiLogs -------------------------------
(***************************************************************************)
(* The log viewer (ui/src/tabs/LogsTab.tsx): it reads the stored lines     *)
(* when it is mounted and whenever the filter changes, fetches and reads   *)
(* again on Refresh, and adds the batches of a live socket the visitor     *)
(* switches on and off.  A switched off socket closes later, by itself.    *)
(***************************************************************************)
EXTENDS Naturals

CONSTANTS
    LogSource,     \* the services that log
    VTask,         \* bound: requests in flight together
    Sock,          \* bound: sockets
    MaxFilters     \* bound: changes of the filter, refreshes and mounts

(* No service has the name that stands for no answer. *)
ASSUME LogSourceAssumption == "none" \notin LogSource

VARIABLES
    lv,            \* LogsTab; last is history: the filter the shown read was made for
    sk,            \* the sockets; proven is history
    lq             \* the reads: the filter is the one of their start

logVars == <<lv, sk, lq>>

Chosen == LogSource \cup {"all"}
fits(src) == IF src = "all" THEN LogSource ELSE {src}

VIdle == [pc |-> "idle", gen |-> 0, src |-> "all"]
VFree(t) == lq[t].pc = "idle"
VMine(t) == lv.on /\ lq[t].gen = lv.gen
NoSock == [st |-> "none", gen |-> 0, since |-> "all", proven |-> FALSE]
freshLogs(on, gen) ==
    [on |-> on, gen |-> gen, src |-> "all", lines |-> {}, last |-> "none", busy |-> on, want |-> FALSE,
     live |-> "off", cur |-> "none", edits |-> lv.edits + 1]

-----------------------------------------------------------------------------
(* Reads *)

(* The mount starts a refresh and a read. *)
mountLogs(t, u) ==
    /\ ~lv.on /\ lv.edits < MaxFilters /\ t # u /\ VFree(t) /\ VFree(u)
    /\ lv' = freshLogs(TRUE, lv.gen + 1)
    /\ lq' = [lq EXCEPT ![t] = [pc |-> "fetch", gen |-> lv.gen + 1, src |-> "all"],
                        ![u] = [pc |-> "load", gen |-> lv.gen + 1, src |-> "all"]]
    /\ UNCHANGED sk
closing(s) == [sk[s] EXCEPT !.st = IF @ \in {"connecting", "open"} THEN "closing" ELSE @]
leaveLogs ==
    /\ lv.on /\ lv' = [freshLogs(FALSE, lv.gen) EXCEPT !.edits = lv.edits]
    /\ sk' = [s \in Sock |-> closing(s)] /\ UNCHANGED lq

setSource(t, src) ==
    /\ lv.on /\ src # lv.src /\ VFree(t) /\ lv.edits < MaxFilters
    /\ lv' = [lv EXCEPT !.src = src, !.edits = @ + 1]
    /\ lq' = [lq EXCEPT ![t] = [pc |-> "load", gen |-> lv.gen, src |-> src]] /\ UNCHANGED sk
refresh(t) ==
    /\ lv.on /\ ~lv.busy /\ VFree(t) /\ lv.edits < MaxFilters
    /\ lv' = [lv EXCEPT !.busy = TRUE, !.edits = @ + 1]
    /\ lq' = [lq EXCEPT ![t] = [pc |-> "fetch", gen |-> lv.gen, src |-> lv.src]] /\ UNCHANGED sk
refreshEndsLocked(m) == m                                                     \* bug: no finally
refreshEnds(m) == [m EXCEPT !.busy = FALSE]
(* A refused fetch is reported and the lines are read all the same; one    *)
(* that throws ends the refresh.                                           *)
fetched(t) ==
    /\ lq[t].pc = "fetch" /\ UNCHANGED sk
    /\ \/ lq' = [lq EXCEPT ![t] = [lq[t] EXCEPT !.pc = "reload"]] /\ UNCHANGED lv
       \/ lq' = [lq EXCEPT ![t] = VIdle] /\ lv' = IF VMine(t) THEN refreshEnds(lv) ELSE lv
loadLogs(t) ==
    /\ lq[t].pc \in {"load", "reload"} /\ lq' = [lq EXCEPT ![t] = VIdle] /\ UNCHANGED sk
    /\ LET m == IF lq[t].pc = "reload" THEN refreshEnds(lv) ELSE lv IN
       lv' \in IF ~VMine(t) THEN {lv}
               ELSE {[m EXCEPT !.last = "none"]}
                        \cup {[m EXCEPT !.lines = l, !.last = lq[t].src] : l \in SUBSET fits(lq[t].src)}

-----------------------------------------------------------------------------
(* The live socket *)

toggleLive(s) ==
    /\ lv.on /\ UNCHANGED lq
    /\ \/ /\ ~lv.want /\ sk[s].st = "none"
          /\ lv' = [lv EXCEPT !.want = TRUE, !.live = "connecting", !.cur = s]
          /\ sk' = [sk EXCEPT ![s] = [st |-> "connecting", gen |-> lv.gen, since |-> lv.src, proven |-> FALSE]]
       \/ /\ lv.want /\ lv.cur = s
          /\ lv' = [lv EXCEPT !.want = FALSE, !.live = "off"]
          /\ sk' = [sk EXCEPT ![s] = closing(s)]

(* A handler's setState calls reach the page that made the socket. *)
setLive(s, m) == lv' = IF lv.on /\ sk[s].gen = lv.gen THEN m ELSE lv
onopenLive(s) == [lv EXCEPT !.live = "on"]                                    \* bug: an open socket counts as live
onopen(s) == [lv EXCEPT !.live = IF @ = "on" THEN @ ELSE "connecting"]
sockOpens(s) ==
    /\ sk[s].st = "connecting" /\ sk' = [sk EXCEPT ![s] = [sk[s] EXCEPT !.st = "open"]] /\ UNCHANGED lq /\ setLive(s, onopen(s))
logsStatus(s) ==
    /\ sk[s].st = "open" /\ UNCHANGED lq
    /\ \/ setLive(s, [lv EXCEPT !.live = "error"]) /\ UNCHANGED sk
       \/ setLive(s, [lv EXCEPT !.live = "on"]) /\ sk' = [sk EXCEPT ![s] = [sk[s] EXCEPT !.proven = TRUE]]
sourceOfSocket(s) == sk[s].since                                              \* bug: the filter of the socket's start
sourceRef(s) == lv.src
logsBatch(s) ==
    /\ sk[s].st = "open" /\ sk' = [sk EXCEPT ![s] = [sk[s] EXCEPT !.proven = TRUE]] /\ UNCHANGED lq
    /\ \E batch \in SUBSET LogSource \ {{}} :
          setLive(s, [lv EXCEPT !.live = "on", !.lines = @ \cup (batch \cap fits(sourceRef(s)))])
(* A socket that fails reports it and closes. *)
onerror(s) ==
    /\ sk[s].st \in {"connecting", "open", "closing"} /\ UNCHANGED lq
    /\ setLive(s, [lv EXCEPT !.live = "error"]) /\ sk' = [sk EXCEPT ![s] = [sk[s] EXCEPT !.st = "failed"]]
oncloseKept(m) == [m EXCEPT !.live = IF @ = "error" THEN @ ELSE "off"]        \* bug: an error outlives its socket
onclose(m) == [m EXCEPT !.live = "off"]
sockCloses(s) ==
    /\ sk[s].st \in {"connecting", "open", "closing", "failed"} /\ UNCHANGED lq
    /\ setLive(s, onclose(lv)) /\ sk' = [sk EXCEPT ![s] = [sk[s] EXCEPT !.st = "gone"]]

-----------------------------------------------------------------------------
LogsInit ==
    /\ lv = [on |-> FALSE, gen |-> 0, src |-> "all", lines |-> {}, last |-> "none", busy |-> FALSE, want |-> FALSE,
             live |-> "off", cur |-> "none", edits |-> 0]
    /\ sk = [s \in Sock |-> NoSock] /\ lq = [t \in VTask |-> VIdle]
LogsNext ==
    \/ leaveLogs
    \/ \E t \in VTask :
          \/ refresh(t) \/ fetched(t) \/ loadLogs(t)
          \/ \E u \in VTask : mountLogs(t, u)
          \/ \E src \in Chosen : setSource(t, src)
    \/ \E s \in Sock : toggleLive(s) \/ sockOpens(s) \/ logsStatus(s) \/ logsBatch(s) \/ onerror(s) \/ sockCloses(s)
LogsSpec == LogsInit /\ [][LogsNext]_logVars

(* The browser closes a socket it was told to close, or that failed. *)
LogsFair == \A s \in Sock : WF_logVars(sk[s].st \in {"closing", "failed"} /\ sockCloses(s))

-----------------------------------------------------------------------------
(* The light is green only while the visitor wants live lines and the      *)
(* current socket, still open, has sent a live status or a batch           *)
(* (LogsTab.tsx: "Wait for server logs.status{live:true}; socket open      *)
(* alone isn't enough"): no earlier socket turns it on.                    *)
LiveProven == lv.live = "on" => lv.want /\ sk[lv.cur].st = "open" /\ sk[lv.cur].proven

(* With no read out, and the last answer one to the chosen filter, every   *)
(* line shown is of the chosen source: live batches are filtered by the    *)
(* choice of the moment, not of the socket's start.                        *)
LinesAsChosen ==
    lv.on /\ lv.last = lv.src /\ (\A t \in VTask : VMine(t) => VFree(t)) => lv.lines \subseteq fits(lv.src)

(* The Refresh button is locked exactly while a refresh of this mount is   *)
(* out, through its fetch and the read behind it.                          *)
RefreshOwned == lv.on => (lv.busy <=> \E t \in VTask : VMine(t) /\ lq[t].pc \in {"fetch", "reload"})

(* A visitor who switches live lines off and leaves them off ends with the *)
(* light off, whatever the socket reported while it closed.                *)
LiveSettles == <>[](~lv.want) => <>[](lv.live = "off")
=============================================================================
