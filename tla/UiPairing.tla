------------------------------ MODULE UiPairing ------------------------------
(***************************************************************************)
(* The page that pairs the server with the Firewalla box                   *)
(* (ui/src/tabs/FWAppSettings.tsx): the steps overview, risk, form and     *)
(* working; a status read when the overview appears and every five seconds *)
(* after; a ping behind the first of those reads; pairing and unpairing,   *)
(* which answer late, when the visitor may have gone back or left.         *)
(***************************************************************************)
EXTENDS Naturals, FiniteSets

CONSTANTS
    PTask,         \* bound: requests in flight together
    MaxPVisits,    \* bound: visits to the page
    MaxPEdits      \* bound: writes, faults and switchings of the module

VARIABLES
    pSrv,          \* the server: paired or not
    pg,            \* FWAppSettingsPage; ticked is history
    pq             \* the requests

pairVars == <<pSrv, pg, pq>>

PIdle == [pc |-> "idle", op |-> "none", inst |-> 0, live |-> FALSE, paired |-> FALSE, st |-> "none"]
PFree(t) == pq[t].pc = "idle"
PEdit == pg.edits < MaxPEdits
PEdited(m) == [m EXCEPT !.edits = @ + 1]

PRequest(op) == [PIdle EXCEPT !.pc = "sent", !.op = op, !.inst = pg.inst, !.live = TRUE]
PSend(t, op) == pq' = [pq EXCEPT ![t] = PRequest(op)]

(* Status known, module on, overview on display. *)
watching(m) == m.open /\ m.on /\ m.step = "overview"
deps(m) == <<m.inst, m.open, m.on, m.step>>
(* A change of what the effect depends on cancels its read and runs it     *)
(* again; q are the requests after the step.                               *)
setPage(m, q) ==
    /\ pg' = IF deps(m) = deps(pg) THEN m ELSE [m EXCEPT !.due = watching(m)]
    /\ pq' = IF deps(m) = deps(pg) THEN q ELSE [t \in PTask |-> [q[t] EXCEPT !.live = FALSE]]
    /\ UNCHANGED pSrv
setState(m) == setPage(m, pq)

-----------------------------------------------------------------------------
(* The server answers or fails; a failing pairing may have changed nothing. *)
ServePairing(t) ==
    /\ pq[t].pc = "sent"
    /\ \/ /\ pSrv' = CASE pq[t].op = "pair" -> TRUE [] pq[t].op = "unpair" -> FALSE [] OTHER -> pSrv
          /\ pq' = [pq EXCEPT ![t] = [pq[t] EXCEPT !.pc = "back", !.st = "ok", !.paired = pSrv']]
          /\ UNCHANGED pg
       \/ /\ PEdit /\ pg' = PEdited(pg) /\ UNCHANGED pSrv
          /\ pq' = [pq EXCEPT ![t] = [pq[t] EXCEPT !.pc = "back", !.st = "fail"]]

(* The page has an answer: it belongs to this instance or is dropped. *)
Answer(t, op) == pq[t].pc = "back" /\ pq[t].op = op
Mine(t) == pg.open /\ pq[t].inst = pg.inst
PEnds(t) == [pq EXCEPT ![t] = PIdle]
setStatus(m, t) == IF pq[t].st = "ok" THEN [m EXCEPT !.status = pq[t].paired, !.known = TRUE] ELSE m

-----------------------------------------------------------------------------
(* Reading the status *)

overviewEffect(t) == pg.due /\ PFree(t) /\ pg' = [pg EXCEPT !.due = FALSE] /\ PSend(t, "first") /\ UNCHANGED pSrv
intervalOnce(t) == watching(pg) /\ ~pg.known /\ PFree(t) /\ PSend(t, "load") /\ UNCHANGED <<pSrv, pg>> \* bug: stops once a status is known
statusInterval(t) == watching(pg) /\ ~pg.due /\ PFree(t) /\ PSend(t, "load") /\ UNCHANGED <<pSrv, pg>>

mayProbeAlways(m) == TRUE                                                     \* bug: pingInFlight is not asked
mayProbe(m) == ~m.ping
loadStatus(t) ==
    /\ \E op \in {"load", "first"} : Answer(t, op)
    /\ IF ~Mine(t) THEN setPage(pg, PEnds(t))
       ELSE LET m == setStatus(pg, t) IN
            IF pq[t].op = "first" /\ pq[t].live /\ pq[t].st = "ok" /\ m.status /\ mayProbe(pg)
            THEN setPage([m EXCEPT !.ping = TRUE], [pq EXCEPT ![t] = PRequest("ping")])
            ELSE setPage(m, PEnds(t))

(* A ping that is refused without a status reads the status, the ping's    *)
(* lock held until that answer; one that is lost releases the lock first.  *)
probe(t) ==
    /\ Answer(t, "ping")
    /\ IF ~Mine(t) THEN setPage(pg, PEnds(t))
       ELSE IF pq[t].st = "ok" THEN setPage([setStatus(pg, t) EXCEPT !.ping = FALSE], PEnds(t))
       ELSE \/ setPage(pg, [pq EXCEPT ![t] = PRequest("reload")])
            \/ setPage([pg EXCEPT !.ping = FALSE], [pq EXCEPT ![t] = PRequest("load")])
reload(t) ==
    /\ Answer(t, "reload")
    /\ setPage(IF Mine(t) THEN [setStatus(pg, t) EXCEPT !.ping = FALSE] ELSE pg, PEnds(t))

-----------------------------------------------------------------------------
(* The wizard *)

startPair == pg.open /\ pg.on /\ pg.step = "overview" /\ pg.known /\ ~pg.status /\ ~pg.busy
             /\ setState([pg EXCEPT !.step = "risk"])
tick == pg.open /\ pg.step = "risk" /\ setState([pg EXCEPT !.ack = ~@, !.ticked = TRUE])
mayContinueAlways == pg.step = "risk"                                        \* bug: Continue is not disabled
mayContinue == pg.step = "risk" /\ pg.ack
goForm == pg.open /\ mayContinue /\ setState([pg EXCEPT !.step = "form"])
cancelRisk == pg.open /\ pg.step = "risk" /\ setState([pg EXCEPT !.step = "overview"])
cancelForm == pg.open /\ pg.step \in {"form", "working"} /\ ~pg.busy /\ setState([pg EXCEPT !.step = "overview", !.ack = FALSE])
onBackPairing ==
    /\ pg.open
    /\ setState(IF pg.step = "overview" THEN [pg EXCEPT !.open = FALSE]
                ELSE [pg EXCEPT !.step = "overview", !.ack = FALSE])
(* Another page of the menu leaves from any step. *)
leavePairing == pg.open /\ setState([pg EXCEPT !.open = FALSE])
openPairing ==
    /\ ~pg.open /\ pg.inst < MaxPVisits
    /\ setState([pg EXCEPT !.open = TRUE, !.inst = @ + 1, !.step = "overview", !.ack = FALSE, !.busy = FALSE,
                           !.ping = FALSE, !.status = FALSE, !.known = FALSE, !.ticked = FALSE])

(* The form is complete, or the attempt ends on the form at once. *)
pair(t) ==
    /\ PEdit /\ pg.open /\ pg.step \in {"form", "working"} /\ ~pg.busy
    /\ \/ PFree(t) /\ setPage([PEdited(pg) EXCEPT !.busy = TRUE, !.step = "working"], [pq EXCEPT ![t] = PRequest("pair")])
       \/ setState([PEdited(pg) EXCEPT !.step = "form"])
pairOk(m) == [m EXCEPT !.step = "overview", !.ack = FALSE, !.busy = FALSE]
pairFailedStuck(m) == [m EXCEPT !.step = "working"]                          \* bug: finally is missing
pairFailed(m) == [m EXCEPT !.step = "form", !.busy = FALSE]
paired(t) ==
    /\ Answer(t, "pair")
    /\ setPage(IF ~Mine(t) THEN pg
               ELSE IF pq[t].st = "ok" THEN pairOk(setStatus(pg, t))
               ELSE pairFailed(pg), PEnds(t))

unpair(t) ==
    /\ PEdit /\ pg.open /\ pg.on /\ pg.step = "overview" /\ pg.known /\ pg.status /\ ~pg.busy /\ PFree(t)
    /\ setPage([PEdited(pg) EXCEPT !.busy = TRUE], [pq EXCEPT ![t] = PRequest("unpair")])
unpaired(t) ==
    /\ Answer(t, "unpair")
    /\ setPage(IF ~Mine(t) THEN pg
               ELSE [setStatus(pg, t) EXCEPT !.busy = FALSE, !.step = IF pq[t].st = "ok" THEN "overview" ELSE @],
               PEnds(t))

(* The module is switched on or off, here or elsewhere. *)
onToggle == PEdit /\ setState([PEdited(pg) EXCEPT !.on = ~@])

-----------------------------------------------------------------------------
PairingInit ==
    /\ pSrv \in BOOLEAN
    /\ pg = [open |-> FALSE, inst |-> 0, on |-> TRUE, step |-> "overview", ack |-> FALSE, busy |-> FALSE, ping |-> FALSE,
             status |-> FALSE, known |-> FALSE, due |-> FALSE, ticked |-> FALSE, edits |-> 0]
    /\ pq = [t \in PTask |-> PIdle]

PairingAnswer(t) == loadStatus(t) \/ probe(t) \/ reload(t) \/ paired(t) \/ unpaired(t)
PairingNext ==
    \/ \E t \in PTask : \/ ServePairing(t) \/ PairingAnswer(t)
                        \/ overviewEffect(t) \/ statusInterval(t) \/ pair(t) \/ unpair(t)
    \/ startPair \/ tick \/ goForm \/ cancelRisk \/ cancelForm
    \/ onBackPairing \/ leavePairing \/ openPairing \/ onToggle

PairingSpec == PairingInit /\ [][PairingNext]_pairVars

(* Requests are answered; the effect runs and its interval fires. *)
PairingFair == /\ \A t \in PTask : WF_pairVars(ServePairing(t)) /\ WF_pairVars(PairingAnswer(t))
               /\ WF_pairVars(\E t \in PTask : overviewEffect(t))
               /\ WF_pairVars(\E t \in PTask : statusInterval(t))

-----------------------------------------------------------------------------
(* On one instance of the page at most one pairing or unpairing is under   *)
(* way; the buttons are locked exactly then, also when the visitor went    *)
(* back to the overview in the middle of it, and the form never says       *)
(* "Pairing" when nothing is (busy, step).                                 *)
PairingLocked ==
    /\ Cardinality({t \in PTask : pq[t].op \in {"pair", "unpair"} /\ Mine(t)}) = IF pg.open /\ pg.busy THEN 1 ELSE 0
    /\ pg.step = "working" => pg.busy

(* The box is pinged once at a time, over polls, returns to the overview   *)
(* and failing pings (pingInFlight).                                       *)
PingSingle == Cardinality({t \in PTask : pq[t].op \in {"ping", "reload"} /\ Mine(t)}) = IF pg.open /\ pg.ping THEN 1 ELSE 0

(* No pairing is asked for on a page where the risk was not acknowledged,  *)
(* whatever was cancelled, failed or reopened before.                      *)
PairAcknowledged == [][(\E t \in PTask : pair(t)) => pg.ticked]_pairVars

(* A visitor who stays on the overview comes to see whether the server is  *)
(* paired, though reads overtake each other and the answer of a pairing.   *)
PairingShown == <>[](watching(pg)) => <>[](pg.known /\ pg.status = pSrv)
=============================================================================
