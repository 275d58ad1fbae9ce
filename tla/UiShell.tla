------------------------------- MODULE UiShell -------------------------------
(***************************************************************************)
(* The frame of the web page (ui/src/App.tsx, ui/src/pages/LoginPage.tsx,  *)
(* ui/src/lib/api.ts): whether the visitor is signed in, the load of all   *)
(* data every five seconds, the range of the charts, and the refresh that  *)
(* asks the server to read the box again.  The session and the data live   *)
(* at the server and change under the page's feet.                         *)
(***************************************************************************)
EXTENDS Naturals

CONSTANTS
    ChartRange,    \* the ranges of the charts
    FirstRange,    \* the one at the start
    LTask,         \* bound: loads in flight together
    MaxEvents      \* bound: changes, expiries, faults and choices of a range

ASSUME RangeAssumption == FirstRange \in ChartRange /\ "none" \notin ChartRange

VARIABLES
    sv,            \* the server: version of its data, session, events so far
    ap,            \* App's state
    fx,            \* the load effect: whether it runs, and for which range
    ld,            \* ld[t]: a call of load
    rq             \* the other requests: check, login, refresh

shellVars == <<sv, ap, fx, ld, rq>>

LoadIdle == [pc |-> "idle", live |-> FALSE, range |-> "none", since |-> 0, ver |-> 0, st |-> "none"]

LFree(t) == ld[t].pc = "idle"
SvEvent == sv.events < MaxEvents
SvSpent == [sv EXCEPT !.events = @ + 1]

(* A 401 to any request but the login's own raises AUTH_EVENT. *)
onNeedMissed(a) == a                                        \* bug: the event is not raised
onNeed(a) == [a EXCEPT !.auth = "needed"]
apiAnswered(a) == IF sv.session THEN a ELSE onNeed(a)

-----------------------------------------------------------------------------
(* The server and the visitor's choices *)

serverChanges == SvEvent /\ sv' = [SvSpent EXCEPT !.ver = @ + 1] /\ UNCHANGED <<ap, fx, ld, rq>>
sessionEnds == SvEvent /\ sv.session /\ sv' = [SvSpent EXCEPT !.session = FALSE] /\ UNCHANGED <<ap, fx, ld, rq>>

setChartRange(r) == /\ SvEvent /\ ap.auth = "ok" /\ r # ap.range
                    /\ ap' = [ap EXCEPT !.range = r]
                    /\ sv' = SvSpent /\ UNCHANGED <<fx, ld, rq>>

-----------------------------------------------------------------------------
(* checkAuth waits for the options of the login page and for `me'; the 401 *)
(* of `me' shows the login page before checkAuth goes on.                  *)

meAnswered == /\ rq.check = "sent"
              /\ rq' = [rq EXCEPT !.check = IF sv.session THEN "yes" ELSE "no"]
              /\ ap' = apiAnswered(ap)
              /\ UNCHANGED <<sv, fx, ld>>

checkAuth == /\ rq.check \in {"yes", "no"}
             /\ ap' = [ap EXCEPT !.auth = IF rq.check = "yes" THEN "ok" ELSE "needed"]
checkDone == checkAuth /\ rq' = [rq EXCEPT !.check = "done"] /\ UNCHANGED <<sv, fx, ld>>
checkThrows == /\ SvEvent /\ rq.check \notin {"done"}
               /\ rq' = [rq EXCEPT !.check = "done"]
               /\ ap' = [ap EXCEPT !.auth = "needed"]
               /\ sv' = SvSpent /\ UNCHANGED <<fx, ld>>

(* The form of the login page. *)
onSubmit == /\ ap.auth = "needed" /\ rq.login = "idle"
            /\ rq' = [rq EXCEPT !.login = "sent"] /\ UNCHANGED <<sv, ap, fx, ld>>
loginServed == /\ rq.login = "sent"
               /\ \/ rq' = [rq EXCEPT !.login = "ok"] /\ sv' = [sv EXCEPT !.session = TRUE]
                  \/ rq' = [rq EXCEPT !.login = "idle"] /\ UNCHANGED sv
               /\ UNCHANGED <<ap, fx, ld>>
onAuthed == /\ rq.login = "ok"
            /\ rq' = [rq EXCEPT !.login = "idle"]
            /\ ap' = [ap EXCEPT !.auth = "ok"]
            /\ UNCHANGED <<sv, fx, ld>>

-----------------------------------------------------------------------------
(* load *)

(* The end of refreshFromControl. *)
releaseOnOk(a, ok) == IF ok THEN [a EXCEPT !.refreshing = FALSE] ELSE a   \* bug: no finally
release(a, ok) == [a EXCEPT !.refreshing = FALSE]

beginLoad(l, t, r) == [l EXCEPT ![t] = [LoadIdle EXCEPT !.pc = "sent", !.live = TRUE,
                                                       !.range = r, !.since = sv.ver]]

(* The effect runs again when the range or the state of the session        *)
(* changed: the loads in flight are cancelled, a new one starts.           *)
depsWithoutRange == fx.on # (ap.auth = "ok")                \* bug: the range is not a dependency
depsChanged == fx # [on |-> ap.auth = "ok", range |-> ap.range]
cancelledKept(l) == l                                       \* bug: no cleanup
cancelled(l) == [t \in LTask |-> [l[t] EXCEPT !.live = FALSE]]
runEffect(t) ==
    /\ depsChanged /\ LFree(t)
    /\ fx' = [on |-> ap.auth = "ok", range |-> ap.range]
    /\ ld' = IF fx'.on THEN beginLoad(cancelled(ld), t, ap.range) ELSE cancelled(ld)
    /\ UNCHANGED <<sv, ap, rq>>

interval(t) == /\ fx.on /\ LFree(t)
               /\ ld' = beginLoad(ld, t, fx.range)
               /\ UNCHANGED <<sv, ap, fx, rq>>

LStep(t, l, a) == ld' = [ld EXCEPT ![t] = l] /\ ap' = a /\ UNCHANGED <<fx, rq>>
LApply(t, a) == IF ld[t].live THEN a ELSE ap
(* The refresh that awaits this load ends with it. *)
EndLoad(t, a) == /\ ld' = [ld EXCEPT ![t] = LoadIdle]
                 /\ ap' = (IF rq.refresh = t THEN release(a, TRUE) ELSE a)
                 /\ rq' = (IF rq.refresh = t THEN [rq EXCEPT !.refresh = "idle"] ELSE rq)
                 /\ UNCHANGED fx

(* All the answers are in: 200, 404 for what the server does not have yet, *)
(* another error, or 401 for every one.                                    *)
promiseAll(t) ==
    /\ ld[t].pc = "sent"
    /\ \E st \in (IF ~sv.session THEN {"error"} ELSE {"ok", "missing"} \cup IF SvEvent THEN {"error"} ELSE {}) :
         /\ LStep(t, [ld[t] EXCEPT !.pc = "status", !.ver = sv.ver, !.st = st], apiAnswered(ap))
         /\ sv' = IF st = "error" /\ sv.session THEN SvSpent ELSE sv

setControlLanOk(t) ==
    /\ ld[t].pc = "status"
    /\ \E lan \in (IF ld[t].st = "error" THEN {FALSE} ELSE BOOLEAN) :
         LStep(t, [ld[t] EXCEPT !.pc = "history"], LApply(t, [ap EXCEPT !.lan = lan]))
    /\ UNCHANGED sv

setHistoryAlways(t, h) == [ap EXCEPT !.history = h]         \* bug: cancelled is not asked
setHistory(t, h) == LApply(t, [ap EXCEPT !.history = h])
historyAnswered(t) ==
    /\ ld[t].pc = "history"
    /\ LStep(t, [ld[t] EXCEPT !.pc = "devices"],
            IF ld[t].st = "error" THEN ap
            ELSE setHistory(t, [range |-> ld[t].range, ver |-> ld[t].ver]))
    /\ UNCHANGED sv

(* The views that a 404 clears: the latest metrics, devices, topology... *)
devicesAnswered(t) ==
    /\ ld[t].pc = "devices"
    /\ EndLoad(t, LApply(t, CASE ld[t].st = "ok" -> [ap EXCEPT !.devices = ld[t].ver]
                             [] ld[t].st = "missing" -> [ap EXCEPT !.devices = 0]
                             [] OTHER -> ap))
    /\ UNCHANGED sv

(* A request or a body that fails ends the load; the next one is due. *)
loadThrows(t) == ld[t].pc # "idle" /\ SvEvent /\ EndLoad(t, ap) /\ sv' = SvSpent

-----------------------------------------------------------------------------
(* Refresh from Firewalla *)

refreshFromControl ==
    /\ ap.auth = "ok" /\ ap.lan /\ ~ap.refreshing
    /\ ap' = [ap EXCEPT !.refreshing = TRUE]
    /\ rq' = [rq EXCEPT !.refresh = "sent"]
    /\ UNCHANGED <<sv, fx, ld>>

(* The answer: a failure ends it; otherwise it waits for a load of its own *)
(* unless the effect was cleaned up meanwhile.                             *)
refreshFailed == /\ rq.refresh = "sent" /\ (SvEvent \/ ~sv.session)
                 /\ rq' = [rq EXCEPT !.refresh = "idle"]
                 /\ ap' = release(apiAnswered(ap), FALSE)
                 /\ sv' = (IF sv.session THEN SvSpent ELSE sv) /\ UNCHANGED <<fx, ld>>
refreshAnswered(t) ==
    /\ rq.refresh = "sent" /\ sv.session /\ LFree(t)
    /\ \/ fx.on /\ rq' = [rq EXCEPT !.refresh = t] /\ ld' = beginLoad(ld, t, fx.range) /\ UNCHANGED ap
       \/ ~fx.on /\ rq' = [rq EXCEPT !.refresh = "idle"] /\ ap' = release(ap, TRUE) /\ UNCHANGED ld
    /\ UNCHANGED <<sv, fx>>

-----------------------------------------------------------------------------
ShellInit ==
    /\ \E s \in BOOLEAN : sv = [ver |-> 1, session |-> s, events |-> 0]
    /\ ap = [auth |-> "checking", range |-> FirstRange, lan |-> FALSE, refreshing |-> FALSE,
             history |-> [range |-> "none", ver |-> 0], devices |-> 0]
    /\ fx = [on |-> FALSE, range |-> FirstRange]
    /\ ld = [t \in LTask |-> LoadIdle]
    /\ rq = [check |-> "sent", login |-> "idle", refresh |-> "idle"]

(* The steps the browser and the server take by themselves. *)
LoadStep(t) == promiseAll(t) \/ setControlLanOk(t) \/ historyAnswered(t) \/ devicesAnswered(t)

ShellNext ==
    \/ serverChanges \/ sessionEnds \/ \E r \in ChartRange : setChartRange(r)
    \/ meAnswered \/ checkDone \/ checkThrows \/ onSubmit \/ loginServed \/ onAuthed
    \/ \E t \in LTask : runEffect(t) \/ interval(t) \/ LoadStep(t) \/ loadThrows(t) \/ refreshAnswered(t)
    \/ refreshFromControl \/ refreshFailed

ShellSpec == ShellInit /\ [][ShellNext]_shellVars

(* A request settles, the check and the login go on, a load goes on, and   *)
(* the interval fires; the visitor and the server need not do anything.    *)
ShellFair ==
    /\ WF_shellVars(meAnswered) /\ WF_shellVars(checkDone) /\ WF_shellVars(onAuthed)
    /\ WF_shellVars(\E t \in LTask : interval(t))
    /\ \A t \in LTask : WF_shellVars(LoadStep(t))

(* Timers do not keep the effect or the end of a refresh from running: a   *)
(* browser has no bound on the loads under way.                            *)
EffectsRun == /\ SF_shellVars(refreshFailed \/ (\E t \in LTask : refreshAnswered(t)))
              /\ SF_shellVars(\E t \in LTask : runEffect(t))

-----------------------------------------------------------------------------
(* A load that may still write to the page was started for the range and   *)
(* the session the effect runs for: a late answer of an earlier range or   *)
(* of an earlier sign-in shows nothing (App.tsx:226).                      *)
LoadsOfEffect == \A t \in LTask : ld[t].live => fx.on /\ ld[t].range = fx.range

(* The page implements the promise of UiFreshRead. *)
Fresh == INSTANCE UiFreshRead WITH
    Reader <- LTask, now <- sv.ver, shown <- ap.history,
    pend <- [t \in LTask |-> IF ld[t].live THEN [range |-> ld[t].range, since |-> ld[t].since]
                             ELSE [range |-> "none", since |-> 0]]
HistoryFresh == Fresh!FreshSpec

(* While the visitor stays signed in, the page comes to show the newest    *)
(* history of the chosen range, and keeps showing it.                      *)
ViewConverges ==
    EffectsRun /\ <>[](ap.auth = "ok" /\ sv.session)
      => <>[](ap.history = [range |-> ap.range, ver |-> sv.ver] /\ ap.devices \in {0, sv.ver})

(* The cover over the page goes away whatever the refresh came to, and the *)
(* blank page of the check gives way to the login or to the content.       *)
PageReleased == EffectsRun => []<>(~ap.refreshing) /\ []<>(ap.auth # "checking")

(* A visitor whose session ended is told so by a later load. *)
DeadSessionFound == EffectsRun => []<>(ap.auth # "ok" \/ sv.session)
=============================================================================
