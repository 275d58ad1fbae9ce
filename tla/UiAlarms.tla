------------------------------ MODULE UiAlarms ------------------------------
(***************************************************************************)
(* Alarms in the browser: the panel under the bell (ui/src/App.tsx), which *)
(* reads the inbox each time it is opened, and the alarms page             *)
(* (ui/src/tabs/AlarmsTab.tsx), which reads it when it is mounted and      *)
(* after each alarm it has the box ignore.  Both set the bell's count.     *)
(***************************************************************************)
EXTENDS Naturals, FiniteSets

CONSTANTS
    Alarm,         \* alarm ids, each raised once
    ATask,         \* bound: requests in flight together
    MaxOpenings,   \* bound: openings of the panel, and mounts of the page
    MaxSwitches    \* bound: switchings of anonymity mode and of the LAN

(* No alarm has the name that stands for no alarm. *)
ASSUME AlarmAssumption == "none" \notin Alarm

VARIABLES
    inbox,         \* the box: [active, raised], sets of alarms
    bell,          \* App
    al,            \* AlarmsTab; gone is history: what its ignores removed
    aq             \* the requests

alarmVars == <<inbox, bell, al, aq>>

AIdle == [pc |-> "idle", op |-> "none", gen |-> 0, aid |-> "none", ok |-> FALSE, got |-> {}]
AFree(t) == aq[t].pc = "idle"
ARequest(op, gen, aid) == [AIdle EXCEPT !.pc = "sent", !.op = op, !.gen = gen, !.aid = aid]
ABack(t, op) == aq[t].pc = "back" /\ aq[t].op = op
AEnds(t) == [aq EXCEPT ![t] = AIdle]
freshTab(on, gen) ==
    [on |-> on, gen |-> gen, known |-> FALSE, view |-> {}, busy |-> on, aid |-> "none", confirm |-> FALSE, gone |-> {}]

-----------------------------------------------------------------------------
(* The server *)

AlarmRaised ==
    \E a \in Alarm \ inbox.raised :
        /\ inbox' = [active |-> inbox.active \cup {a}, raised |-> inbox.raised \cup {a}]
        /\ UNCHANGED <<bell, al, aq>>

(* A read answers with the inbox; an ignore removes one alarm or all of    *)
(* them, and its answer may be lost after it did.                          *)
ServeAlarms(t) ==
    /\ aq[t].pc = "sent"
    /\ LET hit == CASE aq[t].op = "ignore" -> {aq[t].aid} [] aq[t].op = "all" -> inbox.active [] OTHER -> {} IN
       \/ /\ inbox' = [inbox EXCEPT !.active = @ \ hit]
          /\ \E ok \in BOOLEAN :
                aq' = [aq EXCEPT ![t] = [aq[t] EXCEPT !.pc = "back", !.ok = ok,
                                            !.got = IF aq[t].op \in {"panel", "load"} THEN inbox.active ELSE hit]]
       \/ aq' = [aq EXCEPT ![t] = [aq[t] EXCEPT !.pc = "back"]] /\ UNCHANGED inbox
    /\ UNCHANGED <<bell, al>>

-----------------------------------------------------------------------------
(* The bell *)

alarmBellCount(b, dashboard) == IF b.fromApi THEN b.count ELSE dashboard
onAlarmCount(b, n) == [b EXCEPT !.count = n, !.fromApi = TRUE]

(* Opening runs the effect; closing it cancels the read that is out. *)
openBell(t) ==
    /\ ~bell.open /\ AFree(t) /\ bell.gen < MaxOpenings
    /\ bell' = [bell EXCEPT !.open = TRUE, !.gen = @ + 1, !.loading = TRUE]
    /\ aq' = [aq EXCEPT ![t] = ARequest("panel", bell.gen + 1, "none")]
    /\ UNCHANGED <<inbox, al>>
closeBell == bell.open /\ bell' = [bell EXCEPT !.open = FALSE] /\ UNCHANGED <<inbox, al, aq>>

alarmsReadLate(t) ==                                                          \* bug: finally does not ask whether it was cancelled
    /\ ABack(t, "panel") /\ aq' = AEnds(t) /\ UNCHANGED <<inbox, al>>
    /\ bell' = [bell EXCEPT !.loading = FALSE]
alarmsRead(t) ==
    /\ ABack(t, "panel") /\ aq' = AEnds(t) /\ UNCHANGED <<inbox, al>>
    /\ bell' = IF ~bell.open \/ aq[t].gen # bell.gen THEN bell
               ELSE LET got == IF aq[t].ok THEN aq[t].got ELSE {}
                    IN [onAlarmCount(bell, Cardinality(got)) EXCEPT !.preview = got, !.loading = FALSE]

(* The panel's way to the page, there while the bell counts an alarm. *)
openAlarms(t) ==
    /\ bell.open /\ AFree(t) /\ al.gen < MaxOpenings
    /\ \E dashboard \in {0, 1} : alarmBellCount(bell, dashboard) > 0
    /\ bell' = [bell EXCEPT !.open = FALSE]
    /\ IF al.on THEN UNCHANGED <<al, aq>>
       ELSE al' = freshTab(TRUE, al.gen + 1) /\ aq' = [aq EXCEPT ![t] = ARequest("load", al.gen + 1, "none")]
    /\ UNCHANGED inbox
selectAlarms(t) ==
    /\ ~al.on /\ AFree(t) /\ al.gen < MaxOpenings
    /\ al' = freshTab(TRUE, al.gen + 1) /\ aq' = [aq EXCEPT ![t] = ARequest("load", al.gen + 1, "none")]
    /\ UNCHANGED <<inbox, bell>>
leaveAlarms == al.on /\ al' = freshTab(FALSE, al.gen) /\ UNCHANGED <<inbox, bell, aq>>

ASwitch ==
    /\ bell.switched < MaxSwitches
    /\ \E d \in {[anon |-> ~bell.anon, lan |-> bell.lan], [anon |-> bell.anon, lan |-> ~bell.lan]} :
          bell' = [bell EXCEPT !.anon = d.anon, !.lan = d.lan, !.switched = @ + 1]
    /\ UNCHANGED <<inbox, al, aq>>

-----------------------------------------------------------------------------
(* The page *)

AMine(t) == al.on /\ aq[t].gen = al.gen
(* The answer of a read: a page that has gone still tells the bell.  The   *)
(* read behind an ignore carries its alarm, and ends the ignore.           *)
loadAlarms(t) ==
    /\ ABack(t, "load") /\ aq' = AEnds(t) /\ UNCHANGED inbox
    /\ bell' = IF aq[t].ok THEN onAlarmCount(bell, Cardinality(aq[t].got)) ELSE bell
    /\ al' = IF ~AMine(t) THEN al
             ELSE [al EXCEPT !.busy = FALSE, !.known = aq[t].ok, !.view = IF aq[t].ok THEN aq[t].got ELSE {},
                             !.aid = IF aq[t].aid # "none" THEN "none" ELSE @]

mayIgnore(b, p) == ~b.anon /\ b.lan /\ p.aid = "none"
AlarmInboxList(p) == IF p.on /\ p.known THEN p.view ELSE {}
ignoreOne(t, a) ==
    /\ a \in AlarmInboxList(al) /\ mayIgnore(bell, al) /\ AFree(t)
    /\ al' = [al EXCEPT !.aid = a] /\ aq' = [aq EXCEPT ![t] = ARequest("ignore", al.gen, a)]
    /\ UNCHANGED <<inbox, bell>>
askAll ==
    /\ al.on /\ mayIgnore(bell, al) /\ ~al.busy /\ AlarmInboxList(al) # {} /\ ~al.confirm
    /\ al' = [al EXCEPT !.confirm = TRUE] /\ UNCHANGED <<inbox, bell, aq>>
cancelAll == al.confirm /\ al' = [al EXCEPT !.confirm = FALSE] /\ UNCHANGED <<inbox, bell, aq>>
ignoreAll(t) ==
    /\ al.confirm /\ mayIgnore(bell, al) /\ ~al.busy /\ AFree(t)
    /\ al' = [al EXCEPT !.confirm = FALSE, !.aid = "all"]
    /\ aq' = [aq EXCEPT ![t] = ARequest("all", al.gen, "all")] /\ UNCHANGED <<inbox, bell>>

(* The box answered: the inbox is read again, the ignore lasting until     *)
(* that read is back; a refusal ends it.                                   *)
ignoreFailedStuck(m) == m                                                     \* bug: busyAid is cleared on the way of success alone
ignoreFailed(m) == [m EXCEPT !.aid = "none"]
duringReloadFree(m) == [m EXCEPT !.aid = "none"]                              \* bug: busyAid is cleared before the reload
duringReload(m) == m
ignored(t) ==
    /\ aq[t].pc = "back" /\ aq[t].op \in {"ignore", "all"}
    /\ IF aq[t].ok
       THEN /\ al' = IF AMine(t) THEN duringReload([al EXCEPT !.busy = TRUE, !.gone = @ \cup aq[t].got]) ELSE al
            /\ aq' = [aq EXCEPT ![t] = ARequest("load", aq[t].gen, aq[t].aid)]
       ELSE al' = (IF AMine(t) THEN ignoreFailed(al) ELSE al) /\ aq' = AEnds(t)
    /\ UNCHANGED <<inbox, bell>>

-----------------------------------------------------------------------------
AlarmsInit ==
    /\ \E s \in SUBSET Alarm : inbox = [active |-> s, raised |-> s]
    /\ bell = [open |-> FALSE, gen |-> 0, loading |-> FALSE, count |-> 0, fromApi |-> FALSE, preview |-> {},
               anon |-> FALSE, lan |-> TRUE, switched |-> 0]
    /\ al = freshTab(FALSE, 0) /\ aq = [t \in ATask |-> AIdle]

AlarmsNext ==
    \/ AlarmRaised \/ closeBell \/ leaveAlarms \/ ASwitch \/ askAll \/ cancelAll
    \/ \E t \in ATask :
          \/ ServeAlarms(t) \/ openBell(t) \/ alarmsRead(t) \/ openAlarms(t) \/ selectAlarms(t) \/ loadAlarms(t)
          \/ ignoreAll(t) \/ ignored(t)
          \/ \E a \in Alarm : ignoreOne(t, a)

AlarmsSpec == AlarmsInit /\ [][AlarmsNext]_alarmVars

-----------------------------------------------------------------------------
(* The open panel says Loading exactly while the read of this opening is   *)
(* out: an answer to an opening that was closed in between neither ends it *)
(* nor replaces what this opening will show.                               *)
PanelLoadingOwn ==
    bell.open => (bell.loading <=> \E t \in ATask : aq[t].pc # "idle" /\ aq[t].op = "panel" /\ aq[t].gen = bell.gen)

(* An alarm the box confirmed to have ignored is not listed once the       *)
(* ignore is over: no read that was answered before it replaces the list   *)
(* after it.                                                               *)
IgnoredGone == al.on /\ al.known /\ al.aid = "none" => al.view \cap al.gone = {}

(* The page's buttons are locked exactly while an ignore of this page, or  *)
(* the read behind it, is out.                                             *)
IgnoreOwned ==
    al.on => (al.aid # "none" <=>
                 \E t \in ATask : aq[t].pc # "idle" /\ aq[t].aid = al.aid /\ al.aid # "none" /\ aq[t].gen = al.gen)
=============================================================================
