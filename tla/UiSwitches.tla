----------------------------- MODULE UiSwitches -----------------------------
(***************************************************************************)
(* The page of the TP-Link switches (ui/src/tabs/TPLinkSettings.tsx): the  *)
(* configured switches, read again every five seconds; one form shared by  *)
(* adding and editing, with its password; tests, saves, removals, uplink   *)
(* ports and the poll interval, all behind one busy flag.  "Configure",    *)
(* "Add" and the cancelling of an addition stay active while a call runs.  *)
(***************************************************************************)
EXTENDS Integers, FiniteSets

CONSTANTS
    SwId,          \* switches on the network
    Blank,         \* the form opened with "Add", for an address to be typed
    WTask,         \* bound: requests in flight together
    MaxWVisits,    \* bound: visits to the page
    MaxWEdits      \* bound: writes, faults and changes by others

ASSUME BlankAssumption == Blank \notin SwId

VARIABLES
    wSrv,          \* the server: configured switches, poll notch
    ws,            \* TPLinkSettingsPage
    wq             \* the requests

switchVars == <<wSrv, ws, wq>>

NoSw == "none"
MaxNotch == 2      \* pollNotches has the indices 0..MaxNotch
WIdle == [pc |-> "idle", op |-> "none", inst |-> 0, id |-> NoSw, was |-> NoSw, pass |-> NoSw, val |-> 0,
          list |-> {}, st |-> "none"]
WFree(t) == wq[t].pc = "idle"
WEdit == ws.edits < MaxWEdits
WEdited(m) == [m EXCEPT !.edits = @ + 1]
WMine(t) == ws.open /\ wq[t].inst = ws.inst
WEnds(t) == wq' = [wq EXCEPT ![t] = WIdle]
WBack(t, op) == wq[t].pc = "back" /\ wq[t].op = op

(* The server.  A POST configures the switch of the form (a typed address  *)
(* is none of SwId's); a PATCH or DELETE of what is gone is refused.       *)
ServeSwitches(t) ==
    /\ wq[t].pc = "sent"
    /\ LET r == wq[t]
           new == CASE r.op = "save" -> [wSrv EXCEPT !.cfg = @ \cup (IF r.id = Blank THEN {} ELSE {r.id})]
                    [] r.op = "remove" -> [wSrv EXCEPT !.cfg = @ \ {r.id}]
                    [] r.op = "poll" -> [wSrv EXCEPT !.poll = r.val]
                    [] OTHER -> wSrv
           gone == r.op \in {"save", "uplink", "remove"} /\ (r.op = "save" => r.was = r.id) /\ r.id \notin wSrv.cfg
       IN  \/ /\ ~gone /\ wSrv' = new /\ UNCHANGED ws
              /\ wq' = [wq EXCEPT ![t] = [r EXCEPT !.pc = "back", !.st = "ok", !.list = new.cfg, !.val = new.poll]]
           \/ /\ gone \/ WEdit
              /\ ws' = (IF gone THEN ws ELSE WEdited(ws)) /\ UNCHANGED wSrv
              /\ wq' = [wq EXCEPT ![t] = [r EXCEPT !.pc = "back", !.st = "fail"]]
othersChange(id) == /\ WEdit /\ ws' = WEdited(ws) /\ UNCHANGED wq
                    /\ wSrv' = [wSrv EXCEPT !.cfg = IF id \in @ THEN @ \ {id} ELSE @ \cup {id}]

-----------------------------------------------------------------------------
(* Reading *)
intervalLoad(t) == /\ ws.open /\ WFree(t) /\ UNCHANGED <<wSrv, ws>>
                   /\ wq' = [wq EXCEPT ![t] = [WIdle EXCEPT !.pc = "sent", !.op = "load", !.inst = ws.inst]]
setSwitchesMerged(m, r) == IF r.st = "ok" THEN [m EXCEPT !.list = @ \cup r.list, !.poll = r.val] ELSE m  \* bug: rows stay
setSwitches(m, r) == IF r.st = "ok" THEN [m EXCEPT !.list = r.list, !.poll = r.val] ELSE m
loadSwitches(t) ==
    /\ WBack(t, "load")
    /\ ws' = IF WMine(t) THEN setSwitches(ws, wq[t]) ELSE ws
    /\ WEnds(t) /\ UNCHANGED wSrv

-----------------------------------------------------------------------------
(* The form: what it is for, and for what form its password was typed *)

resetAddForm(m) == [m EXCEPT !.pass = NoSw]
startAdd(id) == /\ ws.open /\ id \notin ws.list
                /\ id = Blank => ~ws.add /\ ws.edit = NoSw
                /\ ws' = resetAddForm([ws EXCEPT !.edit = NoSw, !.add = TRUE, !.form = id])
                /\ UNCHANGED <<wSrv, wq>>
editFormKept(m, id) == [m EXCEPT !.edit = id, !.add = FALSE, !.form = id]        \* bug: the password stays
editForm(m, id) == [m EXCEPT !.edit = id, !.add = FALSE, !.form = id, !.pass = NoSw]
startEdit(id) == /\ ws.open /\ ~ws.busy /\ id \in ws.list /\ ws.edit # id
                 /\ ws' = editForm(ws, id) /\ UNCHANGED <<wSrv, wq>>
cancelSwitch(m) == resetAddForm([m EXCEPT !.edit = NoSw])
closeEdit == /\ ws.open /\ ~ws.busy /\ ws.edit \in ws.list /\ ws' = cancelSwitch(ws) /\ UNCHANGED <<wSrv, wq>>
cancelAdd == /\ ws.open /\ ws.add /\ ws' = resetAddForm([ws EXCEPT !.add = FALSE]) /\ UNCHANGED <<wSrv, wq>>
formShown == ws.open /\ (ws.add \/ ws.edit \in ws.list)
typePass == /\ formShown /\ ws' = [ws EXCEPT !.pass = ws.form] /\ UNCHANGED <<wSrv, wq>>

-----------------------------------------------------------------------------
(* Writes.  The handler keeps the editID of the moment of the click. *)

mayWriteBusy == TRUE                                                           \* bug: the buttons stay active
mayWrite == ~ws.busy
write(t, op, id, pass, val) ==
    /\ WEdit /\ ws.open /\ mayWrite /\ WFree(t)
    /\ ws' = [WEdited(ws) EXCEPT !.busy = TRUE]
    /\ wq' = [wq EXCEPT ![t] = [WIdle EXCEPT !.pc = "sent", !.op = op, !.inst = ws.inst, !.id = id, !.was = ws.edit,
                                             !.pass = pass, !.val = val]]
    /\ UNCHANGED wSrv
saveCreds(t) == /\ formShown /\ (ws.add => ws.pass # NoSw)
                /\ write(t, "save", ws.form, ws.pass, 0)
test(t) == /\ formShown /\ (ws.add => ws.pass # NoSw)
           /\ write(t, "test", ws.form, ws.pass, 0)
removeSwitch(t, id) == id \in ws.list /\ write(t, "remove", id, NoSw, 0)
saveUplink(t, id) == id \in ws.list /\ write(t, "uplink", id, NoSw, 0)
(* The notch nearest to the interval shown is the one of its index. *)
savePoll(t, i) == i \in 0..MaxNotch /\ write(t, "poll", NoSw, NoSw, i)

(* Saving and removing close the form and read the switches, still busy.   *)
closeForm(m, r) == IF r.op = "remove" /\ r.was # r.id THEN m
                   ELSE IF r.was # NoSw THEN cancelSwitch(m)
                   ELSE resetAddForm([m EXCEPT !.add = FALSE])
written(t) ==
    /\ \E op \in {"save", "remove"} : WBack(t, op)
    /\ LET r == wq[t] IN
         IF WMine(t) /\ r.st = "ok"
         THEN /\ ws' = closeForm(ws, r)
              /\ wq' = [wq EXCEPT ![t] = [WIdle EXCEPT !.pc = "sent", !.op = "reload", !.inst = ws.inst]]
         ELSE ws' = (IF WMine(t) THEN [ws EXCEPT !.busy = FALSE] ELSE ws) /\ WEnds(t)
    /\ UNCHANGED wSrv
answered(t) ==
    /\ \E op \in {"test", "uplink", "poll", "reload"} : WBack(t, op)
    /\ LET r == wq[t]
           m == CASE r.op = "reload" -> setSwitches(ws, r)
                  [] r.op = "poll" /\ r.st = "ok" -> [ws EXCEPT !.poll = r.val]
                  [] OTHER -> ws
       IN  ws' = IF WMine(t) THEN [m EXCEPT !.busy = FALSE] ELSE ws
    /\ WEnds(t) /\ UNCHANGED wSrv

-----------------------------------------------------------------------------
NoPage == [open |-> FALSE, inst |-> 0, list |-> {}, poll |-> 0, edit |-> NoSw, add |-> FALSE, form |-> NoSw,
           pass |-> NoSw, busy |-> FALSE, edits |-> 0]
openSwitches == /\ ~ws.open /\ ws.inst < MaxWVisits
                /\ ws' = [NoPage EXCEPT !.open = TRUE, !.inst = ws.inst + 1, !.edits = ws.edits]
                /\ UNCHANGED <<wSrv, wq>>
leaveSwitches == ws.open /\ ws' = [NoPage EXCEPT !.inst = ws.inst, !.edits = ws.edits] /\ UNCHANGED <<wSrv, wq>>

SwitchesInit == /\ \E id \in SwId : wSrv = [cfg |-> {id}, poll |-> 0]
                /\ ws = NoPage /\ wq = [t \in WTask |-> WIdle]

SwitchesAnswer(t) == loadSwitches(t) \/ written(t) \/ answered(t)
SwitchesNext ==
    \/ \E t \in WTask : \/ ServeSwitches(t) \/ SwitchesAnswer(t) \/ intervalLoad(t)
                        \/ saveCreds(t) \/ test(t)
                        \/ \E id \in SwId : removeSwitch(t, id) \/ saveUplink(t, id)
                        \/ \E i \in {ws.poll - 1, ws.poll + 1} : savePoll(t, i)
    \/ \E id \in SwId : othersChange(id) \/ startEdit(id)
    \/ \E id \in SwId \cup {Blank} : startAdd(id)
    \/ closeEdit \/ cancelAdd \/ typePass \/ openSwitches \/ leaveSwitches

SwitchesSpec == SwitchesInit /\ [][SwitchesNext]_switchVars

(* Requests are answered and the interval fires. *)
SwitchesFair == /\ \A t \in WTask : WF_switchVars(ServeSwitches(t)) /\ WF_switchVars(SwitchesAnswer(t))
                /\ WF_switchVars(\E t \in WTask : intervalLoad(t))

-----------------------------------------------------------------------------
(* On one instance of the page at most one write or test is under way, and *)
(* the buttons are locked exactly while it is, its reading included.       *)
SwitchOneWrite ==
    Cardinality({t \in WTask : wq[t].op \notin {"none", "load"} /\ WMine(t)}) = IF ws.open /\ ws.busy THEN 1 ELSE 0

(* The password sent for a switch was typed in the form of that switch:    *)
(* none left over from another form, however forms were opened, saved and  *)
(* cancelled, by hand or by a late answer (startAdd, startEdit, reset).    *)
PasswordOwn == \A t \in WTask : wq[t].op \in {"save", "test"} => wq[t].pass \in {NoSw, wq[t].id}

(* A visitor who stays comes to see the configured switches.               *)
SwitchesShown == <>[](ws.open) => <>[](ws.list = wSrv.cfg)
=============================================================================
