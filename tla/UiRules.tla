------------------------------ MODULE UiRules ------------------------------
(***************************************************************************)
(* The rules page of the web interface (ui/src/tabs/RulesTab.tsx): loading *)
(* and syncing the rules of the box, the scope picker, the sheets that     *)
(* pause, delete and create a rule, and emergency access.  Every handler   *)
(* is asynchronous: a task keeps the continuation of one call of load,     *)
(* sync, pause, remove, submit or apply; the server applies a write and    *)
(* reads the rules in one step, the browser receives the answer later.     *)
(* A task outlives the sheet and the page that started it.                 *)
(***************************************************************************)
EXTENDS Naturals, FiniteSets

CONSTANTS
    RuleId,      \* rules that may exist
    RDevice,     \* devices, by MAC address
    RTask,       \* calls in flight
    MaxMounts,   \* bound: visits to the page
    MaxForms     \* bound: sheets opened in all visits

VARIABLES
    uBox,        \* the rules of the box
    ru,          \* the state of the page
    rt           \* the calls in flight

rulesVars == <<uBox, ru, rt>>

AllScope == [kind |-> "all"]
DapScope == [kind |-> "dap"]
NoScope  == [kind |-> "none"]
DevScope(d, f) == [kind |-> "device", mac |-> d, fake |-> f]

NoRule == [id |-> "none"]
NoJob  == [do |-> "none"]

(* In anonymity mode the MAC address of a scope is replaced by a fake one; *)
(* tags keep their identifiers.                                            *)
anonymizeScope(s) == IF s.kind = "device" THEN [s EXCEPT !.fake = TRUE] ELSE s

show(s) == IF s.anon THEN {[r EXCEPT !.scope = anonymizeScope(@)] : r \in s.data}
                     ELSE s.data

(* The chips of the scope picker: a scope with no rule has none.           *)
scopes(s) == {AllScope} \cup {r.scope : r \in show(s)}

scopedRules(s) ==
    IF s.scopeId = DapScope THEN {r \in show(s) : r.scope = DapScope}
    ELSE {r \in show(s) : /\ r.scope # DapScope
                          /\ s.scopeId.kind = "all" \/ r.scope = s.scopeId}

SECTIONS == {"allow", "block", "disturb", "timelimit", "other"}

bySectionDropped(s) == [c \in SECTIONS |-> {r \in scopedRules(s) : r.section = c}]   \* bug: no fallback
(* A section the page does not know is listed under "other". *)
bySection(s) ==
    [c \in SECTIONS |-> {r \in scopedRules(s) :
        r.section = c \/ (c = "other" /\ r.section \notin SECTIONS)}]

-----------------------------------------------------------------------------
RClosed == [open |-> FALSE, mount |-> 0, status |-> "none", loaded |-> FALSE, data |-> {},
           busy |-> FALSE, scopeId |-> NoScope, sheet |-> "none",
           selected |-> NoRule, forms |-> 0, form |-> 0, working |-> FALSE,
           on |-> AllScope, anon |-> FALSE]

canLoad(s) == s.status = "ok"

(* The page proper is shown once rules are there; without them the page    *)
(* offers Control, shows that it loads, or that nothing is loaded.         *)
RVisible(s) == s.open /\ s.loaded /\ (canLoad(s) \/ s.busy)

defaultOn(s) == IF s.scopeId.kind \in {"device", "tag"} THEN s.scopeId ELSE AllScope

RSettleKeepsScope(s) ==                                        \* bug: no effect on scopes
    LET wants == RVisible(s) /\ (s.sheet # "none" \/ s.selected # NoRule)
    IN IF wants /\ s.form = 0
       THEN [s EXCEPT !.forms = @ + 1, !.form = s.forms + 1, !.working = FALSE,
                      !.on = defaultOn(s)]
       ELSE IF wants THEN s
       ELSE [s EXCEPT !.form = 0, !.working = FALSE, !.on = AllScope]
(* What follows every change of state: the effect that leaves a scope the  *)
(* rules no longer have, and the mounting and unmounting of the sheet,     *)
(* which starts with a fresh form.                                         *)
RSettle(s) ==
    LET a == IF s.scopeId \in scopes(s) THEN s ELSE [s EXCEPT !.scopeId = NoScope]
        wants == RVisible(a) /\ (a.sheet # "none" \/ a.selected # NoRule)
    IN IF wants /\ a.form = 0
       THEN [a EXCEPT !.forms = @ + 1, !.form = a.forms + 1, !.working = FALSE,
                      !.on = defaultOn(a)]
       ELSE IF wants THEN a
       ELSE [a EXCEPT !.form = 0, !.working = FALSE, !.on = AllScope]

RIdle == [pc |-> "idle", op |-> "none", mount |-> 0, form |-> 0, job |-> NoJob,
         ans |-> "none", view |-> {}]

RFree(t) == rt[t].pc = "idle"

(* React ignores the state a component sets after it was unmounted. *)
RApply(t, s) == ru' = IF ru.open /\ rt[t].mount = ru.mount THEN RSettle(s) ELSE ru

RStart(t, op, pc, job) ==
    rt' = [rt EXCEPT ![t] = [pc |-> pc, op |-> op, mount |-> ru.mount, form |-> ru.form,
                             job |-> job, ans |-> "none", view |-> {}]]
RGoto(t, pc) == rt' = [rt EXCEPT ![t] = [rt[t] EXCEPT !.pc = pc, !.ans = "none", !.view = {},
                                             !.job = IF rt[t].job.do = "create" THEN @ ELSE NoJob]]
RFinish(t) == rt' = [rt EXCEPT ![t] = RIdle]

(* The finally block of the sheet that made the call. *)
RReleased(t, s) == IF rt[t].form = s.form THEN [s EXCEPT !.working = FALSE] ELSE s

afterLoadBusy(t, s) == IF s.loaded THEN [RReleased(t, s) EXCEPT !.busy = FALSE]
                       ELSE RReleased(t, s)                    \* bug: a failed load stays busy
(* What the caller of load does once load returns, with an error or not.   *)
afterLoad(t, s) ==
    LET b == RReleased(t, [s EXCEPT !.busy = FALSE])
    IN IF rt[t].op = "create" /\ rt[t].job.scope.kind # "all"
       THEN [b EXCEPT !.scopeId = rt[t].job.scope]
       ELSE b

RFailed(s) == [s EXCEPT !.loaded = FALSE, !.data = {}]

-----------------------------------------------------------------------------
(* load and the end of sync *)

StatusAnswer(t) ==
    /\ rt[t].pc \in {"status1", "status2"}
    /\ \E a \in {"ok", "down", "fail"} :
         IF a = "ok" /\ rt[t].pc = "status1"
         THEN RApply(t, [ru EXCEPT !.status = "ok"]) /\ RGoto(t, "rules")
         ELSE /\ RFinish(t)
              /\ LET s == IF a = "fail" THEN ru ELSE [ru EXCEPT !.status = a] IN
                 RApply(t, afterLoad(t,
                     IF rt[t].op # "sync" /\ (a = "fail" \/ rt[t].pc = "status1")
                     THEN RFailed(s) ELSE s))
    /\ UNCHANGED uBox

(* The server answers with the rules as they are now, or fails, saying why *)
(* in the status of the pairing or not.                                    *)
ServeRules(t) ==
    /\ rt[t].pc \in {"rules", "refresh"} /\ rt[t].ans = "none"
    /\ \E a \in {"ok", "fail"} :
         rt' = [rt EXCEPT ![t] = [rt[t] EXCEPT !.ans = a, !.view = IF a = "ok" THEN uBox ELSE {}]]
    /\ UNCHANGED <<uBox, ru>>

RulesAnswer(t) ==
    /\ rt[t].pc \in {"rules", "refresh"} /\ rt[t].ans # "none"
    /\ IF rt[t].ans = "ok"
       THEN /\ RApply(t, [ru EXCEPT !.loaded = TRUE, !.data = rt[t].view])
            /\ RGoto(t, "status2")
       ELSE /\ \E st \in {ru.status, "down"} :
                 LET s == [ru EXCEPT !.status = st] IN
                 RApply(t, afterLoad(t, IF rt[t].op = "sync" THEN s ELSE RFailed(s)))
            /\ RFinish(t)
    /\ UNCHANGED uBox

(* The page underneath a sheet cannot be clicked. *)
RPageFree == RVisible(ru) /\ ru.form = 0

sync(t) ==
    /\ RFree(t) /\ canLoad(ru) /\ ~ru.busy /\ ru.open
    /\ ~ru.loaded \/ RPageFree
    /\ ru' = RSettle([ru EXCEPT !.busy = TRUE])
    /\ RStart(t, "sync", "refresh", NoJob)
    /\ UNCHANGED uBox

-----------------------------------------------------------------------------
(* Writes *)

(* The box applies a write; the answer may still be lost. *)
ServeWrite(t) ==
    /\ rt[t].pc = "write" /\ rt[t].ans = "none"
    /\ LET j == rt[t].job
           done == CASE j.do = "pause" -> {IF r.id = j.id THEN [r EXCEPT !.paused = j.to] ELSE r : r \in uBox}
                     [] j.do = "delete" -> {r \in uBox : r.id # j.id}
                     [] j.do = "create" ->
                          IF \E r \in uBox : r.id = j.id THEN uBox
                          ELSE uBox \cup {[id |-> j.id, scope |-> j.scope, section |-> "allow",
                                           paused |-> FALSE, readOnly |-> FALSE]}
                     [] OTHER -> uBox
       IN \E a \in {"ok", "fail"}, box \in {uBox, done} :
            /\ a = "ok" => box = done
            /\ uBox' = box
            /\ rt' = [rt EXCEPT ![t] = [rt[t] EXCEPT !.ans = a]]
    /\ UNCHANGED ru

(* onMutated, onCreated and onDone close whatever sheet is open. *)
WriteAnswer(t) ==
    /\ rt[t].pc = "write" /\ rt[t].ans # "none"
    /\ IF rt[t].ans = "fail"
       THEN RApply(t, RReleased(t, ru)) /\ RFinish(t)
       ELSE IF rt[t].op = "emergency"
       THEN RApply(t, [RReleased(t, ru) EXCEPT !.sheet = "none"]) /\ RFinish(t)
       ELSE /\ RApply(t, IF rt[t].op = "create" THEN [ru EXCEPT !.sheet = "none", !.busy = TRUE]
                        ELSE [ru EXCEPT !.selected = NoRule, !.busy = TRUE])
            /\ RGoto(t, "status1")
    /\ UNCHANGED uBox

RWriteTwice(t, op, job) ==                                     \* bug: working not checked
    /\ RFree(t) /\ ru.form # 0 /\ ~ru.busy
    /\ ru' = [ru EXCEPT !.working = TRUE]
    /\ RStart(t, op, "write", job)
    /\ UNCHANGED uBox
RWrite(t, op, job) ==
    /\ RFree(t) /\ ru.form # 0 /\ ~ru.working /\ ~ru.busy
    /\ ru' = [ru EXCEPT !.working = TRUE]
    /\ RStart(t, op, "write", job)
    /\ UNCHANGED uBox

mayChange(r) == ~r.readOnly /\ r.section # "timelimit"

pause(t) == /\ ru.selected # NoRule /\ mayChange(ru.selected)
            /\ RWrite(t, "pause", [do |-> "pause", id |-> ru.selected.id, to |-> ~ru.selected.paused])
remove(t) == /\ ru.selected # NoRule /\ mayChange(ru.selected)
             /\ RWrite(t, "delete", [do |-> "delete", id |-> ru.selected.id])
apply(t) == ru.sheet = "emergency" /\ RWrite(t, "emergency", [do |-> "emergency"])

submit(t) ==
    /\ ru.sheet = "add"
    /\ \E i \in RuleId : RWrite(t, "create", [do |-> "create", id |-> i, scope |-> ru.on])

(* The devices offered are the ones shown, so with fake addresses in       *)
(* anonymity mode; the rest of the form is UiRuleForm's.                   *)
setOn ==
    /\ ru.sheet = "add" /\ ru.form # 0
    /\ \E s \in {AllScope} \cup {DevScope(d, ru.anon) : d \in RDevice} :
         ru' = [ru EXCEPT !.on = s]
    /\ UNCHANGED <<uBox, rt>>

-----------------------------------------------------------------------------
(* Moving about the page *)

RPage(s) == ru' = RSettle(s) /\ UNCHANGED <<uBox, rt>>

openScope(s) == RPageFree /\ s \in scopes(ru) /\ RPage([ru EXCEPT !.scopeId = s])
backToScopes == RPageFree /\ ru.scopeId # NoScope /\ RPage([ru EXCEPT !.scopeId = NoScope])
setSelectedRule(r) == /\ RPageFree /\ ru.forms < MaxForms /\ ru.scopeId # NoScope
                      /\ r \in UNION {bySection(ru)[c] : c \in SECTIONS}
                      /\ RPage([ru EXCEPT !.selected = r])
setSheet(k) == RPageFree /\ ru.forms < MaxForms /\ RPage([ru EXCEPT !.sheet = k])
onClose == ru.form # 0 /\ RPage([ru EXCEPT !.sheet = "none", !.selected = NoRule])

(* Another window of the browser turns anonymity on or off. *)
setAnonOn == ru.open /\ RPage([ru EXCEPT !.anon = ~@])

enterRules(t) ==
    /\ ~ru.open /\ ru.mount < MaxMounts /\ RFree(t)
    /\ ru' = [RClosed EXCEPT !.open = TRUE, !.mount = ru.mount + 1, !.busy = TRUE,
                            !.anon = ru.anon, !.forms = ru.forms]
    /\ rt' = [rt EXCEPT ![t] = [RIdle EXCEPT !.pc = "status1", !.op = "load", !.mount = ru.mount + 1]]
    /\ UNCHANGED uBox

leaveRules == /\ ru.open
              /\ ru' = [RClosed EXCEPT !.mount = ru.mount, !.anon = ru.anon, !.forms = ru.forms]
              /\ UNCHANGED <<uBox, rt>>

RulesInit ==
    /\ \E d \in RDevice, a \in RuleId, b \in RuleId :
         uBox = {[id |-> a, scope |-> DevScope(d, FALSE), section |-> "allow", paused |-> FALSE, readOnly |-> FALSE]}
                \cup IF a = b THEN {} ELSE
                {[id |-> b, scope |-> DapScope, section |-> "qos", paused |-> FALSE, readOnly |-> TRUE]}
    /\ ru = RClosed
    /\ rt = [t \in RTask |-> RIdle]

RulesReply(t) == StatusAnswer(t) \/ ServeRules(t) \/ RulesAnswer(t) \/ ServeWrite(t) \/ WriteAnswer(t)

RulesNext ==
    \/ \E t \in RTask : \/ RulesReply(t) \/ sync(t) \/ enterRules(t)
                        \/ pause(t) \/ remove(t) \/ apply(t) \/ submit(t)
    \/ \E s \in scopes(ru) : openScope(s)
    \/ \E r \in show(ru) : setSelectedRule(r)
    \/ \E k \in {"add", "emergency", "exceptions"} : setSheet(k)
    \/ setOn \/ backToScopes \/ onClose \/ setAnonOn \/ leaveRules

RulesSpec == RulesInit /\ [][RulesNext]_rulesVars

-----------------------------------------------------------------------------
(* The page says it is busy only while a load or a sync of this visit is   *)
(* under way, however the calls overlap and fail: no spinner stays behind  *)
(* and blocks every write (busy, RulesTab.tsx:348, 378).                   *)
RulesBusyOwned ==
    ru.busy => \E t \in RTask : /\ rt[t].mount = ru.mount
                                /\ rt[t].pc \in {"status1", "rules", "refresh", "status2"}

(* A scope that is open is one of the rules on display: not after a reload *)
(* that lost its last rule, a failed load, a new rule's scope, or the      *)
(* addresses changing under it (the effect at RulesTab.tsx:504).           *)
RulesScopeShown == ru.scopeId # NoScope => ru.scopeId \in scopes(ru)

(* A sheet never has two writes of its own in flight. *)
RulesOneWrite ==
    \A t, v \in RTask : (t # v /\ rt[t].pc = "write" /\ rt[v].pc = "write")
                           => rt[t].form # rt[v].form

(* Every rule of the open scope is listed exactly once. *)
RulesListedOnce ==
    \A r \in scopedRules(ru) : Cardinality({c \in SECTIONS : r \in bySection(ru)[c]}) = 1
=============================================================================
