------------------------------ MODULE UiModules ------------------------------
(***************************************************************************)
(* The settings page (ui/src/tabs/SettingsTab.tsx): the switches of the    *)
(* integration modules, set before the server answers and read again every *)
(* two seconds; the review of client names for UniFi; and the public URL   *)
(* of the general card, which a read must not take from under the fingers. *)
(***************************************************************************)
EXTENDS Naturals, FiniteSets

CONSTANTS
    Mod,           \* the modules; the first page of one is UniFi's
    Unifi,
    STask,         \* bound: requests in flight together
    MaxEdits       \* bound: edits, faults and toggles

ASSUME UnifiAssumption == Unifi \in Mod

VARIABLES
    mSrv,          \* the server: enabled modules, name sync, the names, the URL
    mo,            \* SettingsTab and GeneralSettingsCard
    mq             \* the requests

moduleVars == <<mSrv, mo, mq>>

SIdle == [pc |-> "idle", op |-> "none", by |-> "none", mods |-> {}, id |-> "none", on |-> FALSE,
          sync |-> FALSE, val |-> 0, live |-> FALSE, st |-> "none"]
SFree(t) == mq[t].pc = "idle"
Edit == mo.edits < MaxEdits
Edited(m) == [m EXCEPT !.edits = @ + 1]

Send(t, r) == mq' = [mq EXCEPT ![t] = r]
Ends(t) == mq' = [mq EXCEPT ![t] = SIdle]
Request(op) == [SIdle EXCEPT !.pc = "sent", !.op = op, !.by = op, !.mods = mo.mods, !.live = TRUE]
(* The next request of the handler that sent r. *)
Then(r, op) == [Request(op) EXCEPT !.by = r.by, !.on = r.on]

Flip(s, id, on) == IF on THEN s \cup {id} ELSE s \ {id}
NameWrites == {"names", "auto", "apply", "exclude"}

(* The server.  A read answers with what is there; any request may fail. *)
ServeModules(t) ==
    /\ mq[t].pc = "sent"
    /\ LET r == mq[t]
           done == CASE r.op = "toggle" -> [mSrv EXCEPT !.mods = Flip(@, r.id, r.on)]
                     [] r.op = "names"  -> [mSrv EXCEPT !.sync = r.on]
                     [] r.op \in {"apply", "exclude"} -> [mSrv EXCEPT !.names = 1 - @]
                     [] r.op = "url"    -> [mSrv EXCEPT !.url = r.val]
                     [] OTHER -> mSrv
       IN  \/ /\ mSrv' = done /\ UNCHANGED mo
              /\ Send(t, [r EXCEPT !.pc = "back", !.st = "ok", !.mods = done.mods, !.sync = done.sync,
                                   !.val = CASE r.op = "readUrl" -> done.url [] r.op = "url" -> r.val [] OTHER -> done.names])
           \/ /\ Edit /\ mo' = Edited(mo) /\ UNCHANGED mSrv
              /\ Send(t, [r EXCEPT !.pc = "back", !.st = "fail"])

-----------------------------------------------------------------------------
(* The list of modules *)

replaceModsKept(m, s) == [m EXCEPT !.mods = @ \cup s, !.known = TRUE]       \* bug: only adds
replaceMods(m, s) == [m EXCEPT !.mods = s, !.known = TRUE]
gotModules(m, r) == [replaceMods(m, r.mods) EXCEPT !.sync = r.sync]

loadModules(t) == SFree(t) /\ Send(t, Request("poll")) /\ UNCHANGED <<mSrv, mo>>
loadedModules(t) ==
    /\ mq[t].pc = "back" /\ mq[t].op = "poll"
    /\ mo' = IF mq[t].st = "ok" THEN gotModules(mo, mq[t]) ELSE mo
    /\ Ends(t) /\ UNCHANGED mSrv

toggle(t, id) ==
    /\ Edit /\ SFree(t) /\ mo.known
    /\ LET on == id \notin mo.mods IN
         /\ mo' = replaceMods(Edited(mo), Flip(mo.mods, id, on))
         /\ Send(t, [Request("toggle") EXCEPT !.id = id, !.on = on])
    /\ UNCHANGED mSrv
(* A failure puts the list of the moment of the click back. *)
toggled(t) ==
    /\ mq[t].pc = "back" /\ mq[t].op = "toggle"
    /\ mo' = IF mq[t].st = "ok" THEN gotModules(mo, mq[t])
             ELSE replaceMods(mo, Flip(mq[t].mods, mq[t].id, ~mq[t].on))
    /\ Ends(t) /\ UNCHANGED mSrv

-----------------------------------------------------------------------------
(* Names for UniFi *)

unifiOn(m) == Unifi \in m.mods

(* Without name sync nothing is listed, with UniFi off only a hint; the    *)
(* list itself is a request more.                                          *)
loadRows(t, m, r) ==
    IF ~m.sync \/ ~unifiOn(m) THEN mo' = [m EXCEPT !.rows = 0] /\ Ends(t)
    ELSE mo' = m /\ Send(t, r)
rowsDeps == <<mo.page, unifiOn(mo), mo.sync>>
rowsEffect(t) ==
    /\ mo.deps # rowsDeps /\ SFree(t)
    /\ LET m == [mo EXCEPT !.deps = rowsDeps] IN
         IF mo.page THEN loadRows(t, m, Request("rows")) ELSE mo' = m /\ UNCHANGED mq
    /\ UNCHANGED mSrv
refreshRows(t) == mo.page /\ mo.sync /\ ~mo.busy /\ SFree(t) /\ loadRows(t, mo, Request("rows")) /\ UNCHANGED mSrv

setNameSync(t, op) ==
    /\ Edit /\ mo.page /\ SFree(t)
    /\ op = "auto" => mo.sync
    /\ mo' = Edited(mo)
    /\ Send(t, [Request(op) EXCEPT !.on = ~mo.sync]) /\ UNCHANGED mSrv

canApplyBusy(m) == unifiOn(m) /\ m.sync                                      \* bug: the buttons stay active
canApply(m) == unifiOn(m) /\ m.sync /\ ~m.busy
listedButton(t, op) ==
    /\ Edit /\ mo.page /\ mo.rows # 0 /\ canApply(mo) /\ SFree(t)
    /\ mo' = [Edited(mo) EXCEPT !.busy = TRUE]
    /\ Send(t, Request(op)) /\ UNCHANGED mSrv
applyNames(t) == listedButton(t, "apply")
excludeMac(t) == listedButton(t, "exclude")

endNames(m, r) == IF r.by \in {"apply", "exclude"} THEN [m EXCEPT !.busy = FALSE] ELSE m

(* The write, the modules after it, the list after them; when one of the   *)
(* first two fails the modules are read once more instead.                 *)
wroteNames(t) ==
    /\ mq[t].pc = "back" /\ mq[t].op \in NameWrites
    /\ LET r == mq[t] IN
         IF r.op = "apply" THEN IF r.st = "ok" THEN UNCHANGED mo /\ Send(t, Then(r, "rows"))
                                ELSE mo' = endNames(mo, r) /\ Ends(t)
         ELSE IF r.st = "ok" THEN mo' = [mo EXCEPT !.sync = r.sync] /\ Send(t, Then(r, "after"))
         ELSE UNCHANGED mo /\ Send(t, Then(r, "reread"))
    /\ UNCHANGED mSrv
modulesAfter(t) ==
    /\ mq[t].pc = "back" /\ mq[t].op = "after"
    /\ LET r == mq[t]
           m == gotModules(mo, r)
       IN  IF r.st # "ok" THEN UNCHANGED mo /\ Send(t, Then(r, "reread"))
           ELSE IF unifiOn(m) /\ m.sync THEN mo' = m /\ Send(t, Then(r, "rows"))
           ELSE /\ mo' = endNames(IF r.by = "names" /\ ~r.on THEN [m EXCEPT !.rows = 0] ELSE m, r)
                /\ Ends(t)
    /\ UNCHANGED mSrv
reread(t) ==
    /\ mq[t].pc = "back" /\ mq[t].op = "reread"
    /\ mo' = endNames(IF mq[t].st = "ok" THEN gotModules(mo, mq[t]) ELSE mo, mq[t])
    /\ Ends(t) /\ UNCHANGED mSrv
gotRows(t) ==
    /\ mq[t].pc = "back" /\ mq[t].op = "rows"
    /\ mo' = endNames([mo EXCEPT !.rows = IF mq[t].st = "ok" THEN 1 + mq[t].val ELSE 0], mq[t])
    /\ Ends(t) /\ UNCHANGED mSrv

-----------------------------------------------------------------------------
(* The general card, shown on the page of the list.  Its effect reads the  *)
(* settings when the card appears and when the URL becomes dirty or clean; *)
(* React runs it before the next event, and cancels the read before it.    *)

generalEffect(t, m) ==
    mq' = [x \in STask |-> IF x = t THEN [Request("readUrl") EXCEPT !.on = m.dirty]
                           ELSE IF mq[x].op = "readUrl" THEN [mq[x] EXCEPT !.live = FALSE] ELSE mq[x]]
unmountGeneral ==
    mq' = [x \in STask |-> IF mq[x].op \in {"readUrl", "url"} THEN [mq[x] EXCEPT !.live = FALSE] ELSE mq[x]]

openModule == mo.known /\ ~mo.page /\ mo' = [mo EXCEPT !.page = TRUE] /\ unmountGeneral /\ UNCHANGED mSrv
onBack(t) ==
    /\ mo.page /\ SFree(t)
    /\ mo' = [mo EXCEPT !.page = FALSE, !.url = 1, !.dirty = FALSE]
    /\ generalEffect(t, mo') /\ UNCHANGED mSrv

gotUrlAlways(r) == r.st = "ok" /\ r.live                                  \* bug: dirty is not asked
gotUrl(r) == r.st = "ok" /\ r.live /\ ~r.on
urlAnswered(t) ==
    /\ mq[t].pc = "back" /\ mq[t].op = "readUrl"
    /\ mo' = IF gotUrl(mq[t]) THEN [mo EXCEPT !.url = mq[t].val] ELSE mo
    /\ Ends(t) /\ UNCHANGED mSrv

(* URL 3 is URL 1 with a slash at its end. *)
trimmed(u) == IF u = 3 THEN 1 ELSE u
typeUrl(t, u) ==
    /\ Edit /\ ~mo.page /\ u # mo.url
    /\ mo' = [Edited(mo) EXCEPT !.url = u, !.dirty = TRUE]
    /\ IF mo.dirty THEN UNCHANGED mq ELSE SFree(t) /\ generalEffect(t, mo')
    /\ UNCHANGED mSrv
saveURL(t) == /\ Edit /\ ~mo.page /\ SFree(t) /\ mo' = Edited(mo)
              /\ Send(t, [Request("url") EXCEPT !.val = trimmed(mo.url)]) /\ UNCHANGED mSrv
savedURL(t) ==
    /\ mq[t].pc = "back" /\ mq[t].op = "url"
    /\ IF mq[t].st = "ok" /\ mq[t].live
       THEN /\ mo' = [mo EXCEPT !.url = mq[t].val, !.dirty = FALSE]
            /\ IF mo.dirty THEN generalEffect(t, mo') ELSE Ends(t)
       ELSE UNCHANGED mo /\ Ends(t)
    /\ UNCHANGED mSrv

-----------------------------------------------------------------------------
ModulesInit ==
    /\ mSrv = [mods |-> {Unifi}, sync |-> TRUE, names |-> 0, url |-> 2]
    /\ mo = [mods |-> {}, known |-> FALSE, sync |-> FALSE, page |-> FALSE, deps |-> <<FALSE, FALSE, FALSE>>,
             rows |-> 0, busy |-> FALSE, url |-> 1, dirty |-> FALSE, edits |-> 0]
    /\ \E t \in STask : mq = [[x \in STask |-> SIdle] EXCEPT
                               ![t] = [SIdle EXCEPT !.pc = "sent", !.op = "readUrl", !.by = "readUrl", !.live = TRUE]]

ModulesAnswer(t) ==
    \/ loadedModules(t) \/ toggled(t) \/ wroteNames(t) \/ modulesAfter(t) \/ reread(t) \/ gotRows(t)
    \/ urlAnswered(t) \/ savedURL(t)

ModulesNext ==
    \/ \E t \in STask : \/ ServeModules(t) \/ ModulesAnswer(t) \/ loadModules(t) \/ rowsEffect(t) \/ refreshRows(t)
                        \/ \E id \in Mod : toggle(t, id)
                        \/ \E op \in {"names", "auto"} : setNameSync(t, op)
                        \/ applyNames(t) \/ excludeMac(t) \/ onBack(t) \/ saveURL(t)
                        \/ \E u \in 1..3 : typeUrl(t, u)
    \/ openModule

ModulesSpec == ModulesInit /\ [][ModulesNext]_moduleVars

(* The interval fires whatever else is open. *)
IntervalFires == SF_moduleVars(\E t \in STask : loadModules(t))

-----------------------------------------------------------------------------
(* At most one change of the names is under way, and the buttons are       *)
(* locked exactly while it is, the readings after it included (apply,      *)
(* excludeMac and the disabled buttons of the list).                       *)
NamesOneWrite ==
    Cardinality({t \in STask : mq[t].by \in {"apply", "exclude"}}) = IF mo.busy THEN 1 ELSE 0

(* No read replaces a URL that was typed and not saved, whichever read is  *)
(* late: one from before the typing is cancelled by the effect, one after  *)
(* it does not set the URL (the effect on urlDirty).                       *)
TypedUrlKept == [][(\E t \in STask : urlAnswered(t)) /\ mo.dirty => mo'.url = mo.url]_moduleVars

(* The switches come to show the modules the server has enabled, whatever  *)
(* failed or overtook: the list of the moment of a click can come back     *)
(* over a newer one, but not for good.                                     *)
ModulesConverge == IntervalFires => <>[](mo.mods = mSrv.mods)
=============================================================================
