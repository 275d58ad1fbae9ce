--------------------------- MODULE UiDeviceDetail ---------------------------
(***************************************************************************)
(* The page of one device (ui/src/components/DeviceDetail.tsx): its        *)
(* policy, edited optimistically, its name and its local domain.  Opening  *)
(* another device changes the navigation key and so mounts a new instance  *)
(* (App.tsx, NavigationViewStateContext.Provider); the calls in flight     *)
(* answer to the one that is gone.  One flag stands for the policies that  *)
(* are written the same way (isolation, adblock, family, note, groups).    *)
(***************************************************************************)
EXTENDS Naturals, FiniteSets

CONSTANTS
    DDevice,    \* devices
    DTask,      \* calls in flight
    MaxDVisits, \* bound: times the page is mounted
    MaxDWrites  \* bound: writes

VARIABLES
    dBox,       \* the policy of each device, on the box
    dd,         \* the page
    dt          \* the calls in flight

detailVars == <<dBox, dd, dt>>

NoDev == "none"
NoPol == [known |-> FALSE]
NoPatch == [key |-> "none"]

(* Emergency access and monitoring exclude each other. *)
applyPatchKeepsMonitor(pol, p) ==                            \* bug: monitoring stays on
    CASE p.key = "emergency" -> [pol EXCEPT !.emergency = p.val]
      [] p.key = "monitor" -> [pol EXCEPT !.monitor = p.val, !.emergency = IF p.val THEN FALSE ELSE @]
      [] OTHER -> [pol EXCEPT !.flag = p.val]
applyPolicyPatchOptimistic(pol, p) ==
    CASE p.key = "emergency" -> [pol EXCEPT !.emergency = p.val, !.monitor = IF p.val THEN FALSE ELSE @]
      [] p.key = "monitor" -> [pol EXCEPT !.monitor = p.val, !.emergency = IF p.val THEN FALSE ELSE @]
      [] OTHER -> [pol EXCEPT !.flag = p.val]

(* The server translates a patch the same way (external to this module). *)
serverPatch(pol, p) ==
    [pol EXCEPT !.flag = IF p.key = "flag" THEN p.val ELSE @,
                !.monitor = IF p.key = "monitor" THEN p.val ELSE @ /\ ~(p.key = "emergency" /\ p.val),
                !.emergency = IF p.key = "emergency" THEN p.val ELSE @ /\ ~(p.key = "monitor" /\ p.val)]

hostPolicyMatchesPatch(pol, p) ==
    CASE p.key = "emergency" -> pol.emergency = p.val /\ (p.val => ~pol.monitor)
      [] p.key = "monitor" -> pol.monitor = p.val /\ (p.val => ~pol.emergency)
      [] OTHER -> pol.flag = p.val

pickFetched(fetched, posted, p) == IF fetched.known THEN fetched ELSE posted     \* bug: the stale answer wins
pickHostPolicy(fetched, posted, p) ==
    IF fetched.known /\ hostPolicyMatchesPatch(fetched, p) THEN fetched
    ELSE IF posted.known THEN posted ELSE fetched

-----------------------------------------------------------------------------
NoDraft == [of |-> NoDev, typed |-> FALSE]

(* Closed, and with the state a fresh instance starts with. *)
DetailClosed == [mac |-> NoDev, fake |-> FALSE, avail |-> FALSE, asked |-> FALSE, pol |-> NoPol,
                 busy |-> {}, editing |-> "none", shown |-> NoDev, draft |-> NoDraft,
                 anon |-> FALSE, mount |-> 0, writes |-> 0]

DIdle == [pc |-> "idle", op |-> "none", mount |-> 0, mac |-> NoDev, fake |-> FALSE, draft |-> NoDraft,
          patch |-> NoPatch, prev |-> NoPol, old |-> NoPol, posted |-> NoPol, ans |-> "none", live |-> TRUE]

DFree(t) == dt[t].pc = "idle"

writesAllowed(s) == ~s.anon
controlReadyAnyway(s) == s.avail                             \* bug: anonymity is not asked
controlReady(s) == writesAllowed(s) /\ s.avail

(* The effect on the name and the domain of the device: drafts start from  *)
(* what it shows, editors close.                                           *)
resetEditors(s) == [s EXCEPT !.shown = s.mac, !.draft = [of |-> s.mac, typed |-> FALSE],
                             !.editing = "none"]

(* A new instance; what belongs to the window stays. *)
sameInstance(s, d) == [s EXCEPT !.mac = d]                   \* bug: the page is not keyed by device
newInstance(s, d) ==
    resetEditors([DetailClosed EXCEPT !.mac = d, !.mount = s.mount + 1, !.fake = s.anon,
                                      !.anon = s.anon, !.writes = s.writes])

(* The effect on the device and on controlReady cancels the read under way *)
(* and sends another; the policy on display is kept until it answers, and  *)
(* dropped when the box cannot be written.                                 *)
DCancelReads == [t \in DTask |-> IF dt[t].op = "read" THEN [dt[t] EXCEPT !.live = FALSE] ELSE dt[t]]
readPolicy(s) ==
    /\ dd' = [s EXCEPT !.asked = controlReady(s), !.pol = IF controlReady(s) THEN @ ELSE NoPol]
    /\ dt' = DCancelReads
    /\ UNCHANGED dBox

openDetail(d) == dd.mac # d /\ dd.mount < MaxDVisits /\ readPolicy(newInstance(dd, d))

DClose(s) == [DetailClosed EXCEPT !.mount = s.mount, !.writes = s.writes, !.anon = s.anon]

closeDevice == /\ dd.mac # NoDev /\ dd' = DClose(dd) /\ dt' = DCancelReads /\ UNCHANGED dBox

(* Turning anonymity on or off returns to the root of the tab. *)
toggleAnonymity == /\ dd' = [DClose(dd) EXCEPT !.anon = ~dd.anon] /\ dt' = DCancelReads /\ UNCHANGED dBox

setControlReady == dd.mac # NoDev /\ ~dd.avail /\ readPolicy([dd EXCEPT !.avail = TRUE])

(* A poll brings another name for the device on display: the editors       *)
(* close, and what was typed is gone.                                      *)
deviceRenamed == /\ dd.mac # NoDev
                 /\ dd' = resetEditors(dd) /\ UNCHANGED <<dBox, dt>>

-----------------------------------------------------------------------------
(* Calls *)

DApply(t, s) == dd' = IF dd.mac # NoDev /\ dt[t].mount = dd.mount THEN s ELSE dd

DCall(t, op, s, job) ==
    /\ DFree(t) /\ dd.writes < MaxDWrites
    /\ dd' = [s EXCEPT !.busy = @ \cup {op}, !.writes = @ + 1]
    /\ dt' = [dt EXCEPT ![t] = [job EXCEPT !.pc = "post", !.op = op, !.mount = dd.mount,
                                           !.mac = dd.mac, !.fake = dd.fake]]
    /\ UNCHANGED dBox

DEnd(t) == dt' = [dt EXCEPT ![t] = DIdle]
DDoneOnOk(t, s) == IF dt[t].ans = "ok" THEN [s EXCEPT !.busy = @ \ {dt[t].op}] ELSE s   \* bug: a failure stays busy
DDone(t, s) == [s EXCEPT !.busy = @ \ {dt[t].op}]

sendRead(t) ==
    /\ DFree(t) /\ dd.asked
    /\ dd' = [dd EXCEPT !.asked = FALSE]
    /\ dt' = [dt EXCEPT ![t] = [DIdle EXCEPT !.pc = "read", !.op = "read", !.mount = dd.mount, !.mac = dd.mac]]
    /\ UNCHANGED dBox

readAnswer(t) ==
    /\ dt[t].pc = "read"
    /\ \E a \in {dBox[dt[t].mac], NoPol, dd.pol} :             \* answered, threw, or refused
         DApply(t, IF dt[t].live THEN [dd EXCEPT !.pol = a] ELSE dd)
    /\ DEnd(t) /\ UNCHANGED dBox

wake(t) == controlReady(dd) /\ dd.mac # NoDev /\ "wake" \notin dd.busy /\ DCall(t, "wake", dd, DIdle)

startRename == /\ dd.mac # NoDev /\ controlReady(dd) /\ dd.editing # "name"
               /\ dd' = [dd EXCEPT !.editing = "name", !.draft = [of |-> dd.shown, typed |-> FALSE]]
               /\ UNCHANGED <<dBox, dt>>
startDNS == /\ dd.mac # NoDev /\ controlReady(dd) /\ dd.editing # "dns"
            /\ dd' = [dd EXCEPT !.editing = "dns", !.draft = [of |-> dd.mac, typed |-> FALSE]]
            /\ UNCHANGED <<dBox, dt>>
setDraft == /\ dd.editing # "none" /\ dd.editing \notin dd.busy
            /\ dd' = [dd EXCEPT !.draft = [of |-> dd.mac, typed |-> TRUE]]
            /\ UNCHANGED <<dBox, dt>>
cancelEdit == /\ dd.editing # "none" /\ dd.editing \notin dd.busy
              /\ dd' = [dd EXCEPT !.editing = "none"] /\ UNCHANGED <<dBox, dt>>

saveRename(t) == /\ dd.editing = "name" /\ controlReady(dd) /\ "name" \notin dd.busy
                 /\ DCall(t, "name", dd, [DIdle EXCEPT !.draft = dd.draft])
saveDNS(t) == /\ dd.editing = "dns" /\ controlReady(dd) /\ "dns" \notin dd.busy
              /\ DCall(t, "dns", dd, [DIdle EXCEPT !.draft = dd.draft])

(* The card of the policies: shown once the policy is known. *)
patches == IF dd.mac # NoDev /\ controlReady(dd) /\ dd.pol.known
           THEN [key : {"monitor", "emergency", "flag"}, val : BOOLEAN] ELSE {}

setPolicy(t, p) ==
    /\ controlReady(dd) /\ "policy" \notin dd.busy /\ dd.pol.known
    /\ DCall(t, "policy", [dd EXCEPT !.pol = applyPolicyPatchOptimistic(@, p)],
             [DIdle EXCEPT !.patch = p, !.prev = dd.pol])

(* The box applies the write, or not; the answer may fail all the same.    *)
ServeCall(t) ==
    /\ dt[t].pc = "post" /\ dt[t].ans = "none"
    /\ \E a \in {"ok", "fail"}, w \in BOOLEAN, says \in BOOLEAN :
         /\ a = "ok" => w
         /\ dBox' = IF w /\ dt[t].op = "policy" /\ ~dt[t].fake
                    THEN [dBox EXCEPT ![dt[t].mac] = serverPatch(@, dt[t].patch)] ELSE dBox
         /\ dt' = [dt EXCEPT ![t] = [dt[t] EXCEPT !.ans = a, !.old = dBox[dt[t].mac],
                                         !.posted = IF a = "ok" /\ says /\ dt[t].op = "policy"
                                                    THEN dBox'[dt[t].mac] ELSE NoPol]]
    /\ UNCHANGED dd

(* The editor of the call closes.  App patches its list, so that the page  *)
(* gets another name or domain, if it still shows the device.              *)
edited(t, s) ==
    LET e == [s EXCEPT !.editing = IF @ = dt[t].op THEN "none" ELSE @,
                       !.shown = IF dt[t].op = "name" THEN dt[t].mac ELSE @]
    IN {e} \cup IF dt[t].mac = s.mac THEN {resetEditors(s)} ELSE {}

(* wake, saveRename and saveDNS end; setPolicy reads the policy back.      *)
CallAnswer(t) ==
    /\ dt[t].pc = "post" /\ dt[t].ans # "none"
    /\ IF dt[t].op = "policy" /\ dt[t].ans = "ok"
       THEN /\ DApply(t, IF dt[t].posted.known THEN [dd EXCEPT !.pol = dt[t].posted] ELSE dd)
            /\ dt' = [dt EXCEPT ![t] = [dt[t] EXCEPT !.pc = "get", !.ans = "none"]]
       ELSE /\ DEnd(t)
            /\ IF dt[t].op \in {"name", "dns"} /\ dt[t].ans = "ok"
               THEN \E s \in edited(t, DDone(t, dd)) : DApply(t, s)
               ELSE DApply(t, [DDone(t, dd) EXCEPT !.pol = IF dt[t].op = "policy" THEN dt[t].prev ELSE @])
    /\ UNCHANGED dBox

(* The server reads a cache: the policy, the one before the write, or an   *)
(* error that carries none.                                                *)
policyGot(t) ==
    /\ dt[t].pc = "get"
    /\ \E f \in {dBox[dt[t].mac], dt[t].old, NoPol} :
         LET n == pickHostPolicy(f, dt[t].posted, dt[t].patch)
         IN DApply(t, [DDone(t, dd) EXCEPT !.pol = IF n.known THEN n ELSE @])
    /\ DEnd(t) /\ UNCHANGED dBox

(* The read throws: the page returns to what it showed before the edit.    *)
policyThrew(t) ==
    /\ dt[t].pc = "get"
    /\ DApply(t, [DDone(t, dd) EXCEPT !.pol = dt[t].prev])
    /\ DEnd(t) /\ UNCHANGED dBox

-----------------------------------------------------------------------------
DetailInit ==
    /\ dBox = [d \in DDevice |-> [known |-> TRUE, of |-> d, monitor |-> TRUE, emergency |-> FALSE, flag |-> FALSE]]
    /\ dd = DetailClosed
    /\ dt = [t \in DTask |-> DIdle]

DetailReply(t) == sendRead(t) \/ readAnswer(t) \/ ServeCall(t) \/ CallAnswer(t)
                  \/ policyGot(t) \/ policyThrew(t)

DetailNext ==
    \/ \E d \in DDevice : openDetail(d)
    \/ \E t \in DTask : \/ DetailReply(t) \/ wake(t) \/ saveRename(t) \/ saveDNS(t)
                        \/ \E p \in patches : setPolicy(t, p)
    \/ closeDevice \/ toggleAnonymity \/ setControlReady \/ deviceRenamed
    \/ startRename \/ startDNS \/ setDraft \/ cancelEdit

DetailSpec == DetailInit /\ [][DetailNext]_detailVars

-----------------------------------------------------------------------------
(* Monitoring and emergency access are never shown on together, whatever   *)
(* was answered, rolled back or read from a stale cache.                   *)
DetailExclusive == dd.pol.known => ~(dd.pol.monitor /\ dd.pol.emergency)

(* A control is disabled exactly while its own call is under way.          *)
DetailBusyOwned ==
    dd.mac # NoDev => dd.busy = {dt[t].op : t \in {u \in DTask :
                                   dt[u].mount = dd.mount /\ dt[u].op \in {"wake", "name", "dns", "policy"}}}

(* The policy, the name and the drafts on the page are those of the device *)
(* it shows, however late the answers for the device before it come.       *)
DetailOwn ==
    dd.mac # NoDev => /\ dd.pol.known => dd.pol.of = dd.mac
                      /\ dd.shown = dd.mac
                      /\ dd.draft.typed => dd.draft.of = dd.mac

(* No call names the fake address of a device shown anonymously. *)
DetailRealAddress == \A t \in DTask : dt[t].op # "read" => ~dt[t].fake

(* A write the box confirmed, with the policy it led to, is what the page  *)
(* shows when the read that follows is answered from a stale cache.        *)
PolicyStays ==
    [][\A t \in DTask :
         (policyGot(t) /\ dt[t].posted.known /\ dd.mac = dt[t].mac /\ dd.mount = dt[t].mount)
         => hostPolicyMatchesPatch(dd'.pol, dt[t].patch)]_detailVars
=============================================================================
