---------------------------- MODULE UiMembership ----------------------------
(***************************************************************************)
(* Who belongs to which group, as the web interface edits it: the row      *)
(* actions of the device table (ui/src/tabs/DevicesTab.tsx), the groups    *)
(* page (ui/src/tabs/GroupsTab.tsx), and the list of devices in App.tsx    *)
(* that both show and both patch, and that a poll replaces every five      *)
(* seconds.  A task is one call with its continuation; it outlives the     *)
(* page that started it, and polls overlap.                                *)
(***************************************************************************)
EXTENDS Naturals, FiniteSets

CONSTANTS
    MDevice,    \* devices
    MTag,       \* groups
    MTask,      \* calls in flight
    MaxMVisits, \* bound: visits to the two pages
    MaxMEdits   \* bound: edits, by this window or by another client

VARIABLES
    mBox,       \* the groups of each device, on the box
    mPast,      \* history: the groups each device ever had
    mList,      \* App: tag_ids of the list of devices
    mp,         \* the page on display and its state
    mt          \* the calls in flight

membVars == <<mBox, mPast, mList, mp, mt>>

NoMac == "none"

(* No device has the address that stands for none. *)
ASSUME MDeviceAssumption == NoMac \notin MDevice

MIdle == [pc |-> "idle", op |-> "none", mount |-> 0, mac |-> NoMac, tag |-> {}, tags |-> {}, ans |-> "none"]

MFree(t) == mt[t].pc = "idle"

hostTagsAdd(tags, add) == tags \cup add
hostTagsRemove(tags, drop) == tags \ drop

-----------------------------------------------------------------------------
(* The list of devices *)

loadDevices(t) ==
    /\ MFree(t)
    /\ mt' = [mt EXCEPT ![t] = [MIdle EXCEPT !.pc = "poll", !.op = "poll"]]
    /\ UNCHANGED <<mBox, mPast, mList, mp>>

ServeDevices(t) ==
    /\ mt[t].pc = "poll"
    /\ \/ mt' = [mt EXCEPT ![t] = [mt[t] EXCEPT !.pc = "polled", !.tags = mBox]]
       \/ mt' = [mt EXCEPT ![t] = MIdle]                  \* the poll fails: the list stays
    /\ UNCHANGED <<mBox, mPast, mList, mp>>

setDevicesMerged(t) ==                                       \* bug: nothing is ever dropped
    /\ mt[t].pc = "polled"
    /\ mList' = [d \in MDevice |-> mList[d] \cup mt[t].tags[d]]
    /\ mt' = [mt EXCEPT ![t] = MIdle]
    /\ UNCHANGED <<mBox, mPast, mp>>
setDevices(t) ==
    /\ mt[t].pc = "polled"
    /\ mList' = mt[t].tags
    /\ mt' = [mt EXCEPT ![t] = MIdle]
    /\ UNCHANGED <<mBox, mPast, mp>>

-----------------------------------------------------------------------------
(* The two pages *)

MAway == [page |-> "away", ready |-> FALSE, busy |-> NoMac, mount |-> 0, edits |-> 0]

openPage(p) ==
    /\ mp.page = "away" /\ mp.mount < MaxMVisits
    /\ mp' = [mp EXCEPT !.page = p, !.mount = @ + 1, !.ready = FALSE, !.busy = NoMac]
    /\ UNCHANGED <<mBox, mPast, mList, mt>>

leavePage ==
    /\ mp.page # "away"
    /\ mp' = [mp EXCEPT !.page = "away", !.ready = FALSE, !.busy = NoMac]
    /\ UNCHANGED <<mBox, mPast, mList, mt>>

(* The status asked for at mount says that the box can be written; on the  *)
(* groups page App says so (canEditGroupMembers).                          *)
setWakeReady ==
    /\ mp.page # "away" /\ ~mp.ready
    /\ mp' = [mp EXCEPT !.ready = TRUE]
    /\ UNCHANGED <<mBox, mPast, mList, mt>>

(* actionBusy of the table, busyMac of the groups page: one lock a page.   *)
MStartUnlocked(t, op, pc, d, tag, tags) ==                   \* bug: the lock is not checked
    /\ MFree(t) /\ mp.ready /\ mp.edits < MaxMEdits
    /\ mp' = [mp EXCEPT !.busy = d, !.edits = @ + 1]
    /\ mt' = [mt EXCEPT ![t] = [pc |-> pc, op |-> op, mount |-> mp.mount, mac |-> d,
                                tag |-> tag, tags |-> tags, ans |-> "none"]]
    /\ UNCHANGED <<mBox, mPast, mList>>
MStart(t, op, pc, d, tag, tags) ==
    /\ MFree(t) /\ mp.ready /\ mp.busy = NoMac /\ mp.edits < MaxMEdits
    /\ mp' = [mp EXCEPT !.busy = d, !.edits = @ + 1]
    /\ mt' = [mt EXCEPT ![t] = [pc |-> pc, op |-> op, mount |-> mp.mount, mac |-> d,
                                tag |-> tag, tags |-> tags, ans |-> "none"]]
    /\ UNCHANGED <<mBox, mPast, mList>>

(* wakeDevice, renameDevice: one request that changes no group. *)
wakeDevice(t, d) == mp.page = "devices" /\ MStart(t, "other", "post", d, {}, {})

(* togglePolicyFlag, toggleIsolation, toggleEmergency: read, ask, write.   *)
togglePolicyFlag(t, d) == mp.page = "devices" /\ MStart(t, "flag", "fetch", d, {}, {})

(* The table reads the groups from the box before it adds one. *)
setDeviceGroup(t, d) ==
    /\ mp.page = "devices"
    /\ \/ \E g \in MTag : MStart(t, "add", "fetch", d, {g}, {})
       \/ MStart(t, "clear", "fetch", d, {}, {})

(* The groups page adds to, and removes from, the list it shows. *)
assign(t, d, g) ==
    /\ mp.page = "groups" /\ g \notin mList[d]
    /\ MStart(t, "add", "post", d, {g}, hostTagsAdd(mList[d], {g}))
unassign(t, d, g) ==
    /\ mp.page = "groups" /\ g \in mList[d]
    /\ MStart(t, "remove", "post", d, {g}, hostTagsRemove(mList[d], {g}))

ServePolicy(t) ==
    /\ mt[t].pc = "fetch" /\ mt[t].ans = "none"
    /\ \/ mt' = [mt EXCEPT ![t] = [mt[t] EXCEPT !.ans = "ok", !.tags = mBox[mt[t].mac]]]
       \/ mt' = [mt EXCEPT ![t] = [mt[t] EXCEPT !.ans = "fail"]]
    /\ UNCHANGED <<mBox, mPast, mList, mp>>

(* The finally block; a page that was left has no state to set. *)
MRelease(t) ==
    /\ mt' = [mt EXCEPT ![t] = MIdle]
    /\ mp' = IF mt[t].mount = mp.mount THEN [mp EXCEPT !.busy = NoMac] ELSE mp

fetchHostPolicy(t) ==
    /\ mt[t].pc = "fetch" /\ mt[t].ans # "none"
    /\ \/ (mt[t].ans = "fail" \/ mt[t].op = "flag") /\ MRelease(t)   \* Policy failed, or not confirmed
       \/ /\ mt[t].ans = "ok"
          /\ mt' = [mt EXCEPT ![t] = [mt[t] EXCEPT !.pc = "post", !.ans = "none",
                              !.tags = IF mt[t].op = "add" THEN hostTagsAdd(@, mt[t].tag) ELSE {}]]
          /\ UNCHANGED mp
    /\ UNCHANGED <<mBox, mPast, mList>>

(* The box takes the whole list of groups; its answer may get lost.        *)
postHostPolicy(t) ==
    /\ mt[t].pc = "post" /\ mt[t].ans = "none"
    /\ LET now == IF mt[t].op \in {"add", "remove", "clear"}
                  THEN [mBox EXCEPT ![mt[t].mac] = mt[t].tags] ELSE mBox
       IN \E a \in {"ok", "fail"}, b \in {mBox, now} :
            /\ a = "ok" => b = now
            /\ mBox' = b
            /\ mPast' = [d \in MDevice |-> mPast[d] \cup {b[d]}]
            /\ mt' = [mt EXCEPT ![t] = [mt[t] EXCEPT !.ans = a]]
    /\ UNCHANGED <<mList, mp>>

(* patchDeviceTags, setHostTags: App patches its list even when the page   *)
(* that asked is gone, and only when the box agreed.                       *)
patchDeviceTagsAlways(t) == [mList EXCEPT ![mt[t].mac] = mt[t].tags]       \* bug: whatever the answer
patchDeviceTags(t) == IF mt[t].ans = "ok" THEN [mList EXCEPT ![mt[t].mac] = mt[t].tags] ELSE mList

onGroupUpdated(t) ==
    /\ mt[t].pc = "post" /\ mt[t].ans # "none"
    /\ mList' = IF mt[t].op \in {"add", "remove", "clear"} THEN patchDeviceTags(t) ELSE mList
    /\ MRelease(t)
    /\ UNCHANGED <<mBox, mPast>>

(* Another client of the box changes a group. *)
OtherClient(d, g) ==
    /\ mp.edits < MaxMEdits
    /\ mBox' = [mBox EXCEPT ![d] = IF g \in @ THEN @ \ {g} ELSE @ \cup {g}]
    /\ mPast' = [mPast EXCEPT ![d] = @ \cup {mBox'[d]}]
    /\ mp' = [mp EXCEPT !.edits = @ + 1]
    /\ UNCHANGED <<mList, mt>>

-----------------------------------------------------------------------------
MembInit ==
    /\ mBox = [d \in MDevice |-> {}] /\ mList = mBox
    /\ mPast = [d \in MDevice |-> {{}}]
    /\ mp = MAway
    /\ mt = [t \in MTask |-> MIdle]

MembReply(t) == ServePolicy(t) \/ fetchHostPolicy(t) \/ postHostPolicy(t) \/ onGroupUpdated(t)

MembNext ==
    \/ \E t \in MTask : loadDevices(t) \/ ServeDevices(t) \/ setDevices(t) \/ MembReply(t)
    \/ \E t \in MTask, d \in MDevice :
         \/ wakeDevice(t, d) \/ togglePolicyFlag(t, d) \/ setDeviceGroup(t, d)
         \/ \E g \in MTag : assign(t, d, g) \/ unassign(t, d, g)
    \/ \E p \in {"devices", "groups"} : openPage(p)
    \/ \E d \in MDevice, g \in MTag : OtherClient(d, g)
    \/ leavePage \/ setWakeReady

MembSpec == MembInit /\ [][MembNext]_membVars

(* Again and again a poll is answered well. *)
PollsSucceed == SF_membVars(\E t \in MTask : ServeDevices(t) /\ mt'[t].pc = "polled")

-----------------------------------------------------------------------------
(* A page is locked exactly while one of its own calls is under way, and   *)
(* by that device: no failure leaves the menus disabled, and no second     *)
(* call starts (actionBusy, DevicesTab.tsx; busyMac, GroupsTab.tsx).       *)
RowLockHeld ==
    LET own == {t \in MTask : mt[t].op \notin {"none", "poll"} /\ mt[t].mount = mp.mount}
    IN mp.page # "away" => IF mp.busy = NoMac THEN own = {}
                           ELSE Cardinality(own) = 1 /\ \A t \in own : mt[t].mac = mp.busy

(* The list never shows groups the device did not have on the box: edits   *)
(* are shown once the box has agreed, not before.                          *)
ShownWasTrue == \A d \in MDevice : mList[d] \in mPast[d]

(* Once nobody edits any more, the list comes to show the groups of the    *)
(* box and keeps showing them, whatever stale answers were under way.      *)
MembershipsConverge == PollsSucceed => <>[](mList = mBox)
=============================================================================
