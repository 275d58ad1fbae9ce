----------------------------- MODULE UiNavigation -----------------------------
(***************************************************************************)
(* Where the visitor is (ui/src/App.tsx, ui/src/lib/nav.ts,                *)
(* navigation-scroll.ts, navigation-view-state.tsx, Navigation.tsx and     *)
(* Breadcrumb.tsx): the stack of frames under the tab, which page it       *)
(* shows, and what is remembered of the places left behind: how far they   *)
(* were scrolled and their view preferences.                               *)
(***************************************************************************)
EXTENDS Naturals, Sequences

CONSTANTS
    Volatile,    \* targets that polls may take from the page and give back
    MaxMarks     \* bound: scrollings, changes of a view and of anonymity

VARIABLES
    nv,          \* the stack and App's state about it
    viewStates,  \* what each place remembers of its view
    posn,        \* the positions at which places were left
    onDisplay    \* the targets in the data on display

navVars == <<nv, viewStates, posn, onDisplay>>

Targets == {"device", "region", "ap", "ssid"}
NTABS == {"metrics", "devices", "network", "groups", "topology", "wireless", "audit", "settings"}

(* A frame's label, and the address of a device, are those of the mode     *)
(* (real or anonymous) on display when it was pushed.  left is an          *)
(* auxiliary value: how the place looked when a further frame covered it.  *)
NotLeft == [pos |-> 0, view |-> 0, seen |-> FALSE]
TabFrame(t) == [kind |-> "tab", id |-> t, label |-> "none", left |-> NotLeft]
Frame(k) == [kind |-> k, id |-> IF k \in {"device", "ap", "topo-switch", "ports"} THEN nv.mode ELSE k,
             label |-> nv.mode, left |-> NotLeft]

tabOf(s) == s[1].id
resetTab(t) == <<TabFrame(t)>>
popTo(s, i) == SubSeq(s, 1, i)
findLast(s, k) == \E i \in DOMAIN s : s[i].kind = k
lastOf(s, k) == s[CHOOSE i \in DOMAIN s : s[i].kind = k /\ \A j \in DOMAIN s : s[j].kind = k => j <= i]

(* Array.filter: the frames of other kinds. *)
without(s, kinds) ==
    LET kept[n \in 0..Len(s)] ==
            IF n = 0 THEN <<>>
            ELSE IF s[n].kind \in kinds THEN kept[n - 1] ELSE Append(kept[n - 1], s[n])
    IN  kept[Len(s)]

navigationKey(s) == [i \in DOMAIN s |-> <<s[i].kind, s[i].id>>]
isNavigationReturn(old, new) ==
    Len(new) < Len(old) /\ navigationKey(SubSeq(old, 1, Len(new))) = navigationKey(new)

-----------------------------------------------------------------------------
(* The page a stack shows *)

showDevicesTable(s) ==
    (tabOf(s) = "devices" /\ ~findLast(s, "device")) \/ \E k \in {"lan", "group", "ports"} : findLast(s, k)

pageOf(s) ==
    IF findLast(s, "device") /\ "device" \in onDisplay THEN "device"
    ELSE IF findLast(s, "region") /\ "region" \in onDisplay /\ tabOf(s) = "metrics" THEN "region"
    ELSE IF findLast(s, "ap") /\ "ap" \in onDisplay /\ tabOf(s) = "wireless" THEN "ap"
    ELSE IF findLast(s, "ssid") /\ "ssid" \in onDisplay /\ tabOf(s) = "wireless" THEN "ssid"
    ELSE IF showDevicesTable(s) THEN "devices"
    ELSE tabOf(s)

-----------------------------------------------------------------------------
(* A change of the stack: the layout effect of useNavigationScroll, and    *)
(* the views mounted again under another key.                              *)

lookup(m, k) == IF k \in DOMAIN m THEN m[k] ELSE 0
store(m, k, v) == [x \in (DOMAIN m \cup {k}) \ (IF v = 0 THEN {k} ELSE {}) |-> IF x = k THEN v ELSE m[x]]
Nothing == [x \in {} |-> 0]

(* Position 0 is the top, which is also where a place without one starts. *)
useNavigationScroll(old, new) ==
    LET key == navigationKey(new)
        saved == store(posn, navigationKey(old), nv.pos)
        returning == isNavigationReturn(old, new)
    IN  IF navigationKey(old) = key /\ Len(new) > 1 THEN [posn |-> posn, pos |-> nv.pos]
        ELSE [posn |-> IF Len(new) = 1 /\ ~returning THEN Nothing ELSE saved,
              pos |-> IF returning THEN lookup(saved, key) ELSE 0]

Covering(s) ==
    [i \in DOMAIN s |->
       IF i < Len(s) /\ navigationKey(SubSeq(s, 1, i)) = navigationKey(nv.stack)
       THEN [s[i] EXCEPT !.left = [pos |-> nv.pos, view |-> nv.view, seen |-> TRUE]] ELSE s[i]]

setStack(s, views, n) ==
    LET scroll == useNavigationScroll(nv.stack, s)
        same == navigationKey(s) = navigationKey(nv.stack)
    IN  /\ posn' = scroll.posn
        /\ viewStates' = views
        /\ nv' = [n EXCEPT !.stack = Covering(s), !.pos = scroll.pos,
                           !.view = IF same THEN nv.view ELSE lookup(views, navigationKey(s))]
        /\ UNCHANGED onDisplay

Go(s) == setStack(s, viewStates, nv)

-----------------------------------------------------------------------------
(* Handlers *)

selectTabClears(t, n) == setStack(resetTab(t), Nothing, n)  \* bug: a reselected root forgets
selectTab(t, n) ==
    setStack(resetTab(t),
             IF t # tabOf(nv.stack) \/ Len(nv.stack) > 1 THEN Nothing ELSE viewStates,
             n)

openDevice == Go(Append(without(nv.stack, {"device"}), Frame("device")))

openRegionKeepsDevice == Go(Append(nv.stack, Frame("region")))         \* bug: a vanished device stays
openRegion == Go(Append(without(nv.stack, {"region", "device"}), Frame("region")))

goDevicesLan == Go(<<TabFrame("network"), Frame("lan")>>)
goDevicesGroup == Go(<<TabFrame("groups"), Frame("group")>>)
goDevicesSwitch == Go(<<TabFrame("topology"), Frame("topo-switch"), Frame("ports")>>)
onStp == Go(<<TabFrame("topology"), Frame("topo-switch")>>)

(* The links of the table: a group, or none; likewise the clients of a port. *)
onGroup(on) ==
    LET t == IF tabOf(nv.stack) = "groups" THEN "groups" ELSE "devices"
    IN  Go(IF on THEN <<TabFrame(t), Frame("group")>> ELSE resetTab(t))
onLan(on) == IF on THEN goDevicesLan
             ELSE Go(resetTab(IF tabOf(nv.stack) = "network" THEN "network" ELSE "devices"))
onSwitchMacs(on) ==
    LET t == IF tabOf(nv.stack) = "topology" THEN "topology" ELSE "devices"
    IN  Go(IF ~on THEN resetTab(t)
           ELSE IF findLast(nv.stack, "topo-switch")
                THEN <<TabFrame("topology"), lastOf(nv.stack, "topo-switch"), Frame("ports")>>
           ELSE <<TabFrame(t), Frame("ports")>>)

onSelectAp == Go(<<TabFrame("wireless"), Frame("ap")>>)
onSelectNet == Go(<<TabFrame("wireless"), Frame("ssid")>>)
onSelectClient == Go(<<TabFrame("wireless"), Frame("device")>>)
onMode == Go(resetTab("wireless"))

(* The links a page offers. *)
Link ==
    LET p == pageOf(nv.stack) IN
    \/ p \in {"metrics", "region", "ssid", "devices", "topology", "audit"} /\ openDevice
    \/ p = "metrics" /\ openRegion
    \/ p \in {"network", "topology"} /\ goDevicesLan
    \/ p = "groups" /\ goDevicesGroup
    \/ p = "topology" /\ goDevicesSwitch
    \/ p = "audit" /\ onStp
    \/ p = "devices" /\ \E on \in BOOLEAN : onGroup(on) \/ onLan(on) \/ onSwitchMacs(on)
    \/ p = "wireless" /\ (onSelectAp \/ onSelectNet \/ onSelectClient \/ onMode)

(* A crumb but the last. *)
crumb(i) == i < Len(nv.stack) /\ Go(popTo(nv.stack, i))

(* The bell opens the audit at a finding, with the address on display. *)
openAuditTab == selectTab("audit", [nv EXCEPT !.focus = nv.mode])

Mark == nv.marks < MaxMarks
(* Anonymity changes here or in another window of the browser. *)
anonKeepsStack(m) == nv' = [nv EXCEPT !.mode = m, !.marks = @ + 1] /\ UNCHANGED <<viewStates, posn, onDisplay>>   \* bug: the effect is missing
anonChanged(m) == setStack(popTo(nv.stack, 1), viewStates, [nv EXCEPT !.mode = m, !.marks = @ + 1, !.focus = "none"])
setAnonymityOn == Mark /\ anonChanged(IF nv.mode = "real" THEN "fake" ELSE "real")

scroll == /\ Mark /\ nv' = [nv EXCEPT !.pos = 1 - @, !.marks = @ + 1]
          /\ UNCHANGED <<viewStates, posn, onDisplay>>
useNavigationViewUpdate == /\ Mark /\ nv' = [nv EXCEPT !.view = 1 - @, !.marks = @ + 1]
                           /\ viewStates' = store(viewStates, navigationKey(nv.stack), nv'.view)
                           /\ UNCHANGED <<posn, onDisplay>>

pollChanges(x) == /\ onDisplay' = IF x \in onDisplay THEN onDisplay \ {x} ELSE onDisplay \cup {x}
                  /\ UNCHANGED <<nv, viewStates, posn>>

NavInit == /\ nv = [stack |-> resetTab("metrics"), mode |-> "real", pos |-> 0, view |-> 0, marks |-> 0,
                    focus |-> "none"]
           /\ viewStates = Nothing /\ posn = Nothing /\ onDisplay = Targets

NavNext ==
    \/ Link \/ openAuditTab \/ setAnonymityOn \/ scroll \/ useNavigationViewUpdate
    \/ \E t \in NTABS : selectTab(t, nv)
    \/ \E i \in DOMAIN nv.stack : crumb(i)
    \/ \E x \in Volatile : pollChanges(x)

NavSpec == NavInit /\ [][NavNext]_navVars

-----------------------------------------------------------------------------
(* The page on display is the one the breadcrumb ends with, or, when polls *)
(* took its target away, that of the last frame that still has one: links, *)
(* jumps and vanishing targets never leave a frame that hides a later one. *)
Shows(f) == CASE f.kind \in {"lan", "group", "ports"} -> "devices"
              [] f.kind = "topo-switch" -> "topology"
              [] f.kind = "tab" -> f.id
              [] OTHER -> f.kind
HasPage(f) == f.kind \in Targets => f.kind \in onDisplay
CrumbIsPage ==
    \E i \in DOMAIN nv.stack :
        /\ HasPage(nv.stack[i]) /\ \A k \in DOMAIN nv.stack : HasPage(nv.stack[k]) => k <= i
        /\ pageOf(nv.stack) = Shows(nv.stack[i])

(* Going back to a place that was left for a detail finds it scrolled and  *)
(* arranged as it was left (navigation-scroll.ts:31, App.tsx:602).         *)
BackAsLeft ==
    [][\A i \in 1 .. Len(nv.stack) - 1 :
         (nv.stack[i].left.seen /\ Len(nv'.stack) = i /\ navigationKey(nv'.stack) # navigationKey(nv.stack) /\ crumb(i))
           => nv'.pos = nv.stack[i].left.pos /\ nv'.view = nv.stack[i].left.view]_navVars

(* No frame and no focus of the audit carries a name or an address of the  *)
(* other mode after anonymity changed (App.tsx:213).                       *)
FramesOwnMode == /\ \A i \in DOMAIN nv.stack : nv.stack[i].label \in {"none", nv.mode}
                 /\ nv.focus \in {"none", nv.mode}

(* The page on display is the one the breadcrumb ends with, and no frame   *)
(* carries a name or an address of the other mode, whatever polls, links   *)
(* and switchings came in between.                                         *)
PlaceShown == CrumbIsPage /\ FramesOwnMode
=============================================================================
