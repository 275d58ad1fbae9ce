------------------------------- MODULE UiAudit -------------------------------
(***************************************************************************)
(* The audit page and the snoozes of offline gear (ui/src/tabs/            *)
(* AuditTab.tsx, ui/src/lib/audit-snooze.ts) with what the shell does for  *)
(* them (ui/src/App.tsx): it polls the audit, shows it renamed while       *)
(* anonymity mode is on, counts the offline gear nobody snoozed on the     *)
(* bell, and opens the page at a section and a row from there.             *)
(***************************************************************************)
EXTENDS Naturals, FiniteSets

CONSTANTS
    Gear,          \* switches and access points
    Soft,          \* the sections that start collapsed
    Firm,          \* the other sections, but for offline
    SnoozeFor,     \* DEFAULT_MS in ticks
    MaxNow,        \* bound: the clock
    MaxPresses     \* bound: openings of the page from the bell

ASSUME AuditAssumption == SnoozeFor \in Nat

VARIABLES
    found,         \* the server's audit: offline gear, other sections with findings
    snoozed,       \* localStorage: the keys snoozed and until when
    clock,
    au             \* App and AuditTab; asked is history

auditVars == <<found, snoozed, clock, au>>

Section == Soft \cup Firm \cup {"offline"}
(* A row's MAC as displayed: the real one, or the one anonymity gives. *)
AuditKey == [mac : Gear, fake : BOOLEAN]
key(a, m) == [mac |-> m, fake |-> a.anon]
NoFocusMac == [mac |-> "none", fake |-> FALSE]
Finding == [offline : SUBSET Gear, other : SUBSET (Soft \cup Firm)]

-----------------------------------------------------------------------------
(* audit-snooze.ts: the store is pruned whenever it is read *)

prune(s, now) == {e \in s : e.until > now}
isOfflineSnoozed(s, k, now) == \E e \in prune(s, now) : e.key = k
snoozeOffline(s, k, now) == {e \in prune(s, now) : e.key # k} \cup {[key |-> k, until |-> now + SnoozeFor]}
unsnoozeOffline(s, k, now) == {e \in prune(s, now) : e.key # k}
syncOfflineSnoozes(s, live, now) ==
    LET kept == {e \in prune(s, now) : e.key \in live}
    IN IF kept = prune(s, now) THEN s ELSE kept
countUnsnoozedOffline(s, macs, now) ==
    Cardinality({m \in macs : ~isOfflineSnoozed(s, [mac |-> m, fake |-> FALSE], now)})

-----------------------------------------------------------------------------
(* The page: a section is there while it has findings; one that appears    *)
(* starts as its kind says; one the bell asks for is opened.               *)

showAudit(a) == {key(a, m) : m \in a.data.offline}
counted(a, s) == a.tab /\ a.known /\ IF s = "offline" THEN a.data.offline # {} ELSE s \in a.data.other
AuditTab(a) == {s \in Section : counted(a, s)}
defaultOpen(s) == s \notin Soft
focused(a, s) == a.focus.section = s
openEffectOnce(a, b, s) == focused(b, s) /\ (~counted(a, s) \/ ~focused(a, s))  \* bug: focusNonce is not a dependency
openEffect(a, b, s) ==
    focused(b, s) /\ (~counted(a, s) \/ ~focused(a, s) \/ a.focus.nonce # b.focus.nonce)
AuditSection(a, b) ==
    [s \in Section |-> s \in AuditTab(b) /\ (openEffect(a, b, s) \/ IF counted(a, s) THEN a.open[s] ELSE defaultOpen(s))]

(* React renders the new state; the rows are a new array after a poll, a   *)
(* switch of anonymity and a mount, and the snoozes follow them.           *)
rendersKept(b, rows) ==                                                       \* bug: the snoozes are synchronised at the mount alone
    /\ au' = [b EXCEPT !.open = AuditSection(au, b)]
    /\ snoozed' = IF b.tab /\ ~au.tab /\ b.known THEN syncOfflineSnoozes(snoozed, showAudit(b), clock) ELSE snoozed
renders(b, rows) ==
    /\ au' = [b EXCEPT !.open = AuditSection(au, b)]
    /\ snoozed' = IF b.tab /\ b.known /\ (rows \/ ~au.tab)
                  THEN syncOfflineSnoozes(snoozed, showAudit(b), clock) ELSE snoozed

AuditChanges == \E f \in Finding : found' = f /\ f # found /\ UNCHANGED <<snoozed, clock, au>>
Tick == clock < MaxNow /\ clock' = clock + 1 /\ UNCHANGED <<found, snoozed, au>>

setAudit == renders([au EXCEPT !.known = TRUE, !.data = found], TRUE) /\ UNCHANGED <<found, clock>>
setAuditAnon == renders([au EXCEPT !.anon = ~@], TRUE) /\ UNCHANGED <<found, clock>>
selectAudit == ~au.tab /\ renders([au EXCEPT !.tab = TRUE], FALSE) /\ UNCHANGED <<found, clock>>
leaveAudit == au.tab /\ renders([au EXCEPT !.tab = FALSE], FALSE) /\ UNCHANGED <<found, clock>>

openAudit(s, mac) ==
    /\ au.focus.nonce < MaxPresses
    /\ renders([au EXCEPT !.tab = TRUE, !.asked = s,
                          !.focus = [section |-> s, mac |-> mac, nonce |-> @.nonce + 1]], FALSE)
    /\ UNCHANGED <<found, clock>>
(* The bell lists what the last poll reported, and takes the visitor to    *)
(* the first offline row that is not snoozed.                              *)
bellSection == \E s \in Firm : (~au.known \/ s \in au.data.other) /\ openAudit(s, NoFocusMac)
firstUnsnoozedOfflineMac ==
    {m \in au.data.offline : ~isOfflineSnoozed(snoozed, [mac |-> m, fake |-> FALSE], clock)}
bellOffline ==
    \/ ~au.known /\ openAudit("offline", NoFocusMac)
    \/ /\ countUnsnoozedOffline(snoozed, au.data.offline, clock) > 0
       /\ \E m \in firstUnsnoozedOfflineMac : openAudit("offline", key(au, m))

setOpen(s) ==
    /\ s \in AuditTab(au)
    /\ au' = [au EXCEPT !.open[s] = ~@, !.asked = IF @ = s THEN "none" ELSE @]
    /\ UNCHANGED <<found, snoozed, clock>>

rowShown == "offline" \in AuditTab(au) /\ au.open["offline"]
Snooze(k) ==
    /\ rowShown /\ k \in showAudit(au) /\ ~isOfflineSnoozed(snoozed, k, clock)
    /\ snoozed' = snoozeOffline(snoozed, k, clock) /\ UNCHANGED <<found, clock, au>>
Unsnooze(k) ==
    /\ rowShown /\ k \in showAudit(au) /\ isOfflineSnoozed(snoozed, k, clock)
    /\ snoozed' = unsnoozeOffline(snoozed, k, clock) /\ UNCHANGED <<found, clock, au>>

-----------------------------------------------------------------------------
AuditInit ==
    /\ found \in Finding
    /\ snoozed = {} /\ clock = 0
    /\ au = [tab |-> FALSE, known |-> FALSE, data |-> [offline |-> {}, other |-> {}], anon |-> FALSE,
             focus |-> [section |-> "none", mac |-> NoFocusMac, nonce |-> 0],
             open |-> [s \in Section |-> FALSE], asked |-> "none"]

AuditNext ==
    \/ AuditChanges \/ Tick \/ setAudit \/ setAuditAnon \/ selectAudit \/ leaveAudit
    \/ bellSection \/ bellOffline
    \/ \E s \in Section : setOpen(s)
    \/ \E k \in AuditKey : Snooze(k) \/ Unsnooze(k)

AuditSpec == AuditInit /\ [][AuditNext]_auditVars

-----------------------------------------------------------------------------
(* While the page shows an audit, every snooze that still runs belongs to  *)
(* a row of it and to no more than one entry: gear that recovered is       *)
(* forgotten whether it did before the page was opened, during it, or      *)
(* under other names, so its next outage rings.                            *)
SnoozesShown ==
    au.tab /\ au.known =>
        \A e, f \in prune(snoozed, clock) : e.key \in showAudit(au) /\ (e.key = f.key => e = f)

(* The section the bell last asked for is open while it has findings,      *)
(* until the visitor closes it: on a page that was open already with the   *)
(* section closed, after the section went and came back, and after the     *)
(* page was left and opened again.                                         *)
AskedOpen == au.asked # "none" /\ counted(au, au.asked) => au.open[au.asked]

(* Snoozes and sections follow the findings: gear that recovered is        *)
(* forgotten, so that its next outage rings, and the section the bell      *)
(* asked for is open.                                                      *)
AuditFollows == SnoozesShown /\ AskedOpen
=============================================================================
