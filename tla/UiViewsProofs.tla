--------------------------- MODULE UiViewsProofs ---------------------------
(***************************************************************************)
(* What holds of the parts of the web user interface that wait for no      *)
(* answer: the form of a rule, the audit, anonymity mode, the navigation,  *)
(* the device table, the pages of the topology and the rack, for any       *)
(* number of devices, tags, networks, switches, ports and units.           *)
(***************************************************************************)
EXTENDS UiNavigation, UiDeviceTable, UiRuleForm, UiAudit, UiAnonymity, UiTopology,
        UiRack, Integers, FiniteSetTheorems, WellFoundedInduction, NaturalsInduction, TLAPS

-----------------------------------------------------------------------------
(* Numbers *)

Below == {p \in Nat \X Nat : p[1] < p[2]}

LEMMA BelowWF == IsWellFoundedOn(Below, Nat)
  BY NatLessThanWellFounded, Zenon DEF OpToRel, Below

(* A set of naturals with a member has a least one. *)
LEMMA LeastNat ==
    ASSUME NEW S \in SUBSET Nat, S # {}
    PROVE  \E i \in S : \A j \in S : i <= j
  <1>1. PICK i \in S : \A j \in S : ~(<<j, i>> \in Below)
    BY BelowWF, WFMin
  <1>2. \A j \in S : <<j, i>> \in Below <=> j < i
    BY DEF Below
  <1>3. \A j \in S : ~(j < i)
    BY <1>1, <1>2, Zenon
  <1>4. \A j \in S : i <= j
    BY <1>3
  <1> QED
    BY <1>4

Recursive(f, N, base, F) == f[0] = base /\ \A n \in 1..N : f[n] = F[<<n, f[n - 1]>>]

(* A function may be defined by recursion over an interval: what F makes   *)
(* of a number and the value before it.                                    *)
LEMMA Recursion ==
    ASSUME NEW N \in Nat, NEW T, NEW base \in T, NEW F \in [(1..N) \X T -> T]
    PROVE  \E f \in [0..N -> T] : Recursive(f, N, base, F)
  <1> USE DEF Recursive
  <1> DEFINE Ok(f, k) == f[0] = base /\ \A n \in 1..k : f[n] = F[<<n, f[n - 1]>>]
             Missing == {k \in 0..N : ~\E f \in [0..k -> T] : Ok(f, k)}
  <1>1. SUFFICES Missing = {}
    <2>1. N \in 0..N
      OBVIOUS
    <2>2. Missing = {} => \E f \in [0..N -> T] : Ok(f, N)
      BY <2>1, Zenon
    <2> QED  BY <2>2, Zenon
  <1>2. SUFFICES ASSUME Missing # {} PROVE FALSE
    OBVIOUS
  <1>3. PICK k \in Missing : \A j \in Missing : k <= j
    <2>1. Missing \in SUBSET Nat
      OBVIOUS
    <2> HIDE DEF Missing
    <2> QED  BY <1>2, <2>1, LeastNat
  <1>4. CASE k = 0
    <2>1. [n \in 0..0 |-> base] \in [0..0 -> T] /\ Ok([n \in 0..0 |-> base], 0)
      OBVIOUS
    <2> QED  BY <1>4, <2>1
  <1>5. CASE k # 0
    <2>1. k - 1 \in 0..N /\ k - 1 \notin Missing /\ k \in 1..N
      BY <1>3, <1>5
    <2>2. PICK f \in [0..k - 1 -> T] : Ok(f, k - 1)
      <3> HIDE DEF Ok
      <3> QED  BY <2>1, Zenon
    <2> DEFINE g == [n \in 0..k |-> IF n = k THEN F[<<k, f[k - 1]>>] ELSE f[n]]
    <2>3. F[<<k, f[k - 1]>>] \in T
      BY <2>1
    <2>4. g \in [0..k -> T]
      BY <2>3, <2>1
    <2>5. Ok(g, k)
      <3>1. \A n \in 0..k - 1 : g[n] = f[n]
        BY <2>1
      <3>2. g[k] = F[<<k, f[k - 1]>>]
        BY <2>1
      <3>3. \A n \in 1..k : n - 1 \in 0..k - 1 /\ (n = k \/ n \in 1..k - 1)
        BY <2>1
      <3>4. 0 \in 0..k - 1 /\ \A n \in 1..k - 1 : n \in 0..k - 1
        BY <2>1
      <3> HIDE DEF g
      <3> QED  BY <2>2, <3>1, <3>2, <3>3, <3>4
    <2> QED  BY <2>4, <2>5, <1>3
  <1> QED  BY <1>4, <1>5

(* Induction over an interval, with the set of the numbers reached. *)
LEMMA IntervalInduction ==
    ASSUME NEW N \in Nat, NEW S, 0 \in S, \A n \in 1..N : n - 1 \in S => n \in S
    PROVE  \A n \in 0..N : n \in S
  <1> DEFINE Missing == {k \in 0..N : k \notin S}
  <1>1. SUFFICES ASSUME Missing # {} PROVE FALSE
    OBVIOUS
  <1>2. PICK k \in Missing : \A j \in Missing : k <= j
    <2>1. Missing \in SUBSET Nat
      OBVIOUS
    <2> HIDE DEF Missing
    <2> QED  BY <1>1, <2>1, LeastNat
  <1>3. k # 0 /\ k \in 1..N /\ k - 1 \in 0..N /\ k - 1 \notin Missing
    BY <1>2
  <1>4. k - 1 \in S
    BY <1>3
  <1> QED  BY <1>2, <1>3, <1>4

-----------------------------------------------------------------------------
(* The form of a rule *)

RfType(r) ==
    r \in [action: CREATE_ACTIONS, direction: {r.direction}, match: MATCH_KINDS, target: MATCH_KINDS \cup {"none"},
           on: {"all", "tag", "device", "custom"}, custom: {"", "mac"}, screen: {"form", "match", "on"} \cup HasScreen,
           apps: BOOLEAN, sent: {r.sent}, last: [match: {r.last.match}, target: {r.last.target}, on: {r.last.on}]]

(* The target is of the kind that is chosen, as is the screen that chooses *)
(* one, and so was the target that was sent.                               *)
RfFits(r) == /\ r.target \in {"none", r.match} /\ (r.screen \in HasScreen => r.match = r.screen)
             /\ r.last.target = r.last.match /\ r.last.on # ""

RfInv == RfType(rf) /\ RfFits(rf)

(* A rule is sent with a target of the kind it names and for the devices   *)
(* that were meant, whichever screens were visited before.                 *)
THEOREM RuleAsMeantHolds == RuleFormSpec => []RuleAsMeant
  <1>1. RuleFormInit => RfInv
    <2> SUFFICES ASSUME NEW apps \in BOOLEAN, NEW custom \in {"", "mac"},
                        rf = [action |-> "allow", direction |-> "outbound", match |-> "dns", target |-> "none",
                              on |-> "all", custom |-> custom, screen |-> "form", apps |-> apps,
                              sent |-> 0, last |-> [match |-> "none", target |-> "none", on |-> "none"]]
                 PROVE  RfInv
      BY DEF RuleFormInit
    <2>1. RfFits(rf)
      BY DEF RfFits, HasScreen
    <2>2. /\ "allow" \in CREATE_ACTIONS /\ "dns" \in MATCH_KINDS /\ "none" \in MATCH_KINDS \cup {"none"}
          /\ "all" \in {"all", "tag", "device", "custom"} /\ "form" \in {"form", "match", "on"} \cup HasScreen
      BY DEF CREATE_ACTIONS, MATCH_KINDS
    <2>3. RfType(rf)
      BY <2>2 DEF RfType
    <2> QED
      BY <2>1, <2>3 DEF RfInv
  <1>2. RfInv /\ [RuleFormNext]_ruleFormVars => RfInv'
    <2> SUFFICES ASSUME RfInv, [RuleFormNext]_ruleFormVars PROVE RfInv'
      OBVIOUS
    <2> USE DEF RfInv, RfFits, RfType
    <2>1. ASSUME NEW a \in CREATE_ACTIONS, onAction(a) PROVE RfInv'
      BY <2>1 DEF onAction
    <2>2. ASSUME NEW d, setDirection(d) PROVE RfInv'
      BY <2>2 DEF setDirection
    <2>3. ASSUME NEW c \in {"match", "on"}, setScreen(c) PROVE RfInv'
      BY <2>3 DEF setScreen, HasScreen
    <2>4. ASSUME NEW m \in MATCH_KINDS, pickMatch(m) PROVE RfInv'
      <3>1. firstTarget(m) \in {"none", m}
        BY DEF firstTarget
      <3> DEFINE scr == IF m \in HasScreen THEN m ELSE "form"
      <3>2. scr \in {"form", "match", "on"} \cup HasScreen /\ (scr \in HasScreen => m = scr)
        BY DEF HasScreen
      <3>3. rf' = [rf EXCEPT !.match = m, !.target = firstTarget(m), !.screen = scr]
        BY <2>4 DEF pickMatch
      <3> HIDE DEF scr
      <3> QED
        BY <3>1, <3>2, <3>3
    <2>5. ASSUME NEW x \in {"none", "dns"}, typeTarget(x) PROVE RfInv'
      <3>1. x \in MATCH_KINDS \cup {"none"}
        BY <2>5 DEF MATCH_KINDS
      <3> QED
        BY <2>5, <3>1 DEF typeTarget
    <2>6. ASSUME NEW o \in {"all", "tag", "device", "custom"}, pickOn(o) PROVE RfInv'
      BY <2>6 DEF pickOn, HasScreen
    <2>7. ASSUME NEW x \in {"", "mac"}, setCustomMac(x) PROVE RfInv'
      BY <2>7 DEF setCustomMac
    <2>8. CASE backToForm
      BY <2>8 DEF backToForm, HasScreen
    <2>9. CASE openTarget
      BY <2>9 DEF openTarget
    <2>10. CASE chooseTarget
      BY <2>10 DEF chooseTarget, HasScreen, MATCH_KINDS
    <2>11. CASE submitForm
      <3>1. rf.target = rf.match /\ scopeValue # ""
        BY <2>11 DEF submitForm, canSubmit
      <3>2. rf' = [rf EXCEPT !.sent = @ + 1, !.last = [match |-> rf.match, target |-> rf.target, on |-> scopeValue]]
        BY <2>11 DEF submitForm
      <3> QED
        BY <3>1, <3>2
    <2>12. CASE UNCHANGED ruleFormVars
      BY <2>12 DEF ruleFormVars
    <2> QED
      BY <2>1, <2>2, <2>3, <2>4, <2>5, <2>6, <2>7, <2>8, <2>9, <2>10, <2>11, <2>12 DEF RuleFormNext
  <1>3. RfInv => RuleAsMeant
    BY DEF RfInv, RfFits, RuleAsMeant, RuleTargetFits, RuleScopeMeant
  <1> QED
    BY <1>1, <1>2, <1>3, PTL DEF RuleFormSpec

-----------------------------------------------------------------------------
(* The audit *)

AuPage(a) ==
    /\ a \in [tab: BOOLEAN, known: BOOLEAN, data: {a.data}, anon: BOOLEAN, focus: {a.focus}, open: {a.open}, asked: {a.asked}]
    /\ a.focus \in [section: {a.focus.section}, mac: {a.focus.mac}, nonce: Nat]
    /\ a.open = [s \in Section |-> a.open[s]]

(* One entry for a key, and its time. *)
AuOnce(s, now) == \A e, f \in prune(s, now) : e.key = f.key => e = f
AuTimes(s) == \A e \in s : e.until \in Nat

(* The snoozes are of rows on display. *)
AuShown(a, s, now) == a.tab /\ a.known => \A e \in prune(s, now) : e.key \in showAudit(a)

(* The section asked for is the one in focus, and is open. *)
AuAsked(a) == a.asked # "none" => /\ a.asked \in Section /\ a.focus.section = a.asked
                                  /\ counted(a, a.asked) => a.open[a.asked]

AuInv == /\ clock \in Nat /\ AuPage(au) /\ AuTimes(snoozed)
         /\ AuOnce(snoozed, clock) /\ AuShown(au, snoozed, clock) /\ AuAsked(au)

LEMMA AuRenders ==
    ASSUME AuInv, NEW b, NEW again \in BOOLEAN, AuPage(b), renders(b, again), clock' = clock,
           b.tab => again \/ ~au.tab \/ (b.known = au.known /\ b.data = au.data /\ b.anon = au.anon),
           b.asked # "none" => /\ b.asked \in Section /\ b.focus.section = b.asked
                               /\ \/ b.focus.nonce # au.focus.nonce
                                  \/ b.asked = au.asked /\ b.focus = au.focus
    PROVE  AuInv'
  <1>1. au' = [b EXCEPT !.open = AuditSection(au, b)]
    BY DEF renders
  <1>2. /\ au'.tab = b.tab /\ au'.known = b.known /\ au'.data = b.data /\ au'.anon = b.anon /\ au'.focus = b.focus
        /\ au'.asked = b.asked /\ au'.open = AuditSection(au, b)
        /\ au' \in [tab: BOOLEAN, known: BOOLEAN, data: {b.data}, anon: BOOLEAN, focus: {b.focus},
                    open: {AuditSection(au, b)}, asked: {b.asked}]
    BY <1>1 DEF AuPage
  <1>3. AuPage(au')
    <2>1. AuditSection(au, b) = [s \in Section |-> AuditSection(au, b)[s]]
      BY DEF AuditSection
    <2> QED
      BY <1>2, <2>1 DEF AuPage
  <1>4. showAudit(au') = showAudit(b) /\ \A s \in Section : counted(au', s) <=> counted(b, s)
    BY <1>2 DEF showAudit, key, counted
  <1>5. snoozed' = IF b.tab /\ b.known /\ (again \/ ~au.tab) THEN syncOfflineSnoozes(snoozed, showAudit(b), clock) ELSE snoozed
    BY DEF renders
  <1>6. /\ prune(snoozed', clock) \subseteq prune(snoozed, clock) /\ snoozed' \subseteq snoozed
        /\ b.tab /\ b.known /\ (again \/ ~au.tab) => \A e \in prune(snoozed', clock) : e.key \in showAudit(b)
    <2> DEFINE live == showAudit(b)
    <2>1. snoozed' \in {snoozed, {e \in prune(snoozed, clock) : e.key \in live}}
      BY <1>5 DEF syncOfflineSnoozes
    <2> HIDE DEF live
    <2>2. prune(snoozed, clock) \subseteq snoozed
      BY DEF prune
    <2>3. prune(snoozed', clock) \subseteq prune(snoozed, clock) /\ snoozed' \subseteq snoozed
      BY <2>1, <2>2 DEF prune
    <2>4. CASE b.tab /\ b.known /\ (again \/ ~au.tab)
      <3>1. snoozed' = syncOfflineSnoozes(snoozed, live, clock)
        BY <1>5, <2>4 DEF live
      <3>2. \A e \in prune(snoozed', clock) : e.key \in live
        BY <3>1 DEF syncOfflineSnoozes, prune
      <3> QED
        BY <2>3, <3>2 DEF live
    <2> QED
      BY <2>3, <2>4
  <1>7. AuTimes(snoozed') /\ AuOnce(snoozed', clock)
    BY <1>6 DEF AuInv, AuTimes, AuOnce
  <1>8. AuShown(au', snoozed', clock)
    <2>1. CASE ~(b.tab /\ b.known)
      BY <1>2, <2>1 DEF AuShown
    <2>2. CASE b.tab /\ b.known /\ (again \/ ~au.tab)
      BY <1>4, <1>6, <2>2 DEF AuShown
    <2>3. CASE b.tab /\ b.known /\ ~again /\ au.tab
      <3>1. au.known /\ showAudit(b) = showAudit(au)
        BY <2>3 DEF showAudit, key
      <3>2. \A e \in prune(snoozed, clock) : e.key \in showAudit(au)
        BY <2>3, <3>1 DEF AuInv, AuShown
      <3> QED
        BY <1>4, <1>6, <3>1, <3>2 DEF AuShown
    <2> QED
      BY <2>1, <2>2, <2>3
  <1>9. AuAsked(au')
    <2> SUFFICES ASSUME b.asked # "none" PROVE /\ b.asked \in Section /\ b.focus.section = b.asked
                                              /\ counted(b, b.asked) => AuditSection(au, b)[b.asked]
      BY <1>2, <1>4 DEF AuAsked
    <2>1. b.asked \in Section /\ b.focus.section = b.asked
      OBVIOUS
    <2>2. ASSUME counted(b, b.asked) PROVE AuditSection(au, b)[b.asked]
      <3>1. AuditSection(au, b)[b.asked] =
              (b.asked \in AuditTab(b) /\ (openEffect(au, b, b.asked)
                  \/ IF counted(au, b.asked) THEN au.open[b.asked] ELSE defaultOpen(b.asked)))
        BY <2>1 DEF AuditSection
      <3>2. b.asked \in AuditTab(b)
        BY <2>1, <2>2 DEF AuditTab
      <3>3. openEffect(au, b, b.asked) \/ (counted(au, b.asked) /\ au.open[b.asked])
        <4>1. CASE b.focus.nonce # au.focus.nonce \/ ~counted(au, b.asked)
          BY <2>1, <4>1 DEF openEffect, focused
        <4>2. CASE b.asked = au.asked /\ b.focus = au.focus /\ counted(au, b.asked)
          BY <4>2 DEF AuInv, AuAsked
        <4> QED
          BY <4>1, <4>2
      <3> QED
        BY <3>1, <3>2, <3>3
    <2> QED
      BY <2>1, <2>2
  <1> QED
    BY <1>3, <1>7, <1>8, <1>9 DEF AuInv

LEMMA AuditInitInv == AuditInit => AuInv
  <1> SUFFICES ASSUME AuditInit PROVE AuInv
    OBVIOUS
  <1>1. snoozed = {} /\ clock = 0 /\ au.tab = FALSE /\ au.asked = "none"
    BY DEF AuditInit
  <1>2. AuPage(au)
    BY DEF AuditInit, AuPage
  <1> QED
    BY <1>1, <1>2 DEF AuInv, AuTimes, AuOnce, AuShown, AuAsked, prune

LEMMA AuditStepInv == AuInv /\ [AuditNext]_auditVars => AuInv'
  <1> SUFFICES ASSUME AuInv, [AuditNext]_auditVars PROVE AuInv'
    OBVIOUS
  <1>0. /\ clock \in Nat /\ AuPage(au) /\ AuTimes(snoozed)
        /\ AuOnce(snoozed, clock) /\ AuShown(au, snoozed, clock) /\ AuAsked(au)
    BY DEF AuInv
  <1>0a. AuPage(au) /\ au.focus.nonce \in Nat
    BY <1>0 DEF AuPage
  <1>1. CASE AuditChanges
    BY <1>0, <1>1 DEF AuditChanges, AuInv
  <1>2. CASE Tick
    <2>1. clock' = clock + 1 /\ snoozed' = snoozed /\ au' = au
      BY <1>2 DEF Tick
    <2>2. prune(snoozed, clock + 1) \subseteq prune(snoozed, clock)
      BY <1>0 DEF prune, AuTimes
    <2>3. AuOnce(snoozed, clock + 1) /\ AuShown(au, snoozed, clock + 1)
      BY <1>0, <2>2 DEF AuOnce, AuShown
    <2> QED
      BY <1>0, <2>1, <2>3 DEF AuInv
  <1>3. CASE setAudit
    <2> DEFINE b == [au EXCEPT !.known = TRUE, !.data = found]
    <2>1. renders(b, TRUE) /\ clock' = clock
      BY <1>3 DEF setAudit
    <2>2. AuPage(b) /\ b.asked = au.asked /\ b.focus = au.focus
      BY <1>0a DEF AuPage
    <2>3. b.asked # "none" => b.asked \in Section /\ b.focus.section = b.asked
      BY <1>0, <2>2 DEF AuAsked
    <2> HIDE DEF b
    <2> QED
      BY <2>1, <2>2, <2>3, AuRenders
  <1>4. CASE setAuditAnon
    <2> DEFINE b == [au EXCEPT !.anon = ~au.anon]
    <2>1. renders(b, TRUE) /\ clock' = clock
      BY <1>4 DEF setAuditAnon
    <2>2. AuPage(b) /\ b.asked = au.asked /\ b.focus = au.focus
      BY <1>0a DEF AuPage
    <2>3. b.asked # "none" => b.asked \in Section /\ b.focus.section = b.asked
      BY <1>0, <2>2 DEF AuAsked
    <2> HIDE DEF b
    <2> QED
      BY <2>1, <2>2, <2>3, AuRenders
  <1>5. CASE selectAudit
    <2> DEFINE b == [au EXCEPT !.tab = TRUE]
    <2>1. renders(b, FALSE) /\ clock' = clock /\ ~au.tab
      BY <1>5 DEF selectAudit
    <2>2. AuPage(b) /\ b.asked = au.asked /\ b.focus = au.focus
      BY <1>0a DEF AuPage
    <2>3. b.asked # "none" => b.asked \in Section /\ b.focus.section = b.asked
      BY <1>0, <2>2 DEF AuAsked
    <2> HIDE DEF b
    <2> QED
      BY <2>1, <2>2, <2>3, AuRenders
  <1>6. CASE leaveAudit
    <2> DEFINE b == [au EXCEPT !.tab = FALSE]
    <2>1. renders(b, FALSE) /\ clock' = clock
      BY <1>6 DEF leaveAudit
    <2>2. AuPage(b) /\ b.asked = au.asked /\ b.focus = au.focus /\ b.tab = FALSE
      BY <1>0a DEF AuPage
    <2>3. b.asked # "none" => b.asked \in Section /\ b.focus.section = b.asked
      BY <1>0, <2>2 DEF AuAsked
    <2> HIDE DEF b
    <2> QED
      BY <2>1, <2>2, <2>3, AuRenders
  <1>7. ASSUME NEW s \in Section, NEW mac, openAudit(s, mac) PROVE AuInv'
    <2> DEFINE b == [au EXCEPT !.tab = TRUE, !.asked = s,
                               !.focus = [section |-> s, mac |-> mac, nonce |-> au.focus.nonce + 1]]
    <2>1. renders(b, FALSE) /\ clock' = clock
      BY <1>7 DEF openAudit
    <2>2. /\ AuPage(b) /\ b.asked = s /\ b.focus.section = s /\ b.focus.nonce = au.focus.nonce + 1
          /\ b.known = au.known /\ b.data = au.data /\ b.anon = au.anon
      <3>1. au.focus.nonce + 1 \in Nat
        BY <1>0a
      <3> QED
        BY <1>0a, <3>1 DEF AuPage
    <2>3. b.focus.nonce # au.focus.nonce
      BY <1>0a, <2>2
    <2> HIDE DEF b
    <2> QED
      BY <2>1, <2>2, <2>3, AuRenders
  <1>8. CASE bellSection \/ bellOffline
    <2>1. \E s \in Section : \E mac : openAudit(s, mac)
      BY <1>8 DEF bellSection, bellOffline, Section
    <2> QED
      BY <1>7, <2>1
  <1>9. ASSUME NEW s \in Section, setOpen(s) PROVE AuInv'
    <2>1. /\ au' = [au EXCEPT !.open = [au.open EXCEPT ![s] = ~au.open[s]], !.asked = IF au.asked = s THEN "none" ELSE au.asked]
          /\ snoozed' = snoozed /\ clock' = clock
      BY <1>0a, <1>9 DEF setOpen, AuPage
    <2>2. /\ AuPage(au') /\ au'.tab = au.tab /\ au'.known = au.known /\ au'.data = au.data /\ au'.anon = au.anon
          /\ au'.focus = au.focus /\ au'.asked = (IF au.asked = s THEN "none" ELSE au.asked)
          /\ \A x \in Section : x # s => au'.open[x] = au.open[x]
      BY <1>0a, <2>1 DEF AuPage
    <2>3. showAudit(au') = showAudit(au) /\ \A x \in Section : counted(au', x) <=> counted(au, x)
      BY <2>2 DEF showAudit, key, counted
    <2>4. AuAsked(au')
      BY <1>0, <2>2, <2>3 DEF AuAsked
    <2>5. AuShown(au', snoozed', clock')
      BY <1>0, <2>1, <2>2, <2>3 DEF AuShown
    <2> QED
      BY <1>0, <2>1, <2>2, <2>4, <2>5 DEF AuInv
  <1>10. ASSUME NEW k \in AuditKey, Snooze(k) \/ Unsnooze(k) PROVE AuInv'
    <2>1. /\ k \in showAudit(au) /\ clock' = clock /\ au' = au
          /\ \E new \in {{}, {[key |-> k, until |-> clock + SnoozeFor]}} :
                snoozed' = {e \in prune(snoozed, clock) : e.key # k} \cup new
      BY <1>10 DEF Snooze, Unsnooze, snoozeOffline, unsnoozeOffline
    <2>2. PICK new \in {{}, {[key |-> k, until |-> clock + SnoozeFor]}} :
                snoozed' = {e \in prune(snoozed, clock) : e.key # k} \cup new
      BY <2>1
    <2>3. \A e \in new : e.key = k /\ e.until \in Nat /\ \A f \in new : e = f
      BY <1>0, AuditAssumption
    <2>4. prune(snoozed, clock) \subseteq snoozed
      BY DEF prune
    <2>5. AuTimes(snoozed')
      BY <1>0, <2>2, <2>3, <2>4 DEF AuTimes
    <2>6. prune(snoozed', clock) \subseteq {e \in prune(snoozed, clock) : e.key # k} \cup new
      BY <2>2 DEF prune
    <2> HIDE DEF prune
    <2>7. AuOnce(snoozed', clock)
      BY <1>0, <2>3, <2>6 DEF AuOnce
    <2>8. AuShown(au, snoozed', clock)
      BY <1>0, <2>1, <2>3, <2>6 DEF AuShown
    <2> QED
      BY <1>0, <2>1, <2>5, <2>7, <2>8 DEF AuInv
  <1>11. CASE UNCHANGED auditVars
    BY <1>0, <1>11 DEF auditVars, AuInv
  <1> QED
    BY <1>1, <1>2, <1>3, <1>4, <1>5, <1>6, <1>8, <1>9, <1>10, <1>11 DEF AuditNext

(* While the page shows an audit, every snooze that runs is of one of its  *)
(* rows, and the section the bell asked for is open while it has findings. *)
THEOREM AuditFollowsHolds == AuditSpec => []AuditFollows
  <1>1. AuInv => AuditFollows
    BY DEF AuInv, AuOnce, AuShown, AuAsked, AuditFollows, SnoozesShown, AskedOpen
  <1> QED
    BY <1>1, AuditInitInv, AuditStepInv, PTL DEF AuditSpec

-----------------------------------------------------------------------------
(* Anonymity mode *)

(* A word has a number that is not taken among one more than are taken. *)
LEMMA NumberFree ==
    ASSUME NEW T, IsFiniteSet(T), NEW w
    PROVE  \E k \in 2..2 + Cardinality(T) : <<w, k>> \notin T
  <1> DEFINE n == Cardinality(T)
  <1>1. n \in Nat
    BY FS_CardinalityType
  <1> HIDE DEF n
  <1>2. IsFiniteSet(2..2 + n) /\ Cardinality(2..2 + n) = n + 1
    BY <1>1, FS_Interval
  <1> SUFFICES ASSUME \A k \in 2..2 + n : <<w, k>> \in T PROVE FALSE
    BY DEF n
  <1> DEFINE f == [k \in 2..2 + n |-> <<w, k>>]
  <1>3. f \in [2..2 + n -> T]
    OBVIOUS
  <1>4. n < Cardinality(2..2 + n)
    BY <1>1, <1>2
  <1>5. \A x, y \in 2..2 + n : f[x] = f[y] => x = y
    OBVIOUS
  <1> HIDE DEF f
  <1>6. \E x, y \in 2..2 + n : x # y /\ f[x] = f[y]
    BY <1>2, <1>3, <1>4, FS_PigeonHole DEF n
  <1> QED
    BY <1>5, <1>6

(* The name given out is not taken. *)
LEMMA FreeIsFree ==
    ASSUME NEW m, NEW kind, IsFiniteSet(m.taken[kind]), NEW W, NEW names \in Seq(W), NEW start
    PROVE  free(m, kind, names, start) \notin m.taken[kind]
  <1> DEFINE n == Len(names)
             at(step) == <<names[1 + ((start + step) % n)], 1>>
             open == {step \in 0..n - 1 : at(step) \notin m.taken[kind]}
             extras == {k \in 2..2 + Cardinality(m.taken[kind]) : <<names[1 + start], k>> \notin m.taken[kind]}
             least(S) == CHOOSE i \in S : \A j \in S : i <= j
  <1>1. free(m, kind, names, start) = IF open # {} THEN at(least(open)) ELSE <<names[1 + start], least(extras)>>
    BY Zenon DEF free
  <1>2. Cardinality(m.taken[kind]) \in Nat
    BY FS_CardinalityType
  <1>3. extras # {} /\ extras \in SUBSET Nat
    <2>1. \E k \in 2..2 + Cardinality(m.taken[kind]) : <<names[1 + start], k>> \notin m.taken[kind]
      BY NumberFree
    <2>2. extras \in SUBSET Nat
      BY <1>2
    <2> QED
      BY <2>1, <2>2, Zenon
  <1>4. open \in SUBSET Nat
    OBVIOUS
  <1>5. \A S \in SUBSET Nat : S # {} => least(S) \in S
    BY LeastNat
  <1>6. open # {} => least(open) \in open
    BY <1>4, <1>5, Zenon
  <1>7. least(extras) \in extras
    BY <1>3, <1>5, Zenon
  <1>8. \A i \in open : at(i) \notin m.taken[kind]
    OBVIOUS
  <1>9. \A i \in extras : <<names[1 + start], i>> \notin m.taken[kind]
    OBVIOUS
  <1> HIDE DEF at, open, extras, least
  <1> QED
    BY <1>1, <1>6, <1>7, <1>8, <1>9

(* The words of the pools. *)
PoolWord == {"iphone", "imac", "family", "core", "poe"}

LEMMA PoolWords ==
    /\ \A k \in NameKind : NAME_POOLS[k] \in Seq(PoolWord)
    /\ \A e \in Entity : switchNamePool(e) \in Seq(PoolWord)
  <1>1. /\ PhoneWords \in Seq(PoolWord) /\ <<"imac">> \in Seq(PoolWord) /\ <<"poe">> \in Seq(PoolWord)
        /\ GroupWords \in Seq(PoolWord) /\ SwitchWords \in Seq(PoolWord)
    BY DEF PhoneWords, GroupWords, SwitchWords, PoolWord
  <1>2. DeviceWords \in Seq(PoolWord) /\ SwitchWords \o <<"poe">> \in Seq(PoolWord)
    BY <1>1 DEF DeviceWords
  <1> QED
    BY <1>1, <1>2 DEF NameKind, NAME_POOLS, switchNamePool

(* A name is asked for with its kind and a pool of words. *)
AnAsks(q) == q.how = "name" => q.kind \in NameKind /\ q.pool \in Seq(PoolWord)

LEMMA AsksFor ==
    ASSUME NEW kind \in NameKind, NEW tag, NEW real
    PROVE  AnAsks(Name(kind, tag, real))
  BY PoolWords DEF AnAsks, Name, NameFrom

LEMMA WalkAsks == \A view \in View, e \in Entity : \A q \in Walk(view, e) : AnAsks(q)
  <1> SUFFICES ASSUME NEW view \in View, NEW e \in Entity, NEW q \in Walk(view, e) PROVE AnAsks(q)
    OBVIOUS
  <1>1. {"phone", "device", "group", "switch"} \subseteq NameKind
    BY DEF NameKind, NAME_POOLS
  <1>2. \A type, os : clientNameKind(type, os) \in NameKind
    BY <1>1 DEF clientNameKind
  <1>3. \A a : AnAsks(Ip(a)) /\ AnAsks(IpAlone(a))
    BY DEF AnAsks, Ip, IpAlone
  <1>4. AnAsks(Hidden) /\ \A toks : AnAsks(rewriteText(toks))
    BY DEF AnAsks, Hidden, rewriteText
  <1>5. \A tag, real : \A kind \in NameKind : AnAsks(Name(kind, tag, real))
    BY AsksFor
  <1>6. switchNamePool(e) \in Seq(PoolWord)
    BY PoolWords
  <1>7. \A real : AnAsks(NameFrom("switch", "", real, switchNamePool(e)))
    BY <1>1, <1>6 DEF AnAsks, NameFrom
  <1> HIDE DEF AnAsks, NameKind
  <1>8. q \in anonymizeDevices(e) \cup anonymizeWireless(e) \cup anonymizeAlarms(e) \cup anonymizeTags(e)
             \cup anonymizeVPN(e) \cup anonymizeTopo(e) \cup fakeFlow(e) \cup anonymizeAudit(e)
             \cup anonymizeControlEvents(e) \cup anonymizeLogLines(e) \cup anonymizePolicies(e) \cup anonymizeFwAppRules(e)
    BY DEF Walk, View, anonymizeDashboard
  <1>9. CASE q \in anonymizeDevices(e)
    BY <1>2, <1>3, <1>5, <1>9 DEF anonymizeDevices
  <1>10. CASE q \in anonymizeWireless(e)
    BY <1>2, <1>3, <1>5, <1>10 DEF anonymizeWireless
  <1>11. CASE q \in anonymizeAlarms(e)
    BY <1>1, <1>3, <1>4, <1>5, <1>11 DEF anonymizeAlarms
  <1>12. CASE q \in anonymizeTags(e)
    BY <1>1, <1>5, <1>12 DEF anonymizeTags
  <1>13. CASE q \in anonymizeVPN(e)
    BY <1>1, <1>3, <1>4, <1>5, <1>13 DEF anonymizeVPN
  <1>14. CASE q \in anonymizeTopo(e)
    BY <1>1, <1>3, <1>5, <1>7, <1>14 DEF anonymizeTopo, fakeSwitch, fakeTree
  <1>15. CASE q \in fakeFlow(e)
    BY <1>2, <1>4, <1>5, <1>15 DEF fakeFlow
  <1>16. CASE q \in anonymizeAudit(e)
    BY <1>1, <1>3, <1>5, <1>16 DEF anonymizeAudit, fakeNameSyncRow
  <1>17. CASE q \in anonymizeControlEvents(e)
    BY <1>1, <1>4, <1>5, <1>17 DEF anonymizeControlEvents
  <1>18. CASE q \in anonymizeLogLines(e) \cup anonymizePolicies(e) \cup anonymizeFwAppRules(e)
    BY <1>4, <1>18 DEF anonymizeLogLines, anonymizePolicies, anonymizeFwAppRules
  <1> QED
    BY <1>8, <1>9, <1>10, <1>11, <1>12, <1>13, <1>14, <1>15, <1>16, <1>17, <1>18

(* What was given out is taken, once in its kind, and is what was shown. *)
AnMemo(m) ==
    /\ m \in [assigned: {m.assigned}, taken: [NameKind -> {m.taken[k] : k \in NameKind}]]
    /\ m.assigned \in [DOMAIN m.assigned -> {m.assigned[x] : x \in DOMAIN m.assigned}]
    /\ \A k \in NameKind : IsFiniteSet(m.taken[k])
    /\ \A x \in DOMAIN m.assigned : x[1] \in NameKind /\ m.assigned[x] \in m.taken[x[1]]
    /\ \A x, y \in DOMAIN m.assigned : x[1] = y[1] /\ m.assigned[x] = m.assigned[y] => x = y
AnSeen(m, s) == \A x \in s : x[1] \in DOMAIN m.assigned /\ x[2] = m.assigned[x[1]]

AnInv == AnMemo(memo) /\ AnSeen(memo, seen)

LEMMA NoMemoFits == AnMemo(NoMemo) /\ AnSeen(NoMemo, {})
  BY FS_EmptySet DEF AnMemo, AnSeen, NoMemo

LEMMA FakeNameKeeps ==
    ASSUME AnInv, NEW q, q.kind \in NameKind, q.pool \in Seq(PoolWord), fakeName(q)
    PROVE  AnInv'
  <1> DEFINE ask == <<q.kind, q.tag, q.real>>
  <1>k. ask[1] = q.kind
    OBVIOUS
  <1>1. CASE ask \in DOMAIN memo.assigned
    <2>1. memo' = memo /\ seen' = seen \cup {<<ask, memo.assigned[ask]>>}
      BY <1>1 DEF fakeName
    <2> HIDE DEF ask
    <2> QED
      BY <1>1, <2>1 DEF AnInv, AnSeen
  <1>2. CASE ask \notin DOMAIN memo.assigned
    <2>1. PICK start \in 0..Len(q.pool) - 1 :
             LET name == free(memo, q.kind, q.pool, start) IN
                /\ memo' = [taken(memo, q.kind, name) EXCEPT !.assigned = [x \in DOMAIN @ \cup {ask} |->
                                                                         IF x = ask THEN name ELSE @[x]]]
                /\ seen' = seen \cup {<<ask, name>>}
      BY <1>2 DEF fakeName
    <2> DEFINE name == free(memo, q.kind, q.pool, start)
    <2>2. name \notin memo.taken[q.kind]
      BY FreeIsFree DEF AnInv, AnMemo
    <2>3. seen' = seen \cup {<<ask, name>>}
      BY <2>1
    <2> DEFINE asg == [x \in DOMAIN memo.assigned \cup {ask} |-> IF x = ask THEN name ELSE memo.assigned[x]]
               tk == [memo.taken EXCEPT ![q.kind] = memo.taken[q.kind] \cup {name}]
    <2> HIDE DEF name, ask
    <2>4. memo' = [assigned |-> asg, taken |-> tk]
      BY <2>1 DEF taken, AnInv, AnMemo, name
    <2>5. /\ \A k \in NameKind : IsFiniteSet(tk[k]) /\ memo.taken[k] \subseteq tk[k]
          /\ name \in tk[q.kind]
      BY FS_AddElement DEF AnInv, AnMemo
    <2>6. /\ DOMAIN asg = DOMAIN memo.assigned \cup {ask} /\ asg[ask] = name
          /\ \A x \in DOMAIN memo.assigned : asg[x] = memo.assigned[x]
      BY <1>2
    <2>7. tk \in [NameKind -> {tk[k] : k \in NameKind}] /\ asg \in [DOMAIN asg -> {asg[x] : x \in DOMAIN asg}]
      BY DEF AnInv, AnMemo
    <2> HIDE DEF asg, tk
    <2>8. AnMemo(memo')
      BY <1>k, <2>2, <2>4, <2>5, <2>6, <2>7 DEF AnInv, AnMemo
    <2>9. AnSeen(memo', seen')
      BY <1>2, <2>3, <2>4, <2>6 DEF AnInv, AnSeen
    <2> QED
      BY <2>8, <2>9 DEF AnInv
  <1> QED
    BY <1>1, <1>2

(* Within a kind a name stands for one original and an original keeps its  *)
(* name until the page is loaded again, in whatever order the pages ask    *)
(* and however far the pool is exhausted.                                  *)
THEOREM NamesApartHolds == AnonSpec => []NamesApart
  <1>1. AnonInit => AnInv
    BY NoMemoFits DEF AnonInit, AnInv
  <1>2. AnInv /\ [AnonNext]_anonVars => AnInv'
    <2> SUFFICES ASSUME AnInv, [AnonNext]_anonVars PROVE AnInv'
      OBVIOUS
    <2>1. ASSUME NEW view \in View, NEW e \in Entity, render(view, e) PROVE AnInv'
      BY <2>1, WalkAsks, FakeNameKeeps DEF render, AnAsks
    <2>2. CASE networkLoaded
      BY <2>2 DEF networkLoaded, AnInv
    <2>3. CASE reloadPage
      BY <2>3, NoMemoFits DEF reloadPage, AnInv
    <2>4. CASE UNCHANGED anonVars
      BY <2>4 DEF anonVars, AnInv
    <2> QED
      BY <2>1, <2>2, <2>3, <2>4 DEF AnonNext
  <1>3. AnInv => NamesApart
    BY DEF AnInv, AnMemo, AnSeen, NamesApart
  <1> QED
    BY <1>1, <1>2, <1>3, PTL DEF AnonSpec

(* The subnets of the LANs hold no interface with a subnet of its own: the *)
(* first interface that holds an address of a LAN is then that LAN.        *)
LansApart == \A i, j \in 1..Len(Lans) :
    Lans[i].host = All /\ Lans[j].blk = Lans[i].blk /\ Lans[j].net = Lans[i].net => Lans[j].host = All

(* An address of a LAN keeps its host inside the shown subnet of the LAN. *)
LEMMA FakeInLan ==
    ASSUME LansApart, networkKnown, NEW i \in 1..Len(Lans), Lans[i].host = All, NEW a, ipInCIDR(a, Lans[i])
    PROVE  fakeIP(a, lanCidrsFromNetwork) = Addr(Lans[i].blk, hash[<<"cidr", Lans[i]>>], a.host)
  <1> DEFINE in == {c \in lanCidrsFromNetwork : ipInCIDR(a, c)}
             first(c) == \A d \in in : \E k \in 1..Len(Lans) : Lans[k] = c /\ \A j \in 1..k - 1 : Lans[j] # d
             lan == CHOOSE c \in in : first(c)
  <1>1. in = {Lans[i]}
    <2>1. Lans[i] \in in
      BY DEF lanCidrsFromNetwork
    <2>2. ASSUME NEW c \in in PROVE c = Lans[i]
      <3>1. PICK j \in 1..Len(Lans) : c = Lans[j]
        BY DEF lanCidrsFromNetwork
      <3>2. a.blk = c.blk /\ a.net = c.net /\ a.blk = Lans[i].blk /\ a.net = Lans[i].net
        BY DEF ipInCIDR
      <3>3. Lans[j].host = All
        BY <3>1, <3>2 DEF LansApart
      <3>4. IsAddr(Lans[i]) /\ IsAddr(Lans[j])
        BY AnonAssumption
      <3> QED
        BY <3>1, <3>2, <3>3, <3>4 DEF IsAddr
    <2> QED
      BY <2>1, <2>2
  <1>2. first(Lans[i])
    <2> DEFINE S == {k \in 1..Len(Lans) : Lans[k] = Lans[i]}
    <2>1. S \in SUBSET Nat /\ S # {}
      OBVIOUS
    <2>2. PICK k \in S : \A j \in S : k <= j
      BY <2>1, LeastNat
    <2>3. \A j \in 1..k - 1 : Lans[j] # Lans[i]
      BY <2>2
    <2> HIDE DEF in
    <2> QED
      BY <1>1, <2>2, <2>3
  <1>3. fakeIP(a, lanCidrsFromNetwork) =
           IF in = {} THEN Single(a) ELSE IF lan.host = All THEN remapV4(a, fakeCIDR(lan)) ELSE fakeCIDR(lan)
    BY Zenon DEF fakeIP
  <1> HIDE DEF in, first
  <1>4. lan = Lans[i]
    BY <1>1, <1>2
  <1> HIDE DEF lan
  <1>5. fakeIP(a, lanCidrsFromNetwork) = remapV4(a, fakeCIDR(Lans[i]))
    BY <1>1, <1>3, <1>4
  <1> QED
    BY <1>5 DEF remapV4, fakeCIDR, fakeNet, Addr

(* Every page but the one of the VPNs gives the networks to fakeIP. *)
AnIp(q, e) == q.how = "ip" => q = Ip(Real[e].ip)

LEMMA WalkIps == \A view \in View \ {"vpn"}, e \in Entity : \A q \in Walk(view, e) : AnIp(q, e)
  <1> SUFFICES ASSUME NEW view \in View \ {"vpn"}, NEW e \in Entity, NEW q \in Walk(view, e) PROVE AnIp(q, e)
    OBVIOUS
  <1>1. AnIp(Hidden, e) /\ AnIp(Ip(Real[e].ip), e) /\ \A toks : AnIp(rewriteText(toks), e)
    BY DEF AnIp, Hidden, rewriteText
  <1>2. \A kind, tag, real, pool : AnIp(NameFrom(kind, tag, real, pool), e)
    BY DEF AnIp, NameFrom
  <1>3. \A kind, tag, real : AnIp(Name(kind, tag, real), e)
    BY <1>2 DEF Name
  <1> HIDE DEF AnIp
  <1>4. q \in anonymizeDevices(e) \cup anonymizeWireless(e) \cup anonymizeAlarms(e) \cup anonymizeTags(e)
             \cup anonymizeTopo(e) \cup fakeFlow(e) \cup anonymizeAudit(e) \cup anonymizeControlEvents(e)
             \cup anonymizeLogLines(e) \cup anonymizePolicies(e) \cup anonymizeFwAppRules(e)
    BY DEF Walk, View, anonymizeDashboard
  <1>5. CASE q \in anonymizeDevices(e) \cup anonymizeWireless(e)
    BY <1>1, <1>3, <1>5, Zenon DEF anonymizeDevices, anonymizeWireless
  <1>6. CASE q \in anonymizeAlarms(e) \cup anonymizeTags(e) \cup fakeFlow(e)
    BY <1>1, <1>3, <1>6, Zenon DEF anonymizeAlarms, anonymizeTags, fakeFlow
  <1>7. CASE q \in anonymizeTopo(e)
    BY <1>1, <1>2, <1>3, <1>7, Zenon DEF anonymizeTopo, fakeSwitch, fakeTree
  <1>8. CASE q \in anonymizeAudit(e)
    <2>1. CASE q \in fakeNameSyncRow(e)
      BY <1>1, <1>3, <2>1, Zenon DEF fakeNameSyncRow
    <2>2. CASE q \notin fakeNameSyncRow(e)
      BY <1>1, <1>3, <1>8, <2>2, Zenon DEF anonymizeAudit
    <2> QED
      BY <2>1, <2>2
  <1>9. CASE q \in anonymizeControlEvents(e)
    BY <1>1, <1>3, <1>9, Zenon DEF anonymizeControlEvents
  <1>10. CASE q \in anonymizeLogLines(e) \cup anonymizePolicies(e) \cup anonymizeFwAppRules(e)
    BY <1>1, <1>10, Zenon DEF anonymizeLogLines, anonymizePolicies, anonymizeFwAppRules
  <1> QED
    BY <1>4, <1>5, <1>6, <1>7, <1>8, <1>9, <1>10

(* Once the networks are known, every page shows a device inside the shown *)
(* subnet of its LAN, and two devices of a LAN stay two addresses.         *)
LEMMA LanIsKept == LansApart => LanKept
  <1> SUFFICES ASSUME LansApart, networkKnown, NEW e \in Entity, NEW i \in 1..Len(Lans),
                      ipInCIDR(Real[e].ip, Lans[i]), Lans[i].host = All
               PROVE  /\ \A view \in View \ {"vpn"} : \A q \in Walk(view, e) : q.how = "ip" =>
                             \E n \in anonymizeNetwork : n = Cidr(Lans[i]) /\ ipInCIDR(q.shown, n.shown)
                      /\ \A d \in Entity : ipInCIDR(Real[d].ip, Lans[i]) /\ Real[d].ip # Real[e].ip =>
                             fakeIP(Real[d].ip, lanCidrsFromNetwork) # fakeIP(Real[e].ip, lanCidrsFromNetwork)
    BY Zenon DEF LanKept
  <1>1. fakeIP(Real[e].ip, lanCidrsFromNetwork) = Addr(Lans[i].blk, hash[<<"cidr", Lans[i]>>], Real[e].ip.host)
    BY FakeInLan
  <1>2. Cidr(Lans[i]) \in anonymizeNetwork /\ Cidr(Lans[i]).shown = Addr(Lans[i].blk, hash[<<"cidr", Lans[i]>>], All)
    BY DEF anonymizeNetwork, lanCidrsFromNetwork, Cidr, fakeCIDR, fakeNet
  <1>3. Ip(Real[e].ip).shown = fakeIP(Real[e].ip, lanCidrsFromNetwork)
    BY DEF Ip
  <1>4. ipInCIDR(Ip(Real[e].ip).shown, Cidr(Lans[i]).shown)
    BY <1>1, <1>2, <1>3 DEF ipInCIDR, Addr
  <1>5. ASSUME NEW d \in Entity, ipInCIDR(Real[d].ip, Lans[i]), Real[d].ip # Real[e].ip
        PROVE  fakeIP(Real[d].ip, lanCidrsFromNetwork) # fakeIP(Real[e].ip, lanCidrsFromNetwork)
    <2>1. fakeIP(Real[d].ip, lanCidrsFromNetwork) = Addr(Lans[i].blk, hash[<<"cidr", Lans[i]>>], Real[d].ip.host)
      BY <1>5, FakeInLan
    <2>2. Real[d].ip.host # Real[e].ip.host
      BY <1>5, AnonAssumption DEF ipInCIDR, IsAddr
    <2> QED
      BY <1>1, <2>1, <2>2 DEF Addr
  <1>6. ASSUME NEW view \in View \ {"vpn"}, NEW q \in Walk(view, e), q.how = "ip"
        PROVE  \E n \in anonymizeNetwork : n = Cidr(Lans[i]) /\ ipInCIDR(q.shown, n.shown)
    <2>1. q = Ip(Real[e].ip)
      BY <1>6, WalkIps DEF AnIp
    <2> QED
      BY <1>2, <1>4, <2>1
  <1> QED
    BY <1>5, <1>6

(* Under anonymity names stay apart, and addresses stay apart and in the   *)
(* shown subnet of their LAN, when no LAN holds an interface of its own    *)
(* subnet.                                                                 *)
THEOREM AliasesSoundHolds == LansApart => (AnonSpec => []AliasesSound)
  <1> SUFFICES ASSUME LansApart PROVE AnonSpec => []AliasesSound
    OBVIOUS
  <1>1. NamesApart => AliasesSound
    BY LanIsKept DEF AliasesSound
  <1> QED
    BY <1>1, NamesApartHolds, PTL

-----------------------------------------------------------------------------
(* The navigation *)

Kinds == {"tab", "device", "region", "ap", "ssid", "lan", "group", "ports", "topo-switch"}
Modes == {"real", "fake"}
Left == [pos : Int, view : Int, seen : BOOLEAN]
Frames == [kind : Kinds, id : NTABS \cup Kinds \cup Modes, label : Modes \cup {"none"}, left : Left]

(* The stacks that come about: a tab; at most one page of it; the table of *)
(* devices; a device, which covers all and is covered by none.             *)
TabUnder(k) == CASE k = "region" -> "metrics" [] k = "topo-switch" -> "topology" [] OTHER -> "wireless"
Placed(s, i) ==
    /\ s[i].kind = "tab" => i = 1
    /\ s[i].kind \in {"region", "ap", "ssid", "topo-switch"} => i = 2 /\ s[1].id = TabUnder(s[i].kind)
    /\ s[i].kind \in {"region", "ap", "ssid", "lan", "group", "ports"} =>
           \A k \in DOMAIN s : k > i => s[k].kind = "device"
    /\ s[i].kind = "device" => i = Len(s)
Shape(s) ==
    /\ s \in Seq(Frames) /\ s # <<>>
    /\ s[1].kind = "tab" /\ s[1].id \in NTABS /\ s[1].label = "none"
    /\ \A i \in DOMAIN s : Placed(s, i)

(* What the stack remembers of a place is what App has stored for it. *)
KeyTo(s, i) == navigationKey(SubSeq(s, 1, i))
LeftStored(s, p, v) ==
    \A i \in 1 .. Len(s) - 1 : s[i].left.seen =>
        /\ lookup(p, KeyTo(s, i)) = s[i].left.pos
        /\ lookup(v, KeyTo(s, i)) = s[i].left.view
ViewStored == lookup(viewStates, navigationKey(nv.stack)) = nv.view

-----------------------------------------------------------------------------
LEMMA StoreLookup ==
    ASSUME NEW m, NEW k, NEW v \in Int, NEW x
    PROVE  lookup(store(m, k, v), x) = IF x = k THEN v ELSE lookup(m, x)
  <1> DEFINE D == (DOMAIN m \cup {k}) \ (IF v = 0 THEN {k} ELSE {})
  <1>1. store(m, k, v) = [y \in D |-> IF y = k THEN v ELSE m[y]]
    BY DEF store
  <1>2. DOMAIN store(m, k, v) = D /\ \A y \in D : store(m, k, v)[y] = IF y = k THEN v ELSE m[y]
    BY <1>1
  <1>3. CASE x = k
    <2>1. v # 0 => x \in D
      BY <1>3
    <2>2. v = 0 => x \notin D
      BY <1>3
    <2> HIDE DEF D
    <2> QED  BY <1>2, <1>3, <2>1, <2>2 DEF lookup
  <1>4. CASE x # k
    <2>1. x \in D <=> x \in DOMAIN m
      BY <1>4
    <2> HIDE DEF D
    <2> QED  BY <1>2, <1>4, <2>1 DEF lookup
  <1> QED  BY <1>3, <1>4

(* Every value a map of positions or views holds is a number. *)
Numbers(m) == \A k \in DOMAIN m : m[k] \in Int

LEMMA LookupNumber ==
    ASSUME NEW m, Numbers(m), NEW k
    PROVE  lookup(m, k) \in Int
  BY DEF Numbers, lookup

LEMMA StoreNumbers ==
    ASSUME NEW m, Numbers(m), NEW k, NEW v \in Int
    PROVE  Numbers(store(m, k, v))
  <1> DEFINE D == (DOMAIN m \cup {k}) \ (IF v = 0 THEN {k} ELSE {})
  <1>1. store(m, k, v) = [y \in D |-> IF y = k THEN v ELSE m[y]]
    BY DEF store
  <1>2. \A y \in D : y = k \/ y \in DOMAIN m
    OBVIOUS
  <1> HIDE DEF D
  <1> QED  BY <1>1, <1>2 DEF Numbers

LEMMA NothingNumbers == Numbers(Nothing)
  BY DEF Numbers, Nothing

LEMMA KeyToIs ==
    ASSUME NEW s \in Seq(Frames), NEW i \in 0..Len(s)
    PROVE  /\ KeyTo(s, i) = [k \in 1..i |-> <<s[k].kind, s[k].id>>]
           /\ SubSeq(s, 1, i) \in Seq(Frames) /\ Len(SubSeq(s, 1, i)) = i
           /\ \A k \in 1..i : SubSeq(s, 1, i)[k] = s[k]
  <1>1. SubSeq(s, 1, i) = [k \in 1..i |-> s[k]]
    OBVIOUS
  <1>2. Len(s) \in Nat /\ \A k \in 1..i : s[k] \in Frames
    OBVIOUS
  <1>3. SubSeq(s, 1, i) \in Seq(Frames) /\ Len(SubSeq(s, 1, i)) = i
    BY <1>1, <1>2
  <1>4. DOMAIN SubSeq(s, 1, i) = 1..i
    BY <1>1
  <1> QED  BY <1>1, <1>3, <1>4 DEF KeyTo, navigationKey

LEMMA KeyAll ==
    ASSUME NEW s \in Seq(Frames)
    PROVE  navigationKey(s) = KeyTo(s, Len(s))
  <1>1. Len(s) \in 0..Len(s) /\ DOMAIN s = 1..Len(s)
    OBVIOUS
  <1> QED  BY <1>1, KeyToIs DEF navigationKey

(* Keys of stacks of different lengths differ. *)
LEMMA KeysApart ==
    ASSUME NEW s \in Seq(Frames), NEW t \in Seq(Frames), NEW i \in 0..Len(s), NEW k \in 0..Len(t),
           KeyTo(s, i) = KeyTo(t, k)
    PROVE  i = k
  <1>1. DOMAIN KeyTo(s, i) = 1..i /\ DOMAIN KeyTo(t, k) = 1..k
    BY KeyToIs
  <1>2. 1..i = 1..k
    BY <1>1
  <1>3. i \in Nat /\ k \in Nat
    OBVIOUS
  <1> QED  BY <1>2, <1>3

(* Stacks alike up to a place have the same key there. *)
LEMMA KeyAlike ==
    ASSUME NEW s \in Seq(Frames), NEW t \in Seq(Frames), NEW i \in 0..Len(s), i <= Len(t),
           \A k \in 1..i : s[k].kind = t[k].kind /\ s[k].id = t[k].id
    PROVE  KeyTo(s, i) = KeyTo(t, i)
  <1>1. i \in 0..Len(t)
    OBVIOUS
  <1>2. KeyTo(s, i) = [k \in 1..i |-> <<s[k].kind, s[k].id>>]
    BY KeyToIs
  <1>3. KeyTo(t, i) = [k \in 1..i |-> <<t[k].kind, t[k].id>>]
    BY <1>1, KeyToIs
  <1> QED  BY <1>2, <1>3
-----------------------------------------------------------------------------
(* Covering changes nothing but what is remembered. *)
LEMMA CoveringIs ==
    ASSUME NEW s \in Seq(Frames), nv.pos \in Int, nv.view \in Int
    PROVE  /\ Covering(s) \in Seq(Frames) /\ Len(Covering(s)) = Len(s) /\ DOMAIN Covering(s) = DOMAIN s
           /\ \A i \in DOMAIN s :
                /\ Covering(s)[i].kind = s[i].kind /\ Covering(s)[i].id = s[i].id
                /\ Covering(s)[i].label = s[i].label
                /\ IF i < Len(s) /\ KeyTo(s, i) = navigationKey(nv.stack)
                   THEN Covering(s)[i].left = [pos |-> nv.pos, view |-> nv.view, seen |-> TRUE]
                   ELSE Covering(s)[i].left = s[i].left
           /\ \A i \in 0..Len(s) : KeyTo(Covering(s), i) = KeyTo(s, i)
  <1> DEFINE now == [pos |-> nv.pos, view |-> nv.view, seen |-> TRUE]
             c == Covering(s)
             C(i) == i < Len(s) /\ KeyTo(s, i) = navigationKey(nv.stack)
  <1>1. c = [i \in DOMAIN s |-> IF C(i) THEN [s[i] EXCEPT !.left = now] ELSE s[i]]
    BY DEF Covering, KeyTo
  <1>2. now \in Left
    BY DEF Left
  <1> HIDE DEF now, c, C
  <1>3. ASSUME NEW i \in DOMAIN s
        PROVE  /\ c[i] \in Frames /\ c[i].kind = s[i].kind /\ c[i].id = s[i].id /\ c[i].label = s[i].label
               /\ c[i].left = IF C(i) THEN now ELSE s[i].left
    <2>1. c[i] = IF C(i) THEN [s[i] EXCEPT !.left = now] ELSE s[i]
      BY <1>1
    <2>2. s[i] \in Frames
      OBVIOUS
    <2>3. CASE C(i)
      BY <1>2, <2>1, <2>2, <2>3 DEF Frames
    <2>4. CASE ~C(i)
      BY <2>1, <2>2, <2>4
    <2> QED  BY <2>3, <2>4
  <1>4. DOMAIN s = 1..Len(s) /\ Len(s) \in Nat /\ DOMAIN c = DOMAIN s
    BY <1>1
  <1>5. c = [i \in 1..Len(s) |-> c[i]]
    BY <1>1, <1>4
  <1>6. c \in Seq(Frames) /\ Len(c) = Len(s)
    BY <1>3, <1>4, <1>5
  <1>7. ASSUME NEW i \in 0..Len(s) PROVE KeyTo(c, i) = KeyTo(s, i)
    <2>1. i \in 0..Len(c) /\ i <= Len(s) /\ \A k \in 1..i : k \in DOMAIN s
      BY <1>4, <1>6
    <2> QED  BY <1>3, <1>6, <2>1, KeyAlike
  <1> QED  BY <1>3, <1>4, <1>6, <1>7 DEF C, now, c

-----------------------------------------------------------------------------
NavType ==
    /\ nv \in [stack : Seq(Frames), mode : Modes, pos : Int, view : Int, marks : Int,
               focus : Modes \cup {"none"}]
    /\ Numbers(posn) /\ Numbers(viewStates)

NavInv == NavType /\ Shape(nv.stack) /\ FramesOwnMode /\ LeftStored(nv.stack, posn, viewStates) /\ ViewStored

(* What a stack keeps of the one before it. *)
Retains(s) ==
    \A i \in 1 .. Len(s) - 1 : s[i].left.seen =>
        i <= Len(nv.stack) /\ s[i].left = nv.stack[i].left /\ KeyTo(s, i) = KeyTo(nv.stack, i)

LEMMA StackSet ==
    ASSUME NavInv, NEW s, Shape(s), Retains(s), NEW views, NEW n,
           n \in [stack : Seq(Frames), mode : Modes, pos : Int, view : Int, marks : Int,
                  focus : Modes \cup {"none"}],
           n.focus \in {"none", n.mode}, \A i \in DOMAIN s : s[i].label \in {"none", n.mode},
           views = viewStates
             \/ (views = Nothing /\ Len(s) = 1 /\ navigationKey(s) # navigationKey(nv.stack)),
           setStack(s, views, n)
    PROVE  NavInv'
  <1> DEFINE old == nv.stack
             c == Covering(s)
             sc == useNavigationScroll(old, s)
             place == navigationKey(s)
             same == place = navigationKey(old)
             w == IF same THEN nv.view ELSE lookup(views, place)
  <1>1. /\ s \in Seq(Frames) /\ old \in Seq(Frames) /\ nv.pos \in Int /\ nv.view \in Int
        /\ Numbers(posn) /\ Numbers(viewStates) /\ s # <<>>
    BY DEF NavInv, NavType, Shape
  <1>2. /\ posn' = sc.posn /\ viewStates' = views
        /\ nv' = [n EXCEPT !.stack = c, !.pos = sc.pos, !.view = w]
    BY DEF setStack
  <1>3. /\ c \in Seq(Frames) /\ Len(c) = Len(s) /\ DOMAIN c = DOMAIN s
        /\ \A i \in DOMAIN s :
             /\ c[i].kind = s[i].kind /\ c[i].id = s[i].id /\ c[i].label = s[i].label
             /\ IF i < Len(s) /\ KeyTo(s, i) = navigationKey(old)
                THEN c[i].left = [pos |-> nv.pos, view |-> nv.view, seen |-> TRUE]
                ELSE c[i].left = s[i].left
        /\ \A i \in 0..Len(s) : KeyTo(c, i) = KeyTo(s, i)
    BY <1>1, CoveringIs
  <1>4. Len(s) \in Nat \ {0} /\ DOMAIN s = 1..Len(s) /\ Len(old) \in Nat
    BY <1>1
  <1>5. Numbers(views)
    BY <1>1, NothingNumbers
  <1>6. w \in Int
    BY <1>1, <1>5, LookupNumber
  <1> DEFINE saved == store(posn, navigationKey(old), nv.pos)
             back == isNavigationReturn(old, s)
  <1>7. sc = IF same /\ Len(s) > 1 THEN [posn |-> posn, pos |-> nv.pos]
             ELSE [posn |-> IF Len(s) = 1 /\ ~back THEN Nothing ELSE saved,
                   pos |-> IF back THEN lookup(saved, place) ELSE 0]
    BY DEF useNavigationScroll
  <1>8. Numbers(saved)
    BY <1>1, StoreNumbers
  <1>9. sc.posn \in {posn, saved, Nothing} /\ sc.pos \in Int /\ (Len(s) > 1 => sc.posn = IF same THEN posn ELSE saved)
    <2>1. lookup(saved, place) \in Int
      BY <1>8, LookupNumber
    <2> HIDE DEF same, back, saved, place, sc
    <2> QED  BY <1>1, <1>4, <1>7, <2>1
  <1>10. Numbers(posn') /\ Numbers(viewStates')
    BY <1>1, <1>2, <1>5, <1>8, <1>9, NothingNumbers
  <1>11. /\ nv' \in [stack : Seq(Frames), mode : Modes, pos : Int, view : Int, marks : Int,
                     focus : Modes \cup {"none"}]
         /\ nv'.stack = c /\ nv'.view = w /\ nv'.mode = n.mode /\ nv'.focus = n.focus /\ nv'.pos = sc.pos
    <2> HIDE DEF sc, w, c
    <2> QED  BY <1>2, <1>3, <1>6, <1>9
  <1>12. NavType'
    BY <1>10, <1>11 DEF NavType
  <1> HIDE DEF c, sc, w
  <1>13. Shape(nv'.stack)
    <2>1. c # <<>> /\ c[1].kind = "tab" /\ c[1].id \in NTABS /\ c[1].label = "none"
      <3>1. 1 \in DOMAIN s /\ Len(c) # 0
        BY <1>3, <1>4
      <3>2. c # <<>>
        BY <3>1
      <3> QED  BY <1>3, <3>1, <3>2 DEF Shape
    <2>2. \A i \in DOMAIN c : c[i].kind = s[i].kind /\ c[1].id = s[1].id
      BY <1>3, <1>4
    <2>3. ASSUME NEW i \in DOMAIN c PROVE Placed(c, i)
      <3>1. Placed(s, i)
        BY <1>3 DEF Shape
      <3> QED  BY <1>3, <2>2, <3>1 DEF Placed
    <2> QED  BY <1>3, <1>11, <2>1, <2>3 DEF Shape
  <1>14. FramesOwnMode'
    BY <1>3, <1>11 DEF FramesOwnMode
  <1>15. place = KeyTo(s, Len(s)) /\ navigationKey(old) = KeyTo(old, Len(old)) /\ navigationKey(c) = place
    <2>1. navigationKey(c) = KeyTo(c, Len(c)) /\ Len(s) \in 0..Len(s)
      BY <1>3, <1>4, KeyAll
    <2> QED  BY <1>1, <1>3, <2>1, KeyAll
  <1>16. ViewStored'
    <2>1. lookup(viewStates, navigationKey(old)) = nv.view
      BY DEF NavInv, ViewStored
    <2>2. lookup(views, place) = w
      BY <2>1 DEF w
    <2> QED  BY <1>2, <1>11, <1>15, <2>2 DEF ViewStored
  <1>17. LeftStored(c, posn', views)
    <2> SUFFICES ASSUME NEW i \in 1 .. Len(c) - 1, c[i].left.seen
                 PROVE  /\ lookup(posn', KeyTo(c, i)) = c[i].left.pos
                        /\ lookup(views, KeyTo(c, i)) = c[i].left.view
      BY DEF LeftStored
    <2>1. /\ i \in DOMAIN s /\ i < Len(s) /\ Len(s) > 1 /\ i \in 0..Len(s) /\ i \in 1 .. Len(s) - 1
          /\ Len(s) # 1
      BY <1>3, <1>4
    <2>2. views = viewStates /\ posn' = IF same THEN posn ELSE saved
      BY <1>2, <1>9, <2>1
    <2>3. KeyTo(c, i) = KeyTo(s, i)
      BY <1>3, <2>1
    <2>4. CASE KeyTo(s, i) = navigationKey(old)
      <3>1. c[i].left = [pos |-> nv.pos, view |-> nv.view, seen |-> TRUE]
        BY <1>3, <2>1, <2>4
      <3>2. ~same
        <4>1. ASSUME same PROVE FALSE
          <5>1. KeyTo(s, i) = KeyTo(s, Len(s))
            BY <1>15, <2>4, <4>1
          <5>2. Len(s) \in 0..Len(s)
            BY <1>4
          <5>3. i = Len(s)
            BY <1>1, <2>1, <5>1, <5>2, KeysApart
          <5> QED  BY <2>1, <5>3
        <4> QED  BY <4>1
      <3>3. lookup(saved, KeyTo(s, i)) = nv.pos
        BY <1>1, <2>4, StoreLookup
      <3>4. lookup(viewStates, KeyTo(s, i)) = nv.view
        BY <2>4 DEF NavInv, ViewStored
      <3> QED  BY <2>2, <2>3, <3>1, <3>2, <3>3, <3>4
    <2>5. CASE KeyTo(s, i) # navigationKey(old)
      <3>1. c[i].left = s[i].left
        BY <1>3, <2>1, <2>5
      <3>2. i <= Len(old) /\ s[i].left = old[i].left /\ KeyTo(s, i) = KeyTo(old, i)
        BY <2>1, <3>1 DEF Retains
      <3>3. i # Len(old)
        BY <1>15, <2>5, <3>2
      <3>4. i \in 1 .. Len(old) - 1
        BY <1>4, <2>1, <3>2, <3>3
      <3>5. /\ lookup(posn, KeyTo(old, i)) = old[i].left.pos
            /\ lookup(viewStates, KeyTo(old, i)) = old[i].left.view
        BY <3>1, <3>2, <3>4 DEF NavInv, LeftStored
      <3>6. lookup(saved, KeyTo(s, i)) = lookup(posn, KeyTo(s, i))
        BY <1>1, <2>5, StoreLookup
      <3> QED  BY <2>2, <2>3, <3>1, <3>2, <3>5, <3>6
    <2> QED  BY <2>4, <2>5
  <1> QED  BY <1>2, <1>11, <1>12, <1>13, <1>14, <1>16, <1>17 DEF NavInv

-----------------------------------------------------------------------------
(* What filtering keeps, where the frames it drops are the last. *)
LEMMA WithoutIs ==
    ASSUME NEW s \in Seq(Frames), NEW kinds, NEW k \in 0..Len(s),
           \A i \in 1..k : s[i].kind \notin kinds,
           \A i \in k + 1 .. Len(s) : s[i].kind \in kinds
    PROVE  without(s, kinds) = SubSeq(s, 1, k)
  <1> DEFINE N == Len(s)
             Def(p) == [n \in 0..N |->
                          IF n = 0 THEN <<>>
                          ELSE IF s[n].kind \in kinds THEN p[n - 1] ELSE Append(p[n - 1], s[n])]
             f == [n \in 0..N |-> SubSeq(s, 1, IF n <= k THEN n ELSE k)]
             g == CHOOSE p : p = Def(p)
  <1>1. N \in Nat /\ k \in Nat /\ k <= N
    OBVIOUS
  <1>2. ASSUME NEW n \in 1..N
        PROVE  f[n] = IF s[n].kind \in kinds THEN f[n - 1] ELSE Append(f[n - 1], s[n])
    <2>1. n - 1 \in 0..N /\ n \in 0..N
      BY <1>1
    <2>2. CASE n <= k
      <3>1. s[n].kind \notin kinds
        BY <1>1, <2>2
      <3>2. f[n] = SubSeq(s, 1, n) /\ f[n - 1] = SubSeq(s, 1, n - 1)
        BY <1>1, <2>1, <2>2
      <3>3. SubSeq(s, 1, n) = Append(SubSeq(s, 1, n - 1), s[n])
        BY <1>1
      <3> HIDE DEF f
      <3> QED  BY <3>1, <3>2, <3>3
    <2>3. CASE ~(n <= k)
      <3>1. s[n].kind \in kinds
        BY <1>1, <2>3
      <3>2. f[n] = SubSeq(s, 1, k)
        BY <1>1, <2>1, <2>3
      <3>3. f[n - 1] = SubSeq(s, 1, k)
        BY <1>1, <2>1, <2>3
      <3> HIDE DEF f
      <3> QED  BY <3>1, <3>2, <3>3
    <2> QED  BY <2>2, <2>3
  <1>3. f[0] = <<>>
    <2>1. f[0] = SubSeq(s, 1, 0)
      BY <1>1
    <2> HIDE DEF f
    <2> QED  BY <2>1
  <1>4. f = Def(f)
    <2>1. DOMAIN f = 0..N /\ f = [n \in 0..N |-> f[n]]
      OBVIOUS
    <2> HIDE DEF f
    <2>2. \A n \in 0..N : n = 0 \/ n \in 1..N
      BY <1>1
    <2>3. \A n \in 0..N : f[n] = Def(f)[n]
      BY <1>2, <1>3, <2>2
    <2>4. DOMAIN Def(f) = 0..N
      OBVIOUS
    <2> QED  BY <2>1, <2>3, <2>4
  <1>5. g = Def(g)
    <2> HIDE DEF Def, f
    <2> QED  BY <1>4
  <1>6. g[0] = <<>> /\ \A n \in 1..N : g[n] = IF s[n].kind \in kinds THEN g[n - 1] ELSE Append(g[n - 1], s[n])
    <2> HIDE DEF g, N
    <2>1. 0 \in 0..N /\ \A n \in 1..N : n \in 0..N /\ n # 0
      BY <1>1
    <2> QED  BY <1>5, <2>1
  <1>7. \A n \in 0..N : n \in {m \in 0..N : g[m] = f[m]}
    <2> DEFINE S == {m \in 0..N : g[m] = f[m]}
    <2>1. 0 \in S
      <3> HIDE DEF g, f
      <3> QED  BY <1>1, <1>3, <1>6
    <2>2. ASSUME NEW n \in 1..N, n - 1 \in S PROVE n \in S
      <3> HIDE DEF g, f
      <3> QED  BY <1>1, <1>2, <1>6, <2>2
    <2> HIDE DEF S, N
    <2>3. \A n \in 0..N : n \in S
      BY <1>1, <2>1, <2>2, IntervalInduction
    <2> QED  BY <2>3 DEF S
  <1>8. g[N] = f[N]
    <2> HIDE DEF g, f
    <2> QED  BY <1>1, <1>7
  <1>9. f[N] = SubSeq(s, 1, k)
    <2>1. N \in 0..N /\ (N <= k => N = k)
      BY <1>1
    <2> QED  BY <2>1
  <1>10. without(s, kinds) = g[N]
    BY DEF without
  <1> QED
    <2> HIDE DEF g, f
    <2> QED  BY <1>8, <1>9, <1>10

-----------------------------------------------------------------------------
(* The shapes that links build *)

(* A frame of the page on display. *)
New(f) == f \in Frames /\ ~f.left.seen /\ f.label \in {"none", nv.mode}

LEMMA NewFrames ==
    ASSUME NavInv
    PROVE  /\ \A t \in NTABS : New(TabFrame(t)) /\ TabFrame(t).kind = "tab" /\ TabFrame(t).id = t
                               /\ TabFrame(t).label = "none"
           /\ \A k \in Kinds : New(Frame(k)) /\ Frame(k).kind = k
  <1>1. nv.mode \in Modes /\ NotLeft \in Left /\ ~NotLeft.seen
    BY DEF NavInv, NavType, NotLeft, Left
  <1>2. \A t \in NTABS : New(TabFrame(t)) /\ TabFrame(t).kind = "tab" /\ TabFrame(t).id = t
                          /\ TabFrame(t).label = "none"
    <2> SUFFICES ASSUME NEW t \in NTABS
                 PROVE  New(TabFrame(t)) /\ TabFrame(t).kind = "tab" /\ TabFrame(t).id = t
                          /\ TabFrame(t).label = "none"
      OBVIOUS
    <2>1. "tab" \in Kinds /\ "none" \in Modes \cup {"none"}
      BY DEF Kinds
    <2> QED  BY <1>1, <2>1 DEF New, TabFrame, Frames
  <1>3. \A k \in Kinds : New(Frame(k)) /\ Frame(k).kind = k
    BY <1>1 DEF New, Frame, Frames
  <1> QED  BY <1>2, <1>3

LEMMA OneFrame ==
    ASSUME NavInv, NEW t \in NTABS
    PROVE  /\ Shape(<<TabFrame(t)>>) /\ Retains(<<TabFrame(t)>>)
           /\ \A i \in DOMAIN <<TabFrame(t)>> : <<TabFrame(t)>>[i].label = "none"
  <1> DEFINE f == TabFrame(t)
             s == <<f>>
  <1>1. f \in Frames /\ f.kind = "tab" /\ f.id = t /\ f.label = "none"
    BY NewFrames DEF New
  <1> HIDE DEF f
  <1>2. s \in Seq(Frames) /\ s # <<>> /\ Len(s) = 1 /\ DOMAIN s = {1} /\ s[1] = f
    BY <1>1
  <1> HIDE DEF s
  <1>3. Placed(s, 1)
    BY <1>1, <1>2 DEF Placed
  <1>4. Shape(s)
    BY <1>1, <1>2, <1>3 DEF Shape
  <1>5. Retains(s)
    BY <1>2 DEF Retains
  <1> QED  BY <1>1, <1>2, <1>4, <1>5 DEF s, f

LEMMA TwoFrames ==
    ASSUME NavInv, NEW t \in NTABS, NEW f, New(f), f.kind # "tab",
           f.kind \in {"region", "ap", "ssid", "topo-switch"} => t = TabUnder(f.kind)
    PROVE  /\ Shape(<<TabFrame(t), f>>) /\ Retains(<<TabFrame(t), f>>)
           /\ \A i \in DOMAIN <<TabFrame(t), f>> : <<TabFrame(t), f>>[i].label \in {"none", nv.mode}
  <1> DEFINE e == TabFrame(t)
             s == <<e, f>>
  <1>1. New(e) /\ e.kind = "tab" /\ e.id = t /\ e.label = "none" /\ f \in Frames /\ e \in Frames /\ ~e.left.seen
    BY NewFrames DEF New
  <1> HIDE DEF e
  <1>2. s \in Seq(Frames) /\ s # <<>> /\ Len(s) = 2 /\ DOMAIN s = {1, 2} /\ s[1] = e /\ s[2] = f
    BY <1>1
  <1> HIDE DEF s
  <1>3. Placed(s, 1) /\ Placed(s, 2)
    BY <1>1, <1>2 DEF Placed
  <1>4. Shape(s)
    BY <1>1, <1>2, <1>3 DEF Shape
  <1>5. Retains(s)
    BY <1>1, <1>2 DEF Retains
  <1> QED  BY <1>1, <1>2, <1>4, <1>5 DEF s, e, New

LEMMA ThreeFrames ==
    ASSUME NavInv, NEW f \in Frames, f.kind = "topo-switch", f.label \in {"none", nv.mode},
           ~f.left.seen \/ (2 <= Len(nv.stack) /\ f = nv.stack[2] /\ nv.stack[1].id = "topology")
    PROVE  LET s == <<TabFrame("topology"), f, Frame("ports")>>
           IN  Shape(s) /\ Retains(s) /\ \A i \in DOMAIN s : s[i].label \in {"none", nv.mode}
  <1> DEFINE e == TabFrame("topology")
             p == Frame("ports")
             s == <<e, f, p>>
  <1>1. e.kind = "tab" /\ e.id = "topology" /\ e.label = "none" /\ e \in Frames /\ ~e.left.seen /\ "topology" \in NTABS
    BY NewFrames DEF New, NTABS
  <1>2. p.kind = "ports" /\ New(p)
    BY NewFrames DEF Kinds
  <1> HIDE DEF e, p
  <1>3. p \in Frames /\ ~p.left.seen /\ p.label \in {"none", nv.mode}
    BY <1>2 DEF New
  <1>4. s \in Seq(Frames) /\ s # <<>> /\ Len(s) = 3 /\ DOMAIN s = {1, 2, 3} /\ s[1] = e /\ s[2] = f /\ s[3] = p
    BY <1>1, <1>3
  <1> HIDE DEF s
  <1>5. Placed(s, 1) /\ Placed(s, 2) /\ Placed(s, 3)
    BY <1>1, <1>2, <1>4 DEF Placed, TabUnder
  <1>6. Shape(s)
    BY <1>1, <1>4, <1>5 DEF Shape
  <1>7. Retains(s)
    <2>0. Len(s) - 1 = 2
      BY <1>4
    <2> SUFFICES ASSUME NEW i \in 1..2, s[i].left.seen
                 PROVE  i <= Len(nv.stack) /\ s[i].left = nv.stack[i].left /\ KeyTo(s, i) = KeyTo(nv.stack, i)
      BY <2>0 DEF Retains
    <2>1. i = 2 /\ 2 <= Len(nv.stack) /\ f = nv.stack[2] /\ nv.stack[1].id = "topology"
      BY <1>1, <1>4
    <2>2. nv.stack \in Seq(Frames) /\ nv.stack[1].kind = "tab"
      BY DEF NavInv, Shape
    <2>3. \A k \in 1..2 : s[k].kind = nv.stack[k].kind /\ s[k].id = nv.stack[k].id
      BY <1>1, <1>4, <2>1, <2>2
    <2>4. KeyTo(s, 2) = KeyTo(nv.stack, 2)
      <3>1. 2 \in 0..Len(s)
        BY <1>4
      <3> QED  BY <1>4, <2>1, <2>2, <2>3, <3>1, KeyAlike
    <2> QED  BY <1>4, <2>1, <2>4
  <1> QED  BY <1>1, <1>3, <1>4, <1>6, <1>7 DEF s, e, p

(* A stack cut short. *)
LEMMA CutShort ==
    ASSUME NavInv, NEW i \in 1..Len(nv.stack)
    PROVE  LET s == SubSeq(nv.stack, 1, i)
           IN  Shape(s) /\ Retains(s) /\ \A k \in DOMAIN s : s[k].label \in {"none", nv.mode}
  <1> DEFINE old == nv.stack
             s == SubSeq(old, 1, i)
  <1>1. old \in Seq(Frames) /\ Shape(old) /\ Len(old) \in Nat /\ DOMAIN old = 1..Len(old) /\ i \in 0..Len(old)
    BY DEF NavInv, NavType
  <1>2. s \in Seq(Frames) /\ Len(s) = i /\ \A k \in 1..i : s[k] = old[k]
    BY <1>1, KeyToIs
  <1> HIDE DEF s
  <1>3. DOMAIN s = 1..i /\ s # <<>> /\ \A k \in 1..i : k \in DOMAIN old
    BY <1>1, <1>2
  <1>4. ASSUME NEW k \in DOMAIN s PROVE Placed(s, k)
    <2>1. Placed(old, k) /\ k \in DOMAIN old /\ k \in 1..i
      BY <1>1, <1>3 DEF Shape
    <2>2. s[k] = old[k] /\ s[1] = old[1]
      BY <1>2, <1>3, <2>1
    <2> QED  BY <1>1, <1>2, <1>3, <2>1, <2>2 DEF Placed
  <1>5. Shape(s)
    <2>1. s[1] = old[1]
      BY <1>2
    <2> QED  BY <1>1, <1>2, <1>3, <1>4, <2>1 DEF Shape
  <1>6. Retains(s)
    <2> SUFFICES ASSUME NEW k \in 1 .. Len(s) - 1
                 PROVE  k <= Len(old) /\ s[k].left = old[k].left /\ KeyTo(s, k) = KeyTo(old, k)
      BY DEF Retains
    <2>1. k \in 1..i /\ k \in 0..Len(s) /\ k <= Len(old)
      BY <1>1, <1>2
    <2>2. KeyTo(s, k) = KeyTo(old, k)
      BY <1>1, <1>2, <2>1, KeyAlike
    <2> QED  BY <1>2, <2>1, <2>2
  <1>7. \A k \in DOMAIN s : s[k].label \in {"none", nv.mode}
    BY <1>2, <1>3 DEF NavInv, FramesOwnMode
  <1> QED  BY <1>5, <1>6, <1>7 DEF s

(* A new frame over a stack without a device. *)
LEMMA OnTop ==
    ASSUME NavInv, NEW i \in 1..Len(nv.stack), nv.stack[i].kind # "device",
           NEW f, New(f), f.kind \in {"device", "region"},
           f.kind = "region" => i = 1 /\ nv.stack[1].id = "metrics"
    PROVE  LET s == Append(SubSeq(nv.stack, 1, i), f)
           IN  Shape(s) /\ Retains(s) /\ \A k \in DOMAIN s : s[k].label \in {"none", nv.mode}
  <1> DEFINE old == nv.stack
             r == SubSeq(old, 1, i)
             s == Append(r, f)
  <1>1. old \in Seq(Frames) /\ Shape(old) /\ Len(old) \in Nat /\ DOMAIN old = 1..Len(old) /\ i \in 0..Len(old)
    BY DEF NavInv, NavType
  <1>2. r \in Seq(Frames) /\ Len(r) = i /\ \A k \in 1..i : r[k] = old[k]
    BY <1>1, KeyToIs
  <1>3. Shape(r) /\ Retains(r) /\ \A k \in DOMAIN r : r[k].label \in {"none", nv.mode}
    BY CutShort
  <1> HIDE DEF r
  <1>4. f \in Frames /\ ~f.left.seen /\ f.label \in {"none", nv.mode}
    BY DEF New
  <1>5. /\ s \in Seq(Frames) /\ Len(s) = i + 1 /\ s # <<>> /\ DOMAIN s = 1 .. i + 1 /\ DOMAIN r = 1..i
        /\ s[i + 1] = f /\ \A k \in 1..i : s[k] = r[k]
    BY <1>2, <1>4
  <1> HIDE DEF s
  <1>6. \A k \in 1..i : r[k].kind # "device"
    <2> SUFFICES ASSUME NEW k \in 1..i, r[k].kind = "device" PROVE FALSE
      OBVIOUS
    <2>1. k = Len(r)
      BY <1>3, <1>5 DEF Shape, Placed
    <2>2. r[i] = old[i]
      BY <1>2
    <2> QED  BY <1>2, <2>1, <2>2
  <1>7. ASSUME NEW k \in DOMAIN s PROVE Placed(s, k)
    <2>1. CASE k = i + 1
      <3>1. f.kind = "region" => k = 2 /\ s[1].id = "metrics"
        BY <1>2, <1>5, <2>1
      <3>2. \A m \in DOMAIN s : ~(m > k)
        BY <1>5, <2>1
      <3> QED  BY <1>5, <2>1, <3>1, <3>2 DEF Placed, TabUnder
    <2>2. CASE k # i + 1
      <3>1. k \in 1..i /\ k \in DOMAIN r /\ s[k] = r[k] /\ s[1] = r[1] /\ r[k].kind # "device"
        BY <1>5, <1>6, <2>2
      <3>2. Placed(r, k)
        BY <1>3, <3>1 DEF Shape
      <3>3. ASSUME r[k].kind \in {"region", "ap", "ssid", "lan", "group", "ports"}
            PROVE  \A m \in DOMAIN s : m > k => s[m].kind = "device"
        <4>1. \A m \in DOMAIN r : ~(m > k)
          BY <1>5, <1>6, <3>2, <3>3 DEF Placed
        <4>2. k = i
          <5>1. ~(i > k)
            BY <1>2, <1>5, <4>1
          <5> QED  BY <1>2, <3>1, <5>1
        <4>3. i # 1
          BY <1>1, <1>2, <3>3, <4>2 DEF Shape
        <4>4. f.kind = "device"
          BY <4>3
        <4>5. \A m \in DOMAIN s : m > k => m = i + 1
          BY <1>5, <4>2
        <4> QED  BY <1>5, <4>4, <4>5
      <3> QED  BY <3>1, <3>2, <3>3 DEF Placed
    <2> QED  BY <2>1, <2>2
  <1>8. Shape(s)
    <2>1. s[1] = r[1]
      BY <1>5
    <2> QED  BY <1>3, <1>5, <1>7, <2>1 DEF Shape
  <1>9. Retains(s)
    <2> SUFFICES ASSUME NEW k \in 1 .. Len(s) - 1
                 PROVE  k <= Len(old) /\ s[k].left = old[k].left /\ KeyTo(s, k) = KeyTo(old, k)
      BY DEF Retains
    <2>1. k \in 1..i /\ k \in 0..Len(s) /\ k <= Len(old) /\ \A m \in 1..k : m \in 1..i
      BY <1>1, <1>5
    <2>2. \A m \in 1..k : s[m] = old[m]
      BY <1>2, <1>5, <2>1
    <2>3. KeyTo(s, k) = KeyTo(old, k)
      BY <1>1, <1>5, <2>1, <2>2, KeyAlike
    <2> QED  BY <2>1, <2>2, <2>3
  <1>10. \A k \in DOMAIN s : s[k].label \in {"none", nv.mode}
    <2>1. \A k \in DOMAIN s : k = i + 1 \/ k \in 1..i
      BY <1>5
    <2> QED  BY <1>3, <1>4, <1>5, <2>1
  <1> QED  BY <1>8, <1>9, <1>10 DEF s, r

-----------------------------------------------------------------------------
(* Every link of a page keeps the invariant. *)

LEMMA GoKeeps ==
    ASSUME NavInv, NEW s, Shape(s), Retains(s), \A i \in DOMAIN s : s[i].label \in {"none", nv.mode}, Go(s)
    PROVE  NavInv'
  <1>1. nv \in [stack : Seq(Frames), mode : Modes, pos : Int, view : Int, marks : Int,
                 focus : Modes \cup {"none"}] /\ nv.focus \in {"none", nv.mode}
    BY DEF NavInv, NavType, FramesOwnMode
  <1>2. setStack(s, viewStates, nv)
    BY DEF Go
  <1> QED  BY <1>1, <1>2, StackSet

LEMMA TabsKeep ==
    ASSUME NavInv, NEW t \in NTABS
    PROVE  /\ Go(resetTab(t)) => NavInv'
           /\ \A f : New(f) /\ f.kind # "tab"
                     /\ (f.kind \in {"region", "ap", "ssid", "topo-switch"} => t = TabUnder(f.kind))
                     /\ Go(<<TabFrame(t), f>>) => NavInv'
  <1>1. Go(resetTab(t)) => NavInv'
    BY OneFrame, GoKeeps DEF resetTab
  <1>2. ASSUME NEW f, New(f), f.kind # "tab",
               f.kind \in {"region", "ap", "ssid", "topo-switch"} => t = TabUnder(f.kind),
               Go(<<TabFrame(t), f>>)
        PROVE  NavInv'
    BY <1>2, TwoFrames, GoKeeps
  <1> QED  BY <1>1, <1>2

(* A device, over whatever is on display. *)
LEMMA OpenDeviceKeeps ==
    ASSUME NavInv, openDevice
    PROVE  NavInv'
  <1> DEFINE old == nv.stack
             N == Len(old)
  <1>1. old \in Seq(Frames) /\ Shape(old) /\ N \in Nat \ {0} /\ DOMAIN old = 1..N
    BY DEF NavInv, NavType, Shape
  <1>2. New(Frame("device")) /\ Frame("device").kind = "device"
    BY NewFrames DEF Kinds
  <1>3. \A i \in 1..N : old[i].kind = "device" => i = N
    BY <1>1 DEF Shape, Placed
  <1>4. PICK k \in 1..N : old[k].kind # "device" /\ without(old, {"device"}) = SubSeq(old, 1, k)
    <2>1. CASE old[N].kind = "device"
      <3>1. N # 1
        BY <1>1, <2>1 DEF Shape
      <3>2. N - 1 \in 1..N /\ N - 1 \in 0..N /\ \A i \in 1 .. N - 1 : i \in 1..N /\ i # N
        <4>1. N \in Nat \ {0}
          BY <1>1
        <4> HIDE DEF N
        <4> QED  BY <3>1, <4>1
      <3>3. \A i \in 1 .. N - 1 : old[i].kind \notin {"device"}
        BY <1>3, <3>2
      <3>4. \A i \in (N - 1) + 1 .. N : i = N
        BY <1>1
      <3>5. \A i \in (N - 1) + 1 .. N : old[i].kind \in {"device"}
        BY <2>1, <3>4
      <3>6. without(old, {"device"}) = SubSeq(old, 1, N - 1)
        BY <1>1, <3>2, <3>3, <3>5, WithoutIs
      <3>7. N - 1 \in 1 .. N - 1
        BY <3>2
      <3> QED  BY <3>2, <3>3, <3>6, <3>7
    <2>2. CASE old[N].kind # "device"
      <3>1. N \in 1..N /\ N \in 0..N
        BY <1>1
      <3>2. \A i \in 1..N : old[i].kind \notin {"device"}
        BY <1>3, <2>2
      <3>3. \A i \in N + 1 .. N : old[i].kind \in {"device"}
        BY <1>1
      <3>4. without(old, {"device"}) = SubSeq(old, 1, N)
        BY <1>1, <3>1, <3>2, <3>3, WithoutIs
      <3> QED  BY <2>2, <3>1, <3>4
    <2> QED  BY <2>1, <2>2
  <1>5. Go(Append(SubSeq(old, 1, k), Frame("device")))
    BY <1>4 DEF openDevice
  <1> QED  BY <1>2, <1>4, <1>5, OnTop, GoKeeps

(* Metrics show no frame but of regions and of a device that are gone. *)
LEMMA OpenRegionKeeps ==
    ASSUME NavInv, pageOf(nv.stack) = "metrics", openRegion
    PROVE  NavInv'
  <1> DEFINE old == nv.stack
             N == Len(old)
             gone == {"region", "device"}
  <1>1. old \in Seq(Frames) /\ Shape(old) /\ N \in Nat \ {0} /\ DOMAIN old = 1..N
    BY DEF NavInv, NavType, Shape
  <1>2. New(Frame("region")) /\ Frame("region").kind = "region"
    BY NewFrames DEF Kinds
  <1>3. old[1].id = "metrics" /\ ~showDevicesTable(old) /\ old[1].kind = "tab"
    BY <1>1 DEF pageOf, tabOf, Shape
  <1>4. \A i \in 2..N : old[i].kind \in gone
    <2> SUFFICES ASSUME NEW i \in 2..N PROVE old[i].kind \in gone
      OBVIOUS
    <2>1. i \in DOMAIN old /\ i # 1 /\ old[i] \in Frames
      BY <1>1
    <2>2. Placed(old, i)
      BY <1>1, <2>1 DEF Shape
    <2>3. old[i].kind \notin {"lan", "group", "ports"}
      BY <1>3, <2>1 DEF showDevicesTable, findLast
    <2>4. old[i].kind \in Kinds
      BY <2>1 DEF Frames
    <2> QED  BY <1>3, <2>1, <2>2, <2>3, <2>4 DEF Placed, Kinds, TabUnder
  <1>5. without(old, gone) = SubSeq(old, 1, 1)
    <2>1. 1 \in 0..N /\ \A i \in 1..1 : old[i].kind \notin gone
      BY <1>1, <1>3
    <2>2. \A i \in 1 + 1 .. N : old[i].kind \in gone
      BY <1>4
    <2> HIDE DEF gone
    <2> QED  BY <1>1, <2>1, <2>2, WithoutIs
  <1>6. Go(Append(SubSeq(old, 1, 1), Frame("region")))
    BY <1>5 DEF openRegion
  <1>7. 1 \in 1..N
    BY <1>1
  <1> QED  BY <1>2, <1>3, <1>6, <1>7, OnTop, GoKeeps

(* The frame of a switch is the second, over the topology. *)
LEMMA SwitchFrame ==
    ASSUME NavInv, findLast(nv.stack, "topo-switch")
    PROVE  /\ 2 <= Len(nv.stack) /\ nv.stack[1].id = "topology" /\ nv.stack[2].kind = "topo-switch"
           /\ lastOf(nv.stack, "topo-switch") = nv.stack[2]
  <1> DEFINE old == nv.stack
             P(i) == old[i].kind = "topo-switch" /\ \A j \in DOMAIN old : old[j].kind = "topo-switch" => j <= i
  <1>1. old \in Seq(Frames) /\ Shape(old) /\ DOMAIN old = 1..Len(old) /\ Len(old) \in Nat
    BY DEF NavInv, NavType
  <1>2. \A i \in DOMAIN old : old[i].kind = "topo-switch" => i = 2 /\ old[1].id = "topology"
    BY <1>1 DEF Shape, Placed, TabUnder
  <1>3. 2 \in DOMAIN old /\ old[2].kind = "topo-switch" /\ old[1].id = "topology"
    BY <1>2 DEF findLast
  <1>4. P(2) /\ \A i \in DOMAIN old : P(i) => i = 2
    <2>1. \A j \in DOMAIN old : old[j].kind = "topo-switch" => j <= 2
      BY <1>2
    <2> QED  BY <1>2, <1>3, <2>1
  <1>5. (CHOOSE i \in DOMAIN old : P(i)) = 2
    <2> HIDE DEF P
    <2> QED  BY <1>3, <1>4
  <1>6. lastOf(old, "topo-switch") = old[CHOOSE i \in DOMAIN old : P(i)]
    BY DEF lastOf
  <1>7. 2 <= Len(old)
    BY <1>1, <1>3
  <1> QED
    <2> HIDE DEF P
    <2> QED  BY <1>3, <1>5, <1>6, <1>7

LEMMA LinkKeeps ==
    ASSUME NavInv, Link
    PROVE  NavInv'
  <1>1. \A k \in Kinds : New(Frame(k)) /\ Frame(k).kind = k
    BY NewFrames
  <1>2. {"metrics", "devices", "network", "groups", "topology", "wireless"} \subseteq NTABS
    BY DEF NTABS
  <1>3. {"device", "region", "ap", "ssid", "lan", "group", "ports", "topo-switch"} \subseteq Kinds
    BY DEF Kinds
  <1>4. ASSUME NEW t \in NTABS, NEW k \in {"device", "lan", "group", "ports"}, Go(<<TabFrame(t), Frame(k)>>)
        PROVE  NavInv'
    BY <1>1, <1>3, <1>4, TabsKeep
  <1>5. ASSUME NEW k \in {"region", "ap", "ssid", "topo-switch"}, Go(<<TabFrame(TabUnder(k)), Frame(k)>>)
        PROVE  NavInv'
    <2>1. TabUnder(k) \in NTABS
      BY DEF TabUnder, NTABS
    <2> QED  BY <1>1, <1>3, <1>5, <2>1, TabsKeep
  <1>6. ASSUME goDevicesLan PROVE NavInv'
    BY <1>2, <1>4, <1>6 DEF goDevicesLan
  <1>7. CASE goDevicesGroup
    BY <1>2, <1>4, <1>7 DEF goDevicesGroup
  <1>8. CASE goDevicesSwitch
    <2>1. New(Frame("topo-switch")) /\ Frame("topo-switch").kind = "topo-switch"
      BY <1>1, <1>3
    <2>2. Go(<<TabFrame("topology"), Frame("topo-switch"), Frame("ports")>>)
      BY <1>8 DEF goDevicesSwitch
    <2>3. Frame("topo-switch") \in Frames /\ ~Frame("topo-switch").left.seen /\ Frame("topo-switch").label \in {"none", nv.mode}
      BY <2>1 DEF New
    <2> QED  BY <2>1, <2>2, <2>3, ThreeFrames, GoKeeps
  <1>9. CASE onStp
    <2>1. TabUnder("topo-switch") = "topology"
      BY DEF TabUnder
    <2> QED  BY <1>5, <1>9, <2>1 DEF onStp
  <1>10. ASSUME NEW on \in BOOLEAN, onGroup(on) PROVE NavInv'
    <2>1. PICK t \in {"groups", "devices"} : Go(IF on THEN <<TabFrame(t), Frame("group")>> ELSE resetTab(t))
      BY <1>10 DEF onGroup
    <2>2. CASE on
      BY <1>2, <1>4, <2>1, <2>2
    <2>3. CASE ~on
      BY <1>2, <2>1, <2>3, TabsKeep
    <2> QED  BY <2>2, <2>3
  <1>11. ASSUME NEW on \in BOOLEAN, onLan(on) PROVE NavInv'
    <2>1. CASE on
      BY <1>6, <1>11, <2>1 DEF onLan
    <2>2. CASE ~on
      <3>1. PICK t \in {"network", "devices"} : Go(resetTab(t))
        BY <1>11, <2>2 DEF onLan
      <3> QED  BY <1>2, <3>1, TabsKeep
    <2> QED  BY <2>1, <2>2
  <1>12. ASSUME NEW on \in BOOLEAN, onSwitchMacs(on) PROVE NavInv'
    <2>1. PICK t \in {"topology", "devices"} :
              Go(IF ~on THEN resetTab(t)
                 ELSE IF findLast(nv.stack, "topo-switch")
                      THEN <<TabFrame("topology"), lastOf(nv.stack, "topo-switch"), Frame("ports")>>
                 ELSE <<TabFrame(t), Frame("ports")>>)
      BY <1>12 DEF onSwitchMacs
    <2>2. CASE ~on
      BY <1>2, <2>1, <2>2, TabsKeep
    <2>3. CASE on /\ findLast(nv.stack, "topo-switch")
      <3>1. Go(<<TabFrame("topology"), nv.stack[2], Frame("ports")>>)
        BY <2>1, <2>3, SwitchFrame
      <3>2. 2 <= Len(nv.stack) /\ nv.stack[2].kind = "topo-switch" /\ nv.stack[1].id = "topology"
        BY <2>3, SwitchFrame
      <3>3. nv.stack \in Seq(Frames)
        BY DEF NavInv, NavType
      <3>4. 2 \in DOMAIN nv.stack /\ nv.stack[2] \in Frames
        BY <3>2, <3>3
      <3>5. nv.stack[2].label \in {"none", nv.mode}
        BY <3>4 DEF NavInv, FramesOwnMode
      <3> QED  BY <3>1, <3>2, <3>4, <3>5, ThreeFrames, GoKeeps
    <2>4. CASE on /\ ~findLast(nv.stack, "topo-switch")
      BY <1>2, <1>4, <2>1, <2>4
    <2> QED  BY <2>2, <2>3, <2>4
  <1>13. CASE onSelectAp
    <2>1. TabUnder("ap") = "wireless"
      BY DEF TabUnder
    <2> QED  BY <1>5, <1>13, <2>1 DEF onSelectAp
  <1>14. CASE onSelectNet
    <2>1. TabUnder("ssid") = "wireless"
      BY DEF TabUnder
    <2> QED  BY <1>5, <1>14, <2>1 DEF onSelectNet
  <1>15. CASE onSelectClient
    BY <1>2, <1>4, <1>15 DEF onSelectClient
  <1>16. CASE onMode
    BY <1>2, <1>16, TabsKeep DEF onMode
  <1>17. CASE openDevice
    BY <1>17, OpenDeviceKeeps
  <1>18. CASE pageOf(nv.stack) = "metrics" /\ openRegion
    BY <1>18, OpenRegionKeeps
  <1> QED
    BY <1>6, <1>7, <1>8, <1>9, <1>10, <1>11, <1>12, <1>13, <1>14, <1>15, <1>16, <1>17, <1>18 DEF Link

-----------------------------------------------------------------------------
(* The other steps *)

LEMMA SelectTabKeeps ==
    ASSUME NavInv, NEW t \in NTABS, NEW n,
           n \in [stack : Seq(Frames), mode : Modes, pos : Int, view : Int, marks : Int,
                  focus : Modes \cup {"none"}],
           n.focus \in {"none", n.mode}, selectTab(t, n)
    PROVE  NavInv'
  <1> DEFINE s == <<TabFrame(t)>>
             away == t # tabOf(nv.stack) \/ Len(nv.stack) > 1
             views == IF away THEN Nothing ELSE viewStates
  <1>1. Shape(s) /\ Retains(s) /\ \A i \in DOMAIN s : s[i].label \in {"none", n.mode}
    BY OneFrame
  <1>2. setStack(s, views, n)
    BY DEF selectTab, resetTab
  <1>3. ASSUME away PROVE Len(s) = 1 /\ navigationKey(s) # navigationKey(nv.stack)
    <2>1. nv.stack \in Seq(Frames) /\ nv.stack # <<>> /\ s \in Seq(Frames)
      BY <1>1 DEF NavInv, Shape
    <2>2. Len(s) = 1 /\ DOMAIN s = {1} /\ s[1] = TabFrame(t)
      OBVIOUS
    <2>3. TabFrame(t).id = t
      BY NewFrames
    <2> HIDE DEF s
    <2>4. ASSUME navigationKey(s) = navigationKey(nv.stack) PROVE FALSE
      <3>1. DOMAIN nv.stack = {1}
        BY <2>2, <2>4 DEF navigationKey
      <3>2. Len(nv.stack) = 1
        <4>1. Len(nv.stack) \in DOMAIN nv.stack
          BY <2>1
        <4> QED  BY <3>1, <4>1
      <3>3. navigationKey(s)[1] = <<s[1].kind, s[1].id>> /\ navigationKey(nv.stack)[1] = <<nv.stack[1].kind, nv.stack[1].id>>
        BY <2>2, <3>1 DEF navigationKey
      <3>4. nv.stack[1].id = t
        BY <2>2, <2>3, <2>4, <3>3
      <3> QED  BY <1>3, <3>2, <3>4 DEF tabOf
    <2> QED  BY <2>2, <2>4
  <1> HIDE DEF s, away
  <1> QED  BY <1>1, <1>2, <1>3, StackSet

LEMMA AnonKeeps ==
    ASSUME NavInv, NEW m \in Modes, anonChanged(m)
    PROVE  NavInv'
  <1> DEFINE n == [nv EXCEPT !.mode = m, !.marks = @ + 1, !.focus = "none"]
             s == SubSeq(nv.stack, 1, 1)
  <1>1. /\ n \in [stack : Seq(Frames), mode : Modes, pos : Int, view : Int, marks : Int,
                  focus : Modes \cup {"none"}]
        /\ n.focus = "none"
    <2> DEFINE k == nv.marks + 1
    <2>1. k \in Int /\ n = [nv EXCEPT !.mode = m, !.marks = k, !.focus = "none"]
      BY DEF NavInv, NavType
    <2> HIDE DEF k
    <2> QED  BY <2>1 DEF NavInv, NavType
  <1>2. nv.stack \in Seq(Frames) /\ 1 \in 1..Len(nv.stack) /\ nv.stack[1].label = "none"
    BY DEF NavInv, Shape
  <1>3. Shape(s) /\ Retains(s)
    BY <1>2, CutShort
  <1>4. DOMAIN s = {1} /\ s[1] = nv.stack[1]
    BY <1>2
  <1>5. setStack(s, viewStates, n)
    BY DEF anonChanged, popTo
  <1> HIDE DEF n, s
  <1> QED  BY <1>1, <1>2, <1>3, <1>4, <1>5, StackSet

LEMMA NavStepInv == NavInv /\ [NavNext]_navVars => NavInv'
  <1> SUFFICES ASSUME NavInv, [NavNext]_navVars PROVE NavInv'
    OBVIOUS
  <1> DEFINE T == [stack : Seq(Frames), mode : Modes, pos : Int, view : Int, marks : Int,
                   focus : Modes \cup {"none"}]
  <1>1. /\ nv \in T /\ Numbers(posn) /\ Numbers(viewStates) /\ Shape(nv.stack) /\ FramesOwnMode
        /\ LeftStored(nv.stack, posn, viewStates) /\ lookup(viewStates, navigationKey(nv.stack)) = nv.view
    BY DEF NavInv, NavType, ViewStored
  <1>2. CASE Link
    BY <1>2, LinkKeeps
  <1>3. CASE openAuditTab
    <2> DEFINE n == [nv EXCEPT !.focus = nv.mode]
    <2>1. n \in T /\ n.focus = nv.mode /\ n.mode = nv.mode
      BY <1>1
    <2>2. selectTab("audit", n) /\ "audit" \in NTABS
      BY <1>3 DEF openAuditTab, NTABS
    <2> HIDE DEF n
    <2> QED  BY <2>1, <2>2, SelectTabKeeps
  <1>4. CASE setAnonymityOn
    <2>1. PICK m \in Modes : anonChanged(m)
      BY <1>4 DEF setAnonymityOn, Modes
    <2> QED  BY <2>1, AnonKeeps
  <1>5. CASE scroll
    <2>1. /\ nv' \in T /\ nv'.stack = nv.stack /\ nv'.view = nv.view /\ nv'.mode = nv.mode /\ nv'.focus = nv.focus
          /\ posn' = posn /\ viewStates' = viewStates
      <3> DEFINE k == nv.marks + 1
                 x == 1 - nv.pos
      <3>1. k \in Int /\ x \in Int
        BY <1>1
      <3>2. nv' = [nv EXCEPT !.pos = x, !.marks = k]
        BY <1>5 DEF scroll
      <3> HIDE DEF k, x
      <3>3. nv' \in T /\ nv'.stack = nv.stack /\ nv'.mode = nv.mode /\ nv'.focus = nv.focus
        BY <1>1, <3>1, <3>2
      <3>4. nv'.pos = x /\ nv'.view = nv.view
        BY <1>1, <3>2
      <3> QED  BY <1>5, <3>3, <3>4 DEF scroll, x
    <2> QED  BY <1>1, <2>1 DEF NavInv, NavType, ViewStored, FramesOwnMode
  <1>6. CASE useNavigationViewUpdate
    <2> DEFINE v == 1 - nv.view
               place == navigationKey(nv.stack)
    <2>1. /\ nv' \in T /\ nv'.stack = nv.stack /\ nv'.view = v /\ nv'.mode = nv.mode /\ nv'.focus = nv.focus
          /\ posn' = posn
      <3> DEFINE k == nv.marks + 1
                 x == 1 - nv.view
      <3>1. k \in Int /\ x \in Int
        BY <1>1
      <3>2. nv' = [nv EXCEPT !.view = x, !.marks = k]
        BY <1>6 DEF useNavigationViewUpdate
      <3> HIDE DEF k, x
      <3>3. nv' \in T /\ nv'.stack = nv.stack /\ nv'.mode = nv.mode /\ nv'.focus = nv.focus
        BY <1>1, <3>1, <3>2
      <3>4. nv'.pos = nv.pos /\ nv'.view = x
        BY <1>1, <3>2
      <3> QED  BY <1>6, <3>3, <3>4 DEF useNavigationViewUpdate, x
    <2>2. viewStates' = store(viewStates, place, v) /\ v \in Int
      BY <1>1, <1>6, <2>1 DEF useNavigationViewUpdate
    <2>3. Numbers(viewStates') /\ lookup(viewStates', place) = v
      BY <1>1, <2>2, StoreNumbers, StoreLookup
    <2>4. LeftStored(nv.stack, posn, viewStates')
      <3> SUFFICES ASSUME NEW i \in 1 .. Len(nv.stack) - 1, nv.stack[i].left.seen
                   PROVE  /\ lookup(posn, KeyTo(nv.stack, i)) = nv.stack[i].left.pos
                          /\ lookup(viewStates', KeyTo(nv.stack, i)) = nv.stack[i].left.view
        BY DEF LeftStored
      <3>1. /\ lookup(posn, KeyTo(nv.stack, i)) = nv.stack[i].left.pos
            /\ lookup(viewStates, KeyTo(nv.stack, i)) = nv.stack[i].left.view
        BY <1>1 DEF LeftStored
      <3>2. KeyTo(nv.stack, i) # place
        <4>1. nv.stack \in Seq(Frames)
          BY <1>1
        <4>2. place = KeyTo(nv.stack, Len(nv.stack))
          BY <4>1, KeyAll
        <4>3. i \in 0..Len(nv.stack) /\ Len(nv.stack) \in 0..Len(nv.stack) /\ i # Len(nv.stack)
          BY <4>1
        <4> QED  BY <4>1, <4>2, <4>3, KeysApart
      <3>3. lookup(viewStates', KeyTo(nv.stack, i)) = lookup(viewStates, KeyTo(nv.stack, i))
        BY <2>2, <3>2, StoreLookup
      <3> QED  BY <3>1, <3>3
    <2> QED  BY <1>1, <2>1, <2>3, <2>4 DEF NavInv, NavType, ViewStored, FramesOwnMode
  <1>7. ASSUME NEW t \in NTABS, selectTab(t, nv) PROVE NavInv'
    BY <1>1, <1>7, SelectTabKeeps DEF FramesOwnMode
  <1>8. ASSUME NEW i \in DOMAIN nv.stack, crumb(i) PROVE NavInv'
    <2>1. Go(SubSeq(nv.stack, 1, i))
      BY <1>8 DEF crumb, popTo
    <2>2. i \in 1..Len(nv.stack)
      BY <1>1
    <2> QED  BY <2>1, <2>2, CutShort, GoKeeps
  <1>9. ASSUME NEW x \in Volatile, pollChanges(x) PROVE NavInv'
    BY <1>9 DEF pollChanges, NavInv, NavType, ViewStored, FramesOwnMode
  <1>10. CASE UNCHANGED navVars
    BY <1>10 DEF navVars, NavInv, NavType, ViewStored, FramesOwnMode
  <1> QED
    BY <1>2, <1>3, <1>4, <1>5, <1>6, <1>7, <1>8, <1>9, <1>10 DEF NavNext

LEMMA NavInitInv == NavInit => NavInv
  <1> SUFFICES ASSUME NavInit PROVE NavInv
    OBVIOUS
  <1> DEFINE f == TabFrame("metrics")
             s == <<f>>
  <1>1. /\ nv = [stack |-> s, mode |-> "real", pos |-> 0, view |-> 0, marks |-> 0, focus |-> "none"]
        /\ viewStates = Nothing /\ posn = Nothing
    BY DEF NavInit, resetTab
  <1>2. f \in Frames /\ f.kind = "tab" /\ f.id = "metrics" /\ f.label = "none" /\ "metrics" \in NTABS
    <2>1. NotLeft \in Left
      BY DEF NotLeft, Left
    <2>2. "tab" \in Kinds /\ "metrics" \in NTABS
      BY DEF Kinds, NTABS
    <2> QED  BY <2>1, <2>2 DEF TabFrame, Frames
  <1> HIDE DEF f
  <1>3. s \in Seq(Frames) /\ s # <<>> /\ Len(s) = 1 /\ DOMAIN s = {1} /\ s[1] = f
    BY <1>2
  <1> HIDE DEF s
  <1>4. Shape(s)
    <2>1. Placed(s, 1)
      BY <1>2, <1>3 DEF Placed
    <2> QED  BY <1>2, <1>3, <2>1 DEF Shape
  <1>5. NavType
    BY <1>1, <1>3, NothingNumbers DEF NavType, Modes
  <1>6. FramesOwnMode
    BY <1>1, <1>2, <1>3 DEF FramesOwnMode
  <1>7. LeftStored(s, posn, viewStates)
    BY <1>3 DEF LeftStored
  <1>8. ViewStored
    BY <1>1 DEF ViewStored, lookup, Nothing
  <1> QED  BY <1>1, <1>4, <1>5, <1>6, <1>7, <1>8 DEF NavInv

(* The page of a stack of that shape is the page of its last frame that    *)
(* has one: by the kinds of frames, in the order in which App asks.        *)
LEMMA PageIsLast == NavInv => CrumbIsPage
  <1> SUFFICES ASSUME NavInv PROVE CrumbIsPage
    OBVIOUS
  <1> DEFINE s == nv.stack
             N == Len(s)
             LastShown(i) == i \in 1..N /\ HasPage(s[i]) /\ \A k \in 1..N : HasPage(s[k]) => k <= i
             gone == ~(findLast(s, "device") /\ "device" \in onDisplay)
  <1>1. s \in Seq(Frames) /\ Shape(s) /\ N \in Nat \ {0} /\ DOMAIN s = 1..N /\ 1 \in 1..N
    BY DEF NavInv, NavType, Shape
  <1>2. SUFFICES \E i \in 1..N : LastShown(i) /\ pageOf(s) = Shows(s[i])
    BY <1>1 DEF CrumbIsPage
  <1>3. s[1].kind = "tab" /\ s[1].id = tabOf(s) /\ HasPage(s[1])
    BY <1>1 DEF Shape, tabOf, HasPage, Targets
  <1>4. \A i \in 1..N : Placed(s, i) /\ s[i].kind \in Kinds
    <2>1. \A i \in 1..N : s[i] \in Frames /\ Placed(s, i)
      BY <1>1 DEF Shape
    <2> QED  BY <2>1 DEF Frames
  (* Below a device that is gone, a frame that only devices cover is last. *)
  <1>5. ASSUME gone, NEW i \in 1..N, HasPage(s[i]), \A k \in 1..N : k > i => s[k].kind = "device"
        PROVE  LastShown(i)
    <2>1. ASSUME NEW k \in 1..N, HasPage(s[k]), k > i PROVE FALSE
      <3>1. s[k].kind = "device"
        BY <1>5, <2>1
      <3>2. "device" \in onDisplay
        BY <2>1, <3>1 DEF HasPage, Targets
      <3>3. findLast(s, "device")
        BY <1>1, <3>1 DEF findLast
      <3> QED  BY <1>5, <3>2, <3>3
    <2>2. \A k \in 1..N : HasPage(s[k]) => k <= i
      BY <1>1, <2>1
    <2> QED  BY <1>5, <2>2
  <1>6. CASE ~gone
    <2>1. PICK i \in 1..N : s[i].kind = "device"
      BY <1>1, <1>6 DEF findLast
    <2>2. i = N
      BY <1>4, <2>1 DEF Placed
    <2>3. LastShown(i)
      BY <1>1, <1>6, <2>1, <2>2 DEF HasPage
    <2>4. pageOf(s) = "device"
      BY <1>6 DEF pageOf
    <2>5. Shows(s[i]) = "device"
      BY <2>1 DEF Shows
    <2> QED  BY <2>3, <2>4, <2>5
  <1>7. ASSUME gone, NEW k \in {"region", "ap", "ssid"}, findLast(s, k), k \in onDisplay
        PROVE  \E i \in 1..N : LastShown(i) /\ pageOf(s) = Shows(s[i])
    <2>1. PICK i \in 1..N : s[i].kind = k
      BY <1>1, <1>7 DEF findLast
    <2>2. i = 2 /\ tabOf(s) = TabUnder(k) /\ \A j \in 1..N : j > i => s[j].kind = "device"
      BY <1>1, <1>3, <1>4, <2>1 DEF Placed
    <2>3. HasPage(s[i])
      BY <1>7, <2>1 DEF HasPage
    <2>4. LastShown(i)
      BY <1>5, <1>7, <2>2, <2>3
    <2>5. \A x \in {"region", "ap", "ssid"} : findLast(s, x) => x = k
      <3> SUFFICES ASSUME NEW x \in {"region", "ap", "ssid"}, NEW j \in 1..N, s[j].kind = x PROVE x = k
        BY <1>1 DEF findLast
      <3>1. j = 2
        BY <1>4 DEF Placed
      <3> QED  BY <2>1, <2>2, <3>1
    <2>6. Shows(s[i]) = k
      BY <2>1 DEF Shows
    <2>7. pageOf(s) = k
      <3>1. CASE k = "region"
        BY <1>7, <2>2, <3>1 DEF pageOf, TabUnder
      <3>2. CASE k = "ap"
        BY <1>7, <2>2, <2>5, <3>2 DEF pageOf, TabUnder
      <3>3. CASE k = "ssid"
        BY <1>7, <2>2, <2>5, <3>3 DEF pageOf, TabUnder
      <3> QED  BY <3>1, <3>2, <3>3
    <2> QED  BY <2>4, <2>6, <2>7
  <1>8. CASE gone /\ \A k \in {"region", "ap", "ssid"} : ~(findLast(s, k) /\ k \in onDisplay)
    <2>1. pageOf(s) = IF showDevicesTable(s) THEN "devices" ELSE tabOf(s)
      BY <1>8 DEF pageOf
    <2>2. ASSUME NEW j \in 1..N, s[j].kind \in {"lan", "group", "ports"}
          PROVE  \E i \in 1..N : LastShown(i) /\ pageOf(s) = Shows(s[i])
      <3>1. \A k \in 1..N : k > j => s[k].kind = "device"
        BY <1>1, <1>4, <2>2 DEF Placed
      <3>2. HasPage(s[j])
        BY <2>2 DEF HasPage, Targets
      <3>3. LastShown(j)
        BY <1>5, <1>8, <3>1, <3>2
      <3>4. showDevicesTable(s)
        BY <1>1, <2>2 DEF showDevicesTable, findLast
      <3>5. Shows(s[j]) = "devices"
        BY <2>2 DEF Shows
      <3> QED  BY <2>1, <3>3, <3>4, <3>5
    <2>3. CASE \A j \in 1..N : s[j].kind \notin {"lan", "group", "ports"}
      <3>1. pageOf(s) = tabOf(s)
        BY <1>1, <2>1, <2>3 DEF showDevicesTable, findLast
      <3>2. ASSUME NEW j \in 1..N, HasPage(s[j]), j # 1 PROVE j = 2 /\ s[j].kind = "topo-switch"
        <4>1. s[j].kind \in {"region", "ap", "ssid", "device", "topo-switch"}
          BY <1>4, <2>3, <3>2 DEF Placed, Kinds
        <4>2. s[j].kind \notin {"region", "ap", "ssid", "device"}
          BY <1>1, <1>8, <3>2 DEF HasPage, Targets, findLast
        <4> QED  BY <1>4, <4>1, <4>2 DEF Placed
      <3>3. CASE \E j \in 1..N : HasPage(s[j]) /\ j # 1
        <4>1. PICK j \in 1..N : HasPage(s[j]) /\ j # 1
          BY <3>3
        <4>2. j = 2 /\ s[j].kind = "topo-switch"
          BY <3>2, <4>1
        <4>3. LastShown(j)
          BY <1>1, <3>2, <4>1, <4>2
        <4>4. tabOf(s) = "topology"
          BY <1>3, <1>4, <4>2 DEF Placed, TabUnder
        <4>5. Shows(s[j]) = "topology"
          BY <4>2 DEF Shows
        <4> QED  BY <3>1, <4>3, <4>4, <4>5
      <3>4. CASE \A j \in 1..N : HasPage(s[j]) => j = 1
        <4>1. LastShown(1)
          BY <1>1, <1>3, <3>4
        <4>2. Shows(s[1]) = tabOf(s)
          BY <1>3 DEF Shows
        <4> QED  BY <1>1, <3>1, <4>1, <4>2
      <3> QED  BY <3>3, <3>4
    <2> QED  BY <2>2, <2>3
  <1> QED  BY <1>6, <1>7, <1>8

(* Wherever links, tabs, crumbs, vanishing targets and switchings lead,    *)
(* the page on display is the last crumb that has one, and no frame or     *)
(* focus carries a name of the other mode (App.tsx, nav.ts).               *)
THEOREM PlaceShownHolds == NavSpec => []PlaceShown
<1>1. NavInv => PlaceShown
  BY PageIsLast DEF NavInv, PlaceShown
<1> QED  BY <1>1, NavInitInv, NavStepInv, PTL DEF NavSpec

LEMMA CrumbFinds ==
    ASSUME NavInv, NEW i \in 1 .. Len(nv.stack) - 1, nv.stack[i].left.seen, crumb(i)
    PROVE  nv'.pos = nv.stack[i].left.pos /\ nv'.view = nv.stack[i].left.view
  <1> DEFINE old == nv.stack
             s == SubSeq(old, 1, i)
             place == navigationKey(s)
             saved == store(posn, navigationKey(old), nv.pos)
             sc == useNavigationScroll(old, s)
             c == Covering(s)
             w == lookup(viewStates, place)
  <1>1. old \in Seq(Frames) /\ Len(old) \in Nat /\ nv.pos \in Int
    BY DEF NavInv, NavType
  <1>2. i \in 0..Len(old) /\ Len(old) \in 0..Len(old) /\ i < Len(old)
    BY <1>1
  <1>3. Len(s) = i /\ place = KeyTo(old, i)
    BY <1>1, <1>2, KeyToIs DEF KeyTo
  <1>4. navigationKey(old) = KeyTo(old, Len(old))
    BY <1>1, KeyAll
  <1>5. place # navigationKey(old)
    BY <1>1, <1>2, <1>3, <1>4, KeysApart
  <1>6. isNavigationReturn(old, s)
    BY <1>2, <1>3 DEF isNavigationReturn
  <1>7. sc.pos = lookup(saved, place)
    BY <1>5, <1>6 DEF useNavigationScroll
  <1>8. lookup(saved, place) = lookup(posn, place)
    BY <1>1, <1>5, StoreLookup
  <1>9. nv' = [nv EXCEPT !.stack = c, !.pos = sc.pos, !.view = w]
    BY <1>5 DEF crumb, Go, popTo, setStack
  <1>10. nv'.pos = sc.pos /\ nv'.view = w
    <2> HIDE DEF sc, c, w
    <2> QED  BY <1>9 DEF NavInv, NavType
  <1>11. lookup(posn, KeyTo(old, i)) = old[i].left.pos /\ lookup(viewStates, KeyTo(old, i)) = old[i].left.view
    BY DEF NavInv, LeftStored
  <1> QED  BY <1>3, <1>7, <1>8, <1>10, <1>11

(* Going back to a place that was left for a detail finds it scrolled and  *)
(* arranged as it was left, however deep the visitor went in between       *)
(* (navigation-scroll.ts, navigation-view-state.tsx).                      *)
THEOREM BackAsLeftHolds == NavSpec => BackAsLeft
<1>1. NavInv /\ [NavNext]_navVars =>
        [\A i \in 1 .. Len(nv.stack) - 1 :
           (nv.stack[i].left.seen /\ Len(nv'.stack) = i /\ navigationKey(nv'.stack) # navigationKey(nv.stack) /\ crumb(i))
             => nv'.pos = nv.stack[i].left.pos /\ nv'.view = nv.stack[i].left.view]_navVars
  BY CrumbFinds
<1> QED  BY <1>1, NavInitInv, NavStepInv, PTL DEF NavSpec, BackAsLeft

-----------------------------------------------------------------------------
(* The table of devices *)

Groupings == {None, "port", "lan", "tag", "online"}
GroupKeys == [by : Groupings, key : {bucketFor(d, g) : d \in TDevice, g \in Groupings}]
CachedView == [groupBy : SUBSET Groupings, collapsed : SUBSET SUBSET GroupKeys]
AtMostOne(c) == \A x, y \in c : x = y

(* What the table mounts with in a place. *)
MountBy(f) == Kept(tCache[f].groupBy, IF f \in switchFrames THEN "port" ELSE None)
MountCollapsed(f) == Kept(tCache[f].collapsed, {})
OwnKeys(g, c) == g # None => \A e \in c : e.by = g

(* The view states kept for a place belong together, and are those of the  *)
(* table open in that place.                                               *)
TableType ==
    /\ tb \in [open : BOOLEAN, scope : AllFrames, query : {tb.query}, inactive : BOOLEAN,
               groupBy : Groupings, collapsed : SUBSET GroupKeys, views : Int]
    /\ tCache \in [AllFrames -> CachedView]
    /\ \A f \in AllFrames : AtMostOne(tCache[f].groupBy) /\ AtMostOne(tCache[f].collapsed)
TableInv ==
    /\ TableType
    /\ \A f \in AllFrames : OwnKeys(MountBy(f), MountCollapsed(f))
    /\ tb.open => tb.groupBy = MountBy(tb.scope) /\ tb.collapsed = MountCollapsed(tb.scope)
    /\ OwnKeys(tb.groupBy, tb.collapsed)

LEMMA KeptIs ==
    ASSUME NEW c, NEW v
    PROVE  Kept({}, v) = v /\ \A x : Kept({x}, v) = x
  BY DEF Kept

LEMMA KeptType ==
    ASSUME NEW S, NEW c \in SUBSET S, NEW v \in S
    PROVE  Kept(c, v) \in S
  BY DEF Kept

LEMMA NoFrameAll == NoScopeFrame \in AllFrames /\ switchFrames \subseteq AllFrames
  BY DEF AllFrames

LEMMA MemberFrame ==
    ASSUME NEW d \in TDevice, primaryMembership(d) # NoScopeFrame
    PROVE  primaryMembership(d) \in AllFrames
  <1> DEFINE U(x) == [kind : {"group"}, id : Elems(x.groups)] \cup [kind : {"user"}, id : Elems(x.users)]
  <1>1. primaryMembership(d) \in U(d)
    <2>1. CASE d.users # <<>>
      <3>1. d.users[1] \in Elems(d.users)
        BY <2>1, TableAssumption DEF Elems
      <3> QED  BY <2>1, <3>1 DEF primaryMembership
    <2>2. CASE d.users = <<>> /\ d.groups # <<>>
      <3>1. d.groups[1] \in Elems(d.groups)
        BY <2>2, TableAssumption DEF Elems
      <3> QED  BY <2>2, <3>1 DEF primaryMembership
    <2>3. CASE d.users = <<>> /\ d.groups = <<>>
      BY <2>3 DEF primaryMembership
    <2> QED  BY <2>1, <2>2, <2>3
  <1>2. U(d) \subseteq UNION {U(x) : x \in TDevice}
    <2> HIDE DEF U
    <2> QED  OBVIOUS
  <1>3. UNION {U(x) : x \in TDevice} \subseteq AllFrames
    BY DEF AllFrames
  <1> HIDE DEF U
  <1> QED  BY <1>1, <1>2, <1>3

LEMMA PlaceFrames ==
    ASSUME NEW d \in TDevice
    PROVE  /\ d.lan # None => [kind |-> "lan", id |-> d.lan] \in AllFrames
           /\ d.loc # NoLoc => /\ [kind |-> "ports", macs |-> d.loc.clients] \in AllFrames
                               /\ [kind |-> "ports", macs |-> d.loc.switchClients] \in AllFrames
  BY DEF AllFrames, switchFrames

LEMMA RowsAre ==
    ASSUME NEW s
    PROVE  rows(s) \subseteq scoped(s) /\ scoped(s) \subseteq TDevice
  BY DEF rows, scoped, filterDevicesByActive

(* The frames that links of the table lead to. *)
LEMMA LinkFrames ==
    ASSUME tb.scope \in AllFrames, NEW d \in TDevice
    PROVE  onFilter(tb, d) \in AllFrames /\ renderCell(d) \subseteq AllFrames
  <1>1. onFilter(tb, d) \in AllFrames
    BY NoFrameAll, MemberFrame, PlaceFrames DEF onFilter
  <1>2. renderCell(d) \subseteq AllFrames
    <2> DEFINE m == primaryMembership(d)
               A == IF m = NoScopeFrame THEN {}
                    ELSE {IF tb.scope.kind \in {"group", "user"} /\ tb.scope.id = m.id THEN NoScopeFrame ELSE m}
               B == IF d.lan = None THEN {} ELSE {[kind |-> "lan", id |-> d.lan]}
               C == IF d.loc = NoLoc THEN {} ELSE {[kind |-> "ports", macs |-> c] : c \in {d.loc.clients, d.loc.switchClients}}
    <2>1. A \subseteq AllFrames
      BY NoFrameAll, MemberFrame
    <2>2. B \subseteq AllFrames
      BY PlaceFrames
    <2>3. C \subseteq AllFrames
      BY PlaceFrames
    <2>4. renderCell(d) = A \cup B \cup C
      BY DEF renderCell
    <2> HIDE DEF A, B, C
    <2> QED  BY <2>1, <2>2, <2>3, <2>4
  <1> QED  BY <1>1, <1>2

-----------------------------------------------------------------------------
(* Mounting in a place keeps the invariant: so do the links and the way    *)
(* back from a device.                                                     *)
LEMMA MountKeeps ==
    ASSUME TableInv, NEW f \in AllFrames, tb' = useNavigationViewState(tb, f), tCache' = tCache
    PROVE  TableInv'
  <1> DEFINE g == MountBy(f)
             c == MountCollapsed(f)
  <1>1. tb' = [tb EXCEPT !.open = TRUE, !.scope = f, !.groupBy = g, !.collapsed = c]
    BY DEF useNavigationViewState, MountBy, MountCollapsed
  <1>2. tCache[f] \in CachedView
    BY DEF TableInv, TableType
  <1>3. g \in Groupings
    <2>1. tCache[f].groupBy \in SUBSET Groupings /\ "port" \in Groupings /\ None \in Groupings
      BY <1>2 DEF CachedView, Groupings
    <2> QED  BY <2>1, KeptType DEF MountBy
  <1>4. c \in SUBSET GroupKeys
    <2> DEFINE S == SUBSET GroupKeys
    <2>1. tCache[f].collapsed \in SUBSET S /\ {} \in S
      BY <1>2 DEF CachedView
    <2> HIDE DEF S
    <2>2. Kept(tCache[f].collapsed, {}) \in S
      BY <2>1, KeptType
    <2> QED  BY <2>2 DEF MountCollapsed, S
  <1> HIDE DEF g, c
  <1>5. /\ tb' \in [open : BOOLEAN, scope : AllFrames, query : {tb'.query}, inactive : BOOLEAN,
                    groupBy : Groupings, collapsed : SUBSET GroupKeys, views : Int]
        /\ tb'.scope = f /\ tb'.groupBy = g /\ tb'.collapsed = c
    BY <1>1, <1>3, <1>4 DEF TableInv, TableType
  <1>6. TableType'
    BY <1>5 DEF TableInv, TableType
  <1>7. MountBy(f)' = g /\ MountCollapsed(f)' = c /\ \A x \in AllFrames : MountBy(x)' = MountBy(x) /\ MountCollapsed(x)' = MountCollapsed(x)
    BY DEF MountBy, MountCollapsed, g, c
  <1>8. \A x \in AllFrames : OwnKeys(MountBy(x)', MountCollapsed(x)')
    BY <1>7 DEF TableInv
  <1>9. OwnKeys(g, c)
    BY DEF TableInv, g, c
  <1>10. tb'.groupBy = MountBy(f)' /\ tb'.collapsed = MountCollapsed(f)'
    BY <1>5, <1>7
  <1> QED  BY <1>5, <1>6, <1>8, <1>9, <1>10 DEF TableInv

(* Setting a view writes what the table then mounts with. *)
LEMMA ViewKeeps ==
    ASSUME TableInv, NEW g \in Groupings, NEW c \in SUBSET GroupKeys, NEW kept \in CachedView,
           AtMostOne(kept.groupBy), AtMostOne(kept.collapsed), OwnKeys(g, c), setView(g, c, kept),
           Kept(kept.groupBy, IF tb.scope \in switchFrames THEN "port" ELSE None) = g,
           Kept(kept.collapsed, {}) = c
    PROVE  TableInv'
  <1> DEFINE f == tb.scope
             n == tb.views + 1
  <1>1. /\ tb' = [tb EXCEPT !.groupBy = g, !.collapsed = c, !.views = n]
        /\ tCache' = [tCache EXCEPT ![f] = kept] /\ n \in Int /\ f \in AllFrames
        /\ tCache \in [AllFrames -> CachedView]
    BY DEF setView, TableInv, TableType
  <1> HIDE DEF n
  <1>2. /\ tb' \in [open : BOOLEAN, scope : AllFrames, query : {tb'.query}, inactive : BOOLEAN,
                    groupBy : Groupings, collapsed : SUBSET GroupKeys, views : Int]
        /\ tb'.scope = f /\ tb'.groupBy = g /\ tb'.collapsed = c
    BY <1>1 DEF TableInv, TableType
  <1>3. /\ tCache' \in [AllFrames -> CachedView] /\ tCache'[f] = kept
        /\ \A x \in AllFrames : x # f => tCache'[x] = tCache[x]
    BY <1>1
  <1>4. TableType'
    BY <1>2, <1>3 DEF TableInv, TableType
  <1>5. MountBy(f)' = g /\ MountCollapsed(f)' = c
    <2>1. f' = f
      BY <1>2
    <2> QED  BY <1>3, <2>1 DEF MountBy, MountCollapsed
  <1>6. \A x \in AllFrames : OwnKeys(MountBy(x)', MountCollapsed(x)')
    <2> SUFFICES ASSUME NEW x \in AllFrames PROVE OwnKeys(MountBy(x)', MountCollapsed(x)')
      OBVIOUS
    <2>1. CASE x = f
      BY <1>3, <2>1 DEF MountBy, MountCollapsed
    <2>2. CASE x # f
      <3>1. MountBy(x)' = MountBy(x) /\ MountCollapsed(x)' = MountCollapsed(x)
        BY <1>3, <2>2 DEF MountBy, MountCollapsed
      <3> QED  BY <3>1 DEF TableInv
    <2> QED  BY <2>1, <2>2
  <1> QED  BY <1>2, <1>4, <1>5, <1>6 DEF TableInv

LEMMA ClosedIs ==
    /\ TableClosed.open = FALSE /\ TableClosed.scope = NoScopeFrame /\ TableClosed.groupBy = None
    /\ TableClosed.collapsed = {}
    /\ TableClosed \in [open : BOOLEAN, scope : AllFrames, query : {{}}, inactive : BOOLEAN,
                        groupBy : Groupings, collapsed : SUBSET GroupKeys, views : Int]
  BY NoFrameAll DEF TableClosed, Groupings

(* Nothing is kept after another tab was chosen. *)
LEMMA FreshKeeps ==
    ASSUME tCache = [x \in AllFrames |-> EmptyView]
    PROVE  /\ tCache \in [AllFrames -> CachedView]
           /\ \A f \in AllFrames : /\ AtMostOne(tCache[f].groupBy) /\ AtMostOne(tCache[f].collapsed)
                                   /\ OwnKeys(MountBy(f), MountCollapsed(f))
  <1>1. EmptyView \in CachedView
    BY DEF EmptyView, CachedView
  <1>2. tCache \in [AllFrames -> CachedView] /\ \A f \in AllFrames : tCache[f] = EmptyView
    BY <1>1
  <1>3. ASSUME NEW f \in AllFrames
        PROVE  /\ AtMostOne(tCache[f].groupBy) /\ AtMostOne(tCache[f].collapsed)
               /\ OwnKeys(MountBy(f), MountCollapsed(f))
    <2>1. tCache[f].groupBy = {} /\ tCache[f].collapsed = {}
      BY <1>2 DEF EmptyView
    <2>2. MountCollapsed(f) = {}
      BY <2>1, KeptIs DEF MountCollapsed
    <2> QED  BY <2>1, <2>2 DEF AtMostOne, OwnKeys
  <1> QED  BY <1>2, <1>3

LEMMA TableInitInv == TableInit => TableInv
  <1> SUFFICES ASSUME TableInit PROVE TableInv
    OBVIOUS
  <1>1. tb = TableClosed /\ tCache = [x \in AllFrames |-> EmptyView]
    BY DEF TableInit
  <1>2. tb.query = {}
    BY <1>1 DEF TableClosed
  <1>3. OwnKeys(tb.groupBy, tb.collapsed)
    BY <1>1, ClosedIs DEF OwnKeys
  <1> QED  BY <1>1, <1>2, <1>3, ClosedIs, FreshKeeps DEF TableInv, TableType

LEMMA SetGroupByKeeps ==
    ASSUME TableInv, NEW g \in Groupings, setGroupBy(g)
    PROVE  TableInv'
  <1> DEFINE c == collapsedAfter(g, tb.collapsed)
             old == tCache[tb.scope]
             kept == [groupBy |-> {g}, collapsed |-> IF c = tb.collapsed THEN old.collapsed ELSE {c}]
  <1>1. setView(g, c, kept)
    BY DEF setGroupBy
  <1>2. /\ tb.scope \in AllFrames /\ old \in CachedView /\ AtMostOne(old.collapsed) /\ OwnKeys(tb.groupBy, tb.collapsed)
        /\ tb.collapsed \in SUBSET GroupKeys
    BY DEF TableInv, TableType
  <1>3. tb.collapsed = Kept(old.collapsed, {})
    BY <1>1 DEF setView, TableInv, MountCollapsed
  <1>4. c \in SUBSET GroupKeys /\ OwnKeys(g, c)
    BY <1>2 DEF collapsedAfter, OwnKeys
  <1> HIDE DEF c, old
  <1>5. kept \in CachedView /\ AtMostOne(kept.groupBy) /\ AtMostOne(kept.collapsed)
    <2>1. old.collapsed \in SUBSET SUBSET GroupKeys
      BY <1>2 DEF CachedView
    <2> QED  BY <1>2, <1>4, <2>1 DEF CachedView, AtMostOne
  <1>6. Kept(kept.groupBy, IF tb.scope \in switchFrames THEN "port" ELSE None) = g
    BY KeptIs
  <1>7. Kept(kept.collapsed, {}) = c
    BY <1>3, KeptIs
  <1> HIDE DEF kept
  <1> QED  BY <1>1, <1>4, <1>5, <1>6, <1>7, ViewKeeps

LEMMA ToggleKeeps ==
    ASSUME TableInv, NEW k \in buckets(tb), toggleCollapsed(k)
    PROVE  TableInv'
  <1> DEFINE same == {x \in tb.collapsed : x.key = k}
             c == IF same # {} THEN tb.collapsed \ same ELSE tb.collapsed \cup {Key(tb.groupBy, k)}
             old == tCache[tb.scope]
             kept == [old EXCEPT !.collapsed = {c}]
  <1>1. setView(tb.groupBy, c, kept)
    BY DEF toggleCollapsed
  <1>2. /\ tb.scope \in AllFrames /\ old \in CachedView /\ AtMostOne(old.groupBy) /\ OwnKeys(tb.groupBy, tb.collapsed)
        /\ tb.collapsed \in SUBSET GroupKeys /\ tb.groupBy \in Groupings
    BY DEF TableInv, TableType
  <1>3. tb.groupBy = Kept(old.groupBy, IF tb.scope \in switchFrames THEN "port" ELSE None)
    BY <1>1 DEF setView, TableInv, MountBy
  <1>4. Key(tb.groupBy, k) \in GroupKeys /\ Key(tb.groupBy, k).by = tb.groupBy
    <2>1. k \in {bucketFor(d, x) : d \in TDevice, x \in Groupings}
      BY <1>2, RowsAre DEF buckets
    <2> QED  BY <1>2, <2>1 DEF GroupKeys, Key
  <1>5. c \in SUBSET GroupKeys /\ OwnKeys(tb.groupBy, c)
    BY <1>2, <1>4 DEF OwnKeys
  <1> HIDE DEF c, old
  <1>6. kept \in CachedView /\ kept.groupBy = old.groupBy /\ kept.collapsed = {c}
    BY <1>2, <1>5 DEF CachedView
  <1>7. AtMostOne(kept.groupBy) /\ AtMostOne(kept.collapsed)
    BY <1>2, <1>6 DEF AtMostOne
  <1>8. Kept(kept.collapsed, {}) = c /\ Kept(kept.groupBy, IF tb.scope \in switchFrames THEN "port" ELSE None) = tb.groupBy
    BY <1>3, <1>6, KeptIs
  <1> HIDE DEF kept
  <1> QED  BY <1>1, <1>2, <1>5, <1>6, <1>7, <1>8, ViewKeeps

(* Steps that leave the views alone. *)
LEMMA AsideKeeps ==
    ASSUME TableInv, tCache' = tCache, tb'.scope = tb.scope, tb'.groupBy = tb.groupBy, tb'.collapsed = tb.collapsed,
           tb' \in [open : BOOLEAN, scope : AllFrames, query : {tb'.query}, inactive : BOOLEAN,
                    groupBy : Groupings, collapsed : SUBSET GroupKeys, views : Int],
           tb'.open => tb.open
    PROVE  TableInv'
  BY DEF TableInv, TableType, MountBy, MountCollapsed

LEMMA TableStepInv == TableInv /\ [TableNext]_tableVars => TableInv'
  <1> SUFFICES ASSUME TableInv, [TableNext]_tableVars PROVE TableInv'
    OBVIOUS
  <1>1. /\ tb \in [open : BOOLEAN, scope : AllFrames, query : {tb.query}, inactive : BOOLEAN,
                   groupBy : Groupings, collapsed : SUBSET GroupKeys, views : Int]
    BY DEF TableInv, TableType
  <1>2. ASSUME NEW g \in {None, "port", "lan", "tag", "online"}, setGroupBy(g) PROVE TableInv'
    BY <1>2, SetGroupByKeeps DEF Groupings
  <1>3. ASSUME NEW k \in buckets(tb), toggleCollapsed(k) PROVE TableInv'
    BY <1>3, ToggleKeeps
  <1>4. ASSUME NEW f \in AllFrames, setScope(f) PROVE TableInv'
    BY <1>4, MountKeeps DEF setScope
  <1>5. ASSUME NEW d \in rows(tb), clickFilter(d) \/ clickCell(d) PROVE TableInv'
    <2>1. d \in TDevice
      BY RowsAre
    <2>2. onFilter(tb, d) \in AllFrames /\ renderCell(d) \subseteq AllFrames
      BY <1>1, <2>1, LinkFrames
    <2> QED  BY <1>4, <1>5, <2>2 DEF clickFilter, clickCell
  <1>6. ASSUME NEW q, onQuery(q) PROVE TableInv'
    <2>1. tb' = [tb EXCEPT !.query = q] /\ tCache' = tCache
      BY <1>6 DEF onQuery, TTable
    <2> QED  BY <1>1, <2>1, AsideKeeps
  <1>7. ASSUME NEW f \in {NoScopeFrame} \cup switchFrames, selectOtherTab(f) PROVE TableInv'
    <2>1. f \in AllFrames
      BY NoFrameAll
    <2>2. tb' = [TableClosed EXCEPT !.inactive = tb.inactive, !.scope = f] /\ tCache' = [x \in AllFrames |-> EmptyView]
      BY <1>7 DEF selectOtherTab
    <2>3. /\ tb' \in [open : BOOLEAN, scope : AllFrames, query : {tb'.query}, inactive : BOOLEAN,
                      groupBy : Groupings, collapsed : SUBSET GroupKeys, views : Int]
          /\ tb'.open = FALSE /\ tb'.groupBy = None
      BY <1>1, <2>1, <2>2, ClosedIs
    <2>4. /\ tCache' \in [AllFrames -> CachedView]
          /\ \A x \in AllFrames : /\ AtMostOne(tCache'[x].groupBy) /\ AtMostOne(tCache'[x].collapsed)
                                  /\ OwnKeys(MountBy(x)', MountCollapsed(x)')
      <3>1. EmptyView \in CachedView
        BY DEF EmptyView, CachedView
      <3>2. tCache' \in [AllFrames -> CachedView] /\ \A x \in AllFrames : tCache'[x] = EmptyView
        BY <2>2, <3>1
      <3>3. \A x \in AllFrames : tCache'[x].groupBy = {} /\ tCache'[x].collapsed = {}
        BY <3>2 DEF EmptyView
      <3>4. \A x \in AllFrames : MountCollapsed(x)' = {}
        BY <3>3, KeptIs DEF MountCollapsed
      <3> QED  BY <3>2, <3>3, <3>4 DEF AtMostOne, OwnKeys
    <2> QED  BY <2>3, <2>4 DEF TableInv, TableType, OwnKeys
  <1>8. CASE clearScope
    BY <1>4, <1>8, NoFrameAll DEF clearScope
  <1>9. CASE setShowInactive
    <2> DEFINE i == ~tb.inactive
    <2>1. tb' = [tb EXCEPT !.inactive = i] /\ tCache' = tCache /\ i \in BOOLEAN
      BY <1>9 DEF setShowInactive, TTable
    <2> HIDE DEF i
    <2> QED  BY <1>1, <2>1, AsideKeeps
  <1>10. CASE openDeviceRow
    <2>1. tb' = [tb EXCEPT !.open = FALSE] /\ tCache' = tCache
      BY <1>10 DEF openDeviceRow, TTable
    <2> QED  BY <1>1, <2>1, AsideKeeps
  <1>11. CASE closeDetail
    BY <1>1, <1>11, MountKeeps DEF closeDetail
  <1>12. CASE UNCHANGED tableVars
    BY <1>12 DEF tableVars, TableInv, TableType, MountBy, MountCollapsed
  <1> QED
    BY <1>2, <1>3, <1>5, <1>6, <1>7, <1>8, <1>9, <1>10, <1>11, <1>12 DEF TableNext

-----------------------------------------------------------------------------
LEMMA TuplesApart ==
    ASSUME NEW a, NEW b, NEW x, NEW y
    PROVE  /\ <<a, b>> # <<x>>
           /\ <<a>> = <<x>> => a = x
           /\ <<a, b>> = <<x, y>> => a = x /\ b = y
  <1>1. Len(<<a, b>>) = 2 /\ Len(<<x>>) = 1
    OBVIOUS
  <1>2. <<a, b>> # <<x>>
    BY <1>1
  <1>3. <<a>>[1] = a /\ <<x>>[1] = x /\ <<a, b>>[1] = a /\ <<a, b>>[2] = b /\ <<x, y>>[1] = x /\ <<x, y>>[2] = y
    OBVIOUS
  <1> QED  BY <1>2, <1>3

(* Devices of one group are in the scope that its Filter sets. *)
LEMMA SameGroupInScope ==
    ASSUME NEW d \in TDevice, NEW e \in TDevice, NEW s, inScope(e, s.scope),
           s.groupBy \in Groupings, bucketFor(e, s.groupBy) = bucketFor(d, s.groupBy)
    PROVE  inScope(e, onFilter(s, d))
  <1>1. CASE s.groupBy = "port" /\ d.loc # NoLoc
    <2>1. onFilter(s, d) = [kind |-> "ports", macs |-> d.loc.clients]
      BY <1>1 DEF onFilter
    <2>2. e.loc # NoLoc /\ e.loc.switchMac = d.loc.switchMac /\ e.loc.portId = d.loc.portId
      <3>1. bucketFor(d, "port") = <<d.loc.switchMac, d.loc.portId>>
        BY <1>1 DEF bucketFor
      <3>2. bucketFor(e, "port") = IF e.loc = NoLoc THEN <<"_">> ELSE <<e.loc.switchMac, e.loc.portId>>
        BY DEF bucketFor
      <3>3. CASE e.loc = NoLoc
        <4>1. <<d.loc.switchMac, d.loc.portId>> = <<"_">>
          BY <1>1, <3>1, <3>2, <3>3
        <4> QED  BY <4>1, TuplesApart, Zenon
      <3>4. CASE e.loc # NoLoc
        <4>1. <<d.loc.switchMac, d.loc.portId>> = <<e.loc.switchMac, e.loc.portId>>
          BY <1>1, <3>1, <3>2, <3>4
        <4>2. d.loc.switchMac = e.loc.switchMac /\ d.loc.portId = e.loc.portId
          BY <4>1, TuplesApart, Zenon
        <4> QED  BY <3>4, <4>2
      <3> QED  BY <3>3, <3>4
    <2>3. e.mac \in d.loc.clients
      BY <1>1, <2>2, TableAssumption
    <2> QED  BY <2>1, <2>3 DEF inScope
  <1>2. CASE s.groupBy = "lan" /\ d.lan # None
    <2>1. onFilter(s, d) = [kind |-> "lan", id |-> d.lan]
      BY <1>2 DEF onFilter
    <2>2. e.lan = d.lan
      <3>1. bucketFor(d, "lan") = <<d.lan>>
        BY <1>2 DEF bucketFor
      <3>2. bucketFor(e, "lan") = IF e.lan = None THEN <<"_">> ELSE <<e.lan>>
        BY DEF bucketFor
      <3>3. <<d.lan>> = <<IF e.lan = None THEN "_" ELSE e.lan>>
        BY <1>2, <3>1, <3>2
      <3>4. d.lan = IF e.lan = None THEN "_" ELSE e.lan
        BY <3>3, TuplesApart, Zenon
      <3> QED  BY <3>4, TableAssumption
    <2> QED  BY <2>1, <2>2 DEF inScope
  <1>3. CASE s.groupBy = "tag" /\ primaryMembership(d) # NoScopeFrame
    <2> DEFINE m == primaryMembership(d)
               o == primaryMembership(e)
    <2>1. \A x \in TDevice : primaryMembership(x) # NoScopeFrame =>
             \/ primaryMembership(x).kind = "user" /\ primaryMembership(x).id \in Elems(x.users)
             \/ primaryMembership(x).kind = "group" /\ primaryMembership(x).id \in Elems(x.groups)
      BY TableAssumption DEF primaryMembership, Elems
    <2>2. m.id # "_"
      BY <1>3, <2>1, TableAssumption
    <2>3. o # NoScopeFrame /\ o.id = m.id
      <3>1. bucketFor(d, "tag") = <<m.id>>
        BY <1>3 DEF bucketFor
      <3>2. bucketFor(e, "tag") = IF o = NoScopeFrame THEN <<"_">> ELSE <<o.id>>
        BY DEF bucketFor
      <3>3. m # NoScopeFrame
        BY <1>3
      <3> HIDE DEF m, o
      <3>4. <<m.id>> = <<IF o = NoScopeFrame THEN "_" ELSE o.id>>
        BY <1>3, <3>1, <3>2
      <3>5. m.id = IF o = NoScopeFrame THEN "_" ELSE o.id
        BY <3>4, TuplesApart, Zenon
      <3> QED  BY <2>2, <3>5
    <2>4. o.kind = m.kind
      <3>1. \/ o.kind = "user" /\ o.id \in Elems(e.users)
            \/ o.kind = "group" /\ o.id \in Elems(e.groups)
        BY <2>1, <2>3
      <3>2. \/ m.kind = "user" /\ m.id \in Elems(d.users)
            \/ m.kind = "group" /\ m.id \in Elems(d.groups)
        BY <1>3, <2>1
      <3>3. Elems(e.users) \cap Elems(d.groups) = {} /\ Elems(d.users) \cap Elems(e.groups) = {}
        BY TableAssumption
      <3> HIDE DEF m, o
      <3> QED  BY <2>3, <3>1, <3>2, <3>3
    <2>5. CASE onFilter(s, d) = NoScopeFrame
      BY <2>5 DEF inScope, NoScopeFrame, None
    <2>6. CASE onFilter(s, d) = m
      <3>1. \/ m.kind = "user" /\ m.id \in Elems(e.users)
            \/ m.kind = "group" /\ m.id \in Elems(e.groups)
        BY <2>1, <2>3, <2>4
      <3> HIDE DEF m
      <3> QED  BY <2>6, <3>1 DEF inScope
    <2>7. onFilter(s, d) \in {NoScopeFrame, m}
      BY <1>3 DEF onFilter
    <2> QED  BY <2>5, <2>6, <2>7
  <1>4. CASE ~(s.groupBy = "port" /\ d.loc # NoLoc) /\ ~(s.groupBy = "lan" /\ d.lan # None)
             /\ ~(s.groupBy = "tag" /\ primaryMembership(d) # NoScopeFrame)
    <2>1. onFilter(s, d) = s.scope
      BY <1>4 DEF onFilter
    <2> QED  BY <2>1
  <1> QED  BY <1>1, <1>2, <1>3, <1>4

LEMMA FilterKeeps == TableInv => FilterKeepsGroup
  <1> SUFFICES ASSUME TableInv, NEW d \in rows(tb), NEW e \in rows(tb),
                      bucketFor(e, tb.groupBy) = bucketFor(d, tb.groupBy)
               PROVE  e \in rows([tb EXCEPT !.scope = onFilter(tb, d)])
    BY DEF FilterKeepsGroup, bucket
  <1> DEFINE f == onFilter(tb, d)
             s == [tb EXCEPT !.scope = f]
  <1>1. d \in TDevice /\ e \in TDevice /\ e \in scoped(tb) /\ deviceMatchesSearch(e, tb.query)
    BY RowsAre DEF rows
  <1>2. inScope(e, tb.scope) /\ tb.groupBy \in Groupings
    BY <1>1 DEF scoped, TableInv, TableType
  <1>3. inScope(e, f)
    BY <1>1, <1>2, SameGroupInScope
  <1>4. s.scope = f /\ s.query = tb.query /\ s.inactive = tb.inactive
    BY DEF TableInv, TableType
  <1> HIDE DEF s, f
  <1>5. filterDevicesByActive(s) = filterDevicesByActive(tb)
    BY <1>4 DEF filterDevicesByActive
  <1>6. e \in scoped(s)
    BY <1>1, <1>3, <1>4, <1>5 DEF scoped
  <1>7. e \in rows(s)
    BY <1>1, <1>4, <1>6 DEF rows
  <1> QED  BY <1>7 DEF s, f

(* What a column offers for a device is what the search finds it by. *)
LEMMA OfferedFound ==
    ASSUME NEW d, NEW c \in COLUMNS, NEW o \in offered(c, d)
    PROVE  o.value \in fieldValues(d, o.key)
  <1> DEFINE opt(k, v) == IF v = None THEN {} ELSE {[key |-> k, value |-> v]}
  <1>1. \A k, v : o \in opt(k, v) => o.key = k /\ o.value = v
    OBVIOUS
  <1> HIDE DEF opt
  <1>2. CASE c = "name"
    <2>1. o \in opt("device", d.name)
      BY <1>2 DEF offered, opt
    <2> QED  BY <1>1, <2>1 DEF fieldValues
  <1>3. CASE c = "group"
    <2>1. \/ \E v \in labels(d, "user") : o \in opt("user", v)
          \/ \E v \in labels(d, "group") : o \in opt("group", v)
      <3> DEFINE A(k) == UNION {opt(k, v) : v \in labels(d, k)}
      <3>0. offered("group", d) = A("user") \cup A("group")
        BY DEF offered, opt
      <3>1. o \in A("user") \cup A("group")
        BY <1>3, <3>0
      <3>2. \A k : o \in A(k) => \E v \in labels(d, k) : o \in opt(k, v)
        OBVIOUS
      <3> HIDE DEF A
      <3> QED  BY <3>1, <3>2
    <2> QED  BY <1>1, <2>1 DEF fieldValues
  <1>4. CASE c = "dap"
    <2>1. o \in opt("dapstatus", d.dap)
      BY <1>4 DEF offered, opt
    <2> QED  BY <1>1, <2>1 DEF fieldValues
  <1>5. CASE c = "ip"
    <2>1. o \in opt("ip", d.ip)
      BY <1>5 DEF offered, opt
    <2> QED  BY <1>1, <2>1 DEF fieldValues
  <1>6. CASE c = "ipv6"
    <2>1. \E v \in d.ipv6 : o \in opt("ip", v)
      BY <1>6 DEF offered, opt
    <2> QED  BY <1>1, <2>1 DEF fieldValues
  <1>7. CASE c = "network"
    <2>1. o \in opt("network", d.lan)
      BY <1>7 DEF offered, opt
    <2> QED  BY <1>1, <2>1 DEF fieldValues
  <1>8. CASE c = "port"
    <2>1. /\ d.loc # NoLoc
          /\ \/ o \in opt("switch", d.loc.switchName)
             \/ o \in opt("port", IF d.loc.uplink THEN "Uplink" ELSE d.loc.portId)
      BY <1>8 DEF offered, opt
    <2>2. CASE o \in opt("switch", d.loc.switchName)
      BY <1>1, <2>1, <2>2 DEF fieldValues
    <2>3. CASE o \in opt("port", IF d.loc.uplink THEN "Uplink" ELSE d.loc.portId)
      <3>1. fieldValues(d, "port") = {d.loc.portId} \cup IF d.loc.uplink THEN {"Uplink"} ELSE {}
        BY <2>1 DEF fieldValues
      <3>2. o.key = "port" /\ o.value = IF d.loc.uplink THEN "Uplink" ELSE d.loc.portId
        BY <1>1, <2>3
      <3> QED  BY <3>1, <3>2
    <2> QED  BY <2>1, <2>2, <2>3
  <1>9. CASE c = "mac"
    <2>1. o \in opt("mac", d.mac)
      BY <1>9 DEF offered, opt
    <2> QED  BY <1>1, <2>1 DEF fieldValues
  <1>10. CASE c = "vendor"
    <2>1. o \in opt("manufacturer", vendorShown(d))
      BY <1>10 DEF offered, opt
    <2> QED  BY <1>1, <2>1 DEF fieldValues
  <1> QED  BY <1>2, <1>3, <1>4, <1>5, <1>6, <1>7, <1>8, <1>9, <1>10 DEF COLUMNS

LEMMA ColumnFinds == ColumnOptionFinds
  <1> SUFFICES ASSUME NEW c \in COLUMNS, NEW o \in colFilterOptions(c, tb)
               PROVE  \E d \in scoped(tb) : deviceMatchesSearch(d, {o})
    BY DEF ColumnOptionFinds
  <1>1. PICK d \in scoped(tb) : o \in offered(c, d)
    BY DEF colFilterOptions
  <1>2. o.value \in fieldValues(d, o.key)
    BY <1>1, OfferedFound
  <1>3. deviceMatchesSearch(d, {o})
    BY <1>2 DEF deviceMatchesSearch
  <1> QED  BY <1>3

(* The table's groups, filters and columns agree, for every list of        *)
(* devices, every order of mounting, grouping, collapsing and filtering    *)
(* and every view state kept in between (DevicesTab.tsx, device-group.ts,  *)
(* device-col-filter.ts).                                                  *)
THEOREM TableAgreesHolds == TableSpec => []TableAgrees
<1>1. TableInv => TableAgrees
  BY FilterKeeps, ColumnFinds DEF TableInv, OwnKeys, TableAgrees, CollapsedOwn
<1> QED  BY <1>1, TableInitInv, TableStepInv, PTL DEF TableSpec

-----------------------------------------------------------------------------
(* The pages of the topology *)

TopoState ==
    [mac: TopoMac \cup {NoTopoSw}, port: TopoPort \cup {NoPort}, portFromSwitch: BOOLEAN, box: BOOLEAN,
     gold: GoldJack \cup {NoPort}, goldFromBox: BOOLEAN, mode: {"tree", "vrack"}, connections: BOOLEAN,
     focus: TopoMac \cup {NoTopoSw}, via: {"overview", "switch"}, goldVia: {"overview", "box"},
     handed: {ts.handed}]

(* The two flags say where the open port was opened, and the box stays     *)
(* under a port of it that is open.                                        *)
TopoInv ==
    /\ ts \in TopoState
    /\ tl \in [ready: BOOLEAN, listed: SUBSET TopoMac]
    /\ ts.portFromSwitch <=> ts.via = "switch"
    /\ ts.goldFromBox <=> ts.goldVia = "box"
    /\ ts.gold # NoPort /\ ts.goldVia = "box" => ts.box

LEMMA TopoInitInv == TopoInit => TopoInv
  BY TopoAssumption DEF TopoInit, TopoInv, TopoState, FreshTopo, NoPort

LEMMA TopoStepInv == TopoInv /\ [TopoNext]_topoVars => TopoInv'
  <1> SUFFICES ASSUME TopoInv, [TopoNext]_topoVars PROVE TopoInv'
    OBVIOUS
  <1>1. ASSUME NEW L \in SUBSET TopoMac, topoPoll(L) PROVE TopoInv'
    BY <1>1 DEF topoPoll, TopoInv, TopoState
  <1>2. ASSUME NEW f \in TopoMac \cup {NoTopoSw}, focusEffect(f) PROVE TopoInv'
    <2>1. CASE f = NoTopoSw
      BY <1>2, <2>1 DEF focusEffect, TopoInv, TopoState
    <2>2. CASE f # NoTopoSw
      BY <1>2, <2>2 DEF focusEffect, TopoInv, TopoState
    <2> QED  BY <2>1, <2>2
  <1>3. ASSUME NEW f \in TopoMac \cup {NoTopoSw}, remount(f) PROVE TopoInv'
    BY <1>3 DEF remount, FreshTopo, TopoInv, TopoState
  <1>4. ASSUME NEW m \in TopoMac, NEW p \in TopoPort \cup {NoPort}, onSelect(m, p) PROVE TopoInv'
    BY <1>4 DEF onSelect, TopoInv, TopoState
  <1>5. CASE onSelectBox
    <2>1. ts' = [ts EXCEPT !.box = TRUE] /\ tl' = tl
      BY <1>5 DEF onSelectBox
    <2>2. ts.box \in BOOLEAN /\ ts \in TopoState
      BY DEF TopoInv, TopoState
    <2>3. ts' \in TopoState' /\ ts'.box = TRUE
      BY <2>1, <2>2 DEF TopoState
    <2>4. /\ ts'.portFromSwitch = ts.portFromSwitch /\ ts'.via = ts.via
          /\ ts'.goldFromBox = ts.goldFromBox /\ ts'.goldVia = ts.goldVia
      BY <2>1, <2>2 DEF TopoState
    <2> QED  BY <2>1, <2>3, <2>4 DEF TopoInv
  <1>6. CASE setMode \/ toggleConnections
    <2> DEFINE c == ~ts.connections
    <2>1. /\ tl' = tl
          /\ ts' = [ts EXCEPT !.mode = IF @ = "tree" THEN "vrack" ELSE "tree"] \/ ts' = [ts EXCEPT !.connections = c]
      BY <1>6 DEF setMode, toggleConnections
    <2>2. c \in BOOLEAN
      BY Zenon
    <2> HIDE DEF c
    <2>3. ts \in TopoState
      BY DEF TopoInv
    <2>4. ts' \in TopoState'
      BY <2>1, <2>2, <2>3 DEF TopoState
    <2>5. /\ ts'.portFromSwitch = ts.portFromSwitch /\ ts'.via = ts.via /\ ts'.box = ts.box
          /\ ts'.goldFromBox = ts.goldFromBox /\ ts'.goldVia = ts.goldVia /\ ts'.gold = ts.gold
      BY <2>1, <2>3 DEF TopoState
    <2> QED  BY <2>1, <2>4, <2>5 DEF TopoInv
  <1>7. ASSUME NEW n \in GoldJack, onSelectGold(n) PROVE TopoInv'
    BY <1>7 DEF onSelectGold, TopoInv, TopoState
  <1>8. ASSUME NEW n \in GoldJack, openGoldOfBox(n) PROVE TopoInv'
    <2>1. ts.box
      BY <1>8 DEF openGoldOfBox, pageShown
    <2> QED  BY <1>8, <2>1 DEF openGoldOfBox, TopoInv, TopoState
  <1>9. ASSUME NEW n \in GoldJack, onPickGold(n) PROVE TopoInv'
    <2>1. ts.gold # NoPort
      BY <1>9 DEF onPickGold, pageShown
    <2> QED  BY <1>9, <2>1 DEF onPickGold, TopoInv, TopoState
  <1>10. ASSUME NEW p \in TopoPort, openPort(p) PROVE TopoInv'
    BY <1>10 DEF openPort, TopoInv, TopoState
  <1>11. ASSUME NEW p \in TopoPort, onPickPort(p) PROVE TopoInv'
    BY <1>11 DEF onPickPort, TopoInv, TopoState
  <1>12. CASE openSwitchClients
    BY <1>12 DEF openSwitchClients, FreshTopo, TopoInv, TopoState
  <1>13. CASE Back
    <2>1. ts' = onBackOf(ts) /\ tl' = tl
      BY <1>13 DEF Back
    <2>2. CASE pageShown(ts) = "port"
      BY <2>1, <2>2 DEF onBackOf, backPort, TopoInv, TopoState
    <2>3. CASE pageShown(ts) \in {"switch", "ap"}
      BY <2>1, <2>3 DEF onBackOf, TopoInv, TopoState
    <2>4. CASE pageShown(ts) = "gold"
      <3> DEFINE b == ts.goldFromBox /\ ts.box
      <3>1. ts' = [ts EXCEPT !.gold = NoPort, !.box = b]
        BY <2>1, <2>4, Zenon DEF onBackOf, backGold
      <3>2. b \in BOOLEAN
        BY Zenon
      <3> HIDE DEF b
      <3>3. ts \in TopoState
        BY DEF TopoInv
      <3>4. ts' \in TopoState'
        BY <3>1, <3>2, <3>3 DEF TopoState
      <3>5. /\ ts'.portFromSwitch = ts.portFromSwitch /\ ts'.via = ts.via /\ ts'.gold = NoPort
            /\ ts'.goldFromBox = ts.goldFromBox /\ ts'.goldVia = ts.goldVia
        BY <3>1, <3>3 DEF TopoState
      <3> QED  BY <2>1, <3>4, <3>5 DEF TopoInv
    <2>5. CASE pageShown(ts) = "box"
      <3>1. ts.gold = NoPort
        BY <2>5 DEF pageShown
      <3> QED  BY <2>1, <2>5, <3>1 DEF onBackOf, TopoInv, TopoState
    <2> QED  BY <1>13, <2>2, <2>3, <2>4, <2>5 DEF Back, pageShown
  <1>14. CASE UNCHANGED topoVars
    BY <1>14 DEF topoVars, TopoInv, TopoState
  <1> QED
    BY <1>1, <1>2, <1>3, <1>4, <1>5, <1>6, <1>7, <1>8, <1>9, <1>10, <1>11, <1>12, <1>13, <1>14
    DEF TopoNext

(* Back closes the page on display and shows one that lies under it. *)
LEMMA BackSteps ==
    ASSUME TopoInv, tl.ready, NEW s \in TopoState
    PROVE  /\ onBackOf(s) \in TopoState
           /\ pageShown(s) = "port" => pageShown(onBackOf(s)) # "port"
           /\ pageShown(s) \in {"switch", "ap"} => pageShown(onBackOf(s)) \in {"gold", "box", "overview"}
           /\ pageShown(s) = "gold" => pageShown(onBackOf(s)) \in {"box", "overview"}
           /\ pageShown(s) = "box" => pageShown(onBackOf(s)) = "overview"
           /\ pageShown(s) = "overview" => onBackOf(s) = s
           /\ pageShown(s) \in {"port", "switch", "ap", "gold", "box", "overview"}
  <1>0. NoTopoSw \notin tl.listed /\ NoTopoSw \notin ApMac
    BY TopoAssumption DEF TopoInv
  <1>1. pageShown(s) \in {"port", "switch", "ap", "gold", "box", "overview"}
    BY DEF pageShown
  <1>2. CASE pageShown(s) = "port"
    <2>1. onBackOf(s) = backPort(s)
      BY <1>2 DEF onBackOf
    <2>2. backPort(s) \in TopoState /\ backPort(s).port = NoPort
      BY DEF backPort, TopoState
    <2> QED  BY <1>2, <2>1, <2>2 DEF pageShown
  <1>3. CASE pageShown(s) \in {"switch", "ap"}
    <2>1. onBackOf(s) = [s EXCEPT !.mac = NoTopoSw]
      BY <1>3 DEF onBackOf
    <2>2. onBackOf(s) \in TopoState /\ onBackOf(s).mac = NoTopoSw
      BY <2>1 DEF TopoState
    <2>3. selectedSwitch(onBackOf(s)) = NoTopoSw
      BY <1>0, <2>2 DEF selectedSwitch
    <2> QED  BY <1>0, <1>3, <2>2, <2>3 DEF pageShown
  <1>4. CASE pageShown(s) \in {"gold", "box"}
    <2>1. selectedSwitch(s) = NoTopoSw
      BY <1>4 DEF pageShown
    <2>2. /\ onBackOf(s) \in TopoState /\ onBackOf(s).mac = s.mac
          /\ pageShown(s) = "gold" => onBackOf(s).gold = NoPort
          /\ pageShown(s) = "box" => onBackOf(s).gold = s.gold /\ ~onBackOf(s).box
      BY <1>4 DEF onBackOf, backGold, TopoState
    <2>3. selectedSwitch(onBackOf(s)) = NoTopoSw
      BY <2>1, <2>2 DEF selectedSwitch
    <2>4. pageShown(s) = "box" => s.gold = NoPort
      BY DEF pageShown
    <2> QED  BY <1>0, <1>4, <2>2, <2>3, <2>4 DEF pageShown
  <1>5. CASE pageShown(s) = "overview"
    BY <1>5 DEF onBackOf
  <1> QED  BY <1>1, <1>2, <1>3, <1>4, <1>5

(* However the pages were piled up, four times Back reaches the overview   *)
(* (TopologyTab: onBack of each page).                                     *)
THEOREM BackReachesOverviewHolds == TopoSpec => []BackReachesOverview
  <1>1. TopoInv => BackReachesOverview
    <2> SUFFICES ASSUME TopoInv, tl.ready
                 PROVE  pageShown(onBackOf(onBackOf(onBackOf(onBackOf(ts))))) = "overview"
      BY DEF BackReachesOverview
    <2> DEFINE a == onBackOf(ts)
               b == onBackOf(a)
               c == onBackOf(b)
               d == onBackOf(c)
    <2>1. ts \in TopoState
      BY DEF TopoInv
    <2>2. a \in TopoState /\ pageShown(a) \in {"switch", "ap", "gold", "box", "overview"}
      BY <2>1, BackSteps
    <2> HIDE DEF a
    <2>3. b \in TopoState /\ pageShown(b) \in {"gold", "box", "overview"}
      BY <2>2, BackSteps
    <2> HIDE DEF b
    <2>4. c \in TopoState /\ pageShown(c) \in {"box", "overview"}
      BY <2>3, BackSteps
    <2> HIDE DEF c
    <2>5. pageShown(d) = "overview"
      BY <2>4, BackSteps
    <2> QED  BY <2>5 DEF a, b, c
  <1> QED  BY <1>1, TopoInitInv, TopoStepInv, PTL DEF TopoSpec

(* Back from a port leads to the page it was opened from: the switch or    *)
(* box, or the overview (TopologyTab: portFromSwitch, goldFromBox).        *)
THEOREM BackWhereOpenedHolds == TopoSpec => BackWhereOpened
  <1> DEFINE Led ==
        /\ pageShown(ts) = "port" =>
             IF ts.via = "switch" THEN ts'.mac = ts.mac /\ ts'.port = NoPort ELSE selectedSwitch(ts') = NoTopoSw
        /\ pageShown(ts) = "gold" /\ ts.goldVia = "overview" => ~ts'.box
        /\ pageShown(ts) = "gold" /\ ts.goldVia = "box" => ts'.box
  <1>1. ASSUME TopoInv, ts' = onBackOf(ts), tl' = tl PROVE Led
    <2>1. NoTopoSw \notin tl.listed
      BY <1>1, TopoAssumption DEF TopoInv
    <2>2. CASE pageShown(ts) = "port"
      <3>1. ts' = backPort(ts)
        BY <1>1, <2>2 DEF onBackOf
      <3>2. ts'.port = NoPort /\ ts'.mac = IF ts.portFromSwitch THEN ts.mac ELSE NoTopoSw
        BY <1>1, <3>1 DEF backPort, TopoInv, TopoState
      <3> QED  BY <1>1, <2>1, <2>2, <3>2 DEF selectedSwitch, TopoInv
    <2>3. CASE pageShown(ts) = "gold"
      <3>1. ts' = backGold(ts) /\ ts.gold # NoPort
        <4>1. onBackOf(ts) = backGold(ts)
          BY <2>3 DEF onBackOf
        <4>2. ts.gold # NoPort
          BY <2>3 DEF pageShown
        <4> QED  BY <1>1, <4>1, <4>2
      <3> DEFINE bx == ts.goldFromBox /\ ts.box
      <3>2. ts' = [ts EXCEPT !.gold = NoPort, !.box = bx]
        BY <3>1 DEF backGold
      <3>3. ts \in TopoState
        BY <1>1 DEF TopoInv
      <3> HIDE DEF bx
      <3>4. ts'.box = bx
        BY <3>2, <3>3 DEF TopoState
      <3>5. (ts.goldVia = "overview" => ~bx) /\ (ts.goldVia = "box" => bx)
        BY <1>1, <3>1 DEF TopoInv, bx
      <3> QED  BY <2>3, <3>4, <3>5
    <2> QED  BY <2>2, <2>3
  <1>2. TopoInv /\ [TopoNext]_topoVars => [ts' = onBackOf(ts) /\ ts' # ts /\ tl' = tl => Led]_topoVars
    BY <1>1
  <1> QED  BY <1>2, TopoInitInv, TopoStepInv, PTL DEF TopoSpec, BackWhereOpened

(* No page of the topology keeps the visitor, and none sends Back          *)
(* elsewhere than where it was opened, for any switches, ports and polls.  *)
THEOREM PagesLeadBackHolds == TopoSpec => PagesLeadBack
  BY BackReachesOverviewHolds, BackWhereOpenedHolds, PTL DEF PagesLeadBack

-----------------------------------------------------------------------------
(* The tree of switches *)

TreeType ==
    tree \in [listed : SUBSET Macs, parent : [Macs -> Macs \cup {NoParent}], nodes : SUBSET Macs,
             claims : SUBSET Claims]

LEMMA TreeInitType == TreeInit => TreeType
  BY DEF TreeInit, TreeType

LEMMA TreeStepType == TreeType /\ [TreeNext]_tree => TreeType'
  <1> SUFFICES ASSUME TreeType, [TreeNext]_tree PROVE TreeType'
    OBVIOUS
  <1>1. ASSUME NEW m \in Macs, pollLists(m) PROVE TreeType'
    BY <1>1 DEF TreeType, pollLists
  <1>2. ASSUME NEW m \in Macs, pollNode(m) PROVE TreeType'
    BY <1>2 DEF TreeType, pollNode
  <1>3. ASSUME NEW m \in Macs, NEW p \in Macs \cup {NoParent}, pollParent(m, p) PROVE TreeType'
    <2> DEFINE f == [tree.parent EXCEPT ![m] = p]
    <2>1. tree' = [tree EXCEPT !.parent = f] /\ f \in [Macs -> Macs \cup {NoParent}]
      BY <1>3 DEF TreeType, pollParent
    <2> HIDE DEF f
    <2> QED  BY <2>1 DEF TreeType
  <1>4. ASSUME NEW c \in Claims, pollClaim(c) PROVE TreeType'
    BY <1>4 DEF TreeType, pollClaim
  <1>5. CASE UNCHANGED tree
    BY <1>5 DEF TreeType
  <1> QED  BY <1>1, <1>2, <1>3, <1>4, <1>5 DEF TreeNext

LEMMA MacsFinite ==
    /\ Len(SwMac) \in Nat /\ DOMAIN SwMac = 1..Len(SwMac) /\ Macs = {SwMac[i] : i \in 1..Len(SwMac)}
    /\ IsFiniteSet(Macs) /\ Cardinality(Macs) \in Nat /\ Cardinality(Macs) <= Len(SwMac)
  <1>1. Len(SwMac) \in Nat /\ DOMAIN SwMac = 1..Len(SwMac) /\ SwMac \in [1..Len(SwMac) -> Macs]
    BY TreeAssumption
  <1>2. Macs = {SwMac[i] : i \in 1..Len(SwMac)}
    BY <1>1 DEF Macs
  <1>3. SwMac \in Surjection(1..Len(SwMac), Macs)
    BY <1>1, <1>2 DEF Surjection
  <1>4. IsFiniteSet(1..Len(SwMac)) /\ Cardinality(1..Len(SwMac)) = Len(SwMac)
    BY <1>1, FS_Interval
  <1>5. IsFiniteSet(Macs) /\ Cardinality(Macs) <= Len(SwMac)
    BY <1>3, <1>4, FS_Surjection
  <1> QED  BY <1>1, <1>2, <1>5, FS_CardinalityType

-----------------------------------------------------------------------------
(* The chain of parents *)

Up(x) == IF x \in tree.listed THEN tree.parent[x] ELSE NoParent
Places == Macs \cup {NoParent}

LEMMA UpIs ==
    ASSUME TreeType, NEW x
    PROVE  /\ Up(x) \in Places /\ (x \notin tree.listed => Up(x) = NoParent)
           /\ (x \in tree.listed => Up(x) = tree.parent[x] /\ x \in Macs) /\ NoParent \notin tree.listed
  BY TreeAssumption DEF TreeType, Up, Places

LEMMA UpsIs ==
    ASSUME TreeType, NEW m \in Macs
    PROVE  /\ ups(m) \in [0..Len(SwMac) -> Places] /\ ups(m)[0] = m
           /\ \A n \in 1..Len(SwMac) : ups(m)[n] = Up(ups(m)[n - 1])
  <1> DEFINE N == Len(SwMac)
             T == Places
             F == [q \in (1..N) \X T |-> Up(q[2])]
             Def(p) == [n \in 0..N |-> IF n = 0 THEN m ELSE Up(p[n - 1])]
             g == ups(m)
  <1>1. N \in Nat /\ m \in T /\ \A x : Up(x) \in T
    BY MacsFinite, UpIs DEF Places
  <1>2. F \in [(1..N) \X T -> T]
    BY <1>1
  <1>3. PICK f \in [0..N -> T] : Recursive(f, N, m, F)
    <2> HIDE DEF N, T, F
    <2> QED  BY <1>1, <1>2, Recursion
  <1>4. f[0] = m /\ \A n \in 1..N : f[n] = Up(f[n - 1])
    <2>1. ASSUME NEW n \in 1..N PROVE f[n] = Up(f[n - 1])
      <3>1. n - 1 \in 0..N
        BY <1>1
      <3>2. f[n - 1] \in T
        BY <3>1
      <3>3. F[<<n, f[n - 1]>>] = Up(f[n - 1])
        <4> HIDE DEF T, N
        <4> QED  BY <3>2
      <3> QED  BY <1>3, <3>3 DEF Recursive
    <2> QED  BY <1>3, <2>1 DEF Recursive
  <1>5. f = Def(f)
    <2>1. \A n \in 0..N : n = 0 \/ n \in 1..N
      BY <1>1
    <2>2. \A n \in 0..N : f[n] = Def(f)[n]
      BY <1>4, <2>1
    <2> QED  BY <2>2
  <1>6. g = CHOOSE p : p = Def(p)
    BY DEF ups, Up
  <1>7. g = Def(g)
    <2> HIDE DEF Def, g
    <2> QED  BY <1>5, <1>6
  <1>8. g[0] = m /\ \A n \in 1..N : g[n] = Up(g[n - 1])
    <2> HIDE DEF g, N
    <2>1. 0 \in 0..N /\ \A n \in 1..N : n \in 0..N /\ n # 0
      BY <1>1
    <2> QED  BY <1>7, <2>1
  <1>9. \A n \in 0..N : g[n] \in T
    <2>1. \A n \in 0..N : n = 0 \/ n \in 1..N
      BY <1>1
    <2> HIDE DEF g, N, T
    <2> QED  BY <1>1, <1>8, <2>1
  <1>10. g \in [0..N -> T]
    <2> HIDE DEF g, T
    <2>1. g = [n \in 0..N |-> g[n]]
      BY <1>7
    <2> QED  BY <1>9, <2>1
  <1> QED  BY <1>8, <1>10

(* Once a switch is not listed, nothing is above it. *)
LEMMA UpsEnd ==
    ASSUME TreeType, NEW m \in Macs, NEW k \in 0..Len(SwMac), ups(m)[k] \notin tree.listed
    PROVE  \A n \in k + 1 .. Len(SwMac) : ups(m)[n] = NoParent
  <1> DEFINE N == Len(SwMac)
             S == {n \in 0..N : n > k => ups(m)[n] = NoParent}
  <1>1. N \in Nat /\ k \in Nat
    BY MacsFinite
  <1>2. 0 \in S
    BY <1>1
  <1>3. ASSUME NEW n \in 1..N, n - 1 \in S PROVE n \in S
    <2>1. ASSUME n > k PROVE ups(m)[n] = NoParent
      <3>1. ups(m)[n] = Up(ups(m)[n - 1])
        BY UpsIs
      <3>2. n - 1 = k \/ n - 1 > k
        BY <1>1, <2>1
      <3>3. ups(m)[n - 1] \notin tree.listed
        BY <1>3, <3>2, UpIs
      <3> QED  BY <3>1, <3>3, UpIs
    <2> QED  BY <1>1, <2>1
  <1>4. \A n \in 0..N : n \in S
    <2> HIDE DEF S, N
    <2> QED  BY <1>1, <1>2, <1>3, IntervalInduction
  <1> QED  BY <1>1, <1>4

(* Below a place of a chain that is one, all are listed. *)
LEMMA UpsListed ==
    ASSUME TreeType, NEW m \in Macs, NEW n \in 0..Len(SwMac), ups(m)[n] # NoParent, NEW k \in 0..n - 1
    PROVE  ups(m)[k] \in tree.listed
  <1>1. Len(SwMac) \in Nat /\ k \in 0..Len(SwMac) /\ n \in k + 1 .. Len(SwMac)
    BY MacsFinite
  <1> QED  BY <1>1, UpsEnd

(* The chain of a switch of the chain is the rest of it. *)
LEMMA UpsShift ==
    ASSUME TreeType, NEW m \in Macs, NEW k \in 0..Len(SwMac), NEW a \in Macs, a = ups(m)[k]
    PROVE  \A n \in 0 .. Len(SwMac) - k : ups(a)[n] = ups(m)[k + n]
  <1> DEFINE N == Len(SwMac) - k
             S == {n \in 0..N : ups(a)[n] = ups(m)[k + n]}
  <1>1. Len(SwMac) \in Nat /\ N \in Nat /\ k \in Nat
    BY MacsFinite
  <1>2. 0 \in S
    <2>1. k + 0 = k /\ 0 \in 0..N
      BY <1>1
    <2> QED  BY <2>1, UpsIs
  <1>3. ASSUME NEW n \in 1..N, n - 1 \in S PROVE n \in S
    <2>1. n \in 1..Len(SwMac) /\ k + n \in 1..Len(SwMac) /\ (k + n) - 1 = k + (n - 1) /\ n \in 0..N
      BY <1>1
    <2>2. ups(a)[n] = Up(ups(a)[n - 1]) /\ ups(m)[k + n] = Up(ups(m)[k + (n - 1)])
      BY <2>1, UpsIs
    <2> QED  BY <1>3, <2>1, <2>2
  <1>4. \A n \in 0..N : n \in S
    <2> HIDE DEF S, N
    <2> QED  BY <1>1, <1>2, <1>3, IntervalInduction
  <1> QED  BY <1>4

(* A chain that meets a switch again runs in a circle. *)
LEMMA StraightApart ==
    ASSUME TreeType, NEW m \in Macs, Straight(m), NEW i \in 0..Len(SwMac), NEW k \in 0..Len(SwMac), i < k,
           ups(m)[i] \in tree.listed
    PROVE  ups(m)[i] # ups(m)[k]
  <1> SUFFICES ASSUME ups(m)[i] = ups(m)[k] PROVE FALSE
    OBVIOUS
  <1> DEFINE a == ups(m)[i]
  <1>1. a \in Macs
    BY UpIs
  <1>2. Len(SwMac) \in Nat /\ k - i \in 0 .. Len(SwMac) - i /\ i + (k - i) = k /\ k - i \in 1..Len(SwMac)
    BY MacsFinite
  <1>3. ups(a)[k - i] = ups(m)[i + (k - i)]
    BY <1>1, <1>2, UpsShift
  <1>4. ups(a)[k - i] = a
    BY <1>2, <1>3
  <1>5. OnCycle(a)
    <2> HIDE DEF a
    <2>1. a \in tree.listed
      BY DEF a
    <2> QED  BY <1>2, <1>4, <2>1 DEF OnCycle, Above
  <1>6. a \in {m} \cup Above(m)
    <2>1. CASE i = 0
      BY <2>1, UpsIs
    <2>2. CASE i # 0
      <3>1. i \in 1..Len(SwMac)
        BY <1>2, <2>2
      <3> QED  BY <3>1 DEF Above
    <2> QED  BY <2>1, <2>2
  <1> QED  BY <1>5, <1>6 DEF Straight

(* A straight chain ends: there are not enough switches for more. *)
LEMMA ChainEnds ==
    ASSUME TreeType, NEW m \in Macs, Straight(m)
    PROVE  ups(m)[Len(SwMac)] = NoParent
  <1> DEFINE N == Len(SwMac)
             u == ups(m)
  <1> SUFFICES ASSUME u[N] # NoParent PROVE FALSE
    OBVIOUS
  <1>1. N \in Nat /\ N \in 0..N /\ IsFiniteSet(Macs) /\ Cardinality(Macs) <= N /\ Cardinality(Macs) \in Nat
    BY MacsFinite
  <1>2. \A n \in 0 .. N - 1 : u[n] \in tree.listed
    BY <1>1, UpsListed
  <1>3. u \in [0..N -> Places]
    BY UpsIs
  <1>4. u \in [0..N -> Macs]
    <2>1. \A n \in 0..N : n = N \/ n \in 0 .. N - 1
      BY <1>1
    <2>2. u[N] \in Macs
      BY <1>1, <1>3 DEF Places
    <2>3. \A n \in 0..N : u[n] \in Macs
      BY <1>2, <2>1, <2>2, UpIs
    <2> QED  BY <1>3, <2>3
  <1>5. IsFiniteSet(0..N) /\ Cardinality(0..N) = N + 1
    BY <1>1, FS_Interval
  <1>6. Cardinality(Macs) < Cardinality(0..N)
    BY <1>1, <1>5
  <1>7. PICK x, y \in 0..N : x # y /\ u[x] = u[y]
    <2> HIDE DEF u, N
    <2> QED  BY <1>1, <1>4, <1>5, <1>6, FS_PigeonHole
  <1>8. ASSUME NEW i \in 0..N, NEW k \in 0..N, i < k, u[i] = u[k] PROVE FALSE
    <2>1. i \in 0 .. N - 1
      BY <1>1, <1>8
    <2>2. u[i] \in tree.listed
      BY <1>2, <2>1
    <2> QED  BY <1>8, <2>2, StraightApart
  <1>9. x < y \/ y < x
    BY <1>1, <1>7
  <1> QED  BY <1>7, <1>8, <1>9

-----------------------------------------------------------------------------
(* The tree that is drawn *)

(* Nesting, then adding the rest, gives every switch of the poll a row. *)
LEMMA RowsListed ==
    ASSUME TreeType
    PROVE  nestOrphans = tree.listed
  <1> DEFINE N == Len(SwMac)
             T == SUBSET tree.listed
             F == [q \in (1..N) \X T |-> nestOnce(q[2])]
             Def(p) == [n \in 0..N |-> IF n = 0 THEN walkTopo ELSE nestOnce(p[n - 1])]
             g == CHOOSE p : p = Def(p)
  <1>1. N \in Nat /\ walkTopo \in T /\ \A x \in T : nestOnce(x) \in T
    BY MacsFinite DEF walkTopo, nestOnce
  <1>2. F \in [(1..N) \X T -> T]
    BY <1>1
  <1>3. PICK f \in [0..N -> T] : Recursive(f, N, walkTopo, F)
    <2> HIDE DEF N, T, F
    <2> QED  BY <1>1, <1>2, Recursion
  <1>4. f[0] = walkTopo /\ \A n \in 1..N : f[n] = nestOnce(f[n - 1])
    <2>1. ASSUME NEW n \in 1..N PROVE f[n] = nestOnce(f[n - 1])
      <3>1. n - 1 \in 0..N
        BY <1>1
      <3>2. f[n - 1] \in T
        BY <3>1
      <3>3. F[<<n, f[n - 1]>>] = nestOnce(f[n - 1])
        <4> HIDE DEF T, N
        <4> QED  BY <3>2
      <3> QED  BY <1>3, <3>3 DEF Recursive
    <2> QED  BY <1>3, <2>1 DEF Recursive
  <1>5. f = Def(f)
    <2>1. \A n \in 0..N : n = 0 \/ n \in 1..N
      BY <1>1
    <2>2. \A n \in 0..N : f[n] = Def(f)[n]
      BY <1>4, <2>1
    <2> QED  BY <2>2
  <1>6. g = Def(g)
    <2> HIDE DEF Def
    <2> QED  BY <1>5
  <1>7. g[0] = walkTopo /\ \A n \in 1..N : g[n] = nestOnce(g[n - 1])
    <2> HIDE DEF g, N
    <2>1. 0 \in 0..N /\ \A n \in 1..N : n \in 0..N /\ n # 0
      BY <1>1
    <2> QED  BY <1>6, <2>1
  <1>8. g[N] \in T
    <2> DEFINE S == {n \in 0..N : g[n] \in T}
    <2> HIDE DEF g, T
    <2>1. 0 \in S
      BY <1>1, <1>7
    <2>2. ASSUME NEW n \in 1..N, n - 1 \in S PROVE n \in S
      BY <1>1, <1>7, <2>2
    <2>3. N \in 0..N
      BY <1>1
    <2>4. \A n \in 0..N : n \in S
      <3> HIDE DEF S, N
      <3> QED  BY <1>1, <2>1, <2>2, IntervalInduction
    <2> QED  BY <2>3, <2>4
  <1>9. nestedRows = g[N]
    BY DEF nestedRows
  <1> QED
    <2> HIDE DEF g
    <2> QED  BY <1>8, <1>9 DEF nestOrphans

LEMMA LevelsAre ==
    ASSUME TreeType
    PROVE  /\ TopoTree \in [0..Len(SwMac) -> SUBSET tree.listed]
           /\ TopoTree[0] = {m \in tree.listed : tree.parent[m] \notin tree.listed}
           /\ \A n \in 1..Len(SwMac) :
                TopoTree[n] = {m \in tree.listed : tree.parent[m] \in TopoTree[n - 1]}
  <1> DEFINE N == Len(SwMac)
             drawn == tree.listed
             T == SUBSET drawn
             base == {m \in drawn : tree.parent[m] \notin drawn}
             Kids(S) == {m \in drawn : tree.parent[m] \in S}
             F == [q \in (1..N) \X T |-> Kids(q[2])]
             Def(p) == [n \in 0..N |-> IF n = 0 THEN base ELSE Kids(p[n - 1])]
             g == TopoTree
  <1>1. N \in Nat /\ base \in T /\ \A x : Kids(x) \in T
    BY MacsFinite
  <1>2. F \in [(1..N) \X T -> T]
    BY <1>1
  <1>3. PICK f \in [0..N -> T] : Recursive(f, N, base, F)
    <2> HIDE DEF N, T, F, base
    <2> QED  BY <1>1, <1>2, Recursion
  <1>4. f[0] = base /\ \A n \in 1..N : f[n] = Kids(f[n - 1])
    <2>1. ASSUME NEW n \in 1..N PROVE f[n] = Kids(f[n - 1])
      <3>1. n - 1 \in 0..N
        BY <1>1
      <3>2. f[n - 1] \in T
        BY <3>1
      <3>3. F[<<n, f[n - 1]>>] = Kids(f[n - 1])
        <4> HIDE DEF T, N, Kids
        <4> QED  BY <3>2
      <3> HIDE DEF Kids, F
      <3> QED  BY <1>3, <3>3 DEF Recursive
    <2> QED  BY <1>3, <2>1 DEF Recursive
  <1>5. f = Def(f)
    <2> HIDE DEF Kids, base
    <2>1. \A n \in 0..N : n = 0 \/ n \in 1..N
      BY <1>1
    <2>2. \A n \in 0..N : f[n] = Def(f)[n]
      BY <1>4, <2>1
    <2> QED  BY <2>2
  <1>6. g = CHOOSE p : p = Def(p)
    <2>1. nestOrphans = drawn
      BY RowsListed
    <2>2. topoRoots(drawn) = base
      BY DEF topoRoots
    <2>3. \A S : UNION {childMap(drawn, m) : m \in S} = Kids(S)
      BY DEF childMap
    <2>4. g = CHOOSE p : p = [n \in 0..N |->
                 IF n = 0 THEN topoRoots(nestOrphans) ELSE UNION {childMap(nestOrphans, m) : m \in p[n - 1]}]
      BY DEF TopoTree
    <2>5. g = CHOOSE p : p = [n \in 0..N |->
                 IF n = 0 THEN topoRoots(drawn) ELSE UNION {childMap(drawn, m) : m \in p[n - 1]}]
      BY <2>1, <2>4
    <2> HIDE DEF g, drawn, base, Kids, N
    <2>6. \A p : Def(p) = [n \in 0..N |->
                 IF n = 0 THEN topoRoots(drawn) ELSE UNION {childMap(drawn, m) : m \in p[n - 1]}]
      BY <2>2, <2>3
    <2> HIDE DEF Def
    <2> QED  BY <2>5, <2>6
  <1>7. g = Def(g)
    <2> HIDE DEF Def, g
    <2> QED  BY <1>5, <1>6
  <1>8. g[0] = base /\ \A n \in 1..N : g[n] = Kids(g[n - 1])
    <2> HIDE DEF g, N, Kids, base
    <2>1. 0 \in 0..N /\ \A n \in 1..N : n \in 0..N /\ n # 0
      BY <1>1
    <2> QED  BY <1>7, <2>1
  <1>9. g \in [0..N -> T]
    <2> HIDE DEF g, T, Kids, base
    <2>1. g = [n \in 0..N |-> g[n]]
      BY <1>7
    <2>2. \A n \in 0..N : n = 0 \/ n \in 1..N
      BY <1>1
    <2>3. \A n \in 0..N : g[n] \in T
      BY <1>1, <1>8, <2>2
    <2> QED  BY <2>1, <2>3
  <1> QED  BY <1>8, <1>9

LEMMA LevelsApart ==
    ASSUME TreeType
    PROVE  \A i, k \in 0..Len(SwMac) : i < k => TopoTree[i] \cap TopoTree[k] = {}
  <1> DEFINE N == Len(SwMac)
             g == TopoTree
             S == {i \in 0..N : \A k \in 0..N : i < k => g[i] \cap g[k] = {}}
  <1>1. /\ N \in Nat /\ \A n \in 0..N : g[n] \subseteq tree.listed
        /\ g[0] = {m \in tree.listed : tree.parent[m] \notin tree.listed}
        /\ \A n \in 1..N : g[n] = {m \in tree.listed : tree.parent[m] \in g[n - 1]}
    BY MacsFinite, LevelsAre
  <1> HIDE DEF g
  <1>2. 0 \in S
    <2> SUFFICES ASSUME NEW k \in 0..N, 0 < k, NEW x \in g[0] \cap g[k] PROVE FALSE
      BY <1>1
    <2>1. k \in 1..N /\ k - 1 \in 0..N
      BY <1>1
    <2>2. tree.parent[x] \in g[k - 1] /\ tree.parent[x] \notin tree.listed
      BY <1>1, <2>1
    <2> QED  BY <1>1, <2>1, <2>2
  <1>3. ASSUME NEW i \in 1..N, i - 1 \in S PROVE i \in S
    <2> SUFFICES ASSUME NEW k \in 0..N, i < k, NEW x \in g[i] \cap g[k] PROVE FALSE
      BY <1>1
    <2>1. k \in 1..N /\ k - 1 \in 0..N /\ i - 1 < k - 1
      BY <1>1
    <2>2. tree.parent[x] \in g[k - 1] /\ tree.parent[x] \in g[i - 1]
      BY <1>1, <2>1
    <2> QED  BY <1>3, <2>1, <2>2
  <1>4. \A i \in 0..N : i \in S
    <2> HIDE DEF S, N
    <2> QED  BY <1>1, <1>2, <1>3, IntervalInduction
  <1> QED  BY <1>4 DEF g

(* The switches above one that is drawn are drawn higher up. *)
LEMMA AboveHigher ==
    ASSUME TreeType, NEW q \in 0..Len(SwMac), NEW x \in TopoTree[q], NEW a \in Above(x)
    PROVE  \E p \in 0 .. q - 1 : a \in TopoTree[p]
  <1> DEFINE N == Len(SwMac)
             g == TopoTree
             u == ups(x)
             S == {n \in 0..N : u[n] \in tree.listed => n <= q /\ u[n] \in g[q - n]}
  <1>1. /\ N \in Nat /\ q \in Nat /\ \A n \in 0..N : g[n] \subseteq tree.listed
        /\ g[0] = {m \in tree.listed : tree.parent[m] \notin tree.listed}
        /\ \A n \in 1..N : g[n] = {m \in tree.listed : tree.parent[m] \in g[n - 1]}
    BY MacsFinite, LevelsAre
  <1>2. x \in tree.listed /\ x \in Macs
    BY <1>1, UpIs
  <1>3. u[0] = x /\ \A n \in 1..N : u[n] = Up(u[n - 1])
    BY <1>2, UpsIs
  <1>4. 0 \in S
    <2>1. q - 0 = q /\ 0 <= q /\ 0 \in 0..N
      BY <1>1
    <2> QED  BY <1>3, <2>1
  <1> HIDE DEF g, u
  <1>5. ASSUME NEW n \in 1..N, n - 1 \in S PROVE n \in S
    <2>1. SUFFICES ASSUME u[n] \in tree.listed PROVE n <= q /\ u[n] \in g[q - n]
      BY <1>1
    <2>2. u[n - 1] \in tree.listed /\ u[n] = tree.parent[u[n - 1]]
      BY <1>3, <2>1, UpIs
    <2>3. n - 1 <= q /\ u[n - 1] \in g[q - (n - 1)]
      BY <1>5, <2>2
    <2>4. n - 1 # q
      <3>1. ASSUME n - 1 = q PROVE FALSE
        <4>1. q - (n - 1) = 0
          BY <1>1, <3>1
        <4>2. u[n - 1] \in g[0]
          BY <2>3, <4>1
        <4> QED  BY <1>1, <2>1, <2>2, <4>2
      <3> QED  BY <3>1
    <2>5. n <= q /\ q - (n - 1) \in 1..N /\ (q - (n - 1)) - 1 = q - n
      BY <1>1, <2>3, <2>4
    <2>6. tree.parent[u[n - 1]] \in g[q - n]
      BY <1>1, <2>3, <2>5
    <2> QED  BY <2>2, <2>5, <2>6
  <1>6. \A n \in 0..N : n \in S
    <2> HIDE DEF S, N
    <2> QED  BY <1>1, <1>4, <1>5, IntervalInduction
  <1>7. PICK n \in 1..N : a = u[n] /\ a \in tree.listed
    BY DEF Above, u
  <1>8. n <= q /\ a \in g[q - n]
    <2>1. n \in 0..N
      BY <1>1
    <2> QED  BY <1>6, <1>7, <2>1
  <1>9. q - n \in 0 .. q - 1
    BY <1>1, <1>8
  <1> QED  BY <1>8, <1>9 DEF g

LEMMA DrawnStraight ==
    ASSUME TreeType, NEW q \in 0..Len(SwMac), NEW x \in TopoTree[q]
    PROVE  x \in tree.listed /\ Straight(x)
  <1> DEFINE N == Len(SwMac)
  <1>1. N \in Nat /\ x \in tree.listed
    BY MacsFinite, LevelsAre
  <1>2. ASSUME NEW p \in 0..N, NEW a \in TopoTree[p] PROVE ~OnCycle(a)
    <2> SUFFICES ASSUME a \in Above(a) PROVE FALSE
      BY DEF OnCycle
    <2>1. PICK r \in 0 .. p - 1 : a \in TopoTree[r]
      BY <1>2, AboveHigher
    <2>2. r \in 0..N /\ r < p
      BY <1>1
    <2> QED  BY <1>2, <2>1, <2>2, LevelsApart
  <1>3. ASSUME NEW a \in {x} \cup Above(x) PROVE ~OnCycle(a)
    <2>1. CASE a = x
      BY <1>2, <2>1
    <2>2. CASE a \in Above(x)
      <3>1. PICK r \in 0 .. q - 1 : a \in TopoTree[r]
        BY <2>2, AboveHigher
      <3>2. r \in 0..N
        BY <1>1
      <3> QED  BY <1>2, <3>1, <3>2
    <2> QED  BY <2>1, <2>2
  <1> QED  BY <1>1, <1>3 DEF Straight

LEMMA StraightDrawn ==
    ASSUME TreeType, NEW x \in tree.listed, Straight(x)
    PROVE  \E n \in 0..Len(SwMac) : x \in TopoTree[n]
  <1> SUFFICES ASSUME \A n \in 0..Len(SwMac) : x \notin TopoTree[n] PROVE FALSE
    OBVIOUS
  <1> DEFINE N == Len(SwMac)
             g == TopoTree
             u == ups(x)
             S == {n \in 0..N : u[n] \in tree.listed /\ \A j \in 0 .. N - n : u[n] \notin g[j]}
  <1>1. /\ N \in Nat /\ x \in Macs
        /\ g[0] = {m \in tree.listed : tree.parent[m] \notin tree.listed}
        /\ \A n \in 1..N : g[n] = {m \in tree.listed : tree.parent[m] \in g[n - 1]}
    BY MacsFinite, LevelsAre, UpIs
  <1>2. u[0] = x /\ \A n \in 1..N : u[n] = Up(u[n - 1])
    BY <1>1, UpsIs
  <1>3. 0 \in S
    <2>1. 0 .. N - 0 = 0..N /\ 0 \in 0..N
      BY <1>1
    <2> QED  BY <1>2, <2>1
  <1>4. u[N] = NoParent
    BY <1>1, ChainEnds
  <1> HIDE DEF g, u
  <1>5. ASSUME NEW n \in 1..N, n - 1 \in S PROVE n \in S
    <2>1. u[n - 1] \in tree.listed /\ u[n] = tree.parent[u[n - 1]]
      BY <1>2, <1>5, UpIs
    <2>2. 0 \in 0 .. N - (n - 1)
      BY <1>1
    <2>3. u[n] \in tree.listed
      BY <1>1, <1>5, <2>1, <2>2
    <2>4. ASSUME NEW j \in 0 .. N - n, u[n] \in g[j] PROVE FALSE
      <3>1. j + 1 \in 1..N /\ j + 1 \in 0 .. N - (n - 1) /\ (j + 1) - 1 = j
        BY <1>1
      <3>2. u[n - 1] \in g[j + 1]
        BY <1>1, <2>1, <2>4, <3>1
      <3> QED  BY <1>5, <3>1, <3>2
    <2>5. n \in 0..N
      BY <1>1
    <2> QED  BY <2>3, <2>4, <2>5
  <1>6. \A n \in 0..N : n \in S
    <2> HIDE DEF S, N
    <2> QED  BY <1>1, <1>3, <1>5, IntervalInduction
  <1>7. N \in S
    <2>1. N \in 0..N
      BY <1>1
    <2> QED  BY <1>6, <2>1
  <1>8. u[N] \in tree.listed
    BY <1>7
  <1> QED  BY <1>4, <1>8, UpIs

LEMMA DrawsOnce == TreeType => TreeDrawsOnce
  <1> SUFFICES ASSUME TreeType PROVE TreeDrawsOnce
    OBVIOUS
  <1> DEFINE N == Len(SwMac)
             g == TopoTree
  <1>1. DOMAIN g = 0..N /\ N \in Nat /\ \A n \in 0..N : g[n] \subseteq tree.listed
    BY LevelsAre, MacsFinite
  <1>2. ASSUME NEW i \in 0..N, NEW k \in 0..N, i # k PROVE g[i] \cap g[k] = {}
    <2>1. i < k \/ k < i
      BY <1>1, <1>2
    <2>2. i < k => g[i] \cap g[k] = {}
      BY LevelsApart
    <2>3. k < i => g[k] \cap g[i] = {}
      BY LevelsApart
    <2> HIDE DEF g
    <2> QED  BY <2>1, <2>2, <2>3
  <1>3. \A n \in 0..N : \A x \in g[n] : x \in tree.listed /\ Straight(x)
    BY DrawnStraight
  <1>4. \A x \in tree.listed : Straight(x) => \E n \in 0..N : x \in g[n]
    BY StraightDrawn
  <1>5. UNION {g[n] : n \in 0..N} = {m \in tree.listed : Straight(m)}
    <2> HIDE DEF g, N
    <2> QED  BY <1>3, <1>4
  <1> QED
    <2> HIDE DEF N
    <2> QED  BY <1>1, <1>2, <1>5 DEF TreeDrawsOnce

-----------------------------------------------------------------------------
(* The port a device is listed at *)

Deeper(m) ==
    {n \in 1..Len(SwMac) : ups(m)[n] # NoParent /\ \A i, k \in 0..n - 1 : ups(m)[i] = ups(m)[k] => i = k}

LEMMA DepthIs ==
    ASSUME TreeType, NEW m
    PROVE  parentDepth(m) = Cardinality(Deeper(m)) /\ IsFiniteSet(Deeper(m)) /\ parentDepth(m) \in Nat
  <1>1. parentDepth(m) = Cardinality(Deeper(m))
    BY DEF parentDepth, Deeper
  <1>2. IsFiniteSet(1..Len(SwMac)) /\ Deeper(m) \subseteq 1..Len(SwMac)
    BY MacsFinite, FS_Interval DEF Deeper
  <1>3. IsFiniteSet(Deeper(m))
    BY <1>2, FS_Subset
  <1> QED  BY <1>1, <1>3, FS_CardinalityType

(* A switch on a straight chain is deeper than those above it. *)
LEMMA AboveIsHigher ==
    ASSUME TreeType, NEW m \in tree.listed, Straight(m), NEW a \in Above(m)
    PROVE  parentDepth(a) < parentDepth(m)
  <1> DEFINE N == Len(SwMac)
             u == ups(m)
             Gone == {n \in 1..N : u[n] = NoParent}
  <1>1. N \in Nat /\ m \in Macs
    BY MacsFinite, UpIs
  <1>2. PICK k \in 1..N : a = u[k] /\ a \in tree.listed
    BY DEF Above
  <1>3. u[N] = NoParent /\ N \in 1..N
    <2>1. N \in 1..N
      BY <1>1
    <2> QED  BY <1>1, <2>1, ChainEnds
  <1>4. PICK e \in Gone : \A n \in Gone : e <= n
    <2>1. Gone \in SUBSET Nat /\ Gone # {}
      BY <1>1, <1>3
    <2> HIDE DEF Gone
    <2> QED  BY <2>1, LeastNat
  <1>5. a \in Macs /\ a # NoParent /\ NoParent \notin tree.listed /\ k \in 0..N
    BY <1>1, <1>2, UpIs, TreeAssumption
  <1>6. e \in 1..N /\ u[e] = NoParent /\ \A n \in 1..N : n < e => u[n] # NoParent
    BY <1>1, <1>4
  <1> HIDE DEF Gone
  <1>7. \A n \in 1..N : n >= e => u[n] = NoParent
    <2> SUFFICES ASSUME NEW n \in 1..N, n >= e PROVE u[n] = NoParent
      OBVIOUS
    <2>1. CASE n = e
      BY <1>6, <2>1
    <2>2. CASE n # e
      <3>1. e \in 0..N /\ n \in e + 1 .. N
        BY <1>1, <1>6, <2>2
      <3>2. u[e] \notin tree.listed
        BY <1>5, <1>6
      <3> QED  BY <1>1, <3>1, <3>2, UpsEnd
    <2> QED  BY <2>1, <2>2
  <1>8. k < e /\ e \in Nat /\ k \in Nat
    <2>1. u[k] # NoParent
      BY <1>2, <1>5
    <2> QED  BY <1>1, <1>6, <1>7, <2>1
  <1>9. Deeper(m) = 1 .. e - 1
    <2>1. ASSUME NEW n \in Deeper(m) PROVE n \in 1 .. e - 1
      <3>1. n \in 1..N /\ u[n] # NoParent
        BY DEF Deeper
      <3> QED  BY <1>7, <1>8, <3>1
    <2>2. ASSUME NEW n \in 1 .. e - 1 PROVE n \in Deeper(m)
      <3>1. n \in 1..N /\ n < e /\ n \in 0..N
        BY <1>1, <1>6
      <3>2. u[n] # NoParent
        BY <1>6, <3>1
      <3>3. ASSUME NEW i \in 0 .. n - 1, NEW j \in 0 .. n - 1, u[i] = u[j], i < j PROVE FALSE
        <4>1. i \in 0..N /\ j \in 0..N
          BY <1>1, <3>1
        <4>2. u[i] \in tree.listed
          BY <1>1, <3>1, <3>2, UpsListed
        <4> QED  BY <1>1, <3>3, <4>1, <4>2, StraightApart
      <3>4. \A i, j \in 0 .. n - 1 : u[i] = u[j] => i = j
        <4> SUFFICES ASSUME NEW i \in 0 .. n - 1, NEW j \in 0 .. n - 1, u[i] = u[j], i # j PROVE FALSE
          OBVIOUS
        <4>1. i < j \/ j < i
          BY <3>1
        <4> QED  BY <3>3, <4>1
      <3> QED  BY <3>1, <3>2, <3>4 DEF Deeper
    <2> HIDE DEF u
    <2> QED  BY <2>1, <2>2
  <1>10. Deeper(a) \subseteq 1 .. e - 1 - k
    <2> SUFFICES ASSUME NEW n \in Deeper(a) PROVE n \in 1 .. e - 1 - k
      OBVIOUS
    <2>1. n \in 1..N /\ ups(a)[n] # NoParent
      BY DEF Deeper
    <2>2. \A j \in 0 .. N - k : ups(a)[j] = u[k + j]
      BY <1>1, <1>2, <1>5, UpsShift
    <2>3. n <= N - k
      <3>1. ASSUME ~(n <= N - k) PROVE FALSE
        <4>1. N - k \in 0 .. N - k /\ k + (N - k) = N /\ N - k \in 0..N /\ n \in (N - k) + 1 .. N
          BY <1>1, <2>1, <3>1
        <4>2. ups(a)[N - k] = NoParent
          BY <1>3, <2>2, <4>1
        <4>3. ups(a)[n] = NoParent
          BY <1>5, <4>1, <4>2, UpsEnd
        <4> QED  BY <2>1, <4>3
      <3> QED  BY <3>1
    <2>4. n \in 0 .. N - k /\ k + n \in 1..N
      BY <1>1, <2>1, <2>3
    <2>5. u[k + n] # NoParent
      BY <2>1, <2>2, <2>4
    <2>6. ~(k + n >= e)
      BY <1>7, <2>4, <2>5
    <2> QED  BY <1>1, <1>8, <2>1, <2>4, <2>6
  <1>11. Cardinality(1 .. e - 1) = e - 1 /\ IsFiniteSet(1 .. e - 1 - k) /\ Cardinality(1 .. e - 1 - k) = e - 1 - k
    <2>1. e - 1 \in Int /\ e - 1 - k \in Int /\ 1 \in Int /\ e - 1 >= 1
      BY <1>8, <1>2
    <2>2. Cardinality(1 .. e - 1) = IF 1 > e - 1 THEN 0 ELSE (e - 1) - 1 + 1
      BY <2>1, FS_Interval
    <2>3. IsFiniteSet(1 .. e - 1 - k) /\ Cardinality(1 .. e - 1 - k) = IF 1 > e - 1 - k THEN 0 ELSE (e - 1 - k) - 1 + 1
      BY <2>1, FS_Interval
    <2>4. e - 1 - k >= 0
      BY <1>8
    <2> QED  BY <1>8, <2>1, <2>2, <2>3, <2>4
  <1>12. Cardinality(Deeper(a)) <= e - 1 - k
    <2> DEFINE I == 1 .. e - 1 - k
    <2>1. IsFiniteSet(I) /\ Deeper(a) \in SUBSET I /\ Cardinality(I) = e - 1 - k
      BY <1>10, <1>11
    <2> HIDE DEF I
    <2>2. Cardinality(Deeper(a)) <= Cardinality(I)
      BY <2>1, FS_Subset
    <2> QED  BY <2>1, <2>2
  <1>13. parentDepth(a) = Cardinality(Deeper(a)) /\ parentDepth(m) = e - 1 /\ parentDepth(a) \in Nat
    BY <1>9, <1>11, DepthIs
  <1> QED  BY <1>2, <1>8, <1>12, <1>13

-----------------------------------------------------------------------------
FormRank(f) == CASE f = "port" -> 2 [] f = "uplink" -> 1 [] OTHER -> 0

(* better compares depth, source and form, in that order. *)
LEMMA BetterIs ==
    ASSUME TreeType, NEW a \in Claims, NEW b \in Claims
    PROVE  /\ parentDepth(a[1]) \in Nat /\ sourceRank(a[1]) \in Nat /\ FormRank(a[2]) \in Nat
           /\ better(a, b) <=>
                \/ parentDepth(a[1]) > parentDepth(b[1])
                \/ parentDepth(a[1]) = parentDepth(b[1]) /\ sourceRank(a[1]) > sourceRank(b[1])
                \/ parentDepth(a[1]) = parentDepth(b[1]) /\ sourceRank(a[1]) = sourceRank(b[1])
                     /\ FormRank(a[2]) > FormRank(b[2])
  <1>1. parentDepth(a[1]) \in Nat /\ parentDepth(b[1]) \in Nat
    BY DepthIs
  <1>2. sourceRank(a[1]) \in Nat /\ sourceRank(b[1]) \in Nat
    BY DEF sourceRank
  <1>3. a[2] \in Forms /\ b[2] \in Forms
    BY DEF Claims
  <1>4. FormRank(a[2]) \in Nat /\ FormRank(b[2]) \in Nat
    BY DEF FormRank
  <1>5. (IF (a[2] = "node") # (b[2] = "node") THEN a[2] # "node" ELSE a[2] # "uplink" /\ b[2] = "uplink")
          <=> FormRank(a[2]) > FormRank(b[2])
    BY <1>3 DEF Forms, FormRank
  <1> DEFINE da == parentDepth(a[1])
             db == parentDepth(b[1])
             ra == sourceRank(a[1])
             rb == sourceRank(b[1])
             fm == IF (a[2] = "node") # (b[2] = "node") THEN a[2] # "node" ELSE a[2] # "uplink" /\ b[2] = "uplink"
  <1>6. better(a, b) <=> IF da # db THEN da > db ELSE IF ra # rb THEN ra > rb ELSE fm
    BY DEF better
  <1> HIDE DEF da, db, ra, rb, fm
  <1>7. better(a, b) <=> (da > db \/ (da = db /\ ra > rb) \/ (da = db /\ ra = rb /\ fm))
    BY <1>1, <1>2, <1>6 DEF da, db, ra, rb
  <1> QED  BY <1>1, <1>2, <1>4, <1>5, <1>7 DEF da, db, ra, rb, fm

LEMMA BetterOrder ==
    ASSUME TreeType, NEW a \in Claims, NEW b \in Claims, NEW c \in Claims
    PROVE  ~better(a, a) /\ (better(a, b) /\ better(b, c) => better(a, c)) /\ ~(better(a, b) /\ better(b, a))
  <1> DEFINE d(x) == parentDepth(x[1])
             r(x) == sourceRank(x[1])
             f(x) == FormRank(x[2])
             Lex(x, y) == d(x) > d(y) \/ (d(x) = d(y) /\ r(x) > r(y)) \/ (d(x) = d(y) /\ r(x) = r(y) /\ f(x) > f(y))
  <1>1. \A x \in {a, b, c} : d(x) \in Nat /\ r(x) \in Nat /\ f(x) \in Nat
    BY BetterIs
  <1>2. \A x, y \in {a, b, c} : better(x, y) <=> Lex(x, y)
    BY BetterIs
  <1> HIDE DEF d, r, f
  <1>3. ~Lex(a, a) /\ (Lex(a, b) /\ Lex(b, c) => Lex(a, c)) /\ ~(Lex(a, b) /\ Lex(b, a))
    BY <1>1
  <1> HIDE DEF Lex
  <1> QED  BY <1>2, <1>3

(* What consider holds of the claims it has met: one that none betters. *)
BestOf(b, S) == (b = <<>> /\ S = {}) \/ \E w \in S : b = <<w>> /\ \A c \in S : ~better(c, w)

LEMMA MeetIs ==
    ASSUME TreeType, NEW S \in SUBSET Claims, NEW b, BestOf(b, S), NEW m \in Macs, NEW f \in Forms
    PROVE  BestOf(meet(b, m, f), S \cup ({<<m, f>>} \cap tree.claims))
  <1> DEFINE x == <<m, f>>
  <1>1. x \in Claims
    BY DEF Claims
  <1>2. CASE x \notin tree.claims
    <2>1. meet(b, m, f) = b /\ S \cup ({x} \cap tree.claims) = S
      BY <1>2 DEF meet
    <2> QED  BY <2>1
  <1>3. CASE x \in tree.claims
    <2>1. meet(b, m, f) = consider(b, x) /\ S \cup ({x} \cap tree.claims) = S \cup {x}
      BY <1>3 DEF meet
    <2> HIDE DEF x
    <2>2. CASE b = <<>> /\ S = {}
      <3>1. consider(b, x) = <<x>> /\ S \cup {x} = {x}
        BY <2>2 DEF consider
      <3>2. ~better(x, x)
        BY <1>1, BetterOrder
      <3>3. BestOf(<<x>>, {x})
        BY <3>2 DEF BestOf
      <3> QED  BY <2>1, <3>1, <3>3 DEF x
    <2>3. CASE \E w \in S : b = <<w>> /\ \A c \in S : ~better(c, w)
      <3>1. PICK w \in S : b = <<w>> /\ \A c \in S : ~better(c, w)
        BY <2>3
      <3>2. w \in Claims /\ b # <<>> /\ b[1] = w
        BY <3>1
      <3>3. CASE better(x, w)
        <4>1. consider(b, x) = <<x>>
          BY <3>2, <3>3 DEF consider
        <4>2. ASSUME NEW c \in S \cup {x} PROVE ~better(c, x)
          <5>1. c \in Claims
            BY <1>1
          <5>2. CASE c = x
            BY <1>1, <5>2, BetterOrder
          <5>3. CASE c \in S
            BY <1>1, <3>1, <3>2, <3>3, <5>1, <5>3, BetterOrder
          <5> QED  BY <5>2, <5>3
        <4>3. BestOf(<<x>>, S \cup {x})
          BY <4>2 DEF BestOf
        <4> QED  BY <2>1, <4>1, <4>3 DEF x
      <3>4. CASE ~better(x, w)
        <4>1. consider(b, x) = b
          BY <3>2, <3>4 DEF consider
        <4>2. BestOf(b, S \cup {x})
          BY <3>1, <3>4 DEF BestOf
        <4> QED  BY <2>1, <4>1, <4>2 DEF x
      <3> QED  BY <3>3, <3>4
    <2> QED  BY <2>2, <2>3 DEF BestOf
  <1> QED  BY <1>2, <1>3

(* No claim is better than the one a device is listed at. *)
LEMMA PortsAre ==
    ASSUME TreeType
    PROVE  BestOf(indexDevicePorts, tree.claims)
  <1> DEFINE N == Len(SwMac)
             T == {<<>>} \cup {<<c>> : c \in Claims}
             Meet3(b, n) == meet(meet(meet(b, SwMac[n], "uplink"), SwMac[n], "port"), SwMac[n], "node")
             F == [q \in (1..N) \X T |-> Meet3(q[2], q[1])]
             Def(p) == [n \in 0..N |-> IF n = 0 THEN <<>> ELSE Meet3(p[n - 1], n)]
             g == CHOOSE p : p = Def(p)
             Met(n) == {c \in tree.claims : \E i \in 1..n : c[1] = SwMac[i]}
  <1>1. N \in Nat /\ <<>> \in T /\ \A n \in 1..N : SwMac[n] \in Macs
    BY MacsFinite
  <1>2. ASSUME NEW b \in T, NEW n \in 1..N PROVE Meet3(b, n) \in T
    <2>1. ASSUME NEW x \in T, NEW f \in Forms PROVE meet(x, SwMac[n], f) \in T
      <3>1. <<SwMac[n], f>> \in Claims
        BY <1>1 DEF Claims
      <3> QED  BY <2>1, <3>1 DEF meet, consider
    <2>2. "uplink" \in Forms /\ "port" \in Forms /\ "node" \in Forms
      BY DEF Forms
    <2> HIDE DEF T
    <2> QED  BY <1>2, <2>1, <2>2
  <1>3. F \in [(1..N) \X T -> T]
    <2> HIDE DEF T, Meet3, N
    <2> QED  BY <1>2
  <1>4. PICK f \in [0..N -> T] : Recursive(f, N, <<>>, F)
    <2> HIDE DEF N, T, F
    <2> QED  BY <1>1, <1>3, Recursion
  <1> HIDE DEF Meet3
  <1>5. f[0] = <<>> /\ \A n \in 1..N : f[n] = Meet3(f[n - 1], n)
    <2>1. ASSUME NEW n \in 1..N PROVE f[n] = Meet3(f[n - 1], n)
      <3>1. n - 1 \in 0..N
        BY <1>1
      <3>2. f[n - 1] \in T
        BY <3>1
      <3>3. F[<<n, f[n - 1]>>] = Meet3(f[n - 1], n)
        <4> HIDE DEF T, N
        <4> QED  BY <3>2
      <3> QED  BY <1>4, <3>3 DEF Recursive
    <2> QED  BY <1>4, <2>1 DEF Recursive
  <1>6. f = Def(f)
    <2>1. \A n \in 0..N : n = 0 \/ n \in 1..N
      BY <1>1
    <2>2. \A n \in 0..N : f[n] = Def(f)[n]
      BY <1>5, <2>1
    <2> QED  BY <2>2
  <1>7. g = Def(g)
    <2> HIDE DEF Def
    <2> QED  BY <1>6
  <1>8. g[0] = <<>> /\ \A n \in 1..N : g[n] = Meet3(g[n - 1], n)
    <2> HIDE DEF g, N
    <2>1. 0 \in 0..N /\ \A n \in 1..N : n \in 0..N /\ n # 0
      BY <1>1
    <2> QED  BY <1>7, <2>1
  <1>9. indexDevicePorts = g[N]
    BY DEF indexDevicePorts, Meet3
  <1> DEFINE S == {n \in 0..N : BestOf(g[n], Met(n))}
  <1> HIDE DEF g
  <1>10. 0 \in S
    <2>1. Met(0) = {} /\ 0 \in 0..N
      BY <1>1
    <2> HIDE DEF Met
    <2> QED  BY <1>8, <2>1 DEF BestOf
  <1>11. ASSUME NEW n \in 1..N, n - 1 \in S PROVE n \in S
    <2> DEFINE m == SwMac[n]
               A == Met(n - 1)
               A1 == A \cup ({<<m, "uplink">>} \cap tree.claims)
               A2 == A1 \cup ({<<m, "port">>} \cap tree.claims)
               A3 == A2 \cup ({<<m, "node">>} \cap tree.claims)
    <2>1. m \in Macs /\ tree.claims \subseteq Claims
      BY <1>1 DEF TreeType
    <2>2. A \subseteq Claims /\ A1 \subseteq Claims /\ A2 \subseteq Claims
      BY <2>1
    <2>3. "uplink" \in Forms /\ "port" \in Forms /\ "node" \in Forms
      BY DEF Forms
    <2>4. Met(n) = A3
      <3>1. \A i \in 1..n : i = n \/ i \in 1 .. n - 1
        OBVIOUS
      <3>2. n \in 1..n /\ \A i \in 1 .. n - 1 : i \in 1..n
        OBVIOUS
      <3>3. \A c \in tree.claims : c[2] \in {"uplink", "port", "node"} /\ c = <<c[1], c[2]>>
        BY <2>1 DEF Claims, Forms
      <3>4. ASSUME NEW c \in Met(n) PROVE c \in A3
        <4>1. c \in A \/ (c[1] = m /\ c \in tree.claims)
          BY <3>1
        <4>2. CASE c[1] = m /\ c \in tree.claims
          <5>1. c \in {<<m, "uplink">>, <<m, "port">>, <<m, "node">>}
            BY <3>3, <4>2
          <5> HIDE DEF A, m
          <5> QED  BY <4>2, <5>1
        <4> HIDE DEF A, m
        <4> QED  BY <4>1, <4>2
      <3>5. ASSUME NEW c \in A3 PROVE c \in Met(n)
        <4>1. c \in A \/ (c \in tree.claims /\ c \in {<<m, "uplink">>, <<m, "port">>, <<m, "node">>})
          <5> HIDE DEF A, m
          <5> QED  BY <3>5
        <4>2. c \in A => c \in Met(n)
          BY <3>2
        <4>3. c \in {<<m, "uplink">>, <<m, "port">>, <<m, "node">>} => c[1] = m
          OBVIOUS
        <4> QED  BY <3>2, <4>1, <4>2, <4>3
      <3> HIDE DEF Met, A3
      <3> QED  BY <3>4, <3>5
    <2>5. BestOf(g[n - 1], A)
      BY <1>11
    <2> HIDE DEF m, A, Met
    <2>6. BestOf(meet(g[n - 1], m, "uplink"), A1)
      BY <2>1, <2>2, <2>3, <2>5, MeetIs
    <2> HIDE DEF A1
    <2>7. BestOf(meet(meet(g[n - 1], m, "uplink"), m, "port"), A2)
      BY <2>1, <2>2, <2>3, <2>6, MeetIs
    <2> HIDE DEF A2
    <2>8. BestOf(meet(meet(meet(g[n - 1], m, "uplink"), m, "port"), m, "node"), A3)
      BY <2>1, <2>2, <2>3, <2>7, MeetIs
    <2>9. n \in 0..N
      BY <1>1
    <2> QED  BY <1>8, <2>4, <2>8, <2>9 DEF Meet3, m
  <1>12. \A n \in 0..N : n \in S
    <2> HIDE DEF S, N
    <2> QED  BY <1>1, <1>10, <1>11, IntervalInduction
  <1>13. Met(N) = tree.claims
    <2>1. \A c \in tree.claims : c[1] \in Macs
      BY DEF TreeType, Claims
    <2> QED  BY <2>1, MacsFinite
  <1>14. BestOf(g[N], Met(N))
    <2>1. N \in 0..N
      BY <1>1
    <2> HIDE DEF Met
    <2> QED  BY <1>12, <2>1
  <1> QED  BY <1>9, <1>13, <1>14

LEMMA AtLeaf == TreeType => PlacedAtLeaf
  <1> SUFFICES ASSUME TreeType, NEW m \in tree.listed, NEW x \in tree.claims, x[1] = m, Straight(m),
                      \A c \in tree.claims : c[1] \in {m} \cup Above(m)
               PROVE  indexDevicePorts[1][1] = m
    BY DEF PlacedAtLeaf
  <1>1. PICK w \in tree.claims : indexDevicePorts = <<w>> /\ \A c \in tree.claims : ~better(c, w)
    BY PortsAre DEF BestOf
  <1>2. x \in Claims /\ w \in Claims /\ ~better(x, w)
    BY <1>1 DEF TreeType
  <1>3. ASSUME w[1] \in Above(m) PROVE FALSE
    <2>1. parentDepth(w[1]) < parentDepth(m)
      BY <1>3, AboveIsHigher
    <2>2. parentDepth(w[1]) \in Nat /\ parentDepth(x[1]) \in Nat
      BY <1>2, BetterIs
    <2>3. parentDepth(x[1]) > parentDepth(w[1])
      BY <2>1, <2>2
    <2> QED  BY <1>2, <2>3, BetterIs
  <1>4. w[1] = m
    BY <1>1, <1>3
  <1> QED  BY <1>1, <1>4

LEMMA JackFirst == TreeType => JackPreferred
  <1> SUFFICES ASSUME TreeType PROVE JackPreferred
    OBVIOUS
  <1>1. BestOf(indexDevicePorts, tree.claims)
    BY PortsAre
  <1>2. CASE tree.claims = {}
    BY <1>1, <1>2 DEF BestOf, JackPreferred
  <1>3. CASE tree.claims # {}
    <2>1. PICK w \in tree.claims : indexDevicePorts = <<w>> /\ \A c \in tree.claims : ~better(c, w)
      BY <1>1, <1>3 DEF BestOf
    <2>2. indexDevicePorts # <<>> /\ indexDevicePorts[1] = w
      BY <2>1
    <2>3. ASSUME w[2] # "port", <<w[1], "port">> \in tree.claims PROVE FALSE
      <3> DEFINE p == <<w[1], "port">>
      <3>1. p[1] = w[1] /\ p[2] = "port"
        OBVIOUS
      <3>2. p \in Claims /\ w \in Claims
        BY <2>3 DEF TreeType
      <3> HIDE DEF p
      <3>3. w[2] \in Forms
        BY <3>2 DEF Claims
      <3>4. FormRank(p[2]) > FormRank(w[2])
        BY <2>3, <3>1, <3>3 DEF FormRank, Forms
      <3>5. better(p, w)
        BY <3>1, <3>2, <3>4, BetterIs
      <3> QED  BY <2>1, <2>3, <3>5 DEF p
    <2> QED  BY <1>3, <2>2, <2>3 DEF JackPreferred
  <1> QED  BY <1>2, <1>3

(* Whatever parents, nodes and claims the polls report, the tree draws     *)
(* every switch whose chain of parents ends once and no other, and a       *)
(* device is listed at the deepest switch that claims it, at a jack when   *)
(* one is known (TopologyTab.tsx, switch-port.ts).                         *)
THEOREM TreeSoundHolds == TreeSpec => []TreeSound
<1>1. TreeType => TreeSound
  BY DrawsOnce, AtLeaf, JackFirst DEF TreeSound
<1> QED  BY <1>1, TreeInitType, TreeStepType, PTL DEF TreeSpec

-----------------------------------------------------------------------------
(* The rack *)

LEMMA UnitsAre ==
    ASSUME NEW us \in Seq(RUnit), NEW n \in 1..Len(us)
    PROVE  /\ us[n] \in RUnit /\ n \in DOMAIN us
           /\ wide(us[n]) \in 0..rackW /\ tall(us[n]) \in Nat
           /\ us[n].kind # "ap" => us[n].height \in Nat /\ wide(us[n]) = us[n].width /\ tall(us[n]) = us[n].height
  <1>1. us[n] \in RUnit /\ n \in DOMAIN us
    OBVIOUS
  <1> DEFINE u == us[n]
  <1>2. u.kind = "ap" \/ (u.width \in 0..rackW /\ u.height \in Nat)
    BY <1>1, RackAssumption
  <1> HIDE DEF u
  <1>3. /\ wide(u) \in 0..rackW /\ tall(u) \in Nat
        /\ u.kind # "ap" => u.height \in Nat /\ wide(u) = u.width /\ tall(u) = u.height
    <2>1. CASE u.kind = "ap"
      BY <2>1 DEF wide, tall, rackW, apDisc
    <2>2. CASE u.kind # "ap"
      BY <1>2, <2>2 DEF wide, tall
    <2> QED  BY <2>1, <2>2
  <1> QED  BY <1>1, <1>3 DEF u

(* Where the racks go. *)
LEMMA RacksAre ==
    ASSUME NEW us \in Seq(RUnit)
    PROVE  /\ placeRacks(us) \in [0..Len(us) -> Nat] /\ placeRacks(us)[0] = 0
           /\ \A n \in 1..Len(us) : placeRacks(us)[n] =
                IF n \in racks(us) THEN placeRacks(us)[n - 1] + tall(us[n]) + 40 ELSE placeRacks(us)[n - 1]
  <1> DEFINE N == Len(us)
             Add(v, n) == IF n \in racks(us) THEN v + us[n].height + 40 ELSE v
             F == [q \in (1..N) \X Nat |-> Add(q[2], q[1])]
             Def(p) == [n \in 0..N |-> IF n = 0 THEN 0 ELSE Add(p[n - 1], n)]
             g == CHOOSE p : p = Def(p)
  <1>1. N \in Nat
    OBVIOUS
  <1>2. ASSUME NEW v \in Nat, NEW n \in 1..N PROVE Add(v, n) \in Nat
    BY UnitsAre DEF racks
  <1>3. F \in [(1..N) \X Nat -> Nat]
    <2> HIDE DEF Add, N
    <2> QED  BY <1>2
  <1>4. PICK f \in [0..N -> Nat] : Recursive(f, N, 0, F)
    <2> HIDE DEF N, F
    <2> QED  BY <1>1, <1>3, Recursion
  <1> HIDE DEF Add
  <1>5. f[0] = 0 /\ \A n \in 1..N : f[n] = Add(f[n - 1], n)
    <2>1. ASSUME NEW n \in 1..N PROVE f[n] = Add(f[n - 1], n)
      <3>1. n - 1 \in 0..N
        BY <1>1
      <3>2. f[n - 1] \in Nat
        BY <3>1
      <3>3. F[<<n, f[n - 1]>>] = Add(f[n - 1], n)
        <4> HIDE DEF N
        <4> QED  BY <3>2
      <3> QED  BY <1>4, <3>3 DEF Recursive
    <2> QED  BY <1>4, <2>1 DEF Recursive
  <1>6. f = Def(f)
    <2>1. \A n \in 0..N : n = 0 \/ n \in 1..N
      BY <1>1
    <2>2. \A n \in 0..N : f[n] = Def(f)[n]
      BY <1>5, <2>1
    <2> QED  BY <2>2
  <1>7. g = Def(g)
    <2> HIDE DEF Def
    <2> QED  BY <1>6
  <1>8. g[0] = 0 /\ \A n \in 1..N : g[n] = Add(g[n - 1], n)
    <2> HIDE DEF g, N
    <2>1. 0 \in 0..N /\ \A n \in 1..N : n \in 0..N /\ n # 0
      BY <1>1
    <2> QED  BY <1>7, <2>1
  <1>9. placeRacks(us) = g
    BY DEF placeRacks, Add
  <1> DEFINE S == {n \in 0..N : g[n] \in Nat}
  <1>10. \A n \in 0..N : n \in S
    <2> HIDE DEF g
    <2>1. 0 \in S
      BY <1>8
    <2> HIDE DEF N
    <2>2. ASSUME NEW n \in 1..N, n - 1 \in S PROVE n \in S
      <3>1. g[n - 1] \in Nat /\ n \in 0..N
        BY <1>1, <2>2
      <3>2. g[n] \in Nat
        BY <1>2, <1>8, <3>1
      <3> QED  BY <3>1, <3>2
    <2> HIDE DEF S
    <2> QED  BY <1>1, <2>1, <2>2, IntervalInduction
  <1>11. g \in [0..N -> Nat]
    <2> HIDE DEF g
    <2>1. g = [n \in 0..N |-> g[n]]
      BY <1>7
    <2> QED  BY <1>10, <2>1
  <1>12. \A n \in 1..N : Add(g[n - 1], n) = IF n \in racks(us) THEN g[n - 1] + tall(us[n]) + 40 ELSE g[n - 1]
    <2> HIDE DEF g
    <2> QED  BY UnitsAre DEF Add, racks
  <1> HIDE DEF g, N
  <1> QED  BY <1>8, <1>9, <1>11, <1>12 DEF N

(* Each rack ends before the next one, and before what follows the racks. *)
LEMMA RacksApart ==
    ASSUME NEW us \in Seq(RUnit), NEW i \in racks(us), NEW j \in i..Len(us)
    PROVE  placeRacks(us)[i - 1] + tall(us[i]) + 40 <= placeRacks(us)[j]
  <1> DEFINE N == Len(us)
             g == placeRacks(us)
             S == {n \in 0..N : i <= n => g[i - 1] + tall(us[i]) + 40 <= g[n]}
  <1>1. i \in 1..N /\ N \in Nat /\ j \in 0..N
    BY DEF racks
  <1>2. g \in [0..N -> Nat] /\ tall(us[i]) \in Nat
        /\ \A n \in 1..N : g[n] = IF n \in racks(us) THEN g[n - 1] + tall(us[n]) + 40 ELSE g[n - 1]
    BY <1>1, RacksAre, UnitsAre
  <1>3. \A n \in 1..N : tall(us[n]) \in Nat
    BY UnitsAre
  <1> HIDE DEF g, N
  <1>4. 0 \in S
    BY <1>1
  <1>5. ASSUME NEW n \in 1..N, n - 1 \in S PROVE n \in S
    <2>1. n - 1 \in 0..N /\ n \in 0..N /\ g[n - 1] \in Nat /\ i - 1 \in 0..N /\ g[i - 1] \in Nat
      <3>1. n - 1 \in 0..N /\ n \in 0..N
        BY <1>1
      <3>2. i - 1 \in 0..N
        BY <1>1
      <3> QED  BY <1>2, <3>1, <3>2
    <2>2. CASE n = i
      BY <1>2, <2>1, <2>2
    <2>3. CASE n # i
      <3>1. g[n] \in Nat /\ g[n - 1] <= g[n]
        <4>1. g[n] = IF n \in racks(us) THEN g[n - 1] + tall(us[n]) + 40 ELSE g[n - 1]
          BY <1>2
        <4>2. tall(us[n]) \in Nat /\ g[n - 1] \in Nat
          BY <1>3, <2>1
        <4> QED  BY <4>1, <4>2
      <3>2. CASE ~(i <= n)
        BY <2>1, <3>2
      <3>3. CASE i <= n
        <4>1. i <= n - 1
          BY <1>1, <2>3, <3>3
        <4>2. g[i - 1] + tall(us[i]) + 40 <= g[n - 1]
          BY <1>5, <4>1
        <4> QED  BY <1>2, <2>1, <3>1, <4>2
      <3> QED  BY <3>2, <3>3
    <2> QED  BY <2>2, <2>3
  <1>6. \A n \in 0..N : n \in S
    <2> HIDE DEF S
    <2> QED  BY <1>1, <1>4, <1>5, IntervalInduction
  <1>7. i <= j
    BY <1>1
  <1> QED  BY <1>1, <1>6, <1>7 DEF g

-----------------------------------------------------------------------------
(* Rows *)

RowState == [x : Nat, y : Nat, next : Nat, tallest : Nat]
FirstRow(top) == [x |-> 0, y |-> top, next |-> 0, tallest |-> 0]
NextRow(us, some, gap, r, n) == IF n \in some THEN rowStep(r, us[n], gap) ELSE r

LEMMA RowStepIs ==
    ASSUME NEW r \in RowState, NEW u, wide(u) \in Nat, tall(u) \in Nat, NEW gap \in Nat
    PROVE  /\ rowStep(r, u, gap) \in RowState
           /\ r.next = 0 \/ r.next + wide(u) <= rackW =>
                /\ rowStep(r, u, gap).x = r.next /\ rowStep(r, u, gap).y = r.y
                /\ rowStep(r, u, gap).next = r.next + wide(u) + gap
                /\ r.tallest <= rowStep(r, u, gap).tallest /\ tall(u) <= rowStep(r, u, gap).tallest
           /\ ~(r.next = 0 \/ r.next + wide(u) <= rackW) =>
                /\ rowStep(r, u, gap).x = 0 /\ rowStep(r, u, gap).y = r.y + r.tallest + gap
                /\ rowStep(r, u, gap).next = wide(u) + gap
                /\ tall(u) <= rowStep(r, u, gap).tallest
  <1> DEFINE w == wide(u)
             t == tall(u)
  <1>0. w \in Nat /\ t \in Nat /\ r.x \in Nat /\ r.y \in Nat /\ r.next \in Nat /\ r.tallest \in Nat /\ rackW \in Nat
    BY DEF RowState, rackW
  <1>1. rowStep(r, u, gap) =
          IF r.next = 0 \/ r.next + w <= rackW
          THEN [x |-> r.next, y |-> r.y, next |-> r.next + w + gap, tallest |-> Most(r.tallest, t)]
          ELSE [x |-> 0, y |-> r.y + r.tallest + gap, next |-> w + gap, tallest |-> Most(0, t)]
    <2>1. (r.next > 0 /\ r.next + w > rackW) <=> ~(r.next = 0 \/ r.next + w <= rackW)
      BY <1>0
    <2> HIDE DEF w, t
    <2>2. 0 + w = w
      BY <1>0
    <2>3. rowStep(r, u, gap) =
            LET wrap == r.next > 0 /\ r.next + w > rackW
                x == IF wrap THEN 0 ELSE r.next
            IN [x |-> x, y |-> IF wrap THEN r.y + r.tallest + gap ELSE r.y,
                next |-> x + w + gap, tallest |-> Most(IF wrap THEN 0 ELSE r.tallest, t)]
      BY DEF rowStep, w, t
    <2>4. CASE r.next = 0 \/ r.next + w <= rackW
      BY <2>1, <2>3, <2>4
    <2>5. CASE ~(r.next = 0 \/ r.next + w <= rackW)
      BY <1>0, <2>1, <2>2, <2>3, <2>5
    <2> QED  BY <2>4, <2>5
  <1>2. /\ Most(r.tallest, t) \in Nat /\ r.tallest <= Most(r.tallest, t) /\ t <= Most(r.tallest, t)
        /\ Most(0, t) \in Nat /\ t <= Most(0, t)
    BY <1>0 DEF Most
  <1> DEFINE a == Most(r.tallest, t)
             b == Most(0, t)
  <1>3. a \in Nat /\ b \in Nat
    BY <1>2
  <1> HIDE DEF a, b, w, t
  <1>4. rowStep(r, u, gap) =
          IF r.next = 0 \/ r.next + w <= rackW
          THEN [x |-> r.next, y |-> r.y, next |-> r.next + w + gap, tallest |-> a]
          ELSE [x |-> 0, y |-> r.y + r.tallest + gap, next |-> w + gap, tallest |-> b]
    BY <1>1 DEF a, b
  <1>5. rowStep(r, u, gap) \in RowState
    BY <1>0, <1>3, <1>4 DEF RowState
  <1>6. r.next = 0 \/ r.next + w <= rackW =>
                /\ rowStep(r, u, gap).x = r.next /\ rowStep(r, u, gap).y = r.y
                /\ rowStep(r, u, gap).next = r.next + w + gap
                /\ rowStep(r, u, gap).tallest = a
    BY <1>4
  <1>7. ~(r.next = 0 \/ r.next + w <= rackW) =>
                /\ rowStep(r, u, gap).x = 0 /\ rowStep(r, u, gap).y = r.y + r.tallest + gap
                /\ rowStep(r, u, gap).next = w + gap
                /\ rowStep(r, u, gap).tallest = b
    BY <1>4
  <1> QED  BY <1>2, <1>5, <1>6, <1>7 DEF a, b, w, t

(* Where the units of the rows go. *)
AreRows(row, us, some, top, gap) ==
    /\ row \in [0..Len(us) -> RowState] /\ row[0] = FirstRow(top)
    /\ \A n \in 1..Len(us) : row[n] = NextRow(us, some, gap, row[n - 1], n)

LEMMA RowFunction ==
    ASSUME NEW us \in Seq(RUnit), NEW some, NEW top \in Nat, NEW gap \in Nat
    PROVE  AreRows(placeRows(us, some, top, gap), us, some, top, gap)
  <1> DEFINE N == Len(us)
             F == [q \in (1..N) \X RowState |-> NextRow(us, some, gap, q[2], q[1])]
             Def(p) == [n \in 0..N |-> IF n = 0 THEN FirstRow(top) ELSE NextRow(us, some, gap, p[n - 1], n)]
             g == CHOOSE p : p = Def(p)
  <1>1. N \in Nat /\ FirstRow(top) \in RowState
    BY DEF FirstRow, RowState
  <1>2. ASSUME NEW v \in RowState, NEW n \in 1..N PROVE NextRow(us, some, gap, v, n) \in RowState
    <2>1. wide(us[n]) \in Nat /\ tall(us[n]) \in Nat
      BY UnitsAre
    <2> QED  BY <2>1, RowStepIs DEF NextRow
  <1>3. F \in [(1..N) \X RowState -> RowState]
    <2> HIDE DEF N
    <2> QED  BY <1>2
  <1>4. PICK f \in [0..N -> RowState] : Recursive(f, N, FirstRow(top), F)
    <2> HIDE DEF N, F
    <2> QED  BY <1>1, <1>3, Recursion
  <1>5. f[0] = FirstRow(top) /\ \A n \in 1..N : f[n] = NextRow(us, some, gap, f[n - 1], n)
    <2> HIDE DEF N
    <2>1. ASSUME NEW n \in 1..N PROVE f[n] = NextRow(us, some, gap, f[n - 1], n)
      <3>1. n - 1 \in 0..N
        BY <1>1
      <3>2. f[n - 1] \in RowState
        BY <3>1
      <3>3. F[<<n, f[n - 1]>>] = NextRow(us, some, gap, f[n - 1], n)
        BY <3>2
      <3> HIDE DEF F
      <3> QED  BY <1>4, <3>3 DEF Recursive
    <2> QED  BY <1>4, <2>1 DEF Recursive
  <1>6. f = Def(f)
    <2> HIDE DEF N
    <2>1. \A n \in 0..N : n = 0 \/ (n \in 1..N /\ n # 0)
      BY <1>1
    <2>2. \A n \in 0..N : f[n] = Def(f)[n]
      BY <1>5, <2>1
    <2> QED  BY <2>2
  <1>7. g = Def(g)
    <2> HIDE DEF Def
    <2> QED  BY <1>6
  <1>8. g[0] = FirstRow(top) /\ \A n \in 1..N : g[n] = NextRow(us, some, gap, g[n - 1], n)
    <2> HIDE DEF g, N
    <2>1. 0 \in 0..N /\ \A n \in 1..N : n \in 0..N /\ n # 0
      BY <1>1
    <2> QED  BY <1>7, <2>1
  <1>9. placeRows(us, some, top, gap) = g
    BY DEF placeRows, NextRow, FirstRow
  <1> DEFINE S == {n \in 0..N : g[n] \in RowState}
  <1> HIDE DEF g, N
  <1>10. \A n \in 0..N : n \in S
    <2>1. 0 \in S
      BY <1>1, <1>8
    <2>2. \A n \in 1..N : n - 1 \in S => n \in S
      BY <1>1, <1>2, <1>8
    <2> HIDE DEF S
    <2> QED  BY <1>1, <2>1, <2>2, IntervalInduction
  <1>11. g \in [0..N -> RowState]
    <2>1. g = [n \in 0..N |-> g[n]]
      BY <1>7
    <2> QED  BY <1>10, <2>1
  <1> QED  BY <1>8, <1>9, <1>11 DEF N, AreRows

(* A unit u of the rows, left at q, and the row r the rows have reached:   *)
(* u is in that row, or above it.                                          *)
Behind(q, u, r, gap) ==
    \/ q.y = r.y /\ q.x + wide(u) + gap <= r.next /\ tall(u) <= r.tallest
    \/ q.y + tall(u) + gap <= r.y
Fits(q, u, top) == q \in RowState /\ q.x + wide(u) <= rackW /\ top <= q.y

LEMMA RowKeeps ==
    ASSUME NEW q \in RowState, NEW u, wide(u) \in Nat, tall(u) \in Nat,
           NEW r \in RowState, NEW v, wide(v) \in Nat, tall(v) \in Nat, NEW gap \in Nat,
           Behind(q, u, r, gap)
    PROVE  Behind(q, u, rowStep(r, v, gap), gap)
           /\ (\/ q.x + wide(u) + gap <= rowStep(r, v, gap).x
               \/ q.y + tall(u) + gap <= rowStep(r, v, gap).y)
  <1> DEFINE t == rowStep(r, v, gap)
  <1>1. /\ t \in RowState
        /\ r.next = 0 \/ r.next + wide(v) <= rackW =>
             t.x = r.next /\ t.y = r.y /\ t.next = r.next + wide(v) + gap /\ r.tallest <= t.tallest
        /\ ~(r.next = 0 \/ r.next + wide(v) <= rackW) => t.y = r.y + r.tallest + gap
    BY RowStepIs
  <1> HIDE DEF t
  <1>2. /\ q.x \in Nat /\ q.y \in Nat /\ r.y \in Nat /\ r.next \in Nat /\ r.tallest \in Nat
        /\ t.x \in Nat /\ t.y \in Nat /\ t.next \in Nat /\ t.tallest \in Nat
    BY <1>1 DEF RowState
  <1>3. CASE r.next = 0 \/ r.next + wide(v) <= rackW
    BY <1>1, <1>2, <1>3 DEF Behind, t
  <1>4. CASE ~(r.next = 0 \/ r.next + wide(v) <= rackW)
    BY <1>1, <1>2, <1>4 DEF Behind, t
  <1> QED  BY <1>3, <1>4

LEMMA RowAdds ==
    ASSUME NEW r \in RowState, NEW v, wide(v) \in 0..rackW, tall(v) \in Nat, NEW gap \in Nat, NEW top \in Nat, top <= r.y
    PROVE  Behind(rowStep(r, v, gap), v, rowStep(r, v, gap), gap) /\ Fits(rowStep(r, v, gap), v, top)
  <1> DEFINE t == rowStep(r, v, gap)
  <1>0. rackW \in Nat /\ wide(v) \in Nat /\ wide(v) <= rackW
    <2>1. rackW \in Nat /\ \A n \in 0..rackW : n \in Nat /\ n <= rackW
      BY DEF rackW
    <2> QED  BY <2>1
  <1>1. /\ t \in RowState
        /\ r.next = 0 \/ r.next + wide(v) <= rackW =>
             t.x = r.next /\ t.y = r.y /\ t.next = r.next + wide(v) + gap /\ tall(v) <= t.tallest
        /\ ~(r.next = 0 \/ r.next + wide(v) <= rackW) =>
             t.x = 0 /\ t.y = r.y + r.tallest + gap /\ t.next = wide(v) + gap /\ tall(v) <= t.tallest
    BY <1>0, RowStepIs
  <1> HIDE DEF t
  <1>2. /\ r.y \in Nat /\ r.next \in Nat /\ r.tallest \in Nat
        /\ t.x \in Nat /\ t.y \in Nat /\ t.next \in Nat /\ t.tallest \in Nat
    BY <1>1 DEF RowState
  <1>3. CASE r.next = 0 \/ r.next + wide(v) <= rackW
    BY <1>0, <1>1, <1>2, <1>3 DEF Behind, Fits, t
  <1>4. CASE ~(r.next = 0 \/ r.next + wide(v) <= rackW)
    BY <1>0, <1>1, <1>2, <1>4 DEF Behind, Fits, t
  <1> QED  BY <1>3, <1>4

(* The rows hold their units: each fits, ends before the next one in its   *)
(* row or above the next row, and above what follows the rows.             *)
RowsHeld(us, some, top, gap, row) ==
    /\ row[Len(us)] \in RowState /\ top <= row[Len(us)].y
    /\ \A i \in some : Fits(row[i], us[i], top) /\ Behind(row[i], us[i], row[Len(us)], gap)
    /\ \A i, j \in some : i < j => \/ row[i].x + wide(us[i]) + gap <= row[j].x
                                   \/ row[i].y + tall(us[i]) + gap <= row[j].y

LEMMA RowsHold ==
    ASSUME NEW us \in Seq(RUnit), NEW some \in SUBSET (1..Len(us)), NEW top \in Nat, NEW gap \in Nat
    PROVE  RowsHeld(us, some, top, gap, placeRows(us, some, top, gap))
  <1> DEFINE row == placeRows(us, some, top, gap)
  <1> DEFINE N == Len(us)
             Held(n) == /\ row[n] \in RowState /\ top <= row[n].y
                        /\ \A i \in some : i <= n => Fits(row[i], us[i], top) /\ Behind(row[i], us[i], row[n], gap)
             S == {n \in 0..N : Held(n)}
  <1>1. N \in Nat /\ some \subseteq 1..N
    OBVIOUS
  <1>2. /\ row \in [0..N -> RowState] /\ row[0] = FirstRow(top)
        /\ \A n \in 1..N : row[n] = NextRow(us, some, gap, row[n - 1], n)
    <2>1. AreRows(row, us, some, top, gap)
      BY RowFunction
    <2> HIDE DEF row
    <2> QED  BY <2>1 DEF AreRows
  <1> HIDE DEF row
  <1>3. \A n \in 1..N : wide(us[n]) \in Nat /\ wide(us[n]) \in 0..rackW /\ tall(us[n]) \in Nat
    BY UnitsAre
  <1> HIDE DEF N
  <1>4. 0 \in S
    <2>1. top <= row[0].y /\ row[0] \in RowState
      BY <1>1, <1>2 DEF FirstRow
    <2>2. \A i \in some : ~(i <= 0)
      BY <1>1
    <2> QED  BY <1>1, <2>1, <2>2
  <1>5. ASSUME NEW n \in 1..N, n - 1 \in S PROVE n \in S
    <2>1. n - 1 \in 0..N /\ n \in 0..N /\ row[n - 1] \in RowState /\ row[n] \in RowState /\ top <= row[n - 1].y
      BY <1>1, <1>2, <1>5
    <2>2. \A i \in some : i <= n => i = n \/ i <= n - 1
      BY <1>1
    <2>3. \A i \in some : i <= n - 1 => Fits(row[i], us[i], top) /\ Behind(row[i], us[i], row[n - 1], gap)
      BY <1>5
    <2>4. CASE n \notin some
      <3>1. row[n] = row[n - 1]
        BY <1>2, <2>4 DEF NextRow
      <3>2. \A i \in some : i <= n => i <= n - 1
        BY <2>2, <2>4
      <3>3. Held(n)
        BY <2>1, <2>3, <3>1, <3>2
      <3> QED  BY <2>1, <3>3
    <2>5. CASE n \in some
      <3>1. row[n] = rowStep(row[n - 1], us[n], gap)
        BY <1>2, <2>5 DEF NextRow
      <3>2. Behind(row[n], us[n], row[n], gap) /\ Fits(row[n], us[n], top)
        BY <1>3, <2>1, <3>1, RowAdds
      <3>3. top <= row[n].y
        BY <3>2 DEF Fits
      <3>4. ASSUME NEW i \in some, i <= n - 1 PROVE Behind(row[i], us[i], row[n], gap)
        <4>1. row[i] \in RowState /\ wide(us[i]) \in Nat /\ tall(us[i]) \in Nat /\ Behind(row[i], us[i], row[n - 1], gap)
          BY <1>1, <1>3, <2>3, <3>4 DEF Fits
        <4> QED  BY <1>3, <2>1, <3>1, <4>1, RowKeeps
      <3>5. Held(n)
        BY <2>1, <2>2, <2>3, <3>2, <3>3, <3>4
      <3> QED  BY <2>1, <3>5
    <2> QED  BY <2>4, <2>5
  <1>6. \A n \in 0..N : Held(n)
    <2>1. \A n \in 0..N : n \in S
      <3> HIDE DEF S
      <3> QED  BY <1>1, <1>4, <1>5, IntervalInduction
    <2> QED  BY <2>1
  <1>7. ASSUME NEW i \in some, NEW j \in some, i < j
        PROVE  \/ row[i].x + wide(us[i]) + gap <= row[j].x
               \/ row[i].y + tall(us[i]) + gap <= row[j].y
    <2>1. j - 1 \in 0..N /\ i <= j - 1 /\ i \in 1..N /\ j \in 1..N
      BY <1>1, <1>7
    <2>2. row[j - 1] \in RowState /\ row[i] \in RowState /\ Behind(row[i], us[i], row[j - 1], gap)
      BY <1>6, <2>1 DEF Fits
    <2>3. row[j] = rowStep(row[j - 1], us[j], gap)
      BY <1>2, <2>1 DEF NextRow
    <2> QED  BY <1>3, <2>1, <2>2, <2>3, RowKeeps
  <1>8. N \in 0..N /\ \A i \in some : i <= N
    BY <1>1
  <1>9. RowsHeld(us, some, top, gap, row)
    BY <1>6, <1>7, <1>8 DEF N, RowsHeld
  <1> QED  BY <1>9 DEF row

(* Where a unit is drawn, in numbers. *)
Drawn(s) == s.x \in Nat /\ s.y \in Nat /\ s.w \in Nat /\ s.h \in Nat /\ s.x + s.w <= rackW
Apart(a, b) == a.x + a.w <= b.x \/ b.x + b.w <= a.x \/ a.y + a.h <= b.y \/ b.y + b.h <= a.y

LEMMA GapApart ==
    ASSUME NEW a, NEW b, Drawn(a), Drawn(b), NEW gap \in Nat,
           a.x + a.w + gap <= b.x \/ a.y + a.h + gap <= b.y
    PROVE  Apart(a, b)
  <1>1. a.x \in Nat /\ a.w \in Nat /\ b.x \in Nat /\ a.y \in Nat /\ a.h \in Nat /\ b.y \in Nat
    BY DEF Drawn
  <1>2. a.x + a.w <= b.x \/ a.y + a.h <= b.y
    BY <1>1
  <1> QED  BY <1>2 DEF Apart

LEMMA ApartClear ==
    ASSUME NEW a, NEW b, Drawn(a), Drawn(b), Apart(a, b)
    PROVE  ~Overlap(a, b) /\ ~Overlap(b, a)
  <1>1. /\ a.x \in Nat /\ a.w \in Nat /\ a.y \in Nat /\ a.h \in Nat
        /\ b.x \in Nat /\ b.w \in Nat /\ b.y \in Nat /\ b.h \in Nat
    BY DEF Drawn
  <1>2. CASE a.x + a.w <= b.x
    BY <1>1, <1>2 DEF Overlap
  <1>3. CASE b.x + b.w <= a.x
    BY <1>1, <1>3 DEF Overlap
  <1>4. CASE a.y + a.h <= b.y
    BY <1>1, <1>4 DEF Overlap
  <1>5. CASE b.y + b.h <= a.y
    BY <1>1, <1>5 DEF Overlap
  <1> QED  BY <1>2, <1>3, <1>4, <1>5 DEF Apart

LEMMA AboveRow ==
    ASSUME NEW a \in Nat, NEW h \in Nat, NEW b \in Nat, NEW st \in Nat, NEW r \in Nat, NEW t \in Nat,
           a + h + 40 <= b, b <= st, st <= r
    PROVE  a + h \in Nat /\ a + h <= r + t
  OBVIOUS

LEMMA InRow ==
    ASSUME NEW a \in Nat, NEW h \in Nat, NEW r \in Nat, NEW t \in Nat, (a = r /\ h <= t) \/ a + h + 40 <= r
    PROVE  a + h \in Nat /\ a + h <= r + t
  OBVIOUS

LEMMA BelowRacks ==
    ASSUME NEW a \in Nat, NEW h \in Nat, NEW b \in Nat, a + h + 40 <= b
    PROVE  a + h + 40 <= b - 40 + 200 + 180
  OBVIOUS

LEMMA BelowShelves ==
    ASSUME NEW a \in Nat, NEW b \in Nat, NEW t \in Nat, a <= b + t
    PROVE  b + t + 200 + 180 \in Nat /\ a + 40 <= b + t + 200 + 180
  OBVIOUS

LEMMA PlacedAre ==
    ASSUME NEW us \in Seq(RUnit)
    PROVE  /\ \A i \in 1..Len(us) : Drawn(placed(us)[i]) /\ placed(us)[i].mac = us[i].mac
           /\ \A i, j \in 1..Len(us) : i < j => Apart(placed(us)[i], placed(us)[j])
           /\ DOMAIN placed(us) = 1..Len(us)
  <1> DEFINE N == Len(us)
             y == placeRacks(us)
             st == shelfTop(us, y[N])
             shelf == placeRows(us, shelves(us), st, 40)
             wt == wirelessTop(us, y[N], shelf[N]) + 180
             disc == placeRows(us, discs(us), wt, 160)
             at == placed(us)
  <1>1. /\ N \in Nat
        /\ racks(us) \subseteq 1..N /\ shelves(us) \in SUBSET (1..N) /\ discs(us) \in SUBSET (1..N)
        /\ \A i \in 1..N : \/ i \in racks(us) /\ i \notin shelves(us) /\ i \notin discs(us)
                           \/ i \in shelves(us) /\ i \notin racks(us) /\ i \notin discs(us)
                           \/ i \in discs(us) /\ i \notin racks(us) /\ i \notin shelves(us)
    BY DEF racks, shelves, discs
  <1>2. \A i \in 1..N : wide(us[i]) \in Nat /\ wide(us[i]) <= rackW /\ tall(us[i]) \in Nat
    <2>1. rackW \in Nat /\ \A n \in 0..rackW : n \in Nat /\ n <= rackW
      BY DEF rackW
    <2> QED  BY <2>1, UnitsAre
  <1>3. /\ y \in [0..N -> Nat]
        /\ \A i \in racks(us) : y[i - 1] \in Nat /\ y[i - 1] + tall(us[i]) + 40 <= y[N]
        /\ \A i, j \in racks(us) : i < j => y[i - 1] + tall(us[i]) + 40 <= y[j - 1]
    <2>1. y \in [0..N -> Nat]
      BY RacksAre
    <2>2. ASSUME NEW i \in racks(us) PROVE N \in i..Len(us) /\ i - 1 \in 0..N
      BY <1>1
    <2>3. ASSUME NEW i \in racks(us), NEW j \in racks(us), i < j PROVE j - 1 \in i..Len(us)
      BY <1>1, <2>3
    <2>4. \A i, j \in racks(us) : i < j => y[i - 1] + tall(us[i]) + 40 <= y[j - 1]
      BY <2>3, RacksApart
    <2>5. \A i \in racks(us) : y[i - 1] \in Nat /\ y[i - 1] + tall(us[i]) + 40 <= y[N]
      <3> HIDE DEF N, y
      <3> QED  BY <2>1, <2>2, RacksApart DEF N, y
    <2> QED  BY <2>1, <2>4, <2>5
  <1>4. y[N] \in Nat /\ st \in Nat /\ y[N] <= st
    <2>1. y[N] \in Nat
      <3> HIDE DEF y, N
      <3> QED  BY <1>1, <1>3
    <2> HIDE DEF y, N
    <2> QED  BY <2>1 DEF shelfTop
  <1> HIDE DEF y, N, st
  <1>5. /\ shelf[N] \in RowState /\ st <= shelf[N].y
        /\ \A i \in shelves(us) : Fits(shelf[i], us[i], st) /\ Behind(shelf[i], us[i], shelf[N], 40)
        /\ \A i, j \in shelves(us) : i < j => \/ shelf[i].x + wide(us[i]) + 40 <= shelf[j].x
                                              \/ shelf[i].y + tall(us[i]) + 40 <= shelf[j].y
    <2>1. shelves(us) \in SUBSET (1..Len(us)) /\ 40 \in Nat
      BY <1>1 DEF N
    <2>2. RowsHeld(us, shelves(us), st, 40, shelf)
      BY <1>4, <2>1, RowsHold
    <2> HIDE DEF shelf
    <2> QED  BY <2>2 DEF RowsHeld, N
  <1> HIDE DEF shelf
  <1>6. shelf[N].y \in Nat /\ shelf[N].tallest \in Nat
    BY <1>5 DEF RowState
  <1>7. /\ wt \in Nat
        /\ \A i \in racks(us) : y[i - 1] + tall(us[i]) + 40 <= wt
        /\ \A i \in shelves(us) : shelf[i].y + tall(us[i]) + 40 <= wt
    <2>1. CASE shelves(us) # {}
      <3>1. wt = shelf[N].y + shelf[N].tallest + 200 + 180
        BY <2>1 DEF wirelessTop
      <3> HIDE DEF wt
      <3>2. ASSUME NEW i \in racks(us) PROVE y[i - 1] + tall(us[i]) + 40 <= wt
        <4>1. y[i - 1] \in Nat /\ tall(us[i]) \in Nat /\ y[i - 1] + tall(us[i]) + 40 <= y[N]
          BY <1>1, <1>2, <1>3
        <4> DEFINE a == y[i - 1] + tall(us[i])
        <4>2. st <= shelf[N].y
          BY <1>5
        <4>3. a \in Nat /\ a <= shelf[N].y + shelf[N].tallest
          BY <1>4, <1>6, <4>1, <4>2, AboveRow
        <4> HIDE DEF a
        <4>4. a + 40 <= wt
          BY <1>6, <3>1, <4>3, BelowShelves
        <4> QED  BY <4>4 DEF a
      <3>3. ASSUME NEW i \in shelves(us) PROVE shelf[i].y + tall(us[i]) + 40 <= wt
        <4>1. tall(us[i]) \in Nat /\ wide(us[i]) \in Nat
          BY <1>1, <1>2
        <4>2. shelf[i].y \in Nat /\ Behind(shelf[i], us[i], shelf[N], 40)
          BY <1>5 DEF Fits, RowState
        <4>3. \/ shelf[i].y = shelf[N].y /\ tall(us[i]) <= shelf[N].tallest
              \/ shelf[i].y + tall(us[i]) + 40 <= shelf[N].y
          BY <4>2 DEF Behind
        <4> DEFINE a == shelf[i].y + tall(us[i])
        <4>4. a \in Nat /\ a <= shelf[N].y + shelf[N].tallest
          BY <1>6, <4>1, <4>2, <4>3, InRow
        <4> HIDE DEF a
        <4>5. a + 40 <= wt
          BY <1>6, <3>1, <4>4, BelowShelves
        <4> QED  BY <4>5 DEF a
      <3>4. wt \in Nat
        BY <1>6, <3>1
      <3> QED  BY <3>2, <3>3, <3>4
    <2>2. CASE shelves(us) = {} /\ racks(us) # {}
      <3>1. wt = y[N] - 40 + 200 + 180
        BY <2>2 DEF wirelessTop
      <3> HIDE DEF wt
      <3>2. ASSUME NEW i \in racks(us) PROVE y[i - 1] + tall(us[i]) + 40 <= wt
        <4>1. y[i - 1] \in Nat /\ tall(us[i]) \in Nat /\ y[i - 1] + tall(us[i]) + 40 <= y[N]
          BY <1>1, <1>2, <1>3
        <4> QED  BY <1>4, <3>1, <4>1, BelowRacks
      <3>3. wt \in Nat
        BY <1>4, <3>1
      <3> QED  BY <2>2, <3>2, <3>3
    <2>3. CASE shelves(us) = {} /\ racks(us) = {}
      <3>1. wt = 0 + 180
        BY <2>3 DEF wirelessTop
      <3> QED  BY <2>3, <3>1
    <2> QED  BY <2>1, <2>2, <2>3
  <1> HIDE DEF wt
  <1>8. /\ \A i \in discs(us) : Fits(disc[i], us[i], wt)
        /\ \A i, j \in discs(us) : i < j => \/ disc[i].x + wide(us[i]) + 160 <= disc[j].x
                                            \/ disc[i].y + tall(us[i]) + 160 <= disc[j].y
    <2>1. discs(us) \in SUBSET (1..Len(us)) /\ 160 \in Nat
      BY <1>1 DEF N
    <2>2. RowsHeld(us, discs(us), wt, 160, disc)
      BY <1>7, <2>1, RowsHold
    <2> HIDE DEF disc
    <2> QED  BY <2>2 DEF RowsHeld
  <1> HIDE DEF disc
  <1>9. at = [i \in 1..N |->
            IF i \in racks(us) THEN Spot(us[i], 0, y[i - 1])
            ELSE IF i \in shelves(us) THEN Spot(us[i], shelf[i].x, shelf[i].y)
            ELSE Spot(us[i], disc[i].x, disc[i].y)]
    <2>1. DOMAIN us = 1..Len(us)
      OBVIOUS
    <2> QED  BY <2>1 DEF placed, y, N, st, shelf, wt, disc
  <1> HIDE DEF at
  <1>10. DOMAIN at = 1..N
    BY <1>9
  <1>11. ASSUME NEW i \in 1..N
         PROVE  /\ at[i].mac = us[i].mac /\ at[i].w = wide(us[i]) /\ at[i].h = tall(us[i])
                /\ i \in racks(us) => at[i].x = 0 /\ at[i].y = y[i - 1]
                /\ i \in shelves(us) => at[i].x = shelf[i].x /\ at[i].y = shelf[i].y
                /\ i \in discs(us) => at[i].x = disc[i].x /\ at[i].y = disc[i].y
    <2>1. at[i] = IF i \in racks(us) THEN Spot(us[i], 0, y[i - 1])
                  ELSE IF i \in shelves(us) THEN Spot(us[i], shelf[i].x, shelf[i].y)
                  ELSE Spot(us[i], disc[i].x, disc[i].y)
      BY <1>9
    <2> QED  BY <1>1, <2>1 DEF Spot
  <1>12. ASSUME NEW i \in racks(us)
         PROVE  Drawn(at[i]) /\ at[i].y + at[i].h <= st /\ at[i].y + at[i].h <= wt /\ i \in 1..N
    <2>1. /\ at[i].x = 0 /\ at[i].y = y[i - 1] /\ at[i].w = wide(us[i]) /\ at[i].h = tall(us[i])
          /\ wide(us[i]) \in Nat /\ wide(us[i]) <= rackW /\ tall(us[i]) \in Nat
      BY <1>1, <1>2, <1>11
    <2>2. /\ y[i - 1] \in Nat
          /\ y[i - 1] + tall(us[i]) + 40 <= y[N]
          /\ y[i - 1] + tall(us[i]) + 40 <= wt
      BY <1>3, <1>7
    <2>3. Drawn(at[i])
      <3>1. 0 + wide(us[i]) = wide(us[i])
        BY <2>1
      <3> QED  BY <2>1, <2>2, <3>1 DEF Drawn
    <2>4. y[i - 1] + tall(us[i]) <= y[N] /\ y[i - 1] + tall(us[i]) <= wt
      BY <1>4, <1>7, <2>1, <2>2
    <2>5. y[i - 1] + tall(us[i]) <= st
      BY <1>4, <2>1, <2>2, <2>4
    <2> QED  BY <1>1, <2>1, <2>3, <2>4, <2>5
  <1>13. ASSUME NEW i \in shelves(us)
         PROVE  Drawn(at[i]) /\ st <= at[i].y /\ at[i].y + at[i].h <= wt /\ i \in 1..N
    <2>1. /\ at[i].x = shelf[i].x /\ at[i].y = shelf[i].y /\ at[i].w = wide(us[i]) /\ at[i].h = tall(us[i])
          /\ wide(us[i]) \in Nat /\ wide(us[i]) <= rackW /\ tall(us[i]) \in Nat
      BY <1>1, <1>2, <1>11
    <2>2. /\ shelf[i].x \in Nat /\ shelf[i].y \in Nat /\ shelf[i].x + wide(us[i]) <= rackW
          /\ st <= shelf[i].y /\ shelf[i].y + tall(us[i]) + 40 <= wt
      BY <1>5, <1>7 DEF Fits, RowState
    <2> QED  BY <1>1, <1>7, <2>1, <2>2 DEF Drawn
  <1>14. ASSUME NEW i \in discs(us)
         PROVE  Drawn(at[i]) /\ wt <= at[i].y /\ i \in 1..N
    <2>1. /\ at[i].x = disc[i].x /\ at[i].y = disc[i].y /\ at[i].w = wide(us[i]) /\ at[i].h = tall(us[i])
          /\ wide(us[i]) \in Nat /\ wide(us[i]) <= rackW /\ tall(us[i]) \in Nat
      BY <1>1, <1>2, <1>11
    <2>2. /\ disc[i].x \in Nat /\ disc[i].y \in Nat /\ disc[i].x + wide(us[i]) <= rackW
          /\ wt <= disc[i].y
      BY <1>8 DEF Fits, RowState
    <2> QED  BY <1>1, <2>1, <2>2 DEF Drawn
  <1>15. \A i \in 1..N : Drawn(at[i])
    BY <1>1, <1>12, <1>13, <1>14
  <1>16. ASSUME NEW i \in 1..N, NEW j \in 1..N, i < j PROVE Apart(at[i], at[j])
    <2>0. Drawn(at[i]) /\ Drawn(at[j])
      BY <1>15
    <2>1. CASE i \in racks(us) /\ j \in racks(us)
      <3>1. y[i - 1] + tall(us[i]) + 40 <= y[j - 1] /\ y[i - 1] \in Nat /\ y[j - 1] \in Nat /\ tall(us[i]) \in Nat
        BY <1>2, <1>3, <1>16, <2>1
      <3>2. at[i].y = y[i - 1] /\ at[i].h = tall(us[i]) /\ at[j].y = y[j - 1]
        BY <1>11, <2>1
      <3> QED  BY <3>1, <3>2 DEF Apart
    <2>2. CASE i \in shelves(us) /\ j \in shelves(us)
      <3>1. \/ shelf[i].x + wide(us[i]) + 40 <= shelf[j].x
            \/ shelf[i].y + tall(us[i]) + 40 <= shelf[j].y
        BY <1>5, <1>16, <2>2
      <3>2. at[i].x = shelf[i].x /\ at[i].y = shelf[i].y /\ at[i].w = wide(us[i]) /\ at[i].h = tall(us[i])
            /\ at[j].x = shelf[j].x /\ at[j].y = shelf[j].y
        BY <1>11, <2>2
      <3>3. at[i].x + at[i].w + 40 <= at[j].x \/ at[i].y + at[i].h + 40 <= at[j].y
        BY <3>1, <3>2
      <3> QED  BY <2>0, <3>3, GapApart
    <2>3. CASE i \in discs(us) /\ j \in discs(us)
      <3>1. \/ disc[i].x + wide(us[i]) + 160 <= disc[j].x
            \/ disc[i].y + tall(us[i]) + 160 <= disc[j].y
        BY <1>8, <1>16, <2>3
      <3>2. at[i].x = disc[i].x /\ at[i].y = disc[i].y /\ at[i].w = wide(us[i]) /\ at[i].h = tall(us[i])
            /\ at[j].x = disc[j].x /\ at[j].y = disc[j].y
        BY <1>11, <2>3
      <3>3. at[i].x + at[i].w + 160 <= at[j].x \/ at[i].y + at[i].h + 160 <= at[j].y
        BY <3>1, <3>2
      <3> QED  BY <2>0, <3>3, GapApart
    <2>4. \A a \in racks(us), b \in shelves(us) : at[a].y + at[a].h <= at[b].y
      BY <1>4, <1>12, <1>13 DEF Drawn
    <2>5. \A a \in racks(us) \cup shelves(us), b \in discs(us) : at[a].y + at[a].h <= at[b].y
      BY <1>7, <1>12, <1>13, <1>14 DEF Drawn
    <2>6. CASE i \in racks(us) /\ j \notin racks(us)
      BY <1>1, <2>4, <2>5, <2>6 DEF Apart
    <2>7. CASE i \in shelves(us) /\ j \notin shelves(us)
      BY <1>1, <2>4, <2>5, <2>7 DEF Apart
    <2>8. CASE i \in discs(us) /\ j \notin discs(us)
      BY <1>1, <2>4, <2>5, <2>8 DEF Apart
    <2> QED  BY <1>1, <2>1, <2>2, <2>3, <2>6, <2>7, <2>8
  <1> QED  BY <1>10, <1>11, <1>15, <1>16 DEF at, N

-----------------------------------------------------------------------------
(* Numbers of things *)

(* A list without repetitions has as many members as places. *)
LEMMA OneEach ==
    ASSUME NEW n \in Nat, NEW T, NEW f \in [1..n -> T],
           \A i, j \in 1..n : f[i] = f[j] => i = j, \A t \in T : \E i \in 1..n : f[i] = t
    PROVE  IsFiniteSet(T) /\ Cardinality(T) = n
  <1>1. f \in Bijection(1..n, T)
    BY DEF Bijection, Injection, Surjection, IsInjective
  <1>2. IsFiniteSet(1..n) /\ Cardinality(1..n) = n
    <2>1. IsFiniteSet(1..n) /\ Cardinality(1..n) = IF 1 > n THEN 0 ELSE n - 1 + 1
      BY FS_Interval
    <2> QED  BY <2>1
  <1>3. ExistsBijection(1..n, T)
    BY <1>1 DEF ExistsBijection
  <1> QED  BY <1>2, <1>3, FS_Bijection

(* Numbers in a list that is not empty have a highest one. *)
LEMMA HighestNat ==
    ASSUME NEW N \in Nat \ {0}, NEW f \in [1..N -> Nat]
    PROVE  \E i \in 1..N : \A j \in 1..N : f[j] <= f[i]
  <1> DEFINE Top(n) == \E i \in 1..n : \A j \in 1..n : f[j] <= f[i]
             S == {n \in 0..N : n = 0 \/ Top(n)}
  <1>1. 0 \in S
    OBVIOUS
  <1>2. ASSUME NEW n \in 1..N, n - 1 \in S PROVE n \in S
    <2>1. \A j \in 1..n : j = n \/ j \in 1..n - 1
      OBVIOUS
    <2>2. \A j \in 1..n : f[j] \in Nat
      OBVIOUS
    <2>3. CASE n - 1 = 0
      <3>1. n \in 1..n /\ \A j \in 1..n : f[j] <= f[n]
        BY <2>2, <2>3
      <3> QED  BY <3>1
    <2>4. CASE Top(n - 1)
      <3>1. PICK i \in 1..n - 1 : \A j \in 1..n - 1 : f[j] <= f[i]
        BY <2>4
      <3>2. i \in 1..n /\ n \in 1..n
        OBVIOUS
      <3>3. CASE f[n] <= f[i]
        <4>1. \A j \in 1..n : f[j] <= f[i]
          BY <2>1, <3>1, <3>3
        <4>2. Top(n)
          BY <3>2, <4>1
        <4> QED  BY <4>2
      <3>4. CASE ~(f[n] <= f[i])
        <4>1. \A j \in 1..n - 1 : f[j] <= f[n]
          BY <2>2, <3>1, <3>2, <3>4
        <4>2. \A j \in 1..n : f[j] <= f[n]
          BY <2>1, <2>2, <3>2, <4>1
        <4>3. Top(n)
          BY <3>2, <4>2
        <4> QED  BY <4>3
      <3> QED  BY <3>3, <3>4
    <2> QED  BY <1>2, <2>3, <2>4
  <1>3. \A n \in 0..N : n \in S
    <2> HIDE DEF S
    <2> QED  BY <1>1, <1>2, IntervalInduction
  <1>4. N \in 0..N /\ N # 0
    OBVIOUS
  <1>5. Top(N)
    BY <1>3, <1>4
  <1> QED  BY <1>5

-----------------------------------------------------------------------------
(* The units apart *)

MacsApart(us) == \A i, j \in 1..Len(us) : us[i].mac = us[j].mac => i = j

LEMMA HeightIs ==
    ASSUME NEW us \in Seq(RUnit), NEW s \in ToSet(placed(us))
    PROVE  s.y + s.h <= nativeH(ToSet(placed(us)))
  <1> DEFINE N == Len(us)
             at == placed(us)
             S == ToSet(at)
             f == [i \in 1..N |-> at[i].y + at[i].h]
             H == {a.y + a.h : a \in S}
  <1>1. DOMAIN at = 1..N /\ N \in Nat /\ \A i \in 1..N : Drawn(at[i])
    BY PlacedAre
  <1> HIDE DEF at, N
  <1>2. PICK k \in 1..N : s = at[k]
    BY <1>1 DEF at, ToSet
  <1>3. N \in Nat \ {0} /\ f \in [1..N -> Nat]
    BY <1>1, <1>2 DEF Drawn
  <1>4. PICK i \in 1..N : \A j \in 1..N : f[j] <= f[i]
    <2> HIDE DEF f
    <2> QED  BY <1>3, HighestNat
  <1>5. at[i] \in S /\ f[i] \in H /\ \A a \in H : \E j \in 1..N : a = f[j]
    BY <1>1 DEF ToSet
  <1>6. \A a \in H : f[i] >= a
    <2> HIDE DEF H, f
    <2> QED  BY <1>3, <1>4, <1>5
  <1>7. Max(H) \in H /\ \A a \in H : Max(H) >= a
    <2> HIDE DEF H, f
    <2> QED  BY <1>5, <1>6 DEF Max
  <1>8. s \in S /\ S # {} /\ s.y + s.h \in H
    BY DEF at
  <1>9. nativeH(S) = Max(H)
    BY <1>8 DEF nativeH
  <1>10. \A a \in H : a \in Nat
    BY <1>1 DEF ToSet, Drawn
  <1> HIDE DEF H, S
  <1>11. s.y + s.h <= nativeH(S)
    BY <1>7, <1>8, <1>9, <1>10
  <1> QED  BY <1>11 DEF S, at

LEMMA UnitsAreApart ==
    ASSUME NEW us \in Seq(RUnit), MacsApart(us), NEW S, S = ToSet(placed(us))
    PROVE  /\ Cardinality(S) = Len(us)
           /\ \A a \in S : Within(a, rackW, nativeH(S))
           /\ \A a, b \in S : a # b => ~Overlap(a, b)
  <1> DEFINE N == Len(us)
             at == placed(us)
  <1>1. /\ DOMAIN at = 1..N /\ N \in Nat
        /\ \A i \in 1..N : Drawn(at[i]) /\ at[i].mac = us[i].mac
        /\ \A i, j \in 1..N : i < j => Apart(at[i], at[j])
    BY PlacedAre
  <1>2. S = {at[i] : i \in 1..N}
    BY <1>1 DEF ToSet
  <1>3. \A i, j \in 1..N : us[i].mac = us[j].mac => i = j
    BY DEF MacsApart
  <1>4. at = [i \in 1..N |-> at[i]]
    <2>1. at = [i \in DOMAIN at |-> at[i]]
      BY DEF placed
    <2> QED  BY <1>1, <2>1
  <1>5. \A a \in S : Within(a, rackW, nativeH(S))
    <2>1. ASSUME NEW a \in S PROVE Within(a, rackW, nativeH(S))
      <3>1. a.y + a.h <= nativeH(S)
        BY <2>1, HeightIs
      <3>2. Drawn(a)
        BY <1>1, <1>2
      <3> QED  BY <3>1, <3>2 DEF Drawn, Within
    <2> QED  BY <2>1
  <1> HIDE DEF at, N
  <1>6. Cardinality(S) = N
    <2>1. at \in [1..N -> S]
      BY <1>2, <1>4
    <2>2. \A i, j \in 1..N : at[i] = at[j] => i = j
      BY <1>1, <1>3
    <2>3. \A t \in S : \E i \in 1..N : at[i] = t
      BY <1>2
    <2> QED  BY <1>1, <2>1, <2>2, <2>3, OneEach
  <1>7. ASSUME NEW a \in S, NEW b \in S, a # b PROVE ~Overlap(a, b)
    <2>1. PICK i \in 1..N, j \in 1..N : a = at[i] /\ b = at[j]
      BY <1>2
    <2>2. i < j \/ j < i
      BY <1>7, <2>1
    <2>3. Apart(a, b) \/ Apart(b, a)
      BY <1>1, <2>1, <2>2
    <2>4. Drawn(a) /\ Drawn(b)
      BY <1>1, <2>1
    <2> QED  BY <2>3, <2>4, ApartClear
  <1> QED  BY <1>5, <1>6, <1>7 DEF N

-----------------------------------------------------------------------------
(* The cables *)

(* s lists the members of S, each of them once. *)
Lists(s, S) ==
    /\ IsFiniteSet(S) /\ Cardinality(S) \in Nat
    /\ s \in [1..Cardinality(S) -> S]
    /\ \A i, j \in 1..Cardinality(S) : s[i] = s[j] => i = j
    /\ \A p \in S : \E i \in 1..Cardinality(S) : s[i] = p

(* The numbers of a set by their rank. *)
LEMMA SortedIdsList ==
    ASSUME NEW S \in SUBSET Nat, IsFiniteSet(S)
    PROVE  Lists(SortedIds(S), S)
  <1> DEFINE c == Cardinality(S)
             under(p) == {q \in S : q < p}
             rank == [p \in S |-> Cardinality(under(p))]
             s == SortedIds(S)
  <1>1. c \in Nat
    BY FS_CardinalityType
  <1>2. ASSUME NEW p \in S PROVE IsFiniteSet(under(p)) /\ rank[p] \in Nat /\ rank[p] <= c - 1
    <2>1. under(p) \in SUBSET (S \ {p}) /\ under(p) \in SUBSET S
      OBVIOUS
    <2>2. IsFiniteSet(S \ {p}) /\ Cardinality(S \ {p}) = c - 1
      BY FS_RemoveElement
    <2>3. IsFiniteSet(under(p)) /\ Cardinality(under(p)) <= Cardinality(S \ {p})
      <3> HIDE DEF under
      <3> QED  BY <2>1, <2>2, FS_Subset
    <2>4. Cardinality(under(p)) \in Nat
      <3> HIDE DEF under
      <3> QED  BY <2>3, FS_CardinalityType
    <2>5. rank[p] = Cardinality(under(p))
      OBVIOUS
    <2> HIDE DEF rank, c, under
    <2> QED  BY <2>2, <2>3, <2>4, <2>5
  <1>3. ASSUME NEW p \in S, NEW q \in S, p < q PROVE rank[p] < rank[q]
    <2>0. p \in Nat /\ q \in Nat /\ \A r \in S : r \in Nat
      OBVIOUS
    <2>1. under(p) \cup {p} \in SUBSET under(q) /\ p \notin under(p)
      <3>1. ~(p < p) /\ \A r \in S : r < p => r < q
        BY <1>3, <2>0
      <3> QED  BY <1>3, <3>1
    <2>2. IsFiniteSet(under(p)) /\ IsFiniteSet(under(q))
      BY <1>2
    <2>3. Cardinality(under(p) \cup {p}) = Cardinality(under(p)) + 1
      <3> HIDE DEF under
      <3> QED  BY <2>1, <2>2, FS_AddElement
    <2>4. Cardinality(under(p) \cup {p}) <= Cardinality(under(q))
      <3> HIDE DEF under
      <3> QED  BY <2>1, <2>2, FS_Subset
    <2>5. rank[p] = Cardinality(under(p)) /\ rank[q] = Cardinality(under(q)) /\ rank[p] \in Nat /\ rank[q] \in Nat
      BY <1>2
    <2> HIDE DEF rank, under
    <2> QED  BY <2>3, <2>4, <2>5
  <1>4. rank \in [S -> 0..c - 1]
    <2>1. ASSUME NEW p \in S PROVE rank[p] \in 0..c - 1
      <3>1. rank[p] \in Nat /\ rank[p] <= c - 1
        BY <1>2
      <3> HIDE DEF rank, c
      <3> QED  BY <1>1, <3>1
    <2> QED  BY <2>1
  <1>5. \A p, q \in S : rank[p] = rank[q] => p = q
    <2> HIDE DEF rank
    <2>1. \A p \in S : rank[p] \in Nat
      BY <1>2
    <2>2. \A p, q \in S : p < q \/ q < p \/ p = q
      OBVIOUS
    <2> QED  BY <1>3, <2>1, <2>2
  <1>6. \A k \in 0..c - 1 : \E p \in S : rank[p] = k
    <2> HIDE DEF rank
    <2>1. rank \in Injection(S, 0..c - 1)
      BY <1>4, <1>5 DEF Injection, IsInjective
    <2>2. IsFiniteSet(0..c - 1) /\ Cardinality(0..c - 1) = IF 0 > c - 1 THEN 0 ELSE c - 1 - 0 + 1
      <3> DEFINE d == c - 1
      <3>1. d \in Int /\ 0 \in Int
        BY <1>1
      <3> HIDE DEF d
      <3>2. IsFiniteSet(0..d) /\ Cardinality(0..d) = IF 0 > d THEN 0 ELSE d - 0 + 1
        BY <3>1, FS_Interval
      <3> QED  BY <3>2 DEF d
    <2>3. Cardinality(0..c - 1) = c
      BY <1>1, <2>2
    <2>4. rank \in Surjection(S, 0..c - 1)
      BY <2>1, <2>2, <2>3, FS_Injection
    <2> QED  BY <2>4 DEF Surjection
  <1>7. ASSUME NEW i \in 1..c PROVE s[i] \in S /\ rank[s[i]] = i - 1
    <2>1. i - 1 \in 0..c - 1
      BY <1>1
    <2>2. \E p \in S : Cardinality({q \in S : q < p}) = i - 1
      BY <1>6, <2>1
    <2>3. s[i] = CHOOSE p \in S : Cardinality({q \in S : q < p}) = i - 1
      BY DEF SortedIds
    <2>4. s[i] \in S /\ Cardinality({q \in S : q < s[i]}) = i - 1
      <3> HIDE DEF s
      <3> QED  BY <2>2, <2>3
    <2> HIDE DEF s
    <2> QED  BY <2>4
  <1>8. s \in [1..c -> S]
    <2>1. s = [i \in 1..c |-> s[i]]
      <3> DEFINE at(i) == CHOOSE p \in S : Cardinality({q \in S : q < p}) = i - 1
      <3>1. s = [i \in 1..c |-> at(i)]
        BY DEF SortedIds
      <3> HIDE DEF s, c, at
      <3> QED  BY <3>1
    <2> HIDE DEF s, rank, c
    <2> QED  BY <1>7, <2>1
  <1> HIDE DEF s, rank
  <1>9. \A i, j \in 1..c : s[i] = s[j] => i = j
    <2> HIDE DEF c
    <2>1. \A i, j \in 1..c : i - 1 = j - 1 => i = j
      BY <1>1
    <2> QED  BY <1>7, <2>1
  <1>10. ASSUME NEW p \in S PROVE \E i \in 1..c : s[i] = p
    <2> HIDE DEF c
    <2>1. PICK k \in 1..c : k - 1 = rank[p]
      <3> DEFINE k == rank[p] + 1
      <3>1. k \in 1..c /\ k - 1 = rank[p]
        BY <1>1, <1>4
      <3> HIDE DEF k
      <3> QED  BY <3>1
    <2>2. s[k] \in S /\ rank[s[k]] = rank[p]
      BY <1>7, <2>1
    <2>3. s[k] = p
      BY <1>5, <2>2
    <2> QED  BY <2>3
  <1> QED  BY <1>1, <1>8, <1>9, <1>10 DEF Lists, s

LEMMA ListIs ==
    ASSUME NEW s, NEW S, Lists(s, S)
    PROVE  s \in Seq(S) /\ Len(s) = Cardinality(S) /\ DOMAIN s = 1..Cardinality(S) /\ ToSet(s) = S
  <1> DEFINE c == Cardinality(S)
  <1>1. c \in Nat /\ s \in [1..c -> S] /\ \A p \in S : \E i \in 1..c : s[i] = p
    BY DEF Lists
  <1> HIDE DEF c
  <1>2. s \in Seq(S) /\ Len(s) = c /\ DOMAIN s = 1..c
    BY <1>1
  <1>3. ToSet(s) = S
    BY <1>1, <1>2 DEF ToSet
  <1> QED  BY <1>2, <1>3 DEF c

LEMMA OneListed ==
    ASSUME NEW port
    PROVE  Lists(<<port>>, {port})
  <1>1. IsFiniteSet({port}) /\ Cardinality({port}) = 1
    BY FS_Singleton
  <1>2. <<port>> \in [1..1 -> {port}] /\ <<port>>[1] = port /\ 1 \in 1..1 /\ \A i \in 1..1 : i = 1
    OBVIOUS
  <1> QED  BY <1>1, <1>2 DEF Lists

LEMMA LagLists ==
    ASSUME NEW u \in RUnit, NEW port
    PROVE  /\ Lists(expandLagOf(u, port), ToSet(expandLagOf(u, port)))
           /\ port \in ToSet(expandLagOf(u, port))
           /\ port \in Nat => ToSet(expandLagOf(u, port)) \in SUBSET Nat
  <1>1. CASE \E g \in u.lags : port \in g
    <2> DEFINE g == CHOOSE g \in u.lags : port \in g
    <2>1. g \in u.lags /\ port \in g
      BY <1>1
    <2> HIDE DEF g
    <2>2. IsFiniteSet(g) /\ g \in SUBSET Nat
      BY <2>1, RackAssumption
    <2>3. Lists(SortedIds(g), g)
      BY <2>2, SortedIdsList
    <2>4. expandLagOf(u, port) = SortedIds(g)
      BY <1>1 DEF expandLagOf, g
    <2>5. ToSet(expandLagOf(u, port)) = g
      BY <2>3, <2>4, ListIs
    <2> QED  BY <2>1, <2>2, <2>3, <2>4, <2>5
  <1>2. CASE ~\E g \in u.lags : port \in g
    <2>1. expandLagOf(u, port) = <<port>>
      BY <1>2 DEF expandLagOf
    <2>2. ToSet(<<port>>) = {port}
      BY OneListed, ListIs
    <2> QED  BY <2>1, <2>2, OneListed
  <1> QED  BY <1>1, <1>2

LEMMA UplinkLists ==
    ASSUME NEW u \in RUnit
    PROVE  Lists(uplinkPorts(u), ToSet(uplinkPorts(u)))
  <1> DEFINE marked == u.marked \cup (u.ports \cap {u.uplink_port})
             T == {ToSet(expandLagOf(u, p)) : p \in marked}
             f == [p \in marked |-> ToSet(expandLagOf(u, p))]
  <1>1. IsFiniteSet(marked) /\ marked \in SUBSET Nat
    <2>1. IsFiniteSet(u.marked) /\ u.marked \subseteq Nat /\ u.uplink_port \in Nat
      BY RackAssumption
    <2>2. IsFiniteSet(u.marked \cup {u.uplink_port})
      BY <2>1, FS_AddElement
    <2>3. marked \in SUBSET (u.marked \cup {u.uplink_port})
      OBVIOUS
    <2>4. IsFiniteSet(marked)
      <3> HIDE DEF marked
      <3> QED  BY <2>2, <2>3, FS_Subset
    <2> QED  BY <2>1, <2>4
  <1>2. CASE marked # {}
    <2>1. uplinkPorts(u) = SortedIds(UNION T)
      BY <1>2 DEF uplinkPorts
    <2> HIDE DEF marked
    <2>2. f \in Surjection(marked, T)
      BY DEF Surjection
    <2> HIDE DEF f
    <2>3. IsFiniteSet(T)
      <3> HIDE DEF T
      <3> QED  BY <1>1, <2>2, FS_Surjection
    <2>4. \A t \in T : IsFiniteSet(t) /\ t \in SUBSET Nat
      <3>1. \A p \in marked : IsFiniteSet(ToSet(expandLagOf(u, p))) /\ ToSet(expandLagOf(u, p)) \in SUBSET Nat
        BY <1>1, LagLists DEF Lists
      <3> QED  BY <3>1
    <2> HIDE DEF T
    <2>5. IsFiniteSet(UNION T) /\ UNION T \in SUBSET Nat
      <3>1. IsFiniteSet(UNION T)
        BY <2>3, <2>4, FS_UNION
      <3>2. UNION T \in SUBSET Nat
        BY <2>4
      <3> QED  BY <3>1, <3>2
    <2>6. Lists(SortedIds(UNION T), UNION T)
      BY <2>5, SortedIdsList
    <2> QED  BY <2>1, <2>6, ListIs
  <1>3. CASE marked = {} /\ u.uplink_port # 0
    <2>1. uplinkPorts(u) = expandLagOf(u, u.uplink_port)
      BY <1>3 DEF uplinkPorts
    <2> QED  BY <2>1, LagLists
  <1>4. CASE marked = {} /\ u.uplink_port = 0
    <2>1. uplinkPorts(u) = <<>>
      BY <1>4 DEF uplinkPorts
    <2>2. Lists(<<>>, {})
      <3>1. IsFiniteSet({}) /\ Cardinality({}) = 0
        BY FS_EmptySet
      <3>2. <<>> \in [1..0 -> {}] /\ 1..0 = {}
        OBVIOUS
      <3> QED  BY <3>1, <3>2 DEF Lists
    <2> QED  BY <2>1, <2>2, ListIs
  <1> HIDE DEF marked
  <1> QED  BY <1>2, <1>3, <1>4

(* The units of a list, by their addresses. *)
LEMMA OneOfMac ==
    ASSUME NEW us \in Seq(RUnit), MacsApart(us), NEW u \in ToSet(us), NEW v \in ToSet(us), u.mac = v.mac
    PROVE  u = v /\ u \in RUnit
  <1>1. PICK i \in 1..Len(us), j \in 1..Len(us) : u = us[i] /\ v = us[j]
    BY DEF ToSet
  <1>2. i = j
    BY <1>1 DEF MacsApart
  <1> QED  BY <1>1, <1>2

LEMMA LinkChild ==
    ASSUME NEW us, NEW v, NEW l \in linksOf(us, v)
    PROVE  l.child = v.mac
  <1>1. \A p, pps, cps : \A k \in pushPaired(p, pps, v, cps) : k.child = v.mac
    BY DEF pushPaired, Cable
  <1>2. \A p, pps : \A k \in pushApLinks(p, pps, v) : k.child = v.mac
    BY DEF pushApLinks, Cable
  <1> QED  BY <1>1, <1>2 DEF linksOf

(* The cables of a switch below another unit. *)
LEMMA SwitchLinks ==
    ASSUME NEW us \in Seq(RUnit), MacsApart(us), NEW u \in ToSet(us), NEW p \in ToSet(us),
           u.kind = "switch", u.parent = p.mac, p.kind # "ap"
    PROVE  {l \in buildLinks(us) : l.child = u.mac} =
             IF uplinkPorts(u) = <<>> THEN {}
             ELSE pushPaired(p, parentPortsFor(p, u.parent_port, Len(uplinkPorts(u))), u, uplinkPorts(u))
  <1> DEFINE cps == uplinkPorts(u)
             up == {v \in {w \in ToSet(us) : w.kind # "ap"} : v.mac = u.parent}
             pairs(q) == pushPaired(q, parentPortsFor(q, u.parent_port, Len(cps)), u, cps)
  <1>1. up = {p}
    <2>1. p \in up
      OBVIOUS
    <2>2. \A v \in up : v = p
      BY OneOfMac
    <2> QED  BY <2>1, <2>2
  <1>2. linksOf(us, u) = IF cps = <<>> THEN {} ELSE UNION {pairs(q) : q \in up}
    <2>1. up # {}
      BY <1>1
    <2> QED  BY <2>1 DEF linksOf
  <1>3. UNION {pairs(q) : q \in up} = pairs(p)
    <2> HIDE DEF up, pairs
    <2> QED  BY <1>1
  <1>4. {l \in buildLinks(us) : l.child = u.mac} = linksOf(us, u)
    <2>1. \A l \in linksOf(us, u) : l \in buildLinks(us) /\ l.child = u.mac
      BY LinkChild DEF buildLinks
    <2>2. ASSUME NEW l \in buildLinks(us), l.child = u.mac PROVE l \in linksOf(us, u)
      <3>1. PICK v \in ToSet(us) : l \in linksOf(us, v)
        BY DEF buildLinks
      <3>2. v.mac = u.mac
        BY <2>2, <3>1, LinkChild
      <3>3. v = u
        BY <3>2, OneOfMac
      <3> QED  BY <3>1, <3>3
    <2> QED  BY <2>1, <2>2
  <1> HIDE DEF cps, up
  <1> QED  BY <1>2, <1>3, <1>4 DEF cps

Bonded(mine, cps, lag) ==
    /\ \A c \in cps : Cardinality({l \in mine : l.cp = c}) = 1
    /\ \A l \in mine : l.pp \in lag
    /\ Cardinality(lag) >= Cardinality(cps) => Cardinality({l.pp : l \in mine}) = Cardinality(cps)

LEMMA BondDrawn ==
    ASSUME NEW us \in Seq(RUnit), MacsApart(us), NEW u \in ToSet(us), NEW p \in ToSet(us),
           u.kind = "switch", u.parent = p.mac, p.kind # "ap", u.parent_port \in jackIds(p),
           ToSet(uplinkPorts(u)) \subseteq jackIds(u), ToSet(expandLagOf(p, u.parent_port)) \subseteq jackIds(p),
           NEW mine, mine = {l \in buildLinks(us) : l.child = u.mac}
    PROVE  Bonded(mine, ToSet(uplinkPorts(u)), ToSet(expandLagOf(p, u.parent_port)))
  <1> DEFINE s == uplinkPorts(u)
             C == ToSet(s)
             n == Cardinality(C)
             e == expandLagOf(p, u.parent_port)
             L == ToSet(e)
             m == Cardinality(L)
             pps == [i \in 1..n |-> e[Least(i, m)]]
             K(i) == Cable(p, pps[i], u, s[i], i)
  <1>1. u \in RUnit /\ p \in RUnit
    BY OneOfMac
  <1>2. Lists(s, C) /\ Lists(e, L) /\ u.parent_port \in L
    BY <1>1, UplinkLists, LagLists
  <1>3. Len(s) = n /\ Len(e) = m /\ DOMAIN s = 1..n /\ DOMAIN e = 1..m
    BY <1>2, ListIs
  <1>4. u.parent_port # 0
    <2>1. 0 \notin jackIds(p)
      BY <1>1, RackAssumption DEF jackIds
    <2> QED  BY <2>1
  <1>5. parentPortsFor(p, u.parent_port, Len(s)) = pps
    BY <1>3, <1>4 DEF parentPortsFor
  <1>6. /\ n \in Nat /\ \A i \in 1..n : s[i] \in C
        /\ \A i, j \in 1..n : s[i] = s[j] => i = j
        /\ \A c \in C : \E i \in 1..n : s[i] = c
    <2> HIDE DEF C, s
    <2> QED  BY <1>2 DEF Lists
  <1>7. m \in Nat /\ m # 0 /\ (\A i \in 1..m : e[i] \in L) /\ \A i, j \in 1..m : e[i] = e[j] => i = j
    <2> HIDE DEF L, e
    <2>1. m \in Nat /\ (\A i \in 1..m : e[i] \in L) /\ (\A i, j \in 1..m : e[i] = e[j] => i = j)
          /\ \E i \in 1..m : e[i] = u.parent_port
      BY <1>2 DEF Lists
    <2> HIDE DEF m
    <2>2. m # 0
      BY <2>1
    <2> QED  BY <2>1, <2>2
  <1>8. mine = IF s = <<>> THEN {} ELSE pushPaired(p, pps, u, s)
    <2> HIDE DEF pps, s
    <2> QED  BY <1>5, SwitchLinks DEF s
  <1>9. C \subseteq jackIds(u) /\ L \subseteq jackIds(p)
    OBVIOUS
  <1>10. (s = <<>>) <=> (n = 0)
    <2>1. s \in Seq(C)
      BY <1>2, ListIs
    <2> HIDE DEF s, C, n
    <2> QED  BY <1>3, <2>1
  <1> HIDE DEF s, C, n, e, L, m
  <1>11. \A i \in 1..n : Least(i, m) \in 1..m /\ (m >= n => Least(i, m) = i)
    BY <1>6, <1>7 DEF Least
  <1>12. \A i \in 1..n : pps[i] \in L /\ (m >= n => pps[i] = e[i])
    BY <1>7, <1>11
  <1> HIDE DEF pps
  <1>13. mine = {K(i) : i \in 1..n}
    <2>1. CASE n = 0
      <3>1. 1..n = {}
        BY <2>1
      <3> QED  BY <1>8, <1>10, <2>1, <3>1
    <2>2. CASE n # 0
      <3>1. DOMAIN pps = 1..n
        BY DEF pps
      <3>2. {k \in DOMAIN pps : pps[k] \in jackIds(p) /\ s[k] \in jackIds(u)} = 1..n
        BY <1>6, <1>9, <1>12, <3>1
      <3>3. pushPaired(p, pps, u, s) = {K(i) : i \in 1..n}
        BY <3>2 DEF pushPaired
      <3> QED  BY <1>8, <1>10, <2>2, <3>3
    <2> QED  BY <2>1, <2>2
  <1>14. \A i : K(i).pp = pps[i] /\ K(i).cp = s[i]
    BY DEF Cable
  <1> HIDE DEF K
  <1>15. ASSUME NEW c \in C PROVE Cardinality({l \in mine : l.cp = c}) = 1
    <2>1. PICK i \in 1..n : s[i] = c
      BY <1>6
    <2>2. {l \in mine : l.cp = c} = {K(i)}
      BY <1>6, <1>13, <1>14, <2>1
    <2> QED  BY <2>2, FS_Singleton
  <1>16. \A l \in mine : l.pp \in L
    BY <1>12, <1>13, <1>14
  <1>17. ASSUME m >= n PROVE Cardinality({l.pp : l \in mine}) = n
    <2> DEFINE P == {l.pp : l \in mine}
    <2>1. P = {pps[i] : i \in 1..n}
      BY <1>13, <1>14
    <2>2. pps \in [1..n -> P] /\ \A t \in P : \E i \in 1..n : pps[i] = t
      <3> HIDE DEF P
      <3>1. pps = [i \in 1..n |-> pps[i]]
        BY DEF pps
      <3> QED  BY <2>1, <3>1
    <2>3. \A i, j \in 1..n : pps[i] = pps[j] => i = j
      <3>1. \A i \in 1..n : i \in 1..m
        BY <1>6, <1>7, <1>17
      <3> QED  BY <1>7, <1>12, <1>17, <3>1
    <2> HIDE DEF P
    <2>4. Cardinality(P) = n
      BY <1>6, <2>2, <2>3, OneEach
    <2> QED  BY <2>4 DEF P
  <1> QED  BY <1>15, <1>16, <1>17 DEF s, C, n, e, L, m, Bonded

(* Either end of a cable lights the other, whatever the cables. *)
LEMMA EndsLit ==
    ASSUME NEW links, NEW l \in links
    PROVE  /\ <<l.child, l.cp>> \in litPorts(links, [kind |-> "port", mac |-> l.parent, port |-> l.pp])
           /\ <<l.parent, l.pp>> \in litPorts(links, IF l.cp = 0 THEN [kind |-> "ap", mac |-> l.child]
                                                     ELSE [kind |-> "port", mac |-> l.child, port |-> l.cp])
  <1> DEFINE ends == {<<l.parent, l.pp>>, <<l.child, l.cp>>}
  <1>1. \A h : match(l, h) => ends \subseteq litPorts(links, h)
    BY DEF litPorts
  <1>2. match(l, [kind |-> "port", mac |-> l.parent, port |-> l.pp])
    BY DEF match
  <1>3. match(l, [kind |-> "port", mac |-> l.child, port |-> l.cp])
    BY DEF match
  <1>4. l.cp = 0 => match(l, [kind |-> "ap", mac |-> l.child])
    BY DEF match
  <1>5. match(l, IF l.cp = 0 THEN [kind |-> "ap", mac |-> l.child]
                 ELSE [kind |-> "port", mac |-> l.child, port |-> l.cp])
    BY <1>3, <1>4
  <1> QED  BY <1>1, <1>2, <1>5

-----------------------------------------------------------------------------
(* The rack as a whole: what is drawn is what the units of the latest poll *)
(* make of it, and a poll reports a unit once.                             *)

RackOf(us, connected, hover) ==
    LET spots == ToSet(placed(us))
    IN [units |-> us, spots |-> spots, height |-> nativeH(spots),
        links |-> IF connected THEN buildLinks(us) ELSE {}, connections |-> connected, hover |-> hover]

RackInv ==
    /\ rk.units \in Seq(RUnit) /\ MacsApart(rk.units)
    /\ rk.connections \in BOOLEAN
    /\ rk = RackOf(rk.units, rk.connections, rk.hover)

LEMMA PollsApart ==
    ASSUME NEW us \in Seq(RUnit), MacsApart(us), NEW vs \in pollAdds(us) \cup pollDrops(us) \cup pollMoves(us)
    PROVE  vs \in Seq(RUnit) /\ MacsApart(vs)
  <1> DEFINE N == Len(us)
  <1>1. N \in Nat /\ (\A i \in 1..N : us[i] \in RUnit) /\ (\A i, j \in 1..N : us[i].mac = us[j].mac => i = j)
        /\ DOMAIN us = 1..N
    BY DEF MacsApart
  <1>2. CASE vs \in pollAdds(us)
    <2>1. PICK u \in RUnit : vs = Append(us, u) /\ u.mac \notin {w.mac : w \in ToSet(us)}
      BY <1>2 DEF pollAdds
    <2>2. vs \in Seq(RUnit) /\ Len(vs) = N + 1 /\ vs[N + 1] = u /\ \A i \in 1..N : vs[i] = us[i]
      BY <2>1
    <2>3. \A i \in 1..N : us[i].mac # u.mac
      BY <1>1, <2>1 DEF ToSet
    <2> HIDE DEF N
    <2>4. \A i \in 1..N + 1 : i \in 1..N \/ i = N + 1
      BY <1>1
    <2>5. \A i, j \in 1..N + 1 : vs[i].mac = vs[j].mac => i = j
      BY <1>1, <2>2, <2>3, <2>4
    <2> QED  BY <2>2, <2>5 DEF MacsApart
  <1>3. CASE vs \in pollDrops(us)
    <2>1. PICK d \in 1..N : vs = [k \in 1..N - 1 |-> us[IF k < d THEN k ELSE k + 1]]
      BY <1>1, <1>3 DEF pollDrops
    <2> HIDE DEF N
    <2>2. \A k \in 1..N - 1 : (IF k < d THEN k ELSE k + 1) \in 1..N
      BY <1>1
    <2>3. \A k, l \in 1..N - 1 : (IF k < d THEN k ELSE k + 1) = (IF l < d THEN l ELSE l + 1) => k = l
      BY <1>1
    <2>4. vs \in [1..N - 1 -> RUnit] /\ N - 1 \in Nat
      BY <1>1, <2>1, <2>2
    <2>5. vs \in Seq(RUnit) /\ Len(vs) = N - 1
      BY <2>4
    <2>6. \A k, l \in 1..N - 1 : vs[k].mac = vs[l].mac => k = l
      BY <1>1, <2>1, <2>2, <2>3
    <2> QED  BY <2>5, <2>6 DEF MacsApart
  <1>4. CASE vs \in pollMoves(us)
    <2>1. PICK d \in 1..N - 1 : vs = [us EXCEPT ![d] = us[d + 1], ![d + 1] = us[d]]
      BY <1>4 DEF pollMoves
    <2> DEFINE of(k) == IF k = d THEN d + 1 ELSE IF k = d + 1 THEN d ELSE k
    <2> HIDE DEF N
    <2>2. d \in 1..N /\ d + 1 \in 1..N /\ d # d + 1
      BY <1>1
    <2>3. (\A k \in 1..N : of(k) \in 1..N) /\ \A k, l \in 1..N : of(k) = of(l) => k = l
      BY <1>1, <2>2
    <2>4. us = [k \in 1..N |-> us[k]]
      BY <1>1
    <2>5. DOMAIN vs = 1..N /\ vs = [k \in 1..N |-> vs[k]]
      BY <1>1, <2>1
    <2>6. \A k \in 1..N : vs[k] = us[of(k)]
      BY <1>1, <2>1, <2>2, <2>4
    <2> HIDE DEF of
    <2>7. vs \in [1..N -> RUnit]
      BY <1>1, <2>3, <2>5, <2>6
    <2>8. vs \in Seq(RUnit) /\ Len(vs) = N
      BY <1>1, <2>7
    <2>9. \A k, l \in 1..N : vs[k].mac = vs[l].mac => k = l
      BY <1>1, <2>3, <2>6
    <2> QED  BY <2>8, <2>9 DEF MacsApart
  <1> QED  BY <1>2, <1>3, <1>4

LEMMA RackInitInv == rackInit => RackInv
  <1> SUFFICES ASSUME rackInit PROVE RackInv
    OBVIOUS
  <1>1. rk = [units |-> <<>>, spots |-> {}, height |-> 0, links |-> {}, connections |-> FALSE, hover |-> NoHover]
    BY DEF rackInit
  <1>2. ToSet(placed(<<>>)) = {}
    <2>1. <<>> \in Seq(RUnit) /\ Len(<<>>) = 0
      OBVIOUS
    <2>2. DOMAIN placed(<<>>) = 1..0
      BY <2>1, PlacedAre
    <2>3. 1..0 = {}
      OBVIOUS
    <2> QED  BY <2>2, <2>3 DEF ToSet
  <1>3. RackOf(<<>>, FALSE, NoHover) = rk
    BY <1>1, <1>2 DEF RackOf, nativeH
  <1>4. rk.units = <<>> /\ rk.connections = FALSE /\ rk.hover = NoHover
    BY <1>1
  <1>5. <<>> \in Seq(RUnit) /\ MacsApart(<<>>)
    BY DEF MacsApart
  <1> QED  BY <1>3, <1>4, <1>5 DEF RackInv

LEMMA RackStepInv == RackInv /\ [RackNext]_rk => RackInv'
  <1> SUFFICES ASSUME RackInv, [RackNext]_rk PROVE RackInv'
    OBVIOUS
  <1> DEFINE us == rk.units
             con == rk.connections
             hov == rk.hover
  <1>1. us \in Seq(RUnit) /\ MacsApart(us) /\ con \in BOOLEAN /\ rk = RackOf(us, con, hov)
    BY DEF RackInv
  <1>2. \A vs, c, h : vs \in Seq(RUnit) /\ MacsApart(vs) /\ c \in BOOLEAN /\ rk' = RackOf(vs, c, h) => RackInv'
    <2> SUFFICES ASSUME NEW vs, NEW c, NEW h, vs \in Seq(RUnit), MacsApart(vs), c \in BOOLEAN, rk' = RackOf(vs, c, h)
                 PROVE  RackInv'
      OBVIOUS
    <2>1. rk'.units = vs /\ rk'.connections = c /\ rk'.hover = h
      BY DEF RackOf
    <2> QED  BY <2>1 DEF RackInv
  <1>3. CASE UNCHANGED rk
    BY <1>1, <1>2, <1>3
  <1>4. ASSUME NEW vs \in pollAdds(us) \cup pollDrops(us) \cup pollMoves(us), draw(vs) PROVE RackInv'
    <2>1. vs \in Seq(RUnit) /\ MacsApart(vs)
      BY <1>1, PollsApart
    <2>2. rk' = RackOf(vs, con, hov)
      <3> DEFINE S == ToSet(placed(vs))
                 H == nativeH(S)
                 K == IF con THEN buildLinks(vs) ELSE {}
      <3>1. rk' = [rk EXCEPT !.units = vs, !.spots = S, !.height = H, !.links = K]
        BY <1>4 DEF draw
      <3>2. RackOf(vs, con, hov) = [units |-> vs, spots |-> S, height |-> H, links |-> K,
                                    connections |-> con, hover |-> hov]
        BY DEF RackOf
      <3> DEFINE s0 == ToSet(placed(us))
                 h0 == nativeH(s0)
                 k0 == IF con THEN buildLinks(us) ELSE {}
      <3>3. rk = [units |-> us, spots |-> s0, height |-> h0, links |-> k0, connections |-> con, hover |-> hov]
        BY <1>1 DEF RackOf
      <3> HIDE DEF S, H, K, s0, h0, k0, us, con, hov
      <3> DEFINE q == [rk EXCEPT !.units = vs, !.spots = S, !.height = H, !.links = K]
      <3>4. /\ q.units = vs /\ q.spots = S /\ q.height = H /\ q.links = K
            /\ q.connections = con /\ q.hover = hov
        BY <3>3
      <3>5. DOMAIN q = {"units", "spots", "height", "links", "connections", "hover"} /\ q = [x \in DOMAIN q |-> q[x]]
        BY <3>3
      <3>6. rk' = q
        BY <3>1
      <3> HIDE DEF q
      <3> QED  BY <3>2, <3>4, <3>5, <3>6
    <2> QED  BY <1>1, <1>2, <2>1, <2>2
  <1>5. CASE setConnections
    <2>1. PICK h : rk' = RackOf(us, ~con, h)
      <3> DEFINE h == IF con THEN NoHover ELSE hov
                 not == ~con
                 K == IF con THEN {} ELSE buildLinks(us)
                 s0 == ToSet(placed(us))
                 h0 == nativeH(s0)
                 k0 == IF con THEN buildLinks(us) ELSE {}
      <3>1. rk' = [rk EXCEPT !.connections = not, !.links = K, !.hover = h]
        BY <1>5 DEF setConnections
      <3>2. RackOf(us, not, h) = [units |-> us, spots |-> s0, height |-> h0, links |-> K,
                                  connections |-> not, hover |-> h]
        <4>1. K = IF not THEN buildLinks(us) ELSE {}
          BY <1>1
        <4> HIDE DEF K, not, h
        <4> QED  BY <4>1 DEF RackOf
      <3>3. rk = [units |-> us, spots |-> s0, height |-> h0, links |-> k0, connections |-> con, hover |-> hov]
        BY <1>1 DEF RackOf
      <3> HIDE DEF K, s0, h0, k0, us, con, hov, h, not
      <3> DEFINE q == [rk EXCEPT !.connections = not, !.links = K, !.hover = h]
      <3>4. /\ q.units = us /\ q.spots = s0 /\ q.height = h0 /\ q.links = K
            /\ q.connections = not /\ q.hover = h
        BY <3>3
      <3>5. DOMAIN q = {"units", "spots", "height", "links", "connections", "hover"} /\ q = [x \in DOMAIN q |-> q[x]]
        BY <3>3
      <3>6. rk' = q
        BY <3>1
      <3> HIDE DEF q
      <3>7. rk' = RackOf(us, not, h)
        BY <3>2, <3>4, <3>5, <3>6
      <3> QED  BY <3>7 DEF not
    <2> QED  BY <1>1, <1>2, <2>1
  <1>6. ASSUME NEW h, setHover(h) PROVE RackInv'
    <2>1. rk' = RackOf(us, con, h)
      <3> DEFINE s0 == ToSet(placed(us))
                 h0 == nativeH(s0)
                 k0 == IF con THEN buildLinks(us) ELSE {}
      <3>1. rk' = [rk EXCEPT !.hover = h]
        BY <1>6 DEF setHover
      <3>2. RackOf(us, con, h) = [units |-> us, spots |-> s0, height |-> h0, links |-> k0, connections |-> con, hover |-> h]
        BY DEF RackOf
      <3>3. rk = [units |-> us, spots |-> s0, height |-> h0, links |-> k0, connections |-> con, hover |-> hov]
        BY <1>1 DEF RackOf
      <3> HIDE DEF s0, h0, k0, us, con, hov
      <3> QED  BY <3>1, <3>2, <3>3
    <2> QED  BY <1>1, <1>2, <2>1
  <1> QED  BY <1>3, <1>4, <1>5, <1>6 DEF RackNext

LEMMA RackInvMeans == RackInv => UnitsApart /\ BondsDrawn /\ HoverBothEnds
  <1> SUFFICES ASSUME RackInv PROVE UnitsApart /\ BondsDrawn /\ HoverBothEnds
    OBVIOUS
  <1> DEFINE us == rk.units
  <1>1. us \in Seq(RUnit) /\ MacsApart(us)
    BY DEF RackInv
  <1>2. /\ rk.spots = ToSet(placed(us)) /\ rk.height = nativeH(rk.spots)
        /\ rk.connections => rk.links = buildLinks(us)
    <2>1. rk = RackOf(us, rk.connections, rk.hover)
      BY DEF RackInv
    <2> QED  BY <2>1 DEF RackOf
  <1> HIDE DEF us
  <1>3. UnitsApart
    <2> DEFINE S == rk.spots
    <2>1. S = ToSet(placed(us))
      BY <1>2
    <2> HIDE DEF S
    <2>2. /\ Cardinality(S) = Len(us)
          /\ \A a \in S : Within(a, rackW, nativeH(S))
          /\ \A a, b \in S : a # b => ~Overlap(a, b)
      BY <1>1, <2>1, UnitsAreApart
    <2> QED  BY <1>2, <2>2 DEF S, us, UnitsApart
  <1>4. BondsDrawn
    <2> SUFFICES ASSUME rk.connections, NEW u \in ToSet(us), NEW p \in ToSet(us),
                        u.kind = "switch", u.parent = p.mac, u.parent_port \in jackIds(p), p.kind # "ap",
                        ToSet(uplinkPorts(u)) \subseteq jackIds(u),
                        ToSet(expandLagOf(p, u.parent_port)) \subseteq jackIds(p)
                 PROVE  LET mine == {l \in rk.links : l.child = u.mac}
                            cps == ToSet(uplinkPorts(u))
                            lag == ToSet(expandLagOf(p, u.parent_port))
                        IN /\ \A c \in cps : Cardinality({l \in mine : l.cp = c}) = 1
                           /\ \A l \in mine : l.pp \in lag
                           /\ Cardinality(lag) >= Cardinality(cps) => Cardinality({l.pp : l \in mine}) = Cardinality(cps)
      BY DEF BondsDrawn, us
    <2> DEFINE mine == {l \in rk.links : l.child = u.mac}
    <2>1. mine = {l \in buildLinks(us) : l.child = u.mac}
      BY <1>2
    <2> HIDE DEF mine
    <2>2. Bonded(mine, ToSet(uplinkPorts(u)), ToSet(expandLagOf(p, u.parent_port)))
      BY <1>1, <2>1, BondDrawn
    <2> QED  BY <2>2 DEF mine, Bonded
  <1>5. HoverBothEnds
    BY EndsLit DEF HoverBothEnds
  <1> QED  BY <1>3, <1>4, <1>5

(* Whatever units the polls report, add, drop and move, no unit is drawn   *)
(* over another or outside the drawing, a bonded uplink has its cables     *)
(* and a cable lights at both ends (VRack.tsx: units, aps, nativeH,        *)
(* buildLinks, match).                                                     *)
THEOREM RackDrawnHolds == RackSpec => [](UnitsApart /\ BondsDrawn /\ HoverBothEnds)
  <1>1. RackInv /\ UNCHANGED rk => RackInv'
    BY RackStepInv
  <1> QED  BY RackInitInv, RackStepInv, RackInvMeans, PTL DEF RackSpec

(* The engine lays out each faceplate of the catalog soundly: the          *)
(* configuration checks it product by product.                             *)
PlatesSound == \A u \in RUnit : u.kind # "ap" => PlateSound(Plate[u.plate])

(* With sound faceplates the whole drawing is sound (VRack.tsx,            *)
(* engine.ts).                                                             *)
THEOREM RackSoundHolds == PlatesSound => (RackSpec => []RackSound)
  <1> SUFFICES ASSUME PlatesSound PROVE RackSpec => []RackSound
    OBVIOUS
  <1>1. RackInv => RackSound
    <2> SUFFICES ASSUME RackInv PROVE RackSound
      OBVIOUS
    <2>1. rk.units \in Seq(RUnit)
      BY DEF RackInv
    <2>2. rk.units # <<>> => rk.units[Len(rk.units)] \in RUnit
      BY <2>1
    <2>3. JacksApart
      BY <2>2 DEF JacksApart, PlatesSound
    <2> QED  BY <2>3, RackInvMeans DEF RackSound
  <1> QED  BY <1>1, RackInitInv, RackStepInv, PTL DEF RackSpec
=============================================================================
