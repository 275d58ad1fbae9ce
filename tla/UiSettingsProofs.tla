-------------------------- MODULE UiSettingsProofs --------------------------
(***************************************************************************)
(* Proofs about the settings pages of the web interface, for any number of *)
(* requests, visits and edits: the features, the switches, the pairing and *)
(* the modules.                                                            *)
(***************************************************************************)
EXTENDS UiFeatures, UiSwitches, UiPairing, UiModules, FiniteSetTheorems, TLAPS

-----------------------------------------------------------------------------
(* Features *)

FBoxes == [ver: Nat, on: SUBSET Feature]
FViews == [open: BOOLEAN, inst: Nat, ver: Nat, on: SUBSET Feature, writable: BOOLEAN,
           lan: BOOLEAN, loading: BOOLEAN, busy: BOOLEAN]
FRequests == [pc: {"idle", "sent", "back"}, op: {"none", "load", "toggle"}, inst: Nat,
              put: Feature \cup {"none"}, to: BOOLEAN, ok: BOOLEAN, said: BOOLEAN,
              lan: BOOLEAN, got: FBoxes]

FTypes == fBox \in FBoxes /\ fv \in FViews /\ fq \in [FTask -> FRequests]

(* Request q is out, and belongs to the visit under way. *)
FOut(q) == q.pc # "idle"
FOfVisit(q) == FOut(q) /\ q.inst = fv.inst

(* A visit has one request out at a time: its read, before which nothing   *)
(* can be written, and then one write after the other.  No answer is newer *)
(* than the box, and none that is still out is older than what is shown.   *)
FOneOut ==
    /\ \A t \in FTask : FOut(fq[t]) => fq[t].inst <= fv.inst
    /\ \A t \in FTask : fq[t].op = "load" /\ FOfVisit(fq[t]) /\ fv.open =>
                          ~fv.writable /\ ~fv.busy
    /\ \A t, u \in FTask : fv.open /\ FOfVisit(fq[t]) /\ FOfVisit(fq[u]) => t = u
    /\ \A t \in FTask : FOut(fq[t]) => fq[t].op \in {"load", "toggle"}
    /\ \A t \in FTask : fq[t].op = "toggle" => fq[t].put \in Feature
FNewer ==
    /\ fv.ver <= fBox.ver
    /\ \A t \in FTask : fv.open /\ FOfVisit(fq[t]) /\ fq[t].pc = "back" /\ fq[t].ok =>
                          fv.ver <= fq[t].got.ver /\ fq[t].got.ver <= fBox.ver
FInv == FTypes /\ FOneOut /\ FNewer /\ FeatureLockOwned

LEMMA FIdleType == FIdle \in FRequests /\ ~FOut(FIdle)
  BY DEF FIdle, FRequests, FBoxes, FOut

(* An answer sets the version, keeps the visit and touches no lock. *)
LEMMA FViewAnswered ==
    ASSUME NEW m \in FViews, NEW q \in FRequests
    PROVE  LET n == normalizeFeaturesView(m, q)
           IN  /\ n \in FViews /\ n.open = m.open /\ n.inst = m.inst /\ n.busy = m.busy
               /\ n.ver = IF q.ok THEN q.got.ver ELSE m.ver
  BY DEF normalizeFeaturesView, FViews, FRequests, FBoxes

LEMMA FeaturesInitInv == FeaturesInit => FInv
  <1> SUFFICES ASSUME FeaturesInit PROVE FInv
    OBVIOUS
  <1>1. fBox \in FBoxes /\ fv \in FViews /\ ~fv.open /\ fv.ver = 0 /\ fBox.ver = 0
    BY DEF FeaturesInit, FBoxes, FViews, freshView
  <1>2. \A t \in FTask : fq[t] = FIdle
    BY DEF FeaturesInit
  <1>3. fq \in [FTask -> FRequests]
    BY FIdleType DEF FeaturesInit
  <1> QED
    BY <1>1, <1>2, <1>3, FIdleType
    DEF FInv, FTypes, FOneOut, FNewer, FeatureLockOwned, FOfVisit, FOut, FIdle

LEMMA FeaturesStepInv == FInv /\ [FeaturesNext]_featureVars => FInv'
  <1> SUFFICES ASSUME FInv, [FeaturesNext]_featureVars PROVE FInv'
    OBVIOUS
  <1> USE DEF FOut, FOfVisit
  <1>0. /\ fBox \in FBoxes /\ fv \in FViews /\ fq \in [FTask -> FRequests]
        /\ \A t \in FTask : fq[t] \in FRequests
    BY DEF FInv, FTypes
  <1>1. CASE BoxChanges
    <2>1. /\ fBox' \in FBoxes /\ fBox'.ver = fBox.ver + 1
          /\ fv' = fv /\ fq' = fq
      BY <1>0, <1>1 DEF BoxChanges, FBoxes
    <2> QED
      BY <1>0, <2>1 DEF FInv, FTypes, FOneOut, FNewer, FeatureLockOwned, FBoxes, FViews, FRequests
  <1>2. CASE closeFeatures
    <2>1. /\ fv' \in FViews /\ ~fv'.open /\ fv'.inst = fv.inst /\ fv'.ver = 0
          /\ fBox' = fBox /\ fq' = fq
      BY <1>0, <1>2 DEF closeFeatures, freshView, FViews
    <2> QED
      BY <1>0, <2>1 DEF FInv, FTypes, FOneOut, FNewer, FeatureLockOwned, FBoxes
  <1>3. ASSUME NEW t \in FTask, ServeFeatures(t) PROVE FInv'
    <2>1. PICK ok \in BOOLEAN, said \in BOOLEAN, lan \in BOOLEAN :
            fq' = [fq EXCEPT ![t] = [fq[t] EXCEPT !.pc = "back", !.ok = ok, !.said = said, !.lan = lan,
                                                  !.got = IF ok THEN fBox' ELSE fq[t].got]]
      BY <1>3 DEF ServeFeatures
    <2>2. fBox' \in FBoxes /\ fBox.ver <= fBox'.ver
      BY <1>0, <1>3 DEF ServeFeatures, FBoxes, FInv, FOneOut
    <2> DEFINE r == [fq[t] EXCEPT !.pc = "back", !.ok = ok, !.said = said, !.lan = lan,
                                  !.got = IF ok THEN fBox' ELSE fq[t].got]
    <2>2a. fq[t] \in FRequests
      BY <1>0
    <2>2b. /\ r \in FRequests /\ r.pc = "back" /\ r.ok = ok /\ r.inst = fq[t].inst
           /\ r.op = fq[t].op /\ r.put = fq[t].put /\ (ok => r.got = fBox')
      BY <2>2, <2>2a DEF FRequests
    <2>2c. fq' = [fq EXCEPT ![t] = r]
      BY <2>1
    <2> HIDE DEF r
    <2> DEFINE q == fq'[t]
    <2>3. /\ q \in FRequests /\ q.pc = "back" /\ q.ok = ok /\ q.inst = fq[t].inst
          /\ q.op = fq[t].op /\ q.put = fq[t].put /\ (ok => q.got = fBox')
          /\ \A u \in FTask \ {t} : fq'[u] = fq[u]
          /\ fq' \in [FTask -> FRequests]
      BY <1>0, <2>2b, <2>2c
    <2>4. fv' = fv /\ fq[t].pc = "sent"
      BY <1>3 DEF ServeFeatures
    <2> HIDE DEF q
    <2>5. FTypes'
      BY <1>0, <2>2, <2>3, <2>4 DEF FTypes
    <2>6. FOneOut'
      BY <2>3, <2>4 DEF FInv, FOneOut, q
    <2>7. FNewer'
      BY <1>0, <2>2, <2>3, <2>4 DEF FInv, FNewer, q, FBoxes, FViews, FRequests
    <2>8. FeatureLockOwned'
      BY <2>3, <2>4 DEF FInv, FeatureLockOwned, q
    <2> QED
      BY <2>5, <2>6, <2>7, <2>8 DEF FInv
  (* A request that begins when none of the visit is out. *)
  <1>4. ASSUME NEW t \in FTask, openFeatures(t) PROVE FInv'
    <2> DEFINE r == FRequest("load", fv.inst + 1, "none", FALSE)
    <2>1. /\ fv' \in FViews /\ fv'.open /\ fv'.inst = fv.inst + 1 /\ fv'.ver = 0
          /\ ~fv'.writable /\ ~fv'.busy /\ fBox' = fBox
      BY <1>0, <1>4 DEF openFeatures, freshView, FViews
    <2>2. r \in FRequests /\ r.pc = "sent" /\ r.op = "load" /\ r.inst = fv.inst + 1
      <3>1. fv.inst + 1 \in Nat
        BY <1>0 DEF FViews
      <3> QED
        BY <3>1 DEF FRequest, FIdle, FRequests, FBoxes
    <2> HIDE DEF r
    <2>3. /\ fq'[t] = r /\ \A u \in FTask \ {t} : fq'[u] = fq[u]
          /\ fq' \in [FTask -> FRequests]
      BY <1>0, <1>4, <2>2 DEF openFeatures, r
    <2>4. \A u \in FTask \ {t} : FOut(fq[u]) => fq[u].inst < fv'.inst
      BY <1>0, <2>1 DEF FInv, FOneOut, FViews, FRequests
    <2>5. FTypes'
      BY <1>0, <2>1, <2>3 DEF FTypes
    <2>6. FOneOut'
      BY <1>0, <2>1, <2>2, <2>3, <2>4 DEF FInv, FOneOut, FViews, FRequests
    <2>7. FNewer'
      BY <1>0, <2>1, <2>2, <2>3, <2>4 DEF FNewer, FViews, FRequests, FBoxes
    <2>8. FeatureLockOwned'
      BY <1>0, <2>1, <2>2, <2>3, <2>4 DEF FeatureLockOwned, FViews, FRequests
    <2> QED
      BY <2>5, <2>6, <2>7, <2>8 DEF FInv
  <1>5. ASSUME NEW t \in FTask, NEW f \in Feature, toggleFeature(t, f) PROVE FInv'
    <2> DEFINE r == FRequest("toggle", fv.inst, f, f \notin fv.on)
    <2>1. /\ fv' \in FViews /\ fv'.open /\ fv'.inst = fv.inst /\ fv'.ver = fv.ver
          /\ fv.open /\ fv.writable /\ ~fv.busy /\ fv'.busy /\ fBox' = fBox
          /\ fq[t].pc = "idle"
      BY <1>0, <1>5 DEF toggleFeature, mayToggle, FViews, FFree
    <2>2. r \in FRequests /\ r.pc = "sent" /\ r.op = "toggle" /\ r.inst = fv.inst
          /\ r.put = f
      BY <1>0 DEF FRequest, FIdle, FRequests, FBoxes, FViews
    <2> HIDE DEF r
    <2>3. /\ fq'[t] = r /\ \A u \in FTask \ {t} : fq'[u] = fq[u]
          /\ fq' \in [FTask -> FRequests]
      BY <1>0, <1>5, <2>2 DEF toggleFeature, r
    <2>4. \A u \in FTask : ~FOfVisit(fq[u])
      BY <2>1 DEF FInv, FOneOut, FeatureLockOwned
    <2>5. FTypes'
      BY <1>0, <2>1, <2>3 DEF FTypes
    <2>6. FOneOut'
      BY <1>0, <2>1, <2>2, <2>3, <2>4 DEF FInv, FOneOut, FViews, FRequests
    <2>7. FNewer'
      BY <1>0, <2>1, <2>2, <2>3, <2>4 DEF FInv, FNewer
    <2>8. FeatureLockOwned'
      BY <1>0, <2>1, <2>2, <2>3, <2>4 DEF FeatureLockOwned
    <2> QED
      BY <2>5, <2>6, <2>7, <2>8 DEF FInv
  (* An answer of this visit was the only request of it that was out. *)
  <1>6. ASSUME NEW t \in FTask, loadFeatures(t) \/ saved(t) PROVE FInv'
    <2>1. /\ fq' = [fq EXCEPT ![t] = FIdle] /\ fBox' = fBox /\ fq[t].pc = "back"
      BY <1>6 DEF loadFeatures, saved, FAnswer
    <2>2. /\ fq'[t] = FIdle /\ \A u \in FTask \ {t} : fq'[u] = fq[u]
          /\ fq' \in [FTask -> FRequests]
      BY <1>0, <2>1, FIdleType
    <2>3. CASE fv.open /\ fq[t].inst = fv.inst
      <3>1. \A u \in FTask : fq'[u].inst = fv.inst => ~FOut(fq'[u])
        BY <2>1, <2>2, <2>3, FIdleType DEF FInv, FOneOut
      <3> DEFINE n == normalizeFeaturesView(fv, fq[t])
      <3>0. /\ n \in FViews /\ n.open = fv.open /\ n.inst = fv.inst /\ n.busy = fv.busy
            /\ n.ver = IF fq[t].ok THEN fq[t].got.ver ELSE fv.ver
        BY <1>0, FViewAnswered
      <3>2a. fv' = [n EXCEPT !.loading = FALSE] \/ fv' = [n EXCEPT !.busy = FALSE]
        BY <1>6, <2>3 DEF loadFeatures, saved, FAnswer
      <3>2b. saved(t) => fv' = [n EXCEPT !.busy = FALSE]
        BY <1>6, <2>3 DEF saved, FAnswer
      <3>2c. loadFeatures(t) => fv' = [n EXCEPT !.loading = FALSE]
        BY <1>6, <2>3 DEF loadFeatures, FAnswer
      <3> HIDE DEF n
      <3>2. /\ fv' \in FViews /\ fv'.open /\ fv'.inst = fv.inst
            /\ fv'.ver = IF fq[t].ok THEN fq[t].got.ver ELSE fv.ver
        BY <2>3, <3>0, <3>2a DEF FViews
      <3>3. ~fv'.busy
        <4>1. CASE saved(t)
          BY <4>1, <3>0, <3>2b DEF FViews
        <4>2. CASE loadFeatures(t)
          <5>1. ~fv.busy
            BY <4>2, <2>1, <2>3 DEF loadFeatures, FAnswer, FInv, FOneOut
          <5> QED
            BY <4>2, <5>1, <3>0, <3>2c DEF FViews
        <4> QED
          BY <1>6, <4>1, <4>2
      <3>4. fv'.ver <= fBox.ver
        BY <2>1, <2>3, <3>2 DEF FInv, FNewer
      <3>5. FOneOut'
        BY <2>2, <3>1, <3>2, FIdleType DEF FInv, FOneOut, FIdle
      <3>6. FeatureLockOwned'
        BY <3>1, <3>2, <3>3 DEF FeatureLockOwned
      <3> QED
        BY <1>0, <2>1, <2>2, <3>1, <3>2, <3>4, <3>5, <3>6 DEF FInv, FTypes, FNewer
    <2>4. CASE ~(fv.open /\ fq[t].inst = fv.inst)
      <3>1. fv' = fv
        BY <1>6, <2>4 DEF loadFeatures, saved, FAnswer
      <3>2. FOneOut'
        BY <2>1, <2>2, <3>1, FIdleType DEF FInv, FOneOut, FIdle
      <3>3. FNewer'
        BY <2>1, <2>2, <3>1, FIdleType DEF FInv, FNewer
      <3>4. FeatureLockOwned'
        BY <2>1, <2>2, <2>4, <3>1, FIdleType DEF FInv, FeatureLockOwned
      <3> QED
        BY <1>0, <2>1, <2>2, <3>1, <3>2, <3>3, <3>4 DEF FInv, FTypes
    <2> QED
      BY <2>3, <2>4
  <1>7. CASE UNCHANGED featureVars
    BY <1>7 DEF featureVars, FInv, FTypes, FOneOut, FNewer, FeatureLockOwned
  <1> QED
    BY <1>1, <1>2, <1>3, <1>4, <1>5, <1>6, <1>7 DEF FeaturesNext

(* The lock of the features page belongs to exactly one write of the visit *)
(* under way, whatever is refused, lost or late.                           *)
THEOREM FeatureLockHolds == FeaturesSpec => []FeatureLockOwned
  <1>1. FInv => FeatureLockOwned
    BY DEF FInv
  <1> QED
    BY <1>1, FeaturesInitInv, FeaturesStepInv, PTL DEF FeaturesSpec

(* The switches of the features page never go back to an older state of    *)
(* the box.                                                                *)
THEOREM FeaturesInOrderHolds == FeaturesSpec => FeaturesInOrder
  <1>1. ASSUME FInv, [FeaturesNext]_featureVars, fv'.inst = fv.inst, fv'.open
        PROVE  fv'.ver >= fv.ver
    <2>0. fv \in FViews /\ fq \in [FTask -> FRequests]
      BY <1>1 DEF FInv, FTypes
    <2>1. CASE fv' = fv
      BY <2>0, <2>1 DEF FViews
    <2>2. CASE closeFeatures
      BY <1>1, <2>2 DEF closeFeatures, freshView
    <2>3. ASSUME NEW t \in FTask, openFeatures(t) PROVE FALSE
      BY <1>1, <2>0, <2>3 DEF openFeatures, freshView, FViews
    <2>4. ASSUME NEW t \in FTask, NEW f \in Feature, toggleFeature(t, f)
          PROVE  fv'.ver >= fv.ver
      BY <2>0, <2>4 DEF toggleFeature, FViews
    <2>5. ASSUME NEW t \in FTask, loadFeatures(t) \/ saved(t), fv' # fv
          PROVE  fv'.ver >= fv.ver
      <3>1. fv.open /\ fq[t].inst = fv.inst /\ fq[t].pc = "back"
        BY <2>5 DEF loadFeatures, saved, FAnswer
      <3>2. fv'.ver = IF fq[t].ok THEN fq[t].got.ver ELSE fv.ver
        BY <2>0, <2>5, <3>1
        DEF loadFeatures, saved, FAnswer, normalizeFeaturesView, FViews, FRequests, FBoxes
      <3>3. fq[t].got.ver \in Nat /\ fv.ver \in Nat
        BY <2>0 DEF FRequests, FBoxes, FViews
      <3> QED
        BY <1>1, <3>1, <3>2, <3>3 DEF FInv, FNewer, FOfVisit, FOut
    <2> QED
      BY <1>1, <2>1, <2>2, <2>3, <2>4, <2>5
      DEF FeaturesNext, featureVars, BoxChanges, ServeFeatures
  <1>2. FInv /\ [FeaturesNext]_featureVars =>
          [fv'.inst = fv.inst /\ fv'.open => fv'.ver >= fv.ver]_featureVars
    BY <1>1
  <1> QED
    BY <1>2, FeaturesInitInv, FeaturesStepInv, PTL DEF FeaturesSpec, FeaturesInOrder

-----------------------------------------------------------------------------
(* A set without two different members has one or none. *)
LEMMA OneOrNone ==
    ASSUME NEW S, \A x, y \in S : x = y
    PROVE  Cardinality(S) = IF S = {} THEN 0 ELSE 1
  <1>1. CASE S = {}
    BY <1>1, FS_EmptySet
  <1>2. CASE S # {}
    <2>1. PICK x \in S : S = {x}
      BY <1>2
    <2> QED
      BY <1>2, <2>1, FS_Singleton
  <1> QED
    BY <1>1, <1>2

-----------------------------------------------------------------------------
(* Switches *)

WNames == SwId \cup {Blank, NoSw}
WServers == [cfg: SUBSET WNames, poll: Int]
WPages == [open: BOOLEAN, inst: Nat, list: SUBSET WNames, poll: Int, edit: WNames, add: BOOLEAN,
           form: WNames, pass: WNames, busy: BOOLEAN, edits: Nat]
WOps == {"none", "load", "reload", "save", "test", "remove", "uplink", "poll"}
WRequests == [pc: {"idle", "sent", "back"}, op: WOps, inst: Nat, id: WNames, was: WNames,
              pass: WNames, val: Int, list: SUBSET WNames, st: {"none", "ok", "fail"}]

WTypes == wSrv \in WServers /\ ws \in WPages /\ wq \in [WTask -> WRequests]

(* The calls that lock the buttons: all but the reads of the interval. *)
WLocks(q) == q.op \notin {"none", "load"}
WOwn(t) == WLocks(wq[t]) /\ WMine(t)
WLock ==
    /\ \A t \in WTask : (wq[t].pc = "idle" <=> wq[t].op = "none") /\ (wq[t].op # "none" => wq[t].inst <= ws.inst)
    /\ \A t, u \in WTask : WOwn(t) /\ WOwn(u) => t = u
    /\ ws.open /\ ws.busy <=> \E t \in WTask : WOwn(t)

(* The password in the form is the one typed for it, if any. *)
WFormPass == ws.pass \in {NoSw, ws.form}
SwInv == WTypes /\ WLock /\ WFormPass /\ PasswordOwn

(* How a request may change while the page and its lock stay: a read comes *)
(* or goes, a call moves on, or its write is followed by the reading.      *)
WSame(p, q) == q.op = p.op /\ q.inst = p.inst /\ q.id = p.id /\ q.pass = p.pass /\ (q.pc = "idle" <=> p.pc = "idle")
WRead(p, q) == /\ ~WLocks(p) /\ ~WLocks(q)
               /\ (q.pc = "idle" <=> q.op = "none") /\ (q.op # "none" => q.inst <= ws.inst)
WReload(p, q) == WLocks(p) /\ q.op = "reload" /\ q.inst = p.inst /\ q.pc = "sent"

LEMMA WNoPageType == NoPage \in WPages /\ ~NoPage.open /\ ~NoPage.busy /\ NoPage.pass = NoSw
  BY DEF NoPage, WPages, WNames

LEMMA WIdleType == WIdle \in WRequests /\ WIdle.op = "none" /\ WIdle.pc = "idle"
  BY DEF WIdle, WRequests, WOps, WNames

LEMMA WEditedType ==
    ASSUME NEW m \in WPages
    PROVE  LET n == WEdited(m)
           IN  /\ n \in WPages /\ n.open = m.open /\ n.inst = m.inst /\ n.busy = m.busy
               /\ n.pass = m.pass /\ n.form = m.form
  BY DEF WEdited, WPages

LEMMA WKept ==
    ASSUME SwInv, WTypes', WFormPass', ws'.open = ws.open, ws'.inst = ws.inst, ws'.busy = ws.busy,
           \A u \in WTask : WSame(wq[u], wq'[u]) \/ WRead(wq[u], wq'[u]) \/ WReload(wq[u], wq'[u])
    PROVE  SwInv'
  <1>1. \A u \in WTask : WOwn(u)' <=> WOwn(u)
    BY DEF WOwn, WMine, WSame, WRead, WReload, WLocks
  <1>2. WLock'
    <2>1. \A u \in WTask : (wq'[u].pc = "idle" <=> wq'[u].op = "none") /\ (wq'[u].op # "none" => wq'[u].inst <= ws.inst)
      BY DEF SwInv, WLock, WSame, WRead, WReload, WLocks
    <2> QED
      BY <1>1, <2>1 DEF SwInv, WLock
  <1>3. PasswordOwn'
    BY DEF SwInv, PasswordOwn, WSame, WRead, WReload, WLocks
  <1> QED
    BY <1>2, <1>3 DEF SwInv

(* A write or a test begins. *)
LEMMA WBegins ==
    ASSUME SwInv, NEW t \in WTask, NEW op \in WOps \ {"none", "load", "reload"},
           NEW id \in WNames, NEW pass \in WNames, NEW val \in Int,
           write(t, op, id, pass, val), op \in {"save", "test"} => pass \in {NoSw, id}
    PROVE  SwInv'
  <1> DEFINE r == [WIdle EXCEPT !.pc = "sent", !.op = op, !.inst = ws.inst, !.id = id, !.was = ws.edit,
                                !.pass = pass, !.val = val]
  <1>0. wSrv \in WServers /\ ws \in WPages /\ wq \in [WTask -> WRequests]
    BY DEF SwInv, WTypes
  <1>1. r \in WRequests /\ r.op = op /\ r.inst = ws.inst /\ r.id = id /\ r.pass = pass /\ r.pc = "sent"
    BY <1>0 DEF WIdle, WRequests, WOps, WPages
  <1>2. /\ wq' = [wq EXCEPT ![t] = r] /\ wSrv' = wSrv /\ wq[t].pc = "idle" /\ ws.open /\ ~ws.busy
        /\ ws' = [WEdited(ws) EXCEPT !.busy = TRUE]
    BY DEF write, WFree, mayWrite
  <1> HIDE DEF r
  <1>3. /\ ws' \in WPages /\ ws'.open /\ ws'.inst = ws.inst /\ ws'.busy /\ ws'.pass = ws.pass /\ ws'.form = ws.form
    <2> DEFINE m == WEdited(ws)
    <2>1. m \in WPages /\ m.open = ws.open /\ m.inst = ws.inst /\ m.pass = ws.pass /\ m.form = ws.form
      BY <1>0, WEditedType
    <2>2. ws' = [m EXCEPT !.busy = TRUE]
      BY <1>2
    <2> HIDE DEF m
    <2> QED
      BY <1>2, <2>1, <2>2 DEF WPages
  <1>4. wq' \in [WTask -> WRequests] /\ wq'[t] = r /\ \A u \in WTask \ {t} : wq'[u] = wq[u]
    BY <1>0, <1>1, <1>2
  <1>5. WTypes'
    BY <1>0, <1>2, <1>3, <1>4 DEF WTypes
  <1>6. \A u \in WTask \ {t} : ~WOwn(u) /\ ~WOwn(u)'
    BY <1>2, <1>3, <1>4 DEF SwInv, WLock, WOwn, WMine
  <1>7. WOwn(t)'
    BY <1>1, <1>3, <1>4 DEF WOwn, WMine, WLocks
  <1>8. WLock'
    <2>1. \A u \in WTask : (wq'[u].pc = "idle" <=> wq'[u].op = "none") /\ (wq'[u].op # "none" => wq'[u].inst <= ws'.inst)
      BY <1>0, <1>1, <1>3, <1>4 DEF SwInv, WLock, WPages
    <2> QED
      BY <1>3, <1>6, <1>7, <2>1 DEF WLock
  <1>9. PasswordOwn'
    BY <1>1, <1>4 DEF SwInv, PasswordOwn
  <1> QED
    BY <1>3, <1>5, <1>8, <1>9 DEF SwInv, WFormPass

(* A call ends, and with it the lock if it is of this visit. *)
LEMMA WFinishes ==
    ASSUME SwInv, NEW t \in WTask, WLocks(wq[t]), WEnds(t), wSrv' = wSrv, ws' \in WPages,
           ws'.open = ws.open, ws'.inst = ws.inst, ws'.pass = ws.pass, ws'.form = ws.form,
           ws'.busy = IF WMine(t) THEN FALSE ELSE ws.busy
    PROVE  SwInv'
  <1>1. wq' \in [WTask -> WRequests] /\ wq'[t] = WIdle /\ \A u \in WTask \ {t} : wq'[u] = wq[u]
    BY WIdleType DEF WEnds, SwInv, WTypes
  <1>2. WTypes'
    BY <1>1 DEF SwInv, WTypes
  <1>3. ~WOwn(t)' /\ \A u \in WTask \ {t} : WOwn(u)' <=> WOwn(u)
    BY <1>1, WIdleType DEF WOwn, WMine, WLocks
  <1>4. WLock'
    <2>1. \A u \in WTask : (wq'[u].pc = "idle" <=> wq'[u].op = "none") /\ (wq'[u].op # "none" => wq'[u].inst <= ws'.inst)
      BY <1>1, WIdleType DEF SwInv, WLock
    <2>2. CASE WMine(t)
      BY <1>3, <2>1, <2>2 DEF SwInv, WLock, WOwn
    <2>3. CASE ~WMine(t)
      BY <1>3, <2>1, <2>3 DEF SwInv, WLock, WOwn
    <2> QED
      BY <2>2, <2>3
  <1>5. PasswordOwn'
    BY <1>1, WIdleType DEF SwInv, PasswordOwn
  <1> QED
    BY <1>2, <1>4, <1>5 DEF SwInv, WFormPass

LEMMA SwitchesInitInv == SwitchesInit => SwInv
  <1> SUFFICES ASSUME SwitchesInit PROVE SwInv
    OBVIOUS
  <1>1. wSrv \in WServers
    BY DEF SwitchesInit, WServers, WNames
  <1>2. ws \in WPages /\ ~ws.open /\ ws.pass = NoSw
    BY DEF SwitchesInit, NoPage, WPages, WNames
  <1>3. wq \in [WTask -> WRequests] /\ \A t \in WTask : wq[t] = WIdle
    BY WIdleType DEF SwitchesInit
  <1>4. WLock
    BY <1>2, <1>3, WIdleType DEF WLock, WOwn, WMine
  <1> QED
    BY <1>1, <1>2, <1>3, <1>4, WIdleType DEF SwInv, WTypes, WFormPass, PasswordOwn

LEMMA SwitchesStepInv == SwInv /\ [SwitchesNext]_switchVars => SwInv'
  <1> SUFFICES ASSUME SwInv, [SwitchesNext]_switchVars PROVE SwInv'
    OBVIOUS
  <1>0. /\ wSrv \in WServers /\ ws \in WPages /\ wq \in [WTask -> WRequests]
        /\ \A t \in WTask : wq[t] \in WRequests
    BY DEF SwInv, WTypes
  <1>inst. ws.inst \in Nat /\ ws.inst + 1 \in Nat /\ ws.edits \in Nat
    BY <1>0 DEF WPages
  <1>00. \A p : WSame(p, p)
    BY DEF WSame
  <1>1. ASSUME NEW t \in WTask, ServeSwitches(t) PROVE SwInv'
    <2> DEFINE r == wq[t]
               new == CASE r.op = "save" -> [wSrv EXCEPT !.cfg = @ \cup (IF r.id = Blank THEN {} ELSE {r.id})]
                        [] r.op = "remove" -> [wSrv EXCEPT !.cfg = @ \ {r.id}]
                        [] r.op = "poll" -> [wSrv EXCEPT !.poll = r.val]
                        [] OTHER -> wSrv
               ok == [r EXCEPT !.pc = "back", !.st = "ok", !.list = new.cfg, !.val = new.poll]
               no == [r EXCEPT !.pc = "back", !.st = "fail"]
    <2>1. r \in WRequests /\ new \in WServers /\ r.pc = "sent"
      BY <1>0, <1>1 DEF WServers, WRequests, ServeSwitches
    <2>2. /\ wq' = [wq EXCEPT ![t] = ok] \/ wq' = [wq EXCEPT ![t] = no]
          /\ wSrv' = new \/ wSrv' = wSrv
          /\ ws' = ws \/ ws' = WEdited(ws)
      BY <1>1 DEF ServeSwitches
    <2> HIDE DEF new
    <2>3. ok \in WRequests /\ no \in WRequests /\ WSame(r, ok) /\ WSame(r, no)
      BY <2>1 DEF WRequests, WServers, WSame
    <2> HIDE DEF ok, no
    <2>4. wq' \in [WTask -> WRequests] /\ \A u \in WTask : WSame(wq[u], wq'[u])
      BY <1>0, <1>00, <2>2, <2>3
    <2>5. /\ ws' \in WPages /\ ws'.open = ws.open /\ ws'.inst = ws.inst /\ ws'.busy = ws.busy
          /\ ws'.pass = ws.pass /\ ws'.form = ws.form
      BY <1>0, <2>2 DEF WEdited, WPages
    <2>6. wSrv' \in WServers
      BY <1>0, <2>1, <2>2
    <2> QED
      BY <2>4, <2>5, <2>6, WKept DEF WTypes, SwInv, WFormPass
  <1>2. ASSUME NEW t \in WTask, intervalLoad(t) PROVE SwInv'
    <2> DEFINE r == [WIdle EXCEPT !.pc = "sent", !.op = "load", !.inst = ws.inst]
    <2>1. r \in WRequests /\ r.pc = "sent" /\ r.op = "load" /\ r.inst = ws.inst
      BY <1>inst, WIdleType DEF WRequests, WOps
    <2>2. wq' = [wq EXCEPT ![t] = r] /\ ws' = ws /\ wSrv' = wSrv /\ wq[t].pc = "idle"
      BY <1>2 DEF intervalLoad, WFree
    <2> HIDE DEF r
    <2>3. WRead(wq[t], r)
      BY <1>0, <2>1, <2>2 DEF WRead, WLocks, SwInv, WLock, WPages
    <2>4. wq' \in [WTask -> WRequests] /\ \A u \in WTask : WSame(wq[u], wq'[u]) \/ WRead(wq[u], wq'[u])
      BY <1>0, <1>00, <2>1, <2>2, <2>3
    <2> QED
      BY <1>0, <2>2, <2>4, WKept DEF WTypes, SwInv, WFormPass
  <1>3. ASSUME NEW t \in WTask, loadSwitches(t) PROVE SwInv'
    <2>1. wq' = [wq EXCEPT ![t] = WIdle] /\ wq[t].op = "load" /\ wSrv' = wSrv
      BY <1>3 DEF loadSwitches, WEnds, WBack
    <2>2. WRead(wq[t], WIdle)
      BY <2>1, WIdleType DEF WRead, WLocks
    <2>3. wq' \in [WTask -> WRequests] /\ \A u \in WTask : WSame(wq[u], wq'[u]) \/ WRead(wq[u], wq'[u])
      BY <1>0, <1>00, <2>1, <2>2, WIdleType
    <2>4. /\ ws' \in WPages /\ ws'.open = ws.open /\ ws'.inst = ws.inst /\ ws'.busy = ws.busy
          /\ ws'.pass = ws.pass /\ ws'.form = ws.form
      BY <1>0, <1>3 DEF loadSwitches, setSwitches, WPages, WRequests
    <2> QED
      BY <1>0, <2>1, <2>3, <2>4, WKept DEF WTypes, SwInv, WFormPass
  <1>4. ASSUME NEW t \in WTask, written(t) PROVE SwInv'
    <2> DEFINE r == [WIdle EXCEPT !.pc = "sent", !.op = "reload", !.inst = ws.inst]
    <2>0. wq[t].op \in {"save", "remove"} /\ WLocks(wq[t]) /\ wSrv' = wSrv
      BY <1>4 DEF written, WBack, WLocks
    <2>1. CASE WMine(t) /\ wq[t].st = "ok"
      <3>1. wq' = [wq EXCEPT ![t] = r] /\ ws' = closeForm(ws, wq[t]) /\ wq[t].inst = ws.inst
        BY <1>4, <2>1 DEF written, WMine
      <3>2. r \in WRequests /\ r.pc = "sent" /\ r.op = "reload" /\ r.inst = ws.inst
        BY <1>inst, WIdleType DEF WRequests, WOps
      <3> HIDE DEF r
      <3>3. WReload(wq[t], r)
        BY <2>0, <3>1, <3>2 DEF WReload
      <3>4. wq' \in [WTask -> WRequests] /\ \A u \in WTask : WSame(wq[u], wq'[u]) \/ WReload(wq[u], wq'[u])
        BY <1>0, <1>00, <3>1, <3>2, <3>3
      <3>5. /\ ws' \in WPages /\ ws'.open = ws.open /\ ws'.inst = ws.inst /\ ws'.busy = ws.busy
            /\ ws'.pass \in {NoSw, ws.pass} /\ ws'.form = ws.form
        BY <1>0, <3>1 DEF closeForm, cancelSwitch, resetAddForm, WPages, WNames
      <3> QED
        BY <1>0, <2>0, <3>4, <3>5, WKept DEF WTypes, SwInv, WFormPass
    <2>2. CASE ~(WMine(t) /\ wq[t].st = "ok")
      <3>1. WEnds(t) /\ ws' = IF WMine(t) THEN [ws EXCEPT !.busy = FALSE] ELSE ws
        BY <1>4, <2>2 DEF written
      <3>2. /\ ws' \in WPages /\ ws'.open = ws.open /\ ws'.inst = ws.inst
            /\ ws'.pass = ws.pass /\ ws'.form = ws.form
            /\ ws'.busy = IF WMine(t) THEN FALSE ELSE ws.busy
        BY <1>0, <3>1 DEF WPages
      <3> QED
        BY <2>0, <3>1, <3>2, WFinishes
    <2> QED
      BY <2>1, <2>2
  <1>5. ASSUME NEW t \in WTask, answered(t) PROVE SwInv'
    <2> DEFINE m == CASE wq[t].op = "reload" -> setSwitches(ws, wq[t])
                      [] wq[t].op = "poll" /\ wq[t].st = "ok" -> [ws EXCEPT !.poll = wq[t].val]
                      [] OTHER -> ws
    <2>1. /\ WLocks(wq[t]) /\ wSrv' = wSrv /\ WEnds(t)
          /\ ws' = IF WMine(t) THEN [m EXCEPT !.busy = FALSE] ELSE ws
      BY <1>5 DEF answered, WBack, WLocks
    <2>2. /\ m \in WPages /\ m.open = ws.open /\ m.inst = ws.inst
          /\ m.pass = ws.pass /\ m.form = ws.form
      BY <1>0 DEF setSwitches, WPages, WRequests
    <2> HIDE DEF m
    <2>3. /\ ws' \in WPages /\ ws'.open = ws.open /\ ws'.inst = ws.inst
          /\ ws'.pass = ws.pass /\ ws'.form = ws.form
          /\ ws'.busy = IF WMine(t) THEN FALSE ELSE ws.busy
      BY <1>0, <2>1, <2>2 DEF WPages
    <2> QED
      BY <2>1, <2>3, WFinishes
  <1>6. ASSUME NEW t \in WTask,
               \/ saveCreds(t) \/ test(t) \/ \E id \in SwId : removeSwitch(t, id) \/ saveUplink(t, id)
               \/ \E i \in {ws.poll - 1, ws.poll + 1} : savePoll(t, i)
        PROVE  SwInv'
    <2>1. ws.form \in WNames /\ ws.pass \in WNames /\ ws.pass \in {NoSw, ws.form} /\ NoSw \in WNames /\ SwId \subseteq WNames
      BY <1>0 DEF WPages, SwInv, WFormPass, WNames
    <2>2. CASE saveCreds(t)
      BY <2>1, <2>2, WBegins DEF saveCreds, WOps
    <2>3. CASE test(t)
      BY <2>1, <2>3, WBegins DEF test, WOps
    <2>4. ASSUME NEW id \in SwId, removeSwitch(t, id) PROVE SwInv'
      BY <2>1, <2>4, WBegins DEF removeSwitch, WOps
    <2>5. ASSUME NEW id \in SwId, saveUplink(t, id) PROVE SwInv'
      BY <2>1, <2>5, WBegins DEF saveUplink, WOps
    <2>6. ASSUME NEW i \in {ws.poll - 1, ws.poll + 1}, savePoll(t, i) PROVE SwInv'
      <3>1. i \in Int /\ write(t, "poll", NoSw, NoSw, i)
        BY <1>0, <2>6 DEF savePoll, WPages
      <3> QED
        BY <2>1, <3>1, WBegins DEF WOps
    <2> QED
      BY <1>6, <2>2, <2>3, <2>4, <2>5, <2>6
  (* What the visitor does with the form, and others at the server, touches  *)
  (* no request.                                                            *)
  <1>7. ASSUME wq' = wq, wSrv' \in WServers, ws' \in WPages, ws'.open = ws.open, ws'.inst = ws.inst,
               ws'.busy = ws.busy, ws'.pass \in {NoSw, ws'.form}
        PROVE  SwInv'
    BY <1>0, <1>00, <1>7, WKept DEF WTypes, WFormPass
  <1>8. ASSUME NEW id \in SwId, othersChange(id) \/ startEdit(id) PROVE SwInv'
    <2>1. wq' = wq /\ wSrv' \in WServers
      BY <1>0, <1>8 DEF othersChange, startEdit, WServers, WNames
    <2>2. /\ ws' \in WPages /\ ws'.open = ws.open /\ ws'.inst = ws.inst
          /\ ws'.busy = ws.busy /\ (ws'.pass = NoSw \/ (ws'.pass = ws.pass /\ ws'.form = ws.form))
      <3>1. CASE othersChange(id)
        BY <1>0, <3>1, WEditedType DEF othersChange
      <3>2. CASE startEdit(id)
        <4>1. id \in WNames /\ NoSw \in WNames /\ ws' = editForm(ws, id)
          BY <3>2 DEF WNames, startEdit
        <4> QED
          BY <1>0, <4>1 DEF editForm, WPages
      <3> QED
        BY <1>8, <3>1, <3>2
    <2> QED
      BY <1>7, <2>1, <2>2 DEF SwInv, WFormPass
  <1>9. ASSUME NEW id \in SwId \cup {Blank}, startAdd(id) PROVE SwInv'
    <2>1. wq' = wq /\ wSrv' = wSrv
      BY <1>9 DEF startAdd
    <2>2. /\ ws' \in WPages /\ ws'.open = ws.open /\ ws'.inst = ws.inst
          /\ ws'.busy = ws.busy /\ ws'.pass = NoSw
      BY <1>0, <1>9 DEF startAdd, resetAddForm, WPages, WNames
    <2> QED
      BY <1>0, <1>7, <2>1, <2>2
  <1>10. CASE closeEdit \/ cancelAdd \/ typePass
    <2>1. wq' = wq /\ wSrv' = wSrv
      BY <1>10 DEF closeEdit, cancelAdd, typePass
    <2>2. /\ ws' \in WPages /\ ws'.open = ws.open /\ ws'.inst = ws.inst
          /\ ws'.busy = ws.busy /\ ws'.pass \in {NoSw, ws'.form}
      BY <1>0, <1>10 DEF closeEdit, cancelAdd, typePass, cancelSwitch, resetAddForm, WPages, WNames
    <2> QED
      BY <1>0, <1>7, <2>1, <2>2
  (* A new visit has no call of its own yet. *)
  <1>11. CASE openSwitches \/ leaveSwitches
    <2>1. wq' = wq /\ wSrv' = wSrv
      BY <1>11 DEF openSwitches, leaveSwitches
    <2>2. /\ ws' \in WPages /\ ~ws'.busy /\ ws'.pass = NoSw
          /\ \/ ws'.open /\ ws'.inst = ws.inst + 1
             \/ ~ws'.open /\ ws'.inst = ws.inst
      <3>2. CASE openSwitches
        BY <1>inst, <3>2, WNoPageType DEF openSwitches, WPages
      <3>3. CASE leaveSwitches
        BY <1>inst, <3>3, WNoPageType DEF leaveSwitches, WPages
      <3> QED
        BY <1>11, <3>2, <3>3
    <2>3. \A t \in WTask : WLocks(wq[t]) /\ ws'.open => wq[t].inst < ws'.inst
      BY <1>0, <2>2 DEF SwInv, WLock, WLocks, WRequests, WPages
    <2>4. \A t \in WTask : ~WOwn(t)'
      BY <1>0, <2>1, <2>2, <2>3 DEF WOwn, WMine, WRequests, WPages, WLocks
    <2>5. \A t \in WTask : wq[t].op # "none" => wq[t].inst <= ws'.inst
      BY <1>0, <2>2 DEF SwInv, WLock, WRequests, WPages
    <2>6. WLock'
      BY <2>1, <2>2, <2>4, <2>5 DEF SwInv, WLock
    <2> QED
      BY <1>0, <2>1, <2>2, <2>6 DEF SwInv, WTypes, WFormPass, PasswordOwn
  <1>12. CASE UNCHANGED switchVars
    BY <1>0, <1>7, <1>12 DEF switchVars, SwInv, WFormPass
  <1> QED
    BY <1>1, <1>2, <1>3, <1>4, <1>5, <1>6, <1>8, <1>9, <1>10, <1>11, <1>12 DEF SwitchesNext, SwitchesAnswer

LEMMA SwLockCounted == SwInv => SwitchOneWrite
  <1> SUFFICES ASSUME SwInv PROVE SwitchOneWrite
    OBVIOUS
  <1> DEFINE S == {t \in WTask : wq[t].op \notin {"none", "load"} /\ WMine(t)}
  <1>1. \A t \in WTask : t \in S <=> WOwn(t)
    BY DEF WOwn, WLocks
  <1>2. \A x, y \in S : x = y
    BY <1>1 DEF SwInv, WLock
  <1>3. S # {} <=> ws.open /\ ws.busy
    BY <1>1 DEF SwInv, WLock
  <1> HIDE DEF S
  <1>4. Cardinality(S) = IF S = {} THEN 0 ELSE 1
    BY <1>2, OneOrNone
  <1> QED
    BY <1>3, <1>4 DEF SwitchOneWrite, S

(* On one visit to the switches at most one write or test is under way,    *)
(* and the buttons are locked exactly while it is.                         *)
THEOREM SwitchLockHolds == SwitchesSpec => []SwitchOneWrite
  BY SwitchesInitInv, SwitchesStepInv, SwLockCounted, PTL DEF SwitchesSpec

(* No switch is ever sent the password typed for another. *)
THEOREM PasswordOwnHolds == SwitchesSpec => []PasswordOwn
  <1>1. SwInv => PasswordOwn
    BY DEF SwInv
  <1> QED
    BY <1>1, SwitchesInitInv, SwitchesStepInv, PTL DEF SwitchesSpec

-----------------------------------------------------------------------------
(* Pairing *)

PSteps == {"overview", "risk", "form", "working"}
PPages == [open: BOOLEAN, inst: Nat, on: BOOLEAN, step: PSteps, ack: BOOLEAN, busy: BOOLEAN, ping: BOOLEAN,
           status: BOOLEAN, known: BOOLEAN, due: BOOLEAN, ticked: BOOLEAN, edits: Nat]
PRequests == [pc: {"idle", "sent", "back"}, op: {"none", "first", "load", "ping", "reload", "pair", "unpair"},
              inst: Nat, live: BOOLEAN, paired: BOOLEAN, st: {"none", "ok", "fail"}]
PTypes(m, q) == m \in PPages /\ q \in [PTask -> PRequests]

(* Request r is one of the given calls, made by the page m. *)
PLocks == {"pair", "unpair"}
PPings == {"ping", "reload"}
POwns(m, r, ops) == m.open /\ r.inst = m.inst /\ r.op \in ops

(* The locks of the page m belong to one of the requests q each. *)
PSound(m, r) == (r.pc = "idle" <=> r.op = "none") /\ (r.op # "none" => r.inst <= m.inst)
PCalls(m, q) ==
    /\ \A t \in PTask : PSound(m, q[t])
    /\ \A t, u \in PTask : POwns(m, q[t], PLocks) /\ POwns(m, q[u], PLocks) => t = u
    /\ m.open /\ m.busy <=> \E t \in PTask : POwns(m, q[t], PLocks)
    /\ \A t, u \in PTask : POwns(m, q[t], PPings) /\ POwns(m, q[u], PPings) => t = u
    /\ m.open /\ m.ping <=> \E t \in PTask : POwns(m, q[t], PPings)

(* The form is reached over the box that is ticked, the working step with  *)
(* a pairing; an unpairing was asked for on the overview, which is left    *)
(* only when it is over.                                                   *)
PWizard(m, q) ==
    /\ m.step = "working" => m.busy
    /\ m.ack => m.ticked
    /\ m.step \in {"form", "working"} => m.ticked
    /\ \A t \in PTask : POwns(m, q[t], {"unpair"}) => m.step = "overview"
    /\ \A t \in PTask : POwns(m, q[t], {"pair"}) => m.ticked
PGood(m, q) == PTypes(m, q) /\ PCalls(m, q) /\ PWizard(m, q)
PInv == pSrv \in BOOLEAN /\ PGood(pg, pq)

(* Pages and requests that differ in what the invariant does not speak of. *)
PLike(m, n) == /\ n.open = m.open /\ n.inst = m.inst /\ n.step = m.step /\ n.ack = m.ack
               /\ n.busy = m.busy /\ n.ping = m.ping /\ n.ticked = m.ticked
PSame(p, r) == r.op = p.op /\ r.inst = p.inst /\ (r.pc = "idle" <=> p.pc = "idle")

LEMMA PIdleType == PIdle \in PRequests /\ PIdle.op = "none" /\ PIdle.pc = "idle"
  BY DEF PIdle, PRequests

LEMMA PEditedType == ASSUME NEW m \in PPages PROVE PEdited(m) \in PPages /\ PLike(m, PEdited(m))
  BY DEF PEdited, PPages, PLike

LEMMA PGoodLike ==
    ASSUME NEW m, NEW n, NEW q, NEW p, PGood(m, q), PTypes(n, p), PLike(m, n),
           \A t \in PTask : PSame(q[t], p[t])
    PROVE  PGood(n, p)
  <1>1. \A t \in PTask : \A ops : POwns(n, p[t], ops) <=> POwns(m, q[t], ops)
    BY DEF POwns, PLike, PSame
  <1>2. \A t \in PTask : PSound(n, p[t])
    BY DEF PGood, PCalls, PSound, PLike, PSame
  <1>3. PCalls(n, p)
    BY <1>1, <1>2 DEF PGood, PCalls, PLike
  <1>4. PWizard(n, p)
    BY <1>1 DEF PGood, PWizard, PLike
  <1> QED
    BY <1>3, <1>4 DEF PGood

(* What follows every change of the page: the effect and its cancelling. *)
LEMMA PSet ==
    ASSUME NEW m, NEW q, PGood(m, q), setPage(m, q), pSrv \in BOOLEAN
    PROVE  PInv'
  <1>1. PTypes(pg, pq)' /\ PLike(m, pg') /\ \A t \in PTask : PSame(q[t], pq'[t])
    <2>0. m \in PPages /\ q \in [PTask -> PRequests] /\ \A t \in PTask : q[t] \in PRequests
      BY DEF PGood, PTypes
    <2>1. pg' = m \/ pg' = [m EXCEPT !.due = watching(m)]
      BY DEF setPage
    <2>2. watching(m) \in BOOLEAN
      BY DEF watching
    <2>3. pg' \in PPages /\ PLike(m, pg')
      BY <2>0, <2>1, <2>2 DEF PPages, PLike
    <2>4. pq' = q \/ pq' = [t \in PTask |-> [q[t] EXCEPT !.live = FALSE]]
      BY DEF setPage
    <2>5. \A t \in PTask : LET r == [q[t] EXCEPT !.live = FALSE] IN r \in PRequests /\ PSame(q[t], r)
      BY <2>0 DEF PRequests, PSame
    <2>6. \A t \in PTask : PSame(q[t], q[t])
      BY DEF PSame
    <2>7. pq' \in [PTask -> PRequests] /\ \A t \in PTask : PSame(q[t], pq'[t])
      BY <2>0, <2>4, <2>5, <2>6
    <2> QED
      BY <2>3, <2>7 DEF PTypes
  <1>2. pSrv' = pSrv
    BY DEF setPage
  <1> QED
    BY <1>1, <1>2, PGoodLike DEF PInv

(* One request changes.  A lock stays with it, or it takes it, or gives it *)
(* back.                                                                   *)
LEMMA PCallsStep ==
    ASSUME NEW m \in PPages, NEW n \in PPages, NEW q \in [PTask -> PRequests], NEW t \in PTask, NEW r \in PRequests,
           PCalls(m, q), n.open = m.open, n.inst = m.inst, PSound(m, r),
           \/ n.busy = m.busy /\ (POwns(m, q[t], PLocks) <=> POwns(m, r, PLocks))
           \/ ~m.busy /\ n.busy /\ POwns(m, r, PLocks)
           \/ ~n.busy /\ POwns(m, q[t], PLocks) /\ ~POwns(m, r, PLocks),
           \/ n.ping = m.ping /\ (POwns(m, q[t], PPings) <=> POwns(m, r, PPings))
           \/ ~m.ping /\ n.ping /\ POwns(m, r, PPings)
           \/ ~n.ping /\ POwns(m, q[t], PPings) /\ ~POwns(m, r, PPings)
    PROVE  PCalls(n, [q EXCEPT ![t] = r])
  <1> DEFINE p == [q EXCEPT ![t] = r]
  <1>1. p[t] = r /\ \A u \in PTask \ {t} : p[u] = q[u]
    OBVIOUS
  <1> HIDE DEF p
  <1>2. \A u \in PTask : PSound(n, p[u])
    BY <1>1 DEF PCalls, PSound
  <1>3. \A u \in PTask : \A ops : POwns(n, p[u], ops) <=> POwns(m, p[u], ops)
    BY DEF POwns
  <1>4. /\ \A u, v \in PTask : POwns(m, p[u], PLocks) /\ POwns(m, p[v], PLocks) => u = v
        /\ n.open /\ n.busy <=> \E u \in PTask : POwns(m, p[u], PLocks)
    <2>1. POwns(m, r, PLocks) => m.open
      BY DEF POwns
    <2> QED
      BY <1>1, <2>1 DEF PCalls
  <1>5. /\ \A u, v \in PTask : POwns(m, p[u], PPings) /\ POwns(m, p[v], PPings) => u = v
        /\ n.open /\ n.ping <=> \E u \in PTask : POwns(m, p[u], PPings)
    <2>1. POwns(m, r, PPings) => m.open
      BY DEF POwns
    <2> QED
      BY <1>1, <2>1 DEF PCalls
  <1> QED
    BY <1>2, <1>3, <1>4, <1>5 DEF PCalls, p

LEMMA PGoodStep ==
    ASSUME NEW m, NEW n \in PPages, NEW q, NEW t \in PTask, NEW r \in PRequests,
           PGood(m, q), n.open = m.open, n.inst = m.inst, PSound(m, r),
           \/ n.busy = m.busy /\ (POwns(m, q[t], PLocks) <=> POwns(m, r, PLocks))
           \/ ~m.busy /\ n.busy /\ POwns(m, r, PLocks)
           \/ ~n.busy /\ POwns(m, q[t], PLocks) /\ ~POwns(m, r, PLocks),
           \/ n.ping = m.ping /\ (POwns(m, q[t], PPings) <=> POwns(m, r, PPings))
           \/ ~m.ping /\ n.ping /\ POwns(m, r, PPings)
           \/ ~n.ping /\ POwns(m, q[t], PPings) /\ ~POwns(m, r, PPings),
           n.step = "working" => n.busy, n.ack => n.ticked, n.step \in {"form", "working"} => n.ticked,
           m.ticked => n.ticked,
           n.step \in {m.step, "overview"} \/ \A u \in PTask \ {t} : ~POwns(m, q[u], {"unpair"}),
           POwns(m, r, {"unpair"}) => n.step = "overview", POwns(m, r, {"pair"}) => n.ticked
    PROVE  PGood(n, [q EXCEPT ![t] = r])
  <1>0. m \in PPages /\ q \in [PTask -> PRequests] /\ PCalls(m, q) /\ PWizard(m, q)
    BY DEF PGood, PTypes
  <1> DEFINE p == [q EXCEPT ![t] = r]
  <1>1. PCalls(n, p)
    BY <1>0, PCallsStep
  <1>2. p \in [PTask -> PRequests] /\ p[t] = r /\ \A u \in PTask \ {t} : p[u] = q[u]
    BY <1>0
  <1> HIDE DEF p
  <1>3. \A u \in PTask : \A ops : POwns(n, p[u], ops) <=> POwns(m, p[u], ops)
    BY DEF POwns
  <1>4. \A u \in PTask : POwns(m, p[u], {"unpair"}) => n.step = "overview"
    BY <1>0, <1>2 DEF PWizard
  <1>5. \A u \in PTask : POwns(m, p[u], {"pair"}) => n.ticked
    BY <1>0, <1>2 DEF PWizard
  <1>6. PWizard(n, p)
    BY <1>3, <1>4, <1>5 DEF PWizard
  <1> QED
    BY <1>1, <1>2, <1>6 DEF PGood, PTypes, p

LEMMA PairingInitInv == PairingInit => PInv
  <1> SUFFICES ASSUME PairingInit PROVE PInv
    OBVIOUS
  <1>1. pg \in PPages /\ ~pg.open /\ pg.step = "overview" /\ ~pg.ack
    BY DEF PairingInit, PPages, PSteps
  <1>2. pq \in [PTask -> PRequests] /\ \A t \in PTask : pq[t] = PIdle
    BY PIdleType DEF PairingInit
  <1>3. \A t \in PTask : \A ops : ~POwns(pg, pq[t], ops)
    BY <1>1 DEF POwns
  <1>4. \A t \in PTask : PSound(pg, pq[t])
    BY <1>2, PIdleType DEF PSound
  <1> QED
    BY <1>1, <1>2, <1>3, <1>4 DEF PairingInit, PInv, PGood, PTypes, PCalls, PWizard

LEMMA PairingStepInv == PInv /\ [PairingNext]_pairVars => PInv'
  <1> SUFFICES ASSUME PInv, [PairingNext]_pairVars PROVE PInv'
    OBVIOUS
  <1>0. /\ pg \in PPages /\ pq \in [PTask -> PRequests] /\ PCalls(pg, pq) /\ PWizard(pg, pq)
        /\ \A t \in PTask : pq[t] \in PRequests /\ PSound(pg, pq[t])
    BY DEF PInv, PGood, PTypes, PCalls
  <1>1. \A op \in {"first", "load", "ping", "reload", "pair", "unpair"} :
          /\ PRequest(op) \in PRequests /\ PRequest(op).op = op /\ PRequest(op).inst = pg.inst
          /\ PSound(pg, PRequest(op))
    <2> SUFFICES ASSUME NEW op \in {"first", "load", "ping", "reload", "pair", "unpair"}
                 PROVE  /\ PRequest(op) \in PRequests /\ PRequest(op).op = op /\ PRequest(op).inst = pg.inst
                        /\ PSound(pg, PRequest(op))
      OBVIOUS
    <2> DEFINE r == PRequest(op)
    <2>1. pg.inst \in Nat
      BY <1>0 DEF PPages
    <2>2. r \in PRequests /\ r.op = op /\ r.inst = pg.inst /\ r.pc = "sent"
      BY <2>1, PIdleType DEF PRequest, PRequests
    <2> HIDE DEF r
    <2>3. PSound(pg, r)
      BY <2>1, <2>2 DEF PSound
    <2> QED
      BY <2>2, <2>3 DEF r
  <1>2. /\ PIdle \in PRequests /\ PSound(pg, PIdle)
        /\ \A ops \in {PLocks, PPings, {"pair"}, {"unpair"}} : ~POwns(pg, PIdle, ops)
    BY PIdleType DEF PSound, POwns, PLocks, PPings
  <1>3. \A t \in PTask : setStatus(pg, t) \in PPages /\ PLike(pg, setStatus(pg, t))
    BY <1>0 DEF setStatus, PPages, PRequests, PLike
  <1>4. PWizard(pg, pq) /\ \A t \in PTask : pq[t].pc = "idle" => \A ops \in {PLocks, PPings} : ~POwns(pg, pq[t], ops)
    BY <1>0 DEF PSound, POwns, PLocks, PPings
  <1>5. ASSUME NEW t \in PTask, ServePairing(t) PROVE PInv'
    <2>1. pSrv' \in BOOLEAN /\ pq[t] \in PRequests /\ pq[t].pc = "sent"
      BY <1>0, <1>5 DEF ServePairing, PInv
    <2>2. pg' \in PPages /\ PLike(pg, pg')
      <3>1. pg' = pg \/ pg' = PEdited(pg)
        BY <1>5 DEF ServePairing
      <3> QED
        BY <1>0, <3>1, PEditedType DEF PLike
    <2> DEFINE ok == [pq[t] EXCEPT !.pc = "back", !.st = "ok", !.paired = pSrv']
               no == [pq[t] EXCEPT !.pc = "back", !.st = "fail"]
    <2>3. /\ no \in PRequests /\ PSame(pq[t], no)
          /\ ok \in PRequests /\ PSame(pq[t], ok)
      BY <2>1 DEF PRequests, PSame
    <2>4. pq' = [pq EXCEPT ![t] = ok] \/ pq' = [pq EXCEPT ![t] = no]
      BY <1>5 DEF ServePairing
    <2> HIDE DEF ok, no
    <2>5. pq' \in [PTask -> PRequests] /\ \A u \in PTask : PSame(pq[u], pq'[u])
      BY <1>0, <2>3, <2>4 DEF PSame
    <2> QED
      BY <2>1, <2>2, <2>5, PGoodLike DEF PInv, PTypes
  <1>6. ASSUME NEW t \in PTask, overviewEffect(t) \/ statusInterval(t) PROVE PInv'
    <2>1. PICK op \in {"first", "load"} : pq' = [pq EXCEPT ![t] = PRequest(op)]
      BY <1>6 DEF overviewEffect, statusInterval, PSend
    <2>2. pq[t].pc = "idle" /\ pSrv' = pSrv
      BY <1>6 DEF overviewEffect, statusInterval, PFree
    <2>3. pg' \in PPages /\ PLike(pg, pg')
      BY <1>0, <1>6 DEF overviewEffect, statusInterval, PPages, PLike
    <2>4. ~POwns(pg, PRequest(op), PLocks) /\ ~POwns(pg, PRequest(op), PPings)
      BY <1>1 DEF POwns, PLocks, PPings
    <2>5. ~POwns(pg, PRequest(op), {"pair"}) /\ ~POwns(pg, PRequest(op), {"unpair"})
      BY <1>1 DEF POwns
    <2>6. PGood(pg', pq')
      BY <1>0, <1>1, <1>4, <2>1, <2>2, <2>3, <2>4, <2>5, PGoodStep DEF PInv, PLike, PWizard
    <2> QED
      BY <2>2, <2>6 DEF PInv
  <1>7. ASSUME NEW t \in PTask, loadStatus(t) PROVE PInv'
    <2>0. pq[t].op \in {"load", "first"}
      BY <1>7 DEF loadStatus, Answer
    <2>1. ~POwns(pg, pq[t], PLocks) /\ ~POwns(pg, pq[t], PPings)
      BY <2>0 DEF POwns, PLocks, PPings
    <2> DEFINE m == setStatus(pg, t)
    <2>2. m \in PPages /\ PLike(pg, m)
      BY <1>3
    <2>3. \/ setPage(pg, PEnds(t))
          \/ setPage(m, PEnds(t))
          \/ ~pg.ping /\ Mine(t) /\ setPage([m EXCEPT !.ping = TRUE], [pq EXCEPT ![t] = PRequest("ping")])
      BY <1>7 DEF loadStatus, mayProbe
    <2> HIDE DEF m
    <2>4. ASSUME NEW n \in PPages, PLike(pg, n) PROVE PGood(n, PEnds(t))
      BY <1>0, <1>2, <2>1, <2>4, PGoodStep DEF PInv, PLike, PWizard, PEnds
    <2>5. ASSUME ~pg.ping, Mine(t)
          PROVE  PGood([m EXCEPT !.ping = TRUE], [pq EXCEPT ![t] = PRequest("ping")])
      <3> DEFINE n == [m EXCEPT !.ping = TRUE]
      <3>1. n \in PPages /\ PLike([pg EXCEPT !.ping = TRUE], n)
        BY <1>0, <2>2 DEF PPages, PLike
      <3> HIDE DEF n
      <3>2. /\ n.open = pg.open /\ n.inst = pg.inst /\ n.step = pg.step /\ n.ack = pg.ack
            /\ n.busy = pg.busy /\ n.ping /\ n.ticked = pg.ticked
        BY <1>0, <3>1 DEF PLike, PPages
      <3>3. /\ POwns(pg, PRequest("ping"), PPings)
            /\ \A ops \in {PLocks, {"pair"}, {"unpair"}} : ~POwns(pg, PRequest("ping"), ops)
        BY <1>1, <2>5 DEF POwns, PPings, PLocks, Mine
      <3>4. PRequest("ping") \in PRequests /\ PSound(pg, PRequest("ping"))
        BY <1>1
      <3>5. PGood(n, [pq EXCEPT ![t] = PRequest("ping")])
        BY <1>0, <2>1, <2>5, <3>1, <3>2, <3>3, <3>4, PGoodStep DEF PInv, PWizard
      <3> QED
        BY <3>5 DEF n
    <2>6. PLike(pg, pg)
      BY DEF PLike
    <2> QED
      BY <1>0, <2>2, <2>3, <2>4, <2>5, <2>6, PSet DEF PInv
  <1>8. ASSUME NEW t \in PTask, probe(t) \/ reload(t) PROVE PInv'
    <2> DEFINE m == setStatus(pg, t)
    <2>1. pq[t].op \in PPings /\ m \in PPages /\ PLike(pg, m)
      BY <1>3, <1>8 DEF probe, reload, Answer, PPings
    <2>2. \/ ~Mine(t) /\ setPage(pg, PEnds(t))
          \/ Mine(t) /\ setPage([m EXCEPT !.ping = FALSE], PEnds(t))
          \/ Mine(t) /\ setPage(pg, [pq EXCEPT ![t] = PRequest("reload")])
          \/ Mine(t) /\ setPage([pg EXCEPT !.ping = FALSE], [pq EXCEPT ![t] = PRequest("load")])
      <3>1. CASE reload(t) /\ Mine(t)
        BY <3>1 DEF reload
      <3>5. CASE reload(t) /\ ~Mine(t)
        BY <3>5 DEF reload
      <3>2. CASE probe(t) /\ ~Mine(t)
        BY <3>2 DEF probe
      <3>3. CASE probe(t) /\ Mine(t) /\ pq[t].st = "ok"
        BY <3>3 DEF probe
      <3>4. CASE probe(t) /\ Mine(t) /\ pq[t].st # "ok"
        BY <3>4 DEF probe
      <3> QED
        BY <1>8, <3>1, <3>2, <3>3, <3>4, <3>5
    <2> HIDE DEF m
    <2>3. ~POwns(pg, pq[t], PLocks)
      BY <2>1 DEF POwns, PLocks, PPings
    <2>4. Mine(t) <=> POwns(pg, pq[t], PPings)
      BY <2>1 DEF Mine, POwns
    <2>5. CASE ~Mine(t) /\ setPage(pg, PEnds(t))
      <3>1. PGood(pg, PEnds(t))
        BY <1>0, <1>2, <2>3, <2>4, <2>5, PGoodStep DEF PInv, PWizard, PEnds
      <3> QED
        BY <2>5, <3>1, PSet DEF PInv
    <2>6. CASE Mine(t) /\ setPage([m EXCEPT !.ping = FALSE], PEnds(t))
      <3> DEFINE n == [m EXCEPT !.ping = FALSE]
      <3>1. /\ n \in PPages /\ n.open = pg.open /\ n.inst = pg.inst /\ n.step = pg.step /\ n.ack = pg.ack
            /\ n.busy = pg.busy /\ ~n.ping /\ n.ticked = pg.ticked
        BY <1>0, <2>1 DEF PLike, PPages
      <3> HIDE DEF n
      <3>2. PGood(n, PEnds(t))
        BY <1>0, <1>2, <2>3, <2>4, <2>6, <3>1, PGoodStep DEF PInv, PWizard, PEnds
      <3> QED
        BY <2>6, <3>2, PSet DEF PInv, n
    <2>7. CASE Mine(t) /\ setPage(pg, [pq EXCEPT ![t] = PRequest("reload")])
      <3>1. /\ POwns(pg, PRequest("reload"), PPings) <=> POwns(pg, pq[t], PPings)
            /\ \A ops \in {PLocks, {"pair"}, {"unpair"}} : ~POwns(pg, PRequest("reload"), ops)
        BY <1>1, <2>4, <2>7 DEF POwns, PPings, PLocks, Mine
      <3>2. PRequest("reload") \in PRequests /\ PSound(pg, PRequest("reload"))
        BY <1>1
      <3>3. PGood(pg, [pq EXCEPT ![t] = PRequest("reload")])
        BY <1>0, <2>3, <3>1, <3>2, PGoodStep DEF PInv, PWizard
      <3> QED
        BY <2>7, <3>3, PSet DEF PInv
    <2>8. CASE Mine(t) /\ setPage([pg EXCEPT !.ping = FALSE], [pq EXCEPT ![t] = PRequest("load")])
      <3> DEFINE n == [pg EXCEPT !.ping = FALSE]
      <3>1. /\ n \in PPages /\ n.open = pg.open /\ n.inst = pg.inst /\ n.step = pg.step /\ n.ack = pg.ack
            /\ n.busy = pg.busy /\ ~n.ping /\ n.ticked = pg.ticked
        BY <1>0 DEF PPages
      <3> HIDE DEF n
      <3>2. \A ops \in {PLocks, PPings, {"pair"}, {"unpair"}} : ~POwns(pg, PRequest("load"), ops)
        BY <1>1 DEF POwns, PPings, PLocks
      <3>3. PRequest("load") \in PRequests /\ PSound(pg, PRequest("load"))
        BY <1>1
      <3>4. PGood(n, [pq EXCEPT ![t] = PRequest("load")])
        BY <1>0, <2>3, <2>4, <2>8, <3>1, <3>2, <3>3, PGoodStep DEF PInv, PWizard
      <3> QED
        BY <2>8, <3>4, PSet DEF PInv, n
    <2> QED
      BY <2>2, <2>5, <2>6, <2>7, <2>8
  (* A pairing or an unpairing begins. *)
  <1>9. ASSUME NEW t \in PTask, NEW op \in PLocks, NEW n \in PPages, pq[t].pc = "idle", pg.open, ~pg.busy,
               n.open = pg.open, n.inst = pg.inst, n.busy, n.ping = pg.ping, n.ack = pg.ack, n.ticked, pg.ticked \/ op = "unpair",
               op = "unpair" => n.step = "overview", setPage(n, [pq EXCEPT ![t] = PRequest(op)])
        PROVE  PInv'
    <2>1. POwns(pg, PRequest(op), PLocks) /\ ~POwns(pg, PRequest(op), PPings) /\ ~POwns(pg, pq[t], PPings)
      BY <1>1, <1>4, <1>9 DEF POwns, PLocks, PPings
    <2>2. \A u \in PTask : ~POwns(pg, pq[u], PLocks)
      BY <1>0, <1>9 DEF PCalls
    <2>3. \A u \in PTask : ~POwns(pg, pq[u], {"unpair"})
      BY <2>2 DEF POwns, PLocks
    <2>4. POwns(pg, PRequest(op), {"unpair"}) => n.step = "overview"
      BY <1>1, <1>9 DEF POwns, PLocks
    <2>5. PRequest(op) \in PRequests /\ PSound(pg, PRequest(op))
      BY <1>1, <1>9 DEF PLocks
    <2>6. PGood(n, [pq EXCEPT ![t] = PRequest(op)])
      BY <1>0, <1>9, <2>1, <2>3, <2>4, <2>5, PGoodStep DEF PInv, PWizard
    <2> QED
      BY <1>9, <2>6, PSet DEF PInv
  (* The visitor moves about the page; no request changes. *)
  <1>10. ASSUME NEW n \in PPages, n.open = pg.open, n.inst = pg.inst, n.busy = pg.busy, n.ping = pg.ping,
                n.step = "working" => n.busy, n.ack => n.ticked, n.step \in {"form", "working"} => n.ticked,
                pg.ticked => n.ticked, n.step \in {pg.step, "overview"} \/ ~pg.busy \/ pg.step # "overview", setState(n)
         PROVE  PInv'
    <2>1. \A u \in PTask : \A ops : POwns(n, pq[u], ops) <=> POwns(pg, pq[u], ops)
      BY <1>10 DEF POwns
    <2>2. PCalls(n, pq)
      BY <1>0, <1>10, <2>1 DEF PCalls, PSound
    <2>3. \A u \in PTask : POwns(pg, pq[u], {"unpair"}) => pg.step = "overview" /\ pg.busy
      BY <1>0 DEF PWizard, PCalls, POwns, PLocks
    <2>4. PWizard(n, pq)
      BY <1>0, <1>10, <2>1, <2>3 DEF PWizard
    <2>5. PGood(n, pq)
      BY <1>0, <1>10, <2>2, <2>4 DEF PGood, PTypes
    <2> QED
      BY <1>10, <2>5, PSet DEF PInv, setState
  <1>11. ASSUME NEW t \in PTask, pair(t) PROVE PInv'
    <2>1. /\ pg.open /\ pg.step \in {"form", "working"} /\ ~pg.busy /\ pg.ticked
          /\ PEdited(pg) \in PPages /\ PLike(pg, PEdited(pg))
      BY <1>0, <1>11, PEditedType DEF pair, PWizard
    <2>2. CASE PFree(t) /\ setPage([PEdited(pg) EXCEPT !.busy = TRUE, !.step = "working"], [pq EXCEPT ![t] = PRequest("pair")])
      <3> DEFINE m == PEdited(pg)
                 n == [m EXCEPT !.busy = TRUE, !.step = "working"]
      <3>1. m \in PPages /\ PLike(pg, m)
        BY <2>1
      <3> HIDE DEF m
      <3>2. /\ n \in PPages /\ n.open = pg.open /\ n.inst = pg.inst /\ n.busy /\ n.ping = pg.ping /\ n.ack = pg.ack
            /\ n.ticked = pg.ticked
        BY <3>1 DEF PPages, PLike, PSteps
      <3>3. setPage(n, [pq EXCEPT ![t] = PRequest("pair")]) /\ pq[t].pc = "idle"
        BY <2>2 DEF m, PFree
      <3> HIDE DEF n
      <3> QED
        BY <1>9, <2>1, <3>2, <3>3 DEF PLocks
    <2>3. CASE setState([PEdited(pg) EXCEPT !.step = "form"])
      <3> DEFINE m == PEdited(pg)
                 n == [m EXCEPT !.step = "form"]
      <3>1. m \in PPages /\ PLike(pg, m)
        BY <2>1
      <3> HIDE DEF m
      <3>2. /\ n \in PPages /\ n.open = pg.open /\ n.inst = pg.inst /\ n.busy = pg.busy /\ n.ping = pg.ping /\ n.ack = pg.ack
            /\ n.ticked = pg.ticked /\ n.step = "form"
        BY <3>1 DEF PPages, PLike, PSteps
      <3>3. setState(n)
        BY <2>3 DEF m
      <3> HIDE DEF n
      <3> QED
        BY <1>0, <1>10, <2>1, <3>2, <3>3 DEF PWizard
    <2> QED
      BY <1>11, <2>2, <2>3 DEF pair
  <1>12. ASSUME NEW t \in PTask, unpair(t) PROVE PInv'
    <2> DEFINE m == PEdited(pg)
               n == [m EXCEPT !.busy = TRUE]
    <2>1. m \in PPages /\ PLike(pg, m)
      BY <1>0, PEditedType
    <2>2. /\ pg.open /\ pg.step = "overview" /\ ~pg.busy /\ pq[t].pc = "idle"
          /\ setPage(n, [pq EXCEPT ![t] = PRequest("unpair")])
      BY <1>12 DEF unpair, PFree
    <2> HIDE DEF m
    <2>3. /\ n \in PPages /\ n.open = pg.open /\ n.inst = pg.inst /\ n.busy /\ n.ping = pg.ping /\ n.ack = pg.ack
          /\ n.ticked = pg.ticked /\ n.step = "overview"
      BY <2>1, <2>2 DEF PPages, PLike
    <2> HIDE DEF n
    <2>4. PGood(n, [pq EXCEPT ![t] = PRequest("unpair")])
      <3>1. POwns(pg, PRequest("unpair"), PLocks) /\ ~POwns(pg, PRequest("unpair"), PPings) /\ ~POwns(pg, pq[t], PPings)
        BY <1>1, <1>4, <2>2 DEF POwns, PLocks, PPings
      <3>2. ~POwns(pg, PRequest("unpair"), {"pair"})
        BY <1>1 DEF POwns
      <3>3. PRequest("unpair") \in PRequests /\ PSound(pg, PRequest("unpair"))
        BY <1>1
      <3> QED
        BY <1>0, <2>2, <2>3, <3>1, <3>2, <3>3, PGoodStep DEF PInv, PWizard
    <2> QED
      BY <2>2, <2>4, PSet DEF PInv
  (* A pairing or an unpairing is answered. *)
  <1>13. ASSUME NEW t \in PTask, paired(t) \/ unpaired(t) PROVE PInv'
    <2> DEFINE m == setStatus(pg, t)
    <2>1. pq[t].op \in PLocks /\ m \in PPages /\ PLike(pg, m)
      BY <1>3, <1>13 DEF paired, unpaired, Answer, PLocks
    <2>2. ~POwns(pg, pq[t], PPings) /\ (Mine(t) <=> POwns(pg, pq[t], PLocks))
      BY <2>1 DEF POwns, PLocks, PPings, Mine
    <2>3. CASE ~Mine(t)
      <3>1. setPage(pg, PEnds(t))
        BY <1>13, <2>3 DEF paired, unpaired
      <3>2. PGood(pg, PEnds(t))
        BY <1>0, <1>2, <2>2, <2>3, PGoodStep DEF PInv, PWizard, PEnds
      <3> QED
        BY <3>1, <3>2, PSet DEF PInv
    <2>4. CASE Mine(t)
      <3>1. \A u \in PTask \ {t} : ~POwns(pg, pq[u], {"unpair"})
        <4>1. \A u \in PTask : POwns(pg, pq[u], {"unpair"}) => POwns(pg, pq[u], PLocks)
          BY DEF POwns, PLocks
        <4> QED
          BY <1>0, <2>2, <2>4, <4>1 DEF PCalls
      <3>2. ASSUME NEW n \in PPages, n.open = pg.open, n.inst = pg.inst, ~n.busy, n.ping = pg.ping,
                   n.ack => pg.ack, n.ticked = pg.ticked, n.step \in {"overview", "form"},
                   n.step = "form" => pg.ticked, setPage(n, PEnds(t))
            PROVE  PInv'
        <4>1. PGood(n, PEnds(t))
          BY <1>0, <1>2, <2>2, <2>4, <3>1, <3>2, PGoodStep DEF PInv, PWizard, PEnds
        <4> QED
          BY <3>2, <4>1, PSet DEF PInv
      <3>3. CASE paired(t) /\ pq[t].st = "ok"
        <4> DEFINE n == [m EXCEPT !.step = "overview", !.ack = FALSE, !.busy = FALSE]
        <4>1. setPage(n, PEnds(t))
          BY <2>4, <3>3 DEF paired, pairOk
        <4> HIDE DEF m
        <4>2. /\ n \in PPages /\ n.open = pg.open /\ n.inst = pg.inst /\ ~n.busy /\ n.ping = pg.ping
              /\ ~n.ack /\ n.ticked = pg.ticked /\ n.step = "overview"
          BY <2>1 DEF PPages, PLike, PSteps
        <4> HIDE DEF n
        <4> QED
          BY <3>2, <4>1, <4>2
      <3>4. CASE paired(t) /\ pq[t].st # "ok"
        <4> DEFINE n == [pg EXCEPT !.step = "form", !.busy = FALSE]
        <4>1. setPage(n, PEnds(t))
          BY <2>4, <3>4 DEF paired, pairFailed
        <4>2. /\ n \in PPages /\ n.open = pg.open /\ n.inst = pg.inst /\ ~n.busy /\ n.ping = pg.ping
              /\ n.ack = pg.ack /\ n.ticked = pg.ticked /\ n.step = "form"
          BY <1>0 DEF PPages, PSteps
        <4> HIDE DEF n
        <4>3. pg.ticked
          BY <1>0, <2>4, <3>4 DEF PWizard, POwns, Mine, paired, Answer
        <4> QED
          BY <3>2, <4>1, <4>2, <4>3
      <3>5. CASE unpaired(t)
        <4>1. pg.step = "overview"
          BY <1>0, <2>4, <3>5 DEF PWizard, POwns, Mine, unpaired, Answer
        <4> DEFINE n == [m EXCEPT !.busy = FALSE, !.step = IF pq[t].st = "ok" THEN "overview" ELSE @]
        <4>2. setPage(n, PEnds(t))
          BY <2>4, <3>5 DEF unpaired
        <4> HIDE DEF m
        <4>3. /\ n \in PPages /\ n.open = pg.open /\ n.inst = pg.inst /\ ~n.busy /\ n.ping = pg.ping
              /\ n.ack = pg.ack /\ n.ticked = pg.ticked /\ n.step = "overview"
          BY <2>1, <4>1 DEF PPages, PLike, PSteps
        <4> HIDE DEF n
        <4> QED
          BY <3>2, <4>2, <4>3
      <3> QED
        BY <1>13, <3>3, <3>4, <3>5
    <2> QED
      BY <2>3, <2>4
  <1>14. CASE startPair \/ tick \/ goForm \/ cancelRisk \/ cancelForm
    <2>1. PICK n : /\ setState(n)
                   /\ \/ startPair /\ n = [pg EXCEPT !.step = "risk"]
                      \/ tick /\ n = [pg EXCEPT !.ack = ~pg.ack, !.ticked = TRUE]
                      \/ goForm /\ n = [pg EXCEPT !.step = "form"]
                      \/ cancelRisk /\ n = [pg EXCEPT !.step = "overview"]
                      \/ cancelForm /\ n = [pg EXCEPT !.step = "overview", !.ack = FALSE]
      BY <1>14 DEF startPair, tick, goForm, cancelRisk, cancelForm
    <2>2. n \in PPages /\ n.open = pg.open /\ n.inst = pg.inst /\ n.busy = pg.busy /\ n.ping = pg.ping
      BY <1>0, <2>1 DEF PPages, PSteps
    <2>3. n.step = "working" => n.busy
      BY <1>0, <2>1, <2>2 DEF PPages, PWizard, startPair, tick
    <2>4. (n.ack => n.ticked) /\ (n.step \in {"form", "working"} => n.ticked) /\ (pg.ticked => n.ticked)
      BY <1>0, <2>1 DEF PPages, PWizard, startPair, tick, goForm, mayContinue, cancelRisk, cancelForm
    <2>5. n.step \in {pg.step, "overview"} \/ ~pg.busy \/ pg.step # "overview"
      BY <1>0, <2>1 DEF PPages, startPair, tick, goForm, mayContinue
    <2> QED
      BY <1>10, <2>1, <2>2, <2>3, <2>4, <2>5
  <1>15. CASE onToggle
    <2> DEFINE m == PEdited(pg)
               n == [m EXCEPT !.on = ~m.on]
    <2>1. m \in PPages /\ PLike(pg, m) /\ setState(n)
      BY <1>0, <1>15, PEditedType DEF onToggle
    <2> HIDE DEF m
    <2>2. n \in PPages /\ PLike(pg, n)
      BY <2>1 DEF PPages, PLike
    <2> HIDE DEF n
    <2> QED
      BY <1>0, <1>10, <2>1, <2>2 DEF PWizard, PLike
  (* The page is left, or opened afresh: no request is its own any more. *)
  <1>16. ASSUME NEW n \in PPages, ~n.open \/ (n.inst = pg.inst + 1 /\ ~n.busy /\ ~n.ping), n.inst >= pg.inst,
                n.step = "working" => n.busy, n.ack => n.ticked, n.step \in {"form", "working"} => n.ticked, setState(n)
         PROVE  PInv'
    <2>1. pg.inst \in Nat /\ n.inst \in Nat /\ \A u \in PTask : pq[u].inst \in Nat
      BY <1>0 DEF PPages, PRequests
    <2>2. \A u \in PTask : PSound(n, pq[u])
      BY <1>0, <1>16, <2>1 DEF PSound
    <2>3. \A u \in PTask : \A ops \in {PLocks, PPings, {"pair"}, {"unpair"}} : ~POwns(n, pq[u], ops)
      BY <1>0, <1>16, <2>1 DEF PSound, POwns, PLocks, PPings
    <2>4. PCalls(n, pq)
      BY <1>16, <2>2, <2>3 DEF PCalls
    <2>5. PWizard(n, pq)
      BY <1>16, <2>3 DEF PWizard
    <2>6. PGood(n, pq)
      BY <1>0, <1>16, <2>4, <2>5 DEF PGood, PTypes
    <2> QED
      BY <1>16, <2>6, PSet DEF PInv, setState
  <1>17. CASE leavePairing \/ onBackPairing
    <2>1. CASE setState([pg EXCEPT !.open = FALSE])
      <3> DEFINE n == [pg EXCEPT !.open = FALSE]
      <3>1. /\ n \in PPages /\ ~n.open /\ n.inst = pg.inst /\ pg.inst \in Nat /\ n.step = pg.step
            /\ n.busy = pg.busy /\ n.ack = pg.ack /\ n.ticked = pg.ticked
        BY <1>0 DEF PPages
      <3>2. setState(n)
        BY <2>1
      <3> HIDE DEF n
      <3> QED
        BY <1>0, <1>16, <3>1, <3>2 DEF PWizard
    <2>2. CASE setState([pg EXCEPT !.step = "overview", !.ack = FALSE])
      <3> DEFINE n == [pg EXCEPT !.step = "overview", !.ack = FALSE]
      <3>1. /\ n \in PPages /\ n.open = pg.open /\ n.inst = pg.inst /\ n.step = "overview" /\ n.busy = pg.busy
            /\ n.ping = pg.ping /\ ~n.ack /\ n.ticked = pg.ticked
        BY <1>0 DEF PPages, PSteps
      <3>2. setState(n)
        BY <2>2
      <3> HIDE DEF n
      <3> QED
        BY <1>10, <3>1, <3>2
    <2> QED
      BY <1>17, <2>1, <2>2 DEF leavePairing, onBackPairing
  <1>18. CASE openPairing
    <2> DEFINE n == [pg EXCEPT !.open = TRUE, !.inst = pg.inst + 1, !.step = "overview", !.ack = FALSE, !.busy = FALSE,
                               !.ping = FALSE, !.status = FALSE, !.known = FALSE, !.ticked = FALSE]
    <2>1. pg.inst \in Nat /\ pg.inst + 1 \in Nat
      BY <1>0 DEF PPages
    <2>2. n \in PPages /\ n.inst = pg.inst + 1 /\ n.step = "overview" /\ ~n.busy /\ ~n.ping /\ ~n.ack
      BY <1>0, <2>1 DEF PPages, PSteps
    <2>3. setState(n)
      BY <1>18 DEF openPairing
    <2> HIDE DEF n
    <2> QED
      BY <1>16, <2>1, <2>2, <2>3
  <1>19. CASE UNCHANGED pairVars
    BY <1>19 DEF pairVars, PInv
  <1> QED
    BY <1>5, <1>6, <1>7, <1>8, <1>11, <1>12, <1>13, <1>14, <1>15, <1>17, <1>18, <1>19 DEF PairingNext, PairingAnswer

LEMMA PairingLocksCounted == PInv => PairingLocked /\ PingSingle
  <1> SUFFICES ASSUME PInv PROVE PairingLocked /\ PingSingle
    OBVIOUS
  <1> DEFINE S == {t \in PTask : pq[t].op \in {"pair", "unpair"} /\ Mine(t)}
             R == {t \in PTask : pq[t].op \in {"ping", "reload"} /\ Mine(t)}
  <1>1. /\ \A t \in PTask : t \in S <=> POwns(pg, pq[t], PLocks)
        /\ \A t \in PTask : t \in R <=> POwns(pg, pq[t], PPings)
    BY DEF POwns, PLocks, PPings, Mine
  <1>2. (\A x, y \in S : x = y) /\ \A x, y \in R : x = y
    BY <1>1 DEF PInv, PGood, PCalls
  <1>3. (S # {} <=> pg.open /\ pg.busy) /\ (R # {} <=> pg.open /\ pg.ping)
    BY <1>1 DEF PInv, PGood, PCalls
  <1> HIDE DEF S, R
  <1>4. (Cardinality(S) = IF S = {} THEN 0 ELSE 1) /\ (Cardinality(R) = IF R = {} THEN 0 ELSE 1)
    BY <1>2, OneOrNone
  <1>5. pg.step = "working" => pg.busy
    BY DEF PInv, PGood, PWizard
  <1> QED
    BY <1>3, <1>4, <1>5 DEF PairingLocked, PingSingle, S, R

(* On one visit to the pairing page at most one pairing or unpairing and   *)
(* one ping is under way, and the page is locked for it exactly then.      *)
THEOREM PairingLockHolds == PairingSpec => [](PairingLocked /\ PingSingle)
  BY PairingInitInv, PairingStepInv, PairingLocksCounted, PTL DEF PairingSpec

(* A pairing is asked for only after the risk was acknowledged on this     *)
(* visit.                                                                  *)
THEOREM PairAcknowledgedHolds == PairingSpec => PairAcknowledged
  <1>1. PInv /\ [PairingNext]_pairVars => [(\E t \in PTask : pair(t)) => pg.ticked]_pairVars
    BY DEF PInv, PGood, PWizard, pair
  <1> QED
    BY <1>1, PairingInitInv, PairingStepInv, PTL DEF PairingSpec, PairAcknowledged

-----------------------------------------------------------------------------
(* Modules and names *)

MIds == Mod \cup {"none"}
MPages == [mods: SUBSET MIds, known: BOOLEAN, sync: BOOLEAN, page: BOOLEAN, deps: BOOLEAN \X BOOLEAN \X BOOLEAN,
           rows: Nat, busy: BOOLEAN, url: Nat, dirty: BOOLEAN, edits: Nat]
MServers == [mods: SUBSET MIds, sync: BOOLEAN, names: 0..1, url: Nat]
MReads == {"poll", "toggle", "url", "readUrl"}
MNames == {"after", "reread", "rows"}
MOps == {"none"} \cup MReads \cup NameWrites \cup MNames
SRequests == [pc: {"idle", "sent", "back"}, op: MOps, by: MOps, mods: SUBSET MIds, id: MIds, on: BOOLEAN,
              sync: BOOLEAN, val: Nat, live: BOOLEAN, st: {"none", "ok", "fail"}]

(* Request r belongs to a handler that holds the buttons of the names. *)
MWrite(r) == r.by \in {"apply", "exclude"}
MSound(r) == /\ r.pc = "idle" <=> r.op = "none"
             /\ r.op = "none" => r.by = "none"
             /\ MWrite(r) => r.op \in {"apply", "exclude"} \cup MNames
(* The answer r may set the URL. *)
MSets(r) == r.op = "readUrl" /\ r.live /\ ~r.on

MCalls(m, q) ==
    /\ \A t \in STask : MSound(q[t])
    /\ \A t, u \in STask : MWrite(q[t]) /\ MWrite(q[u]) => t = u
    /\ m.busy <=> \E t \in STask : MWrite(q[t])
(* No read that may set the URL is out while one is typed. *)
MTyped(m, q) == \A t \in STask : MSets(q[t]) => ~m.dirty
MGood(m, q) == m \in MPages /\ q \in [STask -> SRequests] /\ MCalls(m, q) /\ MTyped(m, q)
MInv == mSrv \in MServers /\ MGood(mo, mq)

MLike(m, n) == n.busy = m.busy /\ n.dirty = m.dirty

LEMMA SIdleType == SIdle \in SRequests /\ SIdle.op = "none" /\ SIdle.pc = "idle" /\ SIdle.by = "none"
  BY DEF SIdle, SRequests, MOps, MIds

LEMMA SCancelled ==
    ASSUME NEW r \in SRequests, NEW c, c = [r EXCEPT !.live = FALSE]
    PROVE  c \in SRequests /\ c.op = r.op /\ c.pc = r.pc /\ c.by = r.by /\ c.on = r.on /\ ~c.live
  BY DEF SRequests

LEMMA MEditedType == ASSUME NEW m \in MPages PROVE Edited(m) \in MPages /\ MLike(m, Edited(m))
  <1>1. m.edits + 1 \in Nat
    BY DEF MPages
  <1> QED
    BY <1>1 DEF Edited, MPages, MLike

LEMMA MReplaceType ==
    ASSUME NEW m \in MPages, NEW s \in SUBSET MIds PROVE replaceMods(m, s) \in MPages /\ MLike(m, replaceMods(m, s))
  BY DEF replaceMods, MPages, MLike

LEMMA MGotType ==
    ASSUME NEW m \in MPages, NEW r \in SRequests PROVE gotModules(m, r) \in MPages /\ MLike(m, gotModules(m, r))
  <1>1. r.mods \in SUBSET MIds /\ r.sync \in BOOLEAN
    BY DEF SRequests
  <1> DEFINE n == replaceMods(m, r.mods)
  <1>2. n \in MPages /\ MLike(m, n)
    BY <1>1, MReplaceType
  <1> HIDE DEF n
  <1>3. [n EXCEPT !.sync = r.sync] \in MPages /\ MLike(m, [n EXCEPT !.sync = r.sync])
    BY <1>1, <1>2 DEF MPages, MLike
  <1> QED
    BY <1>3 DEF n, gotModules

LEMMA MEndType ==
    ASSUME NEW m \in MPages, NEW r \in SRequests
    PROVE  /\ endNames(m, r) \in MPages /\ endNames(m, r).dirty = m.dirty
           /\ endNames(m, r).busy = (m.busy /\ ~MWrite(r))
  BY DEF endNames, MPages, MWrite

(* One request changes: the buttons stay with it or are given back, or it  *)
(* takes them.                                                             *)
LEMMA MGoodStep ==
    ASSUME NEW m, NEW n \in MPages, NEW q, NEW t \in STask, NEW r \in SRequests, MGood(m, q), MSound(r),
           \/ n.busy = m.busy /\ (MWrite(q[t]) <=> MWrite(r))
           \/ ~m.busy /\ n.busy /\ MWrite(r)
           \/ ~n.busy /\ MWrite(q[t]) /\ ~MWrite(r),
           n.dirty => m.dirty, MSets(r) => ~n.dirty
    PROVE  MGood(n, [q EXCEPT ![t] = r])
  <1>0. m \in MPages /\ q \in [STask -> SRequests] /\ MCalls(m, q) /\ MTyped(m, q)
    BY DEF MGood
  <1> DEFINE p == [q EXCEPT ![t] = r]
  <1>1. p \in [STask -> SRequests] /\ p[t] = r /\ \A u \in STask \ {t} : p[u] = q[u]
    BY <1>0
  <1> HIDE DEF p
  <1>2. \A u \in STask : MSound(p[u])
    BY <1>0, <1>1 DEF MCalls
  <1>3. MTyped(n, p)
    BY <1>0, <1>1 DEF MTyped
  <1>4. /\ \A u, v \in STask : MWrite(p[u]) /\ MWrite(p[v]) => u = v
        /\ n.busy <=> \E u \in STask : MWrite(p[u])
    BY <1>0, <1>1 DEF MCalls
  <1> QED
    BY <1>1, <1>2, <1>3, <1>4 DEF MGood, MCalls, p

(* The card reads the settings again, the reads before are cancelled. *)
LEMMA MGeneral ==
    ASSUME MInv, NEW n \in MPages, NEW t \in STask, mq[t].pc = "idle" \/ mq[t].op = "url",
           n.busy = mo.busy, generalEffect(t, n)
    PROVE  MGood(n, mq')
  <1>0. /\ mo \in MPages /\ mq \in [STask -> SRequests] /\ MCalls(mo, mq) /\ mo.mods \in SUBSET MIds
        /\ \A u \in STask : mq[u] \in SRequests /\ MSound(mq[u])
    BY DEF MInv, MGood, MCalls, MPages
  <1> DEFINE r == [Request("readUrl") EXCEPT !.on = n.dirty]
             c(u) == [mq[u] EXCEPT !.live = FALSE]
  <1>1. r \in SRequests /\ r.op = "readUrl" /\ r.pc = "sent" /\ r.by = "readUrl" /\ r.on = n.dirty
    <2>1. n.dirty \in BOOLEAN
      BY DEF MPages
    <2>2. Request("readUrl") \in SRequests /\ Request("readUrl").op = "readUrl" /\ Request("readUrl").pc = "sent"
          /\ Request("readUrl").by = "readUrl"
      BY <1>0, SIdleType DEF Request, SRequests, MOps, MReads
    <2> QED
      BY <2>1, <2>2 DEF SRequests
  <1>2. \A u \in STask : c(u) \in SRequests /\ c(u).op = mq[u].op /\ c(u).pc = mq[u].pc /\ c(u).by = mq[u].by /\ ~c(u).live
    BY <1>0, SCancelled
  <1>3. /\ mq' \in [STask -> SRequests] /\ mq'[t] = r
        /\ \A u \in STask \ {t} : (mq'[u] = mq[u] /\ mq[u].op # "readUrl") \/ mq'[u] = c(u)
    BY <1>0, <1>1, <1>2 DEF generalEffect
  <1> HIDE DEF r, c
  <1>4. \A u \in STask : MSound(mq'[u])
    BY <1>0, <1>1, <1>2, <1>3 DEF MSound, MWrite
  <1>5. ~MWrite(mq[t]) /\ \A u \in STask : MWrite(mq'[u]) <=> MWrite(mq[u])
    <2>1. ~MWrite(mq[t]) /\ ~MWrite(r)
      BY <1>0, <1>1 DEF MSound, MWrite, MNames
    <2> QED
      BY <1>2, <1>3, <2>1 DEF MWrite
  <1>6. MTyped(n, mq')
    BY <1>1, <1>2, <1>3 DEF MTyped, MSets
  <1> QED
    BY <1>0, <1>3, <1>4, <1>5, <1>6 DEF MGood, MCalls

LEMMA ModulesInitInv == ModulesInit => MInv
  <1> SUFFICES ASSUME ModulesInit PROVE MInv
    OBVIOUS
  <1> DEFINE r == [SIdle EXCEPT !.pc = "sent", !.op = "readUrl", !.by = "readUrl", !.live = TRUE]
  <1>1. PICK t \in STask : mq = [[x \in STask |-> SIdle] EXCEPT ![t] = r]
    BY DEF ModulesInit
  <1>2. r \in SRequests /\ r.op = "readUrl" /\ r.pc = "sent" /\ r.by = "readUrl"
    BY SIdleType DEF SRequests, MOps, MReads
  <1> HIDE DEF r
  <1>3. mq \in [STask -> SRequests] /\ \A u \in STask : mq[u] \in {r, SIdle}
    BY <1>1, <1>2, SIdleType
  <1>4. mSrv \in MServers /\ mo \in MPages /\ ~mo.busy /\ ~mo.dirty
    <2>1. mSrv \in MServers
      BY UnifiAssumption DEF ModulesInit, MServers, MIds
    <2>2. <<FALSE, FALSE, FALSE>> \in BOOLEAN \X BOOLEAN \X BOOLEAN /\ {} \in SUBSET MIds
      OBVIOUS
    <2>3. mo \in MPages /\ ~mo.busy /\ ~mo.dirty
      BY <2>2 DEF ModulesInit, MPages
    <2> QED
      BY <2>1, <2>3
  <1>5. \A u \in STask : MSound(mq[u]) /\ ~MWrite(mq[u])
    BY <1>2, <1>3, SIdleType DEF MSound, MWrite
  <1> QED
    BY <1>3, <1>4, <1>5 DEF MInv, MGood, MCalls, MTyped

LEMMA ModulesStepInv == MInv /\ [ModulesNext]_moduleVars => MInv'
  <1> SUFFICES ASSUME MInv, [ModulesNext]_moduleVars PROVE MInv'
    OBVIOUS
  <1>0. /\ mo \in MPages /\ mq \in [STask -> SRequests] /\ MCalls(mo, mq) /\ MTyped(mo, mq) /\ mSrv \in MServers
        /\ \A t \in STask : mq[t] \in SRequests /\ MSound(mq[t])
        /\ mo.mods \in SUBSET MIds
    BY DEF MInv, MGood, MCalls, MPages
  <1>1. \A op \in MOps : /\ Request(op) \in SRequests /\ Request(op).op = op /\ Request(op).by = op
                         /\ Request(op).pc = "sent"
    BY <1>0, SIdleType DEF Request, SRequests
  <1>2. \A t \in STask : \A op \in MNames :
          Then(mq[t], op) \in SRequests /\ Then(mq[t], op).op = op /\ Then(mq[t], op).by = mq[t].by /\ Then(mq[t], op).pc = "sent"
    <2> SUFFICES ASSUME NEW t \in STask, NEW op \in MNames
                 PROVE  /\ Then(mq[t], op) \in SRequests /\ Then(mq[t], op).op = op
                        /\ Then(mq[t], op).by = mq[t].by /\ Then(mq[t], op).pc = "sent"
      OBVIOUS
    <2> DEFINE r == Request(op)
    <2>1. r \in SRequests /\ r.op = op /\ r.pc = "sent"
      BY <1>1 DEF MOps
    <2> HIDE DEF r
    <2>2. mq[t].by \in MOps /\ mq[t].on \in BOOLEAN
      BY <1>0 DEF SRequests
    <2>3. LET x == [r EXCEPT !.by = mq[t].by, !.on = mq[t].on]
          IN  x \in SRequests /\ x.op = op /\ x.by = mq[t].by /\ x.pc = "sent"
      BY <2>1, <2>2 DEF SRequests
    <2> QED
      BY <2>3 DEF Then, r
  <1>3. MSound(SIdle) /\ ~MWrite(SIdle) /\ ~MSets(SIdle) /\ SIdle \in SRequests
    BY SIdleType DEF MSound, MWrite, MSets
  <1>4. \A t \in STask : SFree(t) => ~MWrite(mq[t])
    BY <1>0 DEF SFree, MSound, MWrite
  (* One request changes. *)
  <1>5. ASSUME NEW t \in STask, NEW n \in MPages, NEW r \in SRequests, MSound(r),
               \/ n.busy = mo.busy /\ (MWrite(mq[t]) <=> MWrite(r))
               \/ ~mo.busy /\ n.busy /\ MWrite(r)
               \/ ~n.busy /\ MWrite(mq[t]) /\ ~MWrite(r),
               n.dirty => mo.dirty, MSets(r) => ~n.dirty,
               mo' = n, mq' = [mq EXCEPT ![t] = r], mSrv' \in MServers
        PROVE  MInv'
    BY <1>5, MGoodStep DEF MInv
  (* A request is sent that is no write of the names. *)
  <1>6. ASSUME NEW t \in STask, NEW n \in MPages, MLike(mo, n), NEW r \in SRequests, SFree(t),
               r.pc = "sent", r.op \in MOps \ {"none", "readUrl"}, ~MWrite(r),
               mo' = n, mq' = [mq EXCEPT ![t] = r], mSrv' = mSrv
        PROVE  MInv'
    <2>1. MSound(r) /\ ~MSets(r)
      BY <1>6 DEF MSound, MSets
    <2> QED
      BY <1>0, <1>4, <1>5, <1>6, <2>1 DEF MLike
  (* A handler ends that holds no buttons. *)
  <1>7. ASSUME NEW t \in STask, NEW n \in MPages, MLike(mo, n), ~MWrite(mq[t]),
               mo' = n, mq' = [mq EXCEPT ![t] = SIdle], mSrv' = mSrv
        PROVE  MInv'
    BY <1>0, <1>3, <1>5, <1>7 DEF MLike
  <1>8. \A t \in STask : mq[t].op \in MReads => ~MWrite(mq[t])
    BY <1>0 DEF MSound, MWrite, MReads, MNames
  <1>9. ASSUME NEW t \in STask, ServeModules(t) PROVE MInv'
    <2> DEFINE r == mq[t]
    <2>1. r \in SRequests /\ r.pc = "sent" /\ MSound(r) /\ (MSets(r) => ~mo.dirty)
      BY <1>0, <1>9 DEF ServeModules, MTyped
    <2>2. PICK x : /\ mq' = [mq EXCEPT ![t] = x] /\ x \in SRequests /\ x.pc = "back" /\ x.op = r.op /\ x.by = r.by
                   /\ x.live = r.live /\ x.on = r.on
                   /\ (mo' = mo \/ mo' = Edited(mo)) /\ mSrv' \in MServers
      <3> DEFINE done == CASE r.op = "toggle" -> [mSrv EXCEPT !.mods = Flip(@, r.id, r.on)]
                           [] r.op = "names"  -> [mSrv EXCEPT !.sync = r.on]
                           [] r.op \in {"apply", "exclude"} -> [mSrv EXCEPT !.names = 1 - @]
                           [] r.op = "url"    -> [mSrv EXCEPT !.url = r.val]
                           [] OTHER -> mSrv
                 v == CASE r.op = "readUrl" -> done.url [] r.op = "url" -> r.val [] OTHER -> done.names
                 yes == [r EXCEPT !.pc = "back", !.st = "ok", !.mods = done.mods, !.sync = done.sync, !.val = v]
                 no == [r EXCEPT !.pc = "back", !.st = "fail"]
      <3>1. \/ mSrv' = done /\ mo' = mo /\ mq' = [mq EXCEPT ![t] = yes]
            \/ mSrv' = mSrv /\ mo' = Edited(mo) /\ mq' = [mq EXCEPT ![t] = no]
        BY <1>9 DEF ServeModules, Send
      <3>2. done \in MServers
        <4>1. r.on \in BOOLEAN /\ r.val \in Nat /\ mSrv.names \in 0..1 /\ mSrv.mods \in SUBSET MIds
          BY <1>0, <2>1 DEF SRequests, MServers
        <4>2. CASE r.op = "toggle"
          <5>1. Flip(mSrv.mods, r.id, r.on) \in SUBSET MIds
            BY <2>1, <4>1 DEF Flip, SRequests
          <5> QED
            BY <1>0, <4>1, <4>2, <5>1 DEF MServers
        <4>3. CASE r.op = "names"
          BY <1>0, <4>1, <4>3 DEF MServers
        <4>4. CASE r.op \in {"apply", "exclude"}
          <5>1. 1 - mSrv.names \in 0..1
            BY <4>1
          <5> QED
            BY <1>0, <4>4, <5>1 DEF MServers
        <4>5. CASE r.op = "url"
          BY <1>0, <4>1, <4>5 DEF MServers
        <4>6. CASE r.op \notin {"toggle", "names", "apply", "exclude", "url"}
          BY <1>0, <4>6
        <4> QED
          BY <4>2, <4>3, <4>4, <4>5, <4>6
      <3> HIDE DEF done
      <3>3. done.mods \in SUBSET MIds /\ done.sync \in BOOLEAN /\ done.url \in Nat /\ done.names \in Nat /\ r.val \in Nat
        BY <2>1, <3>2 DEF MServers, SRequests
      <3>4. v \in Nat
        BY <3>3
      <3> HIDE DEF v
      <3>5. yes \in SRequests /\ yes.pc = "back" /\ yes.op = r.op /\ yes.by = r.by /\ yes.live = r.live /\ yes.on = r.on
        BY <2>1, <3>3, <3>4 DEF SRequests
      <3>6. no \in SRequests /\ no.pc = "back" /\ no.op = r.op /\ no.by = r.by /\ no.live = r.live /\ no.on = r.on
        BY <2>1 DEF SRequests
      <3> HIDE DEF yes, no
      <3> QED
        BY <1>0, <3>1, <3>2, <3>5, <3>6
    <2>3. mo' \in MPages /\ MLike(mo, mo')
      BY <1>0, <2>2, MEditedType DEF MLike
    <2>4. MSound(x) /\ (MWrite(x) <=> MWrite(mq[t])) /\ (MSets(x) => ~mo.dirty)
      BY <2>1, <2>2 DEF MSound, MWrite, MSets
    <2> QED
      BY <1>0, <1>5, <2>2, <2>3, <2>4 DEF MLike
  <1>10. ASSUME NEW n \in MPages, MLike(mo, n), mo' = n, mq' = mq, mSrv' = mSrv PROVE MInv'
    BY <1>0, <1>10 DEF MInv, MGood, MCalls, MTyped, MLike
  (* The list of modules. *)
  <1>11. ASSUME NEW t \in STask, loadModules(t) \/ loadedModules(t) \/ toggled(t) PROVE MInv'
    <2>1. CASE loadModules(t)
      <3>1. Request("poll") \in SRequests /\ Request("poll").pc = "sent" /\ Request("poll").op = "poll" /\ ~MWrite(Request("poll"))
        BY <1>1 DEF MOps, MReads, MWrite
      <3> QED
        BY <1>0, <1>6, <2>1, <3>1 DEF loadModules, Send, MOps, MReads, MLike
    <2>2. CASE loadedModules(t) \/ toggled(t)
      <3>1. ~MWrite(mq[t]) /\ mq' = [mq EXCEPT ![t] = SIdle] /\ mSrv' = mSrv
        BY <1>8, <2>2 DEF loadedModules, toggled, Ends, MReads
      <3>2. Flip(mq[t].mods, mq[t].id, ~mq[t].on) \in SUBSET MIds
        BY <1>0 DEF Flip, SRequests
      <3>3. \/ mo' = mo \/ mo' = gotModules(mo, mq[t])
            \/ mo' = replaceMods(mo, Flip(mq[t].mods, mq[t].id, ~mq[t].on))
        BY <2>2 DEF loadedModules, toggled
      <3>4. mo' \in MPages /\ MLike(mo, mo')
        BY <1>0, <3>2, <3>3, MGotType, MReplaceType DEF MLike
      <3> QED
        BY <1>7, <3>1, <3>4
    <2> QED
      BY <1>11, <2>1, <2>2
  <1>12. ASSUME NEW t \in STask, NEW id \in Mod, toggle(t, id) PROVE MInv'
    <2> DEFINE on == id \notin mo.mods
               r == [Request("toggle") EXCEPT !.id = id, !.on = on]
    <2>1. SFree(t) /\ mq' = [mq EXCEPT ![t] = r] /\ mSrv' = mSrv /\ mo' = replaceMods(Edited(mo), Flip(mo.mods, id, on))
      BY <1>12 DEF toggle, Send
    <2>2. on \in BOOLEAN /\ id \in MIds
      BY DEF MIds
    <2> HIDE DEF on
    <2>3. Flip(mo.mods, id, on) \in SUBSET MIds
      BY <1>0, <2>2 DEF Flip
    <2>4. Edited(mo) \in MPages /\ MLike(mo, Edited(mo))
      BY <1>0, MEditedType
    <2>5. mo' \in MPages /\ MLike(mo, mo')
      BY <2>1, <2>3, <2>4, MReplaceType DEF MLike
    <2>6. /\ Request("toggle") \in SRequests /\ Request("toggle").pc = "sent" /\ Request("toggle").op = "toggle"
          /\ Request("toggle").by = "toggle"
      BY <1>1 DEF MOps, MReads
    <2>7. r \in SRequests /\ r.pc = "sent" /\ r.op = "toggle" /\ r.by = "toggle"
      BY <2>2, <2>6 DEF SRequests
    <2> HIDE DEF r
    <2> QED
      BY <1>6, <2>1, <2>5, <2>7 DEF MOps, MReads, MWrite
  (* The list of the names. *)
  <1>13. Request("rows") \in SRequests /\ Request("rows").pc = "sent" /\ Request("rows").op = "rows" /\ ~MWrite(Request("rows"))
    BY <1>1 DEF MOps, MNames, MWrite
  <1>14. ASSUME NEW t \in STask, NEW m \in MPages, MLike(mo, m), SFree(t), loadRows(t, m, Request("rows")), mSrv' = mSrv
         PROVE  MInv'
    <2>1. CASE mo' = [m EXCEPT !.rows = 0] /\ Ends(t)
      <3>1. mo' \in MPages /\ MLike(mo, mo')
        BY <1>14, <2>1 DEF MPages, MLike
      <3> QED
        BY <1>4, <1>7, <1>14, <2>1, <3>1 DEF Ends
    <2>2. CASE mo' = m /\ Send(t, Request("rows"))
      BY <1>6, <1>13, <1>14, <2>2 DEF Send, MOps, MNames
    <2> QED
      BY <1>14, <2>1, <2>2 DEF loadRows
  <1>15. ASSUME NEW t \in STask, rowsEffect(t) \/ refreshRows(t) PROVE MInv'
    <2>1. CASE refreshRows(t)
      BY <1>0, <1>14, <2>1 DEF refreshRows, MLike
    <2>2. CASE rowsEffect(t)
      <3> DEFINE m == [mo EXCEPT !.deps = rowsDeps]
      <3>1. mo.page \in BOOLEAN /\ mo.sync \in BOOLEAN /\ unifiOn(mo) \in BOOLEAN
        BY <1>0 DEF MPages, unifiOn
      <3>2. rowsDeps \in BOOLEAN \X BOOLEAN \X BOOLEAN
        BY <3>1 DEF rowsDeps
      <3>3. m \in MPages /\ MLike(mo, m)
        BY <1>0, <3>2 DEF MPages, MLike
      <3>4. SFree(t) /\ mSrv' = mSrv /\ (loadRows(t, m, Request("rows")) \/ (mo' = m /\ mq' = mq))
        BY <2>2 DEF rowsEffect
      <3> HIDE DEF m
      <3> QED
        BY <1>10, <1>14, <3>3, <3>4
    <2> QED
      BY <1>15, <2>1, <2>2
  <1>16. ASSUME NEW t \in STask, NEW op \in {"names", "auto"}, setNameSync(t, op) PROVE MInv'
    <2> DEFINE r == [Request(op) EXCEPT !.on = ~mo.sync]
    <2>1. SFree(t) /\ mo' = Edited(mo) /\ mq' = [mq EXCEPT ![t] = r] /\ mSrv' = mSrv
      BY <1>16 DEF setNameSync, Send
    <2>2. Request(op) \in SRequests /\ Request(op).op = op /\ Request(op).by = op /\ Request(op).pc = "sent"
      BY <1>1 DEF MOps, NameWrites
    <2>3. r \in SRequests /\ r.pc = "sent" /\ r.op = op /\ r.by = op
      BY <2>2 DEF SRequests
    <2> HIDE DEF r
    <2>4. mo' \in MPages /\ MLike(mo, mo')
      BY <1>0, <2>1, MEditedType
    <2> QED
      BY <1>6, <2>1, <2>3, <2>4 DEF MOps, NameWrites, MWrite
  <1>17. ASSUME NEW t \in STask, NEW op \in {"apply", "exclude"}, listedButton(t, op) PROVE MInv'
    <2> DEFINE m == Edited(mo)
    <2>1. /\ SFree(t) /\ mo' = [m EXCEPT !.busy = TRUE] /\ mq' = [mq EXCEPT ![t] = Request(op)] /\ mSrv' = mSrv
          /\ ~mo.busy
      BY <1>17 DEF listedButton, Send, canApply
    <2>2. m \in MPages /\ MLike(mo, m)
      BY <1>0, MEditedType
    <2> HIDE DEF m
    <2>3. mo' \in MPages /\ mo'.busy /\ mo'.dirty = mo.dirty
      BY <2>1, <2>2 DEF MPages, MLike
    <2>4. Request(op) \in SRequests /\ Request(op).op = op /\ Request(op).by = op /\ Request(op).pc = "sent"
      BY <1>1 DEF MOps, NameWrites
    <2>5. MSound(Request(op)) /\ MWrite(Request(op)) /\ ~MSets(Request(op))
      BY <2>4 DEF MSound, MWrite, MSets
    <2> QED
      BY <1>0, <1>5, <2>1, <2>3, <2>4, <2>5
  (* A handler of the names goes on, or ends. *)
  <1>18. ASSUME NEW t \in STask, NEW n \in MPages, NEW op \in MNames, MLike(mo, n), mq[t].op \in NameWrites \cup MNames,
                mo' = n, Send(t, Then(mq[t], op)), mSrv' = mSrv
         PROVE  MInv'
    <2> DEFINE r == Then(mq[t], op)
    <2>1. r \in SRequests /\ r.op = op /\ r.by = mq[t].by /\ r.pc = "sent"
      BY <1>2
    <2>2. mq' = [mq EXCEPT ![t] = r]
      BY <1>18 DEF Send
    <2> HIDE DEF r
    <2>3. MSound(r) /\ (MWrite(r) <=> MWrite(mq[t])) /\ ~MSets(r)
      BY <2>1 DEF MSound, MWrite, MSets, MNames
    <2> QED
      BY <1>0, <1>5, <1>18, <2>1, <2>2, <2>3 DEF MLike
  <1>19. ASSUME NEW t \in STask, NEW n \in MPages, MLike(mo, n), mo' = endNames(n, mq[t]), Ends(t), mSrv' = mSrv
         PROVE  MInv'
    <2>1. mo' \in MPages /\ mo'.dirty = mo.dirty /\ mo'.busy = (mo.busy /\ ~MWrite(mq[t]))
      BY <1>0, <1>19, MEndType DEF MLike
    <2> QED
      BY <1>0, <1>3, <1>5, <1>19, <2>1 DEF Ends, MPages
  <1>20. ASSUME NEW t \in STask, wroteNames(t) PROVE MInv'
    <2>1. mq[t].op \in NameWrites /\ mSrv' = mSrv
      BY <1>20 DEF wroteNames
    <2>2. \/ mo' = mo /\ Send(t, Then(mq[t], "rows"))
          \/ mo' = endNames(mo, mq[t]) /\ Ends(t)
          \/ mo' = [mo EXCEPT !.sync = mq[t].sync] /\ Send(t, Then(mq[t], "after"))
          \/ mo' = mo /\ Send(t, Then(mq[t], "reread"))
      BY <1>20 DEF wroteNames
    <2>3. LET n == [mo EXCEPT !.sync = mq[t].sync] IN n \in MPages /\ MLike(mo, n)
      BY <1>0 DEF MPages, MLike, SRequests
    <2>4. MLike(mo, mo) /\ {"rows", "after", "reread"} \subseteq MNames
      BY DEF MLike, MNames
    <2> QED
      BY <1>0, <1>18, <1>19, <2>1, <2>2, <2>3, <2>4
  <1>21. ASSUME NEW t \in STask, modulesAfter(t) PROVE MInv'
    <2> DEFINE m == gotModules(mo, mq[t])
               n == [m EXCEPT !.rows = 0]
    <2>1. m \in MPages /\ MLike(mo, m)
      BY <1>0, MGotType
    <2>2. mq[t].op = "after" /\ mSrv' = mSrv
      BY <1>21 DEF modulesAfter
    <2>3. \/ mo' = mo /\ Send(t, Then(mq[t], "reread"))
          \/ mo' = m /\ Send(t, Then(mq[t], "rows"))
          \/ mo' = endNames(m, mq[t]) /\ Ends(t)
          \/ mo' = endNames(n, mq[t]) /\ Ends(t)
      BY <1>21 DEF modulesAfter
    <2> HIDE DEF m
    <2>4. n \in MPages /\ MLike(mo, n)
      BY <2>1 DEF MPages, MLike
    <2>5. MLike(mo, mo) /\ {"rows", "after", "reread"} \subseteq MNames
      BY DEF MLike, MNames
    <2> HIDE DEF n
    <2> QED
      BY <1>0, <1>18, <1>19, <2>1, <2>2, <2>3, <2>4, <2>5
  <1>22. ASSUME NEW t \in STask, reread(t) \/ gotRows(t) PROVE MInv'
    <2> DEFINE n == [mo EXCEPT !.rows = IF mq[t].st = "ok" THEN 1 + mq[t].val ELSE 0]
    <2>1. \/ mo' = endNames(mo, mq[t]) \/ mo' = endNames(n, mq[t])
          \/ mo' = endNames(gotModules(mo, mq[t]), mq[t])
      BY <1>22 DEF reread, gotRows
    <2>2. (IF mq[t].st = "ok" THEN 1 + mq[t].val ELSE 0) \in Nat
      BY <1>0 DEF SRequests
    <2>3. n \in MPages /\ MLike(mo, n)
      BY <1>0, <2>2 DEF MPages, MLike
    <2> HIDE DEF n
    <2>4. MLike(mo, mo) /\ Ends(t) /\ mSrv' = mSrv
      BY <1>22 DEF MLike, reread, gotRows
    <2> QED
      BY <1>0, <1>19, <2>1, <2>3, <2>4, MGotType
  (* The general card. *)
  <1>23. ASSUME NEW t \in STask, urlAnswered(t) PROVE MInv'
    <2>1. ~MWrite(mq[t]) /\ mq' = [mq EXCEPT ![t] = SIdle] /\ mSrv' = mSrv
      BY <1>8, <1>23 DEF urlAnswered, Ends, MReads
    <2>2. mo' = mo \/ mo' = [mo EXCEPT !.url = mq[t].val]
      BY <1>23 DEF urlAnswered
    <2>3. mo' \in MPages /\ MLike(mo, mo')
      BY <1>0, <2>2 DEF MPages, MLike, SRequests
    <2> QED
      BY <1>7, <2>1, <2>3
  <1>24. ASSUME NEW t \in STask, savedURL(t) PROVE MInv'
    <2>1. mq[t].op = "url" /\ ~MWrite(mq[t]) /\ mSrv' = mSrv
      BY <1>8, <1>24 DEF savedURL, MReads
    <2>2. \/ mo' = mo /\ Ends(t)
          \/ mo' = [mo EXCEPT !.url = mq[t].val, !.dirty = FALSE] /\ (Ends(t) \/ generalEffect(t, mo'))
      BY <1>24 DEF savedURL
    <2>3. mo' \in MPages /\ mo'.busy = mo.busy /\ (mo'.dirty => mo.dirty)
      BY <1>0, <2>2 DEF MPages, SRequests
    <2>4. CASE Ends(t)
      BY <1>3, <1>5, <2>1, <2>3, <2>4, <1>0 DEF Ends
    <2>5. CASE generalEffect(t, mo')
      <3>1. MGood(mo', mq')
        BY <2>1, <2>3, <2>5, MGeneral
      <3> QED
        BY <1>0, <2>1, <3>1 DEF MInv
    <2> QED
      BY <2>2, <2>4, <2>5
  <1>25. ASSUME NEW t \in STask, onBack(t) PROVE MInv'
    <2>1. SFree(t) /\ mo' = [mo EXCEPT !.page = FALSE, !.url = 1, !.dirty = FALSE] /\ generalEffect(t, mo') /\ mSrv' = mSrv
      BY <1>25 DEF onBack
    <2>2. mo' \in MPages /\ mo'.busy = mo.busy
      BY <1>0, <2>1 DEF MPages
    <2>3. MGood(mo', mq')
      BY <2>1, <2>2, MGeneral DEF SFree
    <2> QED
      BY <1>0, <2>1, <2>3 DEF MInv
  <1>26. ASSUME NEW t \in STask, NEW u \in 1..3, typeUrl(t, u) PROVE MInv'
    <2> DEFINE m == Edited(mo)
    <2>1. m \in MPages /\ MLike(mo, m)
      BY <1>0, MEditedType
    <2>2. mo' = [m EXCEPT !.url = u, !.dirty = TRUE] /\ mSrv' = mSrv
      BY <1>26 DEF typeUrl
    <2> HIDE DEF m
    <2>3. mo' \in MPages /\ mo'.busy = mo.busy /\ mo'.dirty
      <3>1. u \in Nat
        OBVIOUS
      <3>2. mo' \in MPages
        BY <2>1, <2>2, <3>1 DEF MPages
      <3> QED
        BY <2>1, <2>2, <3>2 DEF MPages, MLike
    <2>4. CASE mo.dirty /\ mq' = mq
      <3>1. MLike(mo, mo')
        BY <1>0, <2>3, <2>4 DEF MLike, MPages
      <3> QED
        BY <1>10, <2>2, <2>3, <2>4, <3>1
    <2>5. CASE SFree(t) /\ generalEffect(t, mo')
      <3>1. MGood(mo', mq')
        BY <2>3, <2>5, MGeneral DEF SFree
      <3> QED
        BY <1>0, <2>2, <3>1 DEF MInv
    <2> QED
      BY <1>26, <2>4, <2>5 DEF typeUrl
  <1>27. ASSUME NEW t \in STask, saveURL(t) PROVE MInv'
    <2> DEFINE r == [Request("url") EXCEPT !.val = trimmed(mo.url)]
    <2>1. SFree(t) /\ mo' = Edited(mo) /\ mq' = [mq EXCEPT ![t] = r] /\ mSrv' = mSrv
      BY <1>27 DEF saveURL, Send
    <2>2. trimmed(mo.url) \in Nat
      BY <1>0 DEF trimmed, MPages
    <2>3. /\ Request("url") \in SRequests /\ Request("url").op = "url" /\ Request("url").by = "url"
          /\ Request("url").pc = "sent"
      BY <1>1 DEF MOps, MReads
    <2>4. r \in SRequests /\ r.pc = "sent" /\ r.op = "url" /\ r.by = "url"
      BY <2>2, <2>3 DEF SRequests
    <2> HIDE DEF r
    <2>5. mo' \in MPages /\ MLike(mo, mo')
      BY <1>0, <2>1, MEditedType
    <2> QED
      BY <1>6, <2>1, <2>4, <2>5 DEF MOps, MReads, MWrite
  <1>28. CASE openModule
    <2>1. mo' = [mo EXCEPT !.page = TRUE] /\ mSrv' = mSrv /\ unmountGeneral
      BY <1>28 DEF openModule
    <2>2. mo' \in MPages /\ MLike(mo, mo')
      BY <1>0, <2>1 DEF MPages, MLike
    <2>3. \A t \in STask : mq'[t] = mq[t] \/ mq'[t] = [mq[t] EXCEPT !.live = FALSE]
      BY <2>1 DEF unmountGeneral
    <2>4. \A t \in STask : /\ mq'[t] \in SRequests /\ mq'[t].op = mq[t].op /\ mq'[t].pc = mq[t].pc
                           /\ mq'[t].by = mq[t].by /\ (MSets(mq'[t]) => MSets(mq[t]))
      BY <1>0, <2>3, SCancelled DEF MSets
    <2>5. mq' \in [STask -> SRequests]
      BY <2>1, <2>4 DEF unmountGeneral
    <2>6. MCalls(mo', mq')
      BY <1>0, <2>2, <2>4 DEF MCalls, MSound, MWrite, MLike
    <2>7. MTyped(mo', mq')
      BY <1>0, <2>2, <2>4 DEF MTyped, MLike
    <2> QED
      BY <1>0, <2>1, <2>2, <2>5, <2>6, <2>7 DEF MInv, MGood
  <1>29. CASE UNCHANGED moduleVars
    BY <1>29 DEF moduleVars, MInv
  <1> QED
    BY <1>9, <1>11, <1>12, <1>15, <1>16, <1>17, <1>20, <1>21, <1>22, <1>23, <1>24, <1>25, <1>26, <1>27, <1>28, <1>29
       DEF ModulesNext, ModulesAnswer, applyNames, excludeMac

LEMMA NamesCounted == MInv => NamesOneWrite
  <1> SUFFICES ASSUME MInv PROVE NamesOneWrite
    OBVIOUS
  <1> DEFINE S == {t \in STask : mq[t].by \in {"apply", "exclude"}}
  <1>1. (\A x, y \in S : x = y) /\ (S # {} <=> mo.busy)
    BY DEF MInv, MGood, MCalls, MWrite
  <1> HIDE DEF S
  <1>2. Cardinality(S) = IF S = {} THEN 0 ELSE 1
    BY <1>1, OneOrNone
  <1> QED
    BY <1>1, <1>2 DEF NamesOneWrite, S

(* At most one change of the names is under way, and the buttons of the    *)
(* list are locked exactly while it is.                                    *)
THEOREM NamesLockHolds == ModulesSpec => []NamesOneWrite
  BY ModulesInitInv, ModulesStepInv, NamesCounted, PTL DEF ModulesSpec

(* No answer of a read replaces a URL that was typed and not saved. *)
THEOREM TypedUrlKeptHolds == ModulesSpec => TypedUrlKept
  <1>1. MInv /\ [ModulesNext]_moduleVars
        => [(\E t \in STask : urlAnswered(t)) /\ mo.dirty => mo'.url = mo.url]_moduleVars
    <2> SUFFICES ASSUME MInv, NEW t \in STask, urlAnswered(t), mo.dirty PROVE mo'.url = mo.url
      OBVIOUS
    <2>1. ~MSets(mq[t])
      BY DEF MInv, MGood, MTyped
    <2> QED
      BY <2>1 DEF urlAnswered, gotUrl, MSets
  <1> QED
    BY <1>1, ModulesInitInv, ModulesStepInv, PTL DEF ModulesSpec, TypedUrlKept
=============================================================================
