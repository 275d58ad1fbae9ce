--------------------------- MODULE UiDeviceProofs ---------------------------
(***************************************************************************)
(* Proofs about the pages of the web interface that edit devices, for any  *)
(* number of calls, visits and edits: the page of one device, the groups,  *)
(* and the rules.                                                          *)
(***************************************************************************)
EXTENDS UiDeviceDetail, UiMembership, UiRules, FiniteSetTheorems, TLAPS

(* A set without two different members has none or one. *)
LEMMA NoneOrOne ==
    ASSUME NEW S, \A x, y \in S : x = y
    PROVE  Cardinality(S) = IF S = {} THEN 0 ELSE 1
  <1>1. CASE S = {}
    BY <1>1, FS_EmptySet
  <1>2. CASE S # {}
    <2>1. PICK x : S = {x}
      BY <1>2
    <2> QED
      BY <2>1, FS_Singleton
  <1> QED
    BY <1>1, <1>2

-----------------------------------------------------------------------------
(* The page of one device *)

DLocks == {"wake", "name", "dns", "policy"}
DOps == {"none", "read"} \cup DLocks
DMacs == DDevice \cup {NoDev}
DKnown == [known: {TRUE}, of: DDevice, monitor: BOOLEAN, emergency: BOOLEAN, flag: BOOLEAN]
DPols == {NoPol} \cup DKnown
DPatches == [key: {"monitor", "emergency", "flag"}, val: BOOLEAN]
DDrafts == [of: DMacs, typed: BOOLEAN]
DPages == [mac: DMacs, fake: BOOLEAN, avail: BOOLEAN, asked: BOOLEAN, pol: DPols, busy: SUBSET DLocks,
           editing: {"none", "name", "dns"}, shown: DMacs, draft: DDrafts, anon: BOOLEAN, mount: Nat, writes: Nat]
DRequests == [pc: {"idle", "read", "post", "get"}, op: DOps, mount: Nat, mac: DMacs, fake: BOOLEAN, draft: DDrafts,
              patch: {NoPatch} \cup DPatches, prev: DPols, old: DPols, posted: DPols, ans: {"none", "ok", "fail"},
              live: BOOLEAN]

(* The policy p is one of the device m. *)
DPolOf(p, m) == p \in DPols /\ (p.known => p.of = m /\ ~(p.monitor /\ p.emergency))

DSound(r) ==
    /\ r.pc = "idle" <=> r.op = "none"
    /\ r.pc = "read" <=> r.op = "read"
    /\ r.pc = "get" => r.op = "policy"
    /\ r.op # "none" => r.mac \in DDevice /\ r.mac # NoDev
    /\ ~r.fake
    /\ DPolOf(r.prev, r.mac) /\ DPolOf(r.old, r.mac) /\ DPolOf(r.posted, r.mac)
    /\ r.op = "policy" => r.patch \in DPatches
    /\ r.op = "policy" /\ r.posted.known => hostPolicyMatchesPatch(r.posted, r.patch)

DShown(m) ==
    /\ DPolOf(m.pol, m.mac)
    /\ m.fake => m.anon
    /\ m.pol.known \/ m.asked \/ m.editing # "none" => m.mac # NoDev
    /\ m.mac # NoDev => m.shown = m.mac /\ m.draft.of = m.mac

(* Call r was made by the page m, call r holds its button op. *)
DOwns(m, r) == m.mac # NoDev /\ r.mount = m.mount /\ r.op # "none"
DHolds(m, r, op) == DOwns(m, r) /\ r.op = op
DCalls(m, q) ==
    /\ \A t \in DTask : DSound(q[t]) /\ (q[t].op # "none" => q[t].mount <= m.mount)
    /\ \A t \in DTask : DOwns(m, q[t]) => q[t].mac = m.mac
    /\ \A op \in DLocks : \A t, u \in DTask : DHolds(m, q[t], op) /\ DHolds(m, q[u], op) => t = u
    /\ \A op \in DLocks : op \in m.busy <=> \E t \in DTask : DHolds(m, q[t], op)

DGood(m, q) == m \in DPages /\ q \in [DTask -> DRequests] /\ DShown(m) /\ DCalls(m, q)
DBoxes == {b \in [DDevice -> DKnown] : \A d \in DDevice : DPolOf(b[d], d)}
DInv == dBox \in DBoxes /\ DGood(dd, dt)

LEMMA NoPolType == NoPol \in DPols /\ ~NoPol.known /\ \A m : DPolOf(NoPol, m)
  BY DEF NoPol, DPols, DPolOf

LEMMA DDraftType == /\ NoDraft \in DDrafts /\ NoDev \in DMacs
                    /\ \A m \in DMacs : \A b \in BOOLEAN : [of |-> m, typed |-> b] \in DDrafts
  BY DEF NoDraft, DDrafts, DMacs, NoDev

LEMMA DIdleType == DIdle \in DRequests /\ DIdle.pc = "idle" /\ DIdle.op = "none" /\ DSound(DIdle)
  <1>1. /\ NoPol \in DPols /\ NoDraft \in DDrafts /\ NoDev \in DMacs /\ NoPatch \in {NoPatch} \cup DPatches
        /\ "none" \in DOps
    BY NoPolType, DDraftType DEF DOps
  <1>2. /\ DIdle \in DRequests /\ DIdle.pc = "idle" /\ DIdle.op = "none" /\ ~DIdle.fake
        /\ DIdle.prev = NoPol /\ DIdle.old = NoPol /\ DIdle.posted = NoPol
    BY <1>1 DEF DIdle, DRequests
  <1> QED
    BY <1>2, NoPolType DEF DSound

LEMMA DClosedType ==
    /\ DetailClosed \in DPages /\ DetailClosed.mac = NoDev /\ ~DetailClosed.asked /\ DetailClosed.pol = NoPol
    /\ DetailClosed.busy = {} /\ DetailClosed.editing = "none" /\ ~DetailClosed.fake /\ ~DetailClosed.avail
  <1>1. NoPol \in DPols /\ NoDraft \in DDrafts /\ NoDev \in DMacs /\ {} \in SUBSET DLocks
    BY NoPolType, DDraftType
  <1> QED
    BY <1>1 DEF DetailClosed, DPages

(* One call changes. *)
LEMMA DGoodStep ==
    ASSUME NEW m, NEW n \in DPages, NEW q, NEW t \in DTask, NEW r \in DRequests, DGood(m, q),
           n.mac = m.mac, n.mount = m.mount, DShown(n), DSound(r), r.op # "none" => r.mount <= m.mount,
           DOwns(m, r) => r.mac = m.mac,
           \A op \in DLocks :
              \/ (op \in n.busy <=> op \in m.busy) /\ (DHolds(m, q[t], op) <=> DHolds(m, r, op))
              \/ op \notin m.busy /\ op \in n.busy /\ DHolds(m, r, op)
              \/ op \notin n.busy /\ DHolds(m, q[t], op) /\ ~DHolds(m, r, op)
    PROVE  DGood(n, [q EXCEPT ![t] = r])
  <1>0. m \in DPages /\ q \in [DTask -> DRequests] /\ DCalls(m, q)
    BY DEF DGood
  <1> DEFINE p == [q EXCEPT ![t] = r]
  <1>1. p \in [DTask -> DRequests] /\ p[t] = r /\ \A u \in DTask \ {t} : p[u] = q[u]
    BY <1>0
  <1> HIDE DEF p
  <1>2. \A u \in DTask : DSound(p[u]) /\ (p[u].op # "none" => p[u].mount <= n.mount)
    BY <1>0, <1>1 DEF DCalls
  <1>3. \A u \in DTask : (DOwns(n, p[u]) <=> DOwns(m, p[u])) /\ \A op : DHolds(n, p[u], op) <=> DHolds(m, p[u], op)
    BY DEF DOwns, DHolds
  <1>4. \A u \in DTask : DOwns(n, p[u]) => p[u].mac = n.mac
    BY <1>0, <1>1, <1>3 DEF DCalls
  <1>5. \A op \in DLocks : /\ \A u, v \in DTask : DHolds(m, p[u], op) /\ DHolds(m, p[v], op) => u = v
                           /\ op \in n.busy <=> \E u \in DTask : DHolds(m, p[u], op)
    <2> SUFFICES ASSUME NEW op \in DLocks
                 PROVE  /\ \A u, v \in DTask : DHolds(m, p[u], op) /\ DHolds(m, p[v], op) => u = v
                        /\ op \in n.busy <=> \E u \in DTask : DHolds(m, p[u], op)
      OBVIOUS
    <2>1. /\ \A u, v \in DTask : DHolds(m, q[u], op) /\ DHolds(m, q[v], op) => u = v
          /\ op \in m.busy <=> \E u \in DTask : DHolds(m, q[u], op)
      BY <1>0 DEF DCalls
    <2> QED
      BY <1>1, <2>1
  <1> QED
    BY <1>1, <1>2, <1>3, <1>4, <1>5 DEF DGood, DCalls, p

LEMMA DetailInitInv == DetailInit => DInv
  <1> SUFFICES ASSUME DetailInit PROVE DInv
    OBVIOUS
  <1>1. dBox \in DBoxes
    BY DEF DetailInit, DBoxes, DKnown, DPolOf, DPols
  <1>2. dd \in DPages /\ DShown(dd) /\ dd.mac = NoDev /\ dd.busy = {}
    BY DClosedType, NoPolType DEF DetailInit, DShown
  <1>3. dt \in [DTask -> DRequests] /\ \A t \in DTask : dt[t].op = "none" /\ DSound(dt[t])
    BY DIdleType DEF DetailInit
  <1> QED
    BY <1>1, <1>2, <1>3 DEF DInv, DGood, DCalls, DOwns, DHolds

(* What a patch does to a policy, on the box and ahead of its answer. *)
LEMMA ServerPatchOf ==
    ASSUME NEW pol \in DKnown, NEW p \in DPatches, ~(pol.monitor /\ pol.emergency)
    PROVE  /\ serverPatch(pol, p) \in DKnown /\ serverPatch(pol, p).of = pol.of
           /\ ~(serverPatch(pol, p).monitor /\ serverPatch(pol, p).emergency)
           /\ hostPolicyMatchesPatch(serverPatch(pol, p), p)
  <1> DEFINE f == IF p.key = "flag" THEN p.val ELSE pol.flag
             m == IF p.key = "monitor" THEN p.val ELSE pol.monitor /\ ~(p.key = "emergency" /\ p.val)
             e == IF p.key = "emergency" THEN p.val ELSE pol.emergency /\ ~(p.key = "monitor" /\ p.val)
             n == [pol EXCEPT !.flag = f, !.monitor = m, !.emergency = e]
  <1>1. p.val \in BOOLEAN /\ p.key \in {"monitor", "emergency", "flag"}
    BY DEF DPatches
  <1>2. pol.monitor \in BOOLEAN /\ pol.emergency \in BOOLEAN /\ pol.flag \in BOOLEAN
    BY DEF DKnown
  <1>3. /\ f \in BOOLEAN /\ m \in BOOLEAN /\ e \in BOOLEAN /\ ~(m /\ e)
        /\ p.key = "flag" => f = p.val
        /\ p.key = "monitor" => m = p.val /\ (p.val => ~e)
        /\ p.key = "emergency" => e = p.val /\ (p.val => ~m)
    BY <1>1, <1>2
  <1>4. serverPatch(pol, p) = n
    BY DEF serverPatch
  <1> HIDE DEF f, m, e
  <1>5. n \in DKnown /\ n.of = pol.of /\ n.flag = f /\ n.monitor = m /\ n.emergency = e
    BY <1>3 DEF DKnown
  <1> HIDE DEF n
  <1>6. hostPolicyMatchesPatch(n, p)
    BY <1>1, <1>3, <1>5 DEF hostPolicyMatchesPatch
  <1> QED
    BY <1>3, <1>4, <1>5, <1>6

LEMMA OptimisticOf ==
    ASSUME NEW pol \in DKnown, NEW p \in DPatches, ~(pol.monitor /\ pol.emergency)
    PROVE  /\ applyPolicyPatchOptimistic(pol, p) \in DKnown /\ applyPolicyPatchOptimistic(pol, p).of = pol.of
           /\ ~(applyPolicyPatchOptimistic(pol, p).monitor /\ applyPolicyPatchOptimistic(pol, p).emergency)
  <1>1. p.val \in BOOLEAN /\ p.key \in {"monitor", "emergency", "flag"}
    BY DEF DPatches
  <1>2. CASE p.key = "emergency"
    BY <1>1, <1>2 DEF applyPolicyPatchOptimistic, DKnown
  <1>3. CASE p.key = "monitor"
    BY <1>1, <1>3 DEF applyPolicyPatchOptimistic, DKnown
  <1>4. CASE p.key = "flag"
    BY <1>1, <1>4 DEF applyPolicyPatchOptimistic, DKnown
  <1> QED
    BY <1>1, <1>2, <1>3, <1>4

(* The page changes, or another instance takes its place. *)
LEMMA DGoodPage ==
    ASSUME NEW m, NEW q, NEW n \in DPages, DGood(m, q), DShown(n),
           \/ n.mac = m.mac /\ n.mount = m.mount /\ n.busy = m.busy
           \/ n.mac = NoDev /\ n.mount = m.mount /\ n.busy = {}
           \/ n.mount = m.mount + 1 /\ n.busy = {}
    PROVE  DGood(n, q)
  <1>0. /\ m \in DPages /\ q \in [DTask -> DRequests] /\ DCalls(m, q) /\ m.mount \in Nat
        /\ \A t \in DTask : q[t].mount \in Nat
    BY DEF DGood, DPages, DRequests
  <1>1. \A t \in DTask : DSound(q[t]) /\ (q[t].op # "none" => q[t].mount <= n.mount)
    BY <1>0 DEF DCalls
  <1>2. CASE n.mac = m.mac /\ n.mount = m.mount /\ n.busy = m.busy
    <2>1. \A t \in DTask : (DOwns(n, q[t]) <=> DOwns(m, q[t])) /\ \A op : DHolds(n, q[t], op) <=> DHolds(m, q[t], op)
      BY <1>2 DEF DOwns, DHolds
    <2> QED
      BY <1>0, <1>1, <1>2, <2>1 DEF DGood, DCalls
  <1>3. CASE n.busy = {} /\ (n.mac = NoDev \/ n.mount = m.mount + 1)
    <2>1. \A t \in DTask : ~DOwns(n, q[t])
      BY <1>0, <1>3 DEF DCalls, DOwns
    <2> QED
      BY <1>0, <1>1, <1>3, <2>1 DEF DGood, DCalls, DHolds
  <1> QED
    BY <1>2, <1>3

(* The reads under way are cancelled. *)
LEMMA DCancelGood == ASSUME DInv PROVE DGood(dd, DCancelReads)
  <1> DEFINE q == DCancelReads
  <1>0. /\ dd \in DPages /\ dt \in [DTask -> DRequests] /\ DCalls(dd, dt) /\ DShown(dd)
        /\ \A t \in DTask : dt[t] \in DRequests
    BY DEF DInv, DGood
  <1>1. \A t \in DTask : LET c == [dt[t] EXCEPT !.live = FALSE] IN
          /\ c \in DRequests /\ c.pc = dt[t].pc /\ c.op = dt[t].op /\ c.mount = dt[t].mount /\ c.mac = dt[t].mac
          /\ c.fake = dt[t].fake /\ c.patch = dt[t].patch /\ c.prev = dt[t].prev /\ c.old = dt[t].old
          /\ c.posted = dt[t].posted
    BY <1>0 DEF DRequests
  <1>2. \A t \in DTask : q[t] = dt[t] \/ q[t] = [dt[t] EXCEPT !.live = FALSE]
    BY DEF DCancelReads
  <1>3. \A t \in DTask :
          /\ q[t] \in DRequests /\ q[t].pc = dt[t].pc /\ q[t].op = dt[t].op /\ q[t].mount = dt[t].mount
          /\ q[t].mac = dt[t].mac /\ q[t].fake = dt[t].fake /\ q[t].patch = dt[t].patch /\ q[t].prev = dt[t].prev
          /\ q[t].old = dt[t].old /\ q[t].posted = dt[t].posted
    BY <1>0, <1>1, <1>2
  <1>4. q \in [DTask -> DRequests]
    BY <1>3 DEF DCancelReads
  <1> HIDE DEF q
  <1>5. \A t \in DTask : DSound(q[t]) /\ (q[t].op # "none" => q[t].mount <= dd.mount)
    BY <1>0, <1>3 DEF DCalls, DSound
  <1>6. \A t \in DTask : /\ DOwns(dd, q[t]) <=> DOwns(dd, dt[t])
                         /\ \A op : DHolds(dd, q[t], op) <=> DHolds(dd, dt[t], op)
    BY <1>3 DEF DOwns, DHolds
  <1>7. DCalls(dd, q)
    BY <1>0, <1>3, <1>5, <1>6 DEF DCalls
  <1> QED
    BY <1>0, <1>4, <1>7 DEF DGood, q

LEMMA DetailStepInv == DInv /\ [DetailNext]_detailVars => DInv'
  <1> SUFFICES ASSUME DInv, [DetailNext]_detailVars PROVE DInv'
    OBVIOUS
  <1>0. /\ dd \in DPages /\ dt \in [DTask -> DRequests] /\ DCalls(dd, dt) /\ DShown(dd) /\ dBox \in DBoxes
        /\ \A t \in DTask : dt[t] \in DRequests /\ DSound(dt[t]) /\ dt[t].mount \in Nat
        /\ dd.mount \in Nat /\ dd.writes \in Nat /\ dd.mac \in DMacs /\ dd.anon \in BOOLEAN
    BY DEF DInv, DGood, DCalls, DPages, DRequests
  <1>1. \A t \in DTask : DOwns(dd, dt[t]) => dt[t].mac = dd.mac
    BY <1>0 DEF DCalls
  <1>2. \A d \in DDevice : dBox[d] \in DKnown /\ DPolOf(dBox[d], d) /\ dBox[d].of = d /\ ~(dBox[d].monitor /\ dBox[d].emergency)
    BY <1>0 DEF DBoxes, DPolOf, DKnown
  (* The page changes, no call does. *)
  <1>3. ASSUME NEW n \in DPages, DShown(n), n.mac = dd.mac, n.mount = dd.mount, n.busy = dd.busy,
               dd' = n, dt' = dt, dBox' = dBox
        PROVE  DInv'
    BY <1>0, <1>3, DGoodPage DEF DInv
  (* The reads are cancelled with the change. *)
  <1>4. ASSUME NEW n \in DPages, DShown(n),
               \/ n.mac = dd.mac /\ n.mount = dd.mount /\ n.busy = dd.busy
               \/ n.mac = NoDev /\ n.mount = dd.mount /\ n.busy = {}
               \/ n.mount = dd.mount + 1 /\ n.busy = {},
               dd' = n, dt' = DCancelReads, dBox' = dBox
        PROVE  DInv'
    <2>1. DGood(n, DCancelReads)
      BY <1>4, DCancelGood, DGoodPage
    <2> QED
      BY <1>0, <1>4, <2>1 DEF DInv
  (* A call ends. *)
  <1>5. ASSUME NEW t \in DTask, NEW n \in DPages, DShown(n), n.mac = dd.mac, n.mount = dd.mount,
               n.busy = IF DOwns(dd, dt[t]) THEN dd.busy \ {dt[t].op} ELSE dd.busy,
               dd' = n, DEnd(t), dBox' = dBox
        PROVE  DInv'
    <2>1. \A op \in DLocks :
             \/ (op \in n.busy <=> op \in dd.busy) /\ (DHolds(dd, dt[t], op) <=> DHolds(dd, DIdle, op))
             \/ op \notin n.busy /\ DHolds(dd, dt[t], op) /\ ~DHolds(dd, DIdle, op)
      BY <1>5, DIdleType DEF DHolds, DOwns
    <2>2. ~DOwns(dd, DIdle)
      BY DIdleType DEF DOwns
    <2>3. DGood(n, [dt EXCEPT ![t] = DIdle])
      BY <1>5, <2>1, <2>2, DIdleType, DGoodStep DEF DInv
    <2> QED
      BY <1>0, <1>5, <2>3 DEF DInv, DEnd
  (* A call begins. *)
  <1>6. ASSUME NEW t \in DTask, NEW op \in DLocks, NEW s \in DPages, NEW job \in DRequests,
               op \notin dd.busy, s.mac = dd.mac, s.mount = dd.mount, s.busy = dd.busy, DShown(s),
               DPolOf(job.prev, dd.mac), job.old = NoPol, job.posted = NoPol,
               op = "policy" => job.patch \in DPatches,
               controlReady(dd), dd.mac # NoDev, DCall(t, op, s, job)
        PROVE  DInv'
    <2> DEFINE n == [s EXCEPT !.busy = s.busy \cup {op}, !.writes = s.writes + 1]
               r == [job EXCEPT !.pc = "post", !.op = op, !.mount = dd.mount, !.mac = dd.mac, !.fake = dd.fake]
    <2>1. dd' = n /\ dt' = [dt EXCEPT ![t] = r] /\ dBox' = dBox /\ dt[t].pc = "idle"
      BY <1>6 DEF DCall, DFree
    <2>2. dd.mac \in DDevice /\ ~dd.fake
      BY <1>0, <1>6 DEF DMacs, controlReady, writesAllowed, DShown
    <2>3. s.writes + 1 \in Nat /\ s.busy \cup {op} \in SUBSET DLocks
      BY <1>6 DEF DPages
    <2>4. /\ n \in DPages /\ n.mac = s.mac /\ n.mount = s.mount /\ n.busy = dd.busy \cup {op} /\ n.pol = s.pol
          /\ n.fake = s.fake /\ n.anon = s.anon /\ n.asked = s.asked /\ n.editing = s.editing /\ n.shown = s.shown
          /\ n.draft = s.draft
      BY <1>6, <2>3 DEF DPages
    <2>5. op \in DOps
      BY DEF DOps
    <2>6. /\ r \in DRequests /\ r.pc = "post" /\ r.op = op /\ r.mount = dd.mount /\ r.mac = dd.mac /\ r.fake = dd.fake
          /\ r.prev = job.prev /\ r.old = NoPol /\ r.posted = NoPol /\ r.patch = job.patch
      <3>1. dd.fake \in BOOLEAN
        BY <1>0 DEF DPages
      <3> QED
        BY <1>0, <1>6, <2>5, <3>1 DEF DRequests
    <2> HIDE DEF n, r
    <2>7. DShown(n)
      BY <1>6, <2>4 DEF DShown
    <2>8. op # "none" /\ op # "read"
      BY DEF DLocks
    <2>9. DSound(r)
      BY <1>6, <2>2, <2>6, <2>8, NoPolType DEF DSound
    <2>10. dt[t].op = "none"
      BY <1>0, <2>1 DEF DSound
    <2>11. \A o \in DLocks :
             \/ (o \in n.busy <=> o \in dd.busy) /\ (DHolds(dd, dt[t], o) <=> DHolds(dd, r, o))
             \/ o \notin dd.busy /\ o \in n.busy /\ DHolds(dd, r, o)
      BY <1>6, <2>4, <2>6, <2>8, <2>10 DEF DHolds, DOwns
    <2>12. DGood(n, [dt EXCEPT ![t] = r])
      <3>1. n \in DPages /\ n.mac = dd.mac /\ n.mount = dd.mount /\ DGood(dd, dt)
        BY <1>6, <2>4 DEF DInv
      <3>2. r \in DRequests /\ r.mount <= dd.mount /\ r.mac = dd.mac
        BY <1>0, <2>6
      <3> QED
        BY <2>7, <2>9, <2>11, <3>1, <3>2, DGoodStep
    <2> QED
      BY <1>0, <2>1, <2>12 DEF DInv
  <1>7. CASE \E d \in DDevice : openDetail(d)
    <2>1. PICK d \in DDevice : openDetail(d)
      BY <1>7
    <2> DEFINE b == [DetailClosed EXCEPT !.mac = d, !.mount = dd.mount + 1, !.fake = dd.anon,
                                         !.anon = dd.anon, !.writes = dd.writes]
               e == resetEditors(b)
               n == [e EXCEPT !.asked = controlReady(e), !.pol = IF controlReady(e) THEN e.pol ELSE NoPol]
    <2>2. dd' = n /\ dt' = DCancelReads /\ dBox' = dBox
      BY <2>1 DEF openDetail, readPolicy, newInstance
    <2>3. d \in DMacs /\ dd.mount + 1 \in Nat
      BY <1>0 DEF DMacs
    <2>4. /\ b \in DPages /\ b.mac = d /\ b.mount = dd.mount + 1 /\ b.fake = dd.anon /\ b.anon = dd.anon
          /\ b.busy = {} /\ b.pol = NoPol /\ ~b.avail /\ ~b.asked
      BY <1>0, <2>3, DClosedType DEF DPages
    <2> HIDE DEF b
    <2>5. /\ e \in DPages /\ e.mac = d /\ e.mount = dd.mount + 1 /\ e.fake = dd.anon /\ e.anon = dd.anon
          /\ e.busy = {} /\ e.pol = NoPol /\ ~e.avail /\ e.shown = d /\ e.draft.of = d
          /\ e.editing = "none"
      <3> DEFINE f == [of |-> d, typed |-> FALSE]
      <3>1. f \in DDrafts /\ f.of = d
        BY <2>3, DDraftType
      <3>2. e = [b EXCEPT !.shown = d, !.draft = f, !.editing = "none"]
        BY <2>4 DEF resetEditors
      <3> HIDE DEF f, e
      <3> QED
        BY <2>3, <2>4, <3>1, <3>2 DEF DPages
    <2> HIDE DEF e
    <2>6. n = [e EXCEPT !.asked = FALSE, !.pol = NoPol]
      <3>1. controlReady(e) = FALSE
        BY <2>5 DEF controlReady
      <3> QED
        BY <3>1
    <2> HIDE DEF n
    <2>7. /\ n \in DPages /\ n.mac = d /\ n.mount = dd.mount + 1 /\ n.fake = dd.anon /\ n.anon = dd.anon
          /\ n.busy = {} /\ n.pol = NoPol /\ ~n.asked /\ n.shown = d /\ n.draft.of = d /\ n.editing = "none"
      BY <2>5, <2>6, NoPolType DEF DPages
    <2>8. DShown(n)
      BY <2>7, NoPolType DEF DShown
    <2> QED
      BY <1>4, <2>2, <2>7, <2>8
  <1>8. CASE closeDevice \/ toggleAnonymity
    <2>1. PICK a \in BOOLEAN : /\ dd' = [DetailClosed EXCEPT !.mount = dd.mount, !.writes = dd.writes, !.anon = a]
                               /\ dt' = DCancelReads /\ dBox' = dBox
      <3>1. CASE closeDevice
        BY <1>0, <3>1 DEF closeDevice, DClose
      <3>2. CASE toggleAnonymity
        <4>1. [[DetailClosed EXCEPT !.mount = dd.mount, !.writes = dd.writes, !.anon = dd.anon] EXCEPT !.anon = ~dd.anon]
              = [DetailClosed EXCEPT !.mount = dd.mount, !.writes = dd.writes, !.anon = ~dd.anon]
          BY DClosedType DEF DPages
        <4> QED
          BY <3>2, <4>1 DEF toggleAnonymity, DClose
      <3> QED
        BY <1>8, <3>1, <3>2
    <2>2. /\ dd' \in DPages /\ dd'.mac = NoDev /\ dd'.mount = dd.mount /\ dd'.busy = {} /\ dd'.pol = NoPol
          /\ ~dd'.asked /\ ~dd'.fake /\ dd'.editing = "none"
      BY <1>0, <2>1, DClosedType DEF DPages
    <2>3. DShown(dd')
      BY <2>2, NoPolType DEF DShown
    <2> QED
      BY <1>4, <2>1, <2>2, <2>3
  <1>9. CASE setControlReady
    <2> DEFINE e == [dd EXCEPT !.avail = TRUE]
               n == [e EXCEPT !.asked = controlReady(e), !.pol = IF controlReady(e) THEN e.pol ELSE NoPol]
    <2>1. dd' = n /\ dt' = DCancelReads /\ dBox' = dBox /\ dd.mac # NoDev
      BY <1>9 DEF setControlReady, readPolicy
    <2>2. /\ e \in DPages /\ e.mac = dd.mac /\ e.mount = dd.mount /\ e.fake = dd.fake /\ e.anon = dd.anon
          /\ e.busy = dd.busy /\ e.pol = dd.pol /\ e.shown = dd.shown /\ e.draft = dd.draft /\ e.editing = dd.editing
      BY <1>0 DEF DPages
    <2> HIDE DEF e
    <2>3. controlReady(e) \in BOOLEAN
      BY <2>2 DEF controlReady, writesAllowed, DPages
    <2>4. /\ n \in DPages /\ n.mac = dd.mac /\ n.mount = dd.mount /\ n.fake = dd.fake /\ n.anon = dd.anon
          /\ n.busy = dd.busy /\ n.pol \in {dd.pol, NoPol} /\ n.shown = dd.shown /\ n.draft = dd.draft
          /\ n.editing = dd.editing
      BY <2>2, <2>3, NoPolType DEF DPages
    <2> HIDE DEF n
    <2>5. DShown(n)
      BY <1>0, <2>1, <2>4, NoPolType DEF DShown
    <2> QED
      BY <1>4, <2>1, <2>4, <2>5
  (* The editors. *)
  <1>10. CASE deviceRenamed \/ startRename \/ startDNS \/ setDraft \/ cancelEdit
    <2>1. dd.mac # NoDev /\ dd.shown = dd.mac /\ dd.draft.of = dd.mac
      BY <1>0, <1>10 DEF deviceRenamed, startRename, startDNS, setDraft, cancelEdit, DShown
    <2>2. dt' = dt /\ dBox' = dBox
      BY <1>10 DEF deviceRenamed, startRename, startDNS, setDraft, cancelEdit
    <2>3. PICK f \in DDrafts, ed \in {"none", "name", "dns"} :
             /\ f.of = dd.mac
             /\ \/ dd' = [dd EXCEPT !.shown = dd.mac, !.draft = f, !.editing = "none"]
                \/ dd' = [dd EXCEPT !.editing = ed, !.draft = f]
                \/ dd' = [dd EXCEPT !.draft = f]
                \/ dd' = [dd EXCEPT !.editing = ed]
      <3> DEFINE f(b) == [of |-> dd.mac, typed |-> b]
      <3>1. f(TRUE) \in DDrafts /\ f(FALSE) \in DDrafts /\ f(TRUE).of = dd.mac /\ f(FALSE).of = dd.mac
        BY <1>0, DDraftType
      <3>2. PICK b \in BOOLEAN, ed \in {"none", "name", "dns"} :
               \/ dd' = [dd EXCEPT !.shown = dd.mac, !.draft = f(FALSE), !.editing = "none"]
               \/ dd' = [dd EXCEPT !.editing = ed, !.draft = f(b)]
               \/ dd' = [dd EXCEPT !.draft = f(b)]
               \/ dd' = [dd EXCEPT !.editing = ed]
        BY <1>10, <2>1 DEF deviceRenamed, startRename, startDNS, setDraft, cancelEdit, resetEditors
      <3> HIDE DEF f
      <3> QED
        BY <3>1, <3>2
    <2>5. /\ dd' \in DPages /\ dd'.mac = dd.mac /\ dd'.mount = dd.mount /\ dd'.busy = dd.busy /\ dd'.pol = dd.pol
          /\ dd'.fake = dd.fake /\ dd'.anon = dd.anon /\ dd'.shown = dd.mac /\ dd'.draft.of = dd.mac
      BY <1>0, <2>1, <2>3 DEF DPages
    <2>6. DShown(dd')
      BY <1>0, <2>1, <2>5 DEF DShown
    <2> QED
      BY <1>3, <2>2, <2>5, <2>6
  (* The calls. *)
  <1>11. \A t \in DTask : dt[t].pc = "post" => dt[t].op \in DLocks
    BY <1>0 DEF DSound, DRequests, DOps
  <1>12. \A t \in DTask : dt[t].pc # "idle" =>
           /\ DOwns(dd, dt[t]) <=> dd.mac # NoDev /\ dt[t].mount = dd.mount
           /\ dt[t].mac \in DDevice
    BY <1>0 DEF DSound, DOwns
  (* The policy on display becomes one of the device of call t. *)
  <1>13. ASSUME NEW t \in DTask, NEW p, DPolOf(p, dt[t].mac), DOwns(dd, dt[t]), NEW b \in SUBSET DLocks,
                \/ dd' = [dd EXCEPT !.pol = p] /\ b = dd.busy
                \/ dd' = [[dd EXCEPT !.busy = b] EXCEPT !.pol = p]
         PROVE  dd' \in DPages /\ DShown(dd') /\ dd'.mac = dd.mac /\ dd'.mount = dd.mount /\ dd'.busy = b
    <2>1. p \in DPols /\ DPolOf(p, dd.mac) /\ dd.mac # NoDev
      BY <1>1, <1>13 DEF DPolOf, DOwns
    <2>2. /\ dd' \in DPages /\ dd'.mac = dd.mac /\ dd'.mount = dd.mount /\ dd'.busy = b /\ dd'.pol = p
          /\ dd'.fake = dd.fake /\ dd'.anon = dd.anon /\ dd'.shown = dd.shown /\ dd'.draft = dd.draft
      BY <1>0, <1>13, <2>1 DEF DPages
    <2>3. DShown(dd')
      BY <1>0, <2>1, <2>2 DEF DShown
    <2> QED
      BY <2>2, <2>3
  <1>14. ASSUME NEW t \in DTask, sendRead(t) PROVE DInv'
    <2> DEFINE r == [DIdle EXCEPT !.pc = "read", !.op = "read", !.mount = dd.mount, !.mac = dd.mac]
    <2>1. dd' = [dd EXCEPT !.asked = FALSE] /\ dt' = [dt EXCEPT ![t] = r] /\ dBox' = dBox /\ dt[t].pc = "idle" /\ dd.asked
      BY <1>14 DEF sendRead, DFree
    <2>2. dd.mac \in DDevice /\ dd.mac # NoDev
      BY <1>0, <2>1 DEF DShown, DMacs
    <2>3. /\ dd' \in DPages /\ dd'.mac = dd.mac /\ dd'.mount = dd.mount /\ dd'.busy = dd.busy /\ dd'.pol = dd.pol
          /\ dd'.fake = dd.fake /\ dd'.anon = dd.anon /\ dd'.shown = dd.shown /\ dd'.draft = dd.draft
          /\ dd'.editing = dd.editing
      BY <1>0, <2>1 DEF DPages
    <2>4. DShown(dd')
      BY <1>0, <2>2, <2>3 DEF DShown
    <2>5. /\ r \in DRequests /\ r.pc = "read" /\ r.op = "read" /\ r.mount = dd.mount /\ r.mac = dd.mac
          /\ r.fake = DIdle.fake /\ r.prev = DIdle.prev /\ r.old = DIdle.old /\ r.posted = DIdle.posted
      <3>1. "read" \in DOps
        BY DEF DOps
      <3> QED
        BY <1>0, <3>1, DIdleType DEF DRequests
    <2> HIDE DEF r
    <2>6. DIdle.prev = NoPol /\ DIdle.old = NoPol /\ DIdle.posted = NoPol /\ ~DIdle.fake
      BY DEF DIdle
    <2>7. DSound(r)
      BY <2>2, <2>5, <2>6, NoPolType DEF DSound
    <2>8. dt[t].op = "none"
      BY <1>0, <2>1 DEF DSound
    <2>9. \A op \in DLocks : ~DHolds(dd, dt[t], op) /\ ~DHolds(dd, r, op)
      BY <2>5, <2>8 DEF DHolds, DLocks
    <2>10. r.mount <= dd.mount /\ r.mac = dd.mac /\ DGood(dd, dt)
      BY <1>0, <2>5 DEF DInv
    <2>11. DGood(dd', [dt EXCEPT ![t] = r])
      BY <2>3, <2>4, <2>5, <2>7, <2>9, <2>10, DGoodStep
    <2> QED
      BY <1>0, <2>1, <2>11 DEF DInv
  <1>15. ASSUME NEW t \in DTask, readAnswer(t) PROVE DInv'
    <2>1. dt[t].pc = "read" /\ DEnd(t) /\ dBox' = dBox
      BY <1>15 DEF readAnswer
    <2>2. dt[t].op = "read"
      BY <1>0, <2>1 DEF DSound
    <2>3. dd.busy = dd.busy \ {dt[t].op} /\ dd.busy \in SUBSET DLocks
      BY <1>0, <2>2 DEF DPages, DLocks
    <2>4. CASE dd' = dd
      BY <1>0, <1>5, <2>1, <2>3, <2>4
    <2>5. ASSUME NEW a, DOwns(dd, dt[t]), DPolOf(a, dt[t].mac), dd' = [dd EXCEPT !.pol = a] PROVE DInv'
      <3>1. dd' \in DPages /\ DShown(dd') /\ dd'.mac = dd.mac /\ dd'.mount = dd.mount /\ dd'.busy = dd.busy
        BY <1>13, <2>3, <2>5
      <3> QED
        BY <1>5, <2>1, <2>3, <2>5, <3>1
    <2>6. DOwns(dd, dt[t]) => DPolOf(dd.pol, dt[t].mac)
      BY <1>0, <1>1 DEF DShown
    <2>7. DPolOf(dBox[dt[t].mac], dt[t].mac) /\ DPolOf(NoPol, dt[t].mac)
      BY <1>2, <1>12, <2>1, NoPolType
    <2> QED
      BY <1>12, <1>15, <2>1, <2>4, <2>5, <2>6, <2>7 DEF readAnswer, DApply
  <1>16. ASSUME NEW t \in DTask, wake(t) \/ saveRename(t) \/ saveDNS(t) PROVE DInv'
    <2>1. dd.mac # NoDev /\ controlReady(dd) /\ dd.draft \in DDrafts
      BY <1>0, <1>16 DEF wake, saveRename, saveDNS, DShown, DPages
    <2>2. PICK op \in {"wake", "name", "dns"}, job \in {DIdle, [DIdle EXCEPT !.draft = dd.draft]} :
            op \notin dd.busy /\ DCall(t, op, dd, job)
      BY <1>16 DEF wake, saveRename, saveDNS
    <2>3. job \in DRequests /\ job.prev = NoPol /\ job.old = NoPol /\ job.posted = NoPol
      <3>1. DIdle.prev = NoPol /\ DIdle.old = NoPol /\ DIdle.posted = NoPol
        BY DEF DIdle
      <3> QED
        BY <2>1, <3>1, DIdleType DEF DRequests
    <2>4. op \in DLocks /\ op # "policy" /\ DPolOf(job.prev, dd.mac)
      BY <2>3, NoPolType DEF DLocks
    <2> QED
      BY <1>0, <1>6, <2>1, <2>2, <2>3, <2>4
  <1>17. ASSUME NEW t \in DTask, NEW p \in patches, setPolicy(t, p) PROVE DInv'
    <2>1. dd.mac # NoDev /\ controlReady(dd) /\ dd.pol.known /\ p \in DPatches
      BY <1>17 DEF patches, DPatches
    <2>2. dd.pol \in DKnown /\ dd.pol.of = dd.mac /\ ~(dd.pol.monitor /\ dd.pol.emergency) /\ DPolOf(dd.pol, dd.mac)
      BY <1>0, <2>1, NoPolType DEF DShown, DPolOf, DPols
    <2> DEFINE a == applyPolicyPatchOptimistic(dd.pol, p)
               s == [dd EXCEPT !.pol = a]
               job == [DIdle EXCEPT !.patch = p, !.prev = dd.pol]
    <2>3. a \in DKnown /\ a.of = dd.mac /\ ~(a.monitor /\ a.emergency)
      BY <2>1, <2>2, OptimisticOf
    <2>4. DCall(t, "policy", s, job) /\ "policy" \notin dd.busy
      BY <1>17 DEF setPolicy
    <2> HIDE DEF a
    <2>5. a \in DPols /\ DPolOf(a, dd.mac)
      BY <2>3 DEF DPolOf, DPols
    <2>6. /\ s \in DPages /\ s.mac = dd.mac /\ s.mount = dd.mount /\ s.busy = dd.busy /\ s.pol = a
          /\ s.fake = dd.fake /\ s.anon = dd.anon /\ s.shown = dd.shown /\ s.draft = dd.draft
      BY <1>0, <2>5 DEF DPages
    <2>7. DIdle.old = NoPol /\ DIdle.posted = NoPol
      BY DEF DIdle
    <2>8. dd.pol \in DPols /\ p \in {NoPatch} \cup DPatches
      BY <2>1, <2>2 DEF DPols
    <2>9. job \in DRequests /\ job.prev = dd.pol /\ job.old = NoPol /\ job.posted = NoPol /\ job.patch = p
      BY <2>7, <2>8, DIdleType DEF DRequests
    <2> HIDE DEF s, job
    <2>10. DShown(s)
      BY <1>0, <2>1, <2>5, <2>6 DEF DShown
    <2>11. "policy" \in DLocks
      BY DEF DLocks
    <2> QED
      BY <1>6, <2>1, <2>2, <2>4, <2>6, <2>9, <2>10, <2>11
  <1>18. ASSUME NEW t \in DTask, ServeCall(t) PROVE DInv'
    <2> DEFINE m == dt[t].mac
    <2>1. /\ dt[t].pc = "post" /\ dd' = dd /\ dt[t].op \in DLocks /\ m \in DDevice
          /\ dt[t] \in DRequests /\ DSound(dt[t]) /\ ~dt[t].fake
      BY <1>0, <1>11, <1>12, <1>18 DEF ServeCall, DSound
    <2>2. PICK a \in {"ok", "fail"}, w \in BOOLEAN, says \in BOOLEAN :
            /\ a = "ok" => w
            /\ dBox' = IF w /\ dt[t].op = "policy" /\ ~dt[t].fake
                       THEN [dBox EXCEPT ![m] = serverPatch(dBox[m], dt[t].patch)] ELSE dBox
            /\ dt' = [dt EXCEPT ![t] = [dt[t] EXCEPT !.ans = a, !.old = dBox[m],
                                          !.posted = IF a = "ok" /\ says /\ dt[t].op = "policy" THEN dBox'[m] ELSE NoPol]]
      BY <1>18 DEF ServeCall
    <2> DEFINE x == IF a = "ok" /\ says /\ dt[t].op = "policy" THEN dBox'[m] ELSE NoPol
               r == [dt[t] EXCEPT !.ans = a, !.old = dBox[m], !.posted = x]
    <2>3. /\ dt[t].op = "policy" => dt[t].patch \in DPatches
          /\ dBox[m] \in DKnown /\ DPolOf(dBox[m], m) /\ dBox[m].of = m /\ ~(dBox[m].monitor /\ dBox[m].emergency)
      BY <1>2, <2>1 DEF DSound
    <2> DEFINE v == serverPatch(dBox[m], dt[t].patch)
    <2>4. dt[t].op = "policy" => /\ v \in DKnown /\ v.of = m /\ ~(v.monitor /\ v.emergency) /\ v \in DPols
                                 /\ hostPolicyMatchesPatch(v, dt[t].patch)
      BY <2>3, ServerPatchOf DEF DPols
    <2> HIDE DEF v
    <2>5. dBox' = IF w /\ dt[t].op = "policy" THEN [dBox EXCEPT ![m] = v] ELSE dBox
      BY <2>1, <2>2 DEF v
    <2>6. dt[t].op = "policy" => DPolOf(v, m)
      BY <2>4 DEF DPolOf
    <2>7. dBox' \in DBoxes
      BY <1>0, <2>1, <2>4, <2>5, <2>6 DEF DBoxes
    <2>8. x = NoPol \/ (x = v /\ dt[t].op = "policy")
      BY <1>0, <2>1, <2>2, <2>5 DEF DBoxes
    <2>9. DPolOf(x, m) /\ (x.known => hostPolicyMatchesPatch(x, dt[t].patch))
      BY <2>4, <2>6, <2>8, NoPolType
    <2>10. dt' = [dt EXCEPT ![t] = r]
      BY <2>2
    <2> HIDE DEF x
    <2>11. a \in {"none", "ok", "fail"} /\ dBox[m] \in DPols /\ x \in DPols
      BY <2>3, <2>9 DEF DPolOf
    <2>12. /\ r \in DRequests /\ r.pc = "post" /\ r.op = dt[t].op /\ r.mount = dt[t].mount /\ r.mac = m
           /\ r.fake = dt[t].fake /\ r.prev = dt[t].prev /\ r.old = dBox[m] /\ r.posted = x /\ r.patch = dt[t].patch
      BY <2>1, <2>11 DEF DRequests
    <2> HIDE DEF r
    <2>13. DSound(r)
      BY <2>1, <2>3, <2>9, <2>12 DEF DSound
    <2>14. /\ \A op : DHolds(dd, r, op) <=> DHolds(dd, dt[t], op)
           /\ DOwns(dd, r) => r.mac = dd.mac
      BY <1>1, <2>12 DEF DHolds, DOwns
    <2>15. r.op # "none" => r.mount <= dd.mount
      BY <1>0, <2>12 DEF DCalls
    <2>16. DGood(dd, [dt EXCEPT ![t] = r])
      BY <1>0, <2>12, <2>13, <2>14, <2>15, DGoodStep DEF DInv
    <2> QED
      BY <2>1, <2>7, <2>10, <2>16 DEF DInv
  (* A call of the page ends and its policy is replaced, or it is another's. *)
  <1>19. ASSUME NEW t \in DTask, NEW p, DOwns(dd, dt[t]) => DPolOf(p, dt[t].mac), dt[t].pc # "idle",
                DApply(t, [DDone(t, dd) EXCEPT !.pol = p]), DEnd(t), dBox' = dBox
         PROVE  DInv'
    <2> DEFINE b == dd.busy \ {dt[t].op}
    <2>1. b \in SUBSET DLocks
      BY <1>0 DEF DPages
    <2>2. CASE DOwns(dd, dt[t])
      <3>1. dd' = [[dd EXCEPT !.busy = b] EXCEPT !.pol = p]
        BY <1>12, <1>19, <2>2 DEF DApply, DDone
      <3>2. dd' \in DPages /\ DShown(dd') /\ dd'.mac = dd.mac /\ dd'.mount = dd.mount /\ dd'.busy = b
        BY <1>13, <1>19, <2>1, <2>2, <3>1
      <3> QED
        BY <1>5, <1>19, <2>2, <3>2
    <2>3. CASE ~DOwns(dd, dt[t])
      <3>1. dd' = dd
        BY <1>12, <1>19, <2>3 DEF DApply
      <3> QED
        BY <1>0, <1>5, <1>19, <2>3, <3>1
    <2> QED
      BY <2>2, <2>3
  <1>20. \A t \in DTask : DDone(t, dd) \in DPages /\ DDone(t, dd).pol = dd.pol
    BY <1>0 DEF DDone, DPages
  <1>21. \A t \in DTask : DOwns(dd, dt[t]) => DPolOf(dd.pol, dt[t].mac)
    BY <1>0, <1>1 DEF DShown
  <1>22. ASSUME NEW t \in DTask, policyGot(t) \/ policyThrew(t) PROVE DInv'
    <2>1. dt[t].pc = "get" /\ DEnd(t) /\ dBox' = dBox
      BY <1>22 DEF policyGot, policyThrew
    <2>2. CASE policyThrew(t)
      <3>1. DPolOf(dt[t].prev, dt[t].mac)
        BY <1>0 DEF DSound
      <3> QED
        BY <1>19, <2>1, <2>2, <3>1 DEF policyThrew
    <2>3. CASE policyGot(t)
      <3>1. PICK f \in {dBox[dt[t].mac], dt[t].old, NoPol} :
              DApply(t, [DDone(t, dd) EXCEPT !.pol = IF pickHostPolicy(f, dt[t].posted, dt[t].patch).known
                                                     THEN pickHostPolicy(f, dt[t].posted, dt[t].patch)
                                                     ELSE DDone(t, dd).pol])
        BY <2>3 DEF policyGot
      <3> DEFINE n == pickHostPolicy(f, dt[t].posted, dt[t].patch)
                 p == IF n.known THEN n ELSE DDone(t, dd).pol
      <3>2. n \in {f, dt[t].posted}
        BY DEF pickHostPolicy
      <3>3. DPolOf(f, dt[t].mac) /\ DPolOf(dt[t].posted, dt[t].mac)
        BY <1>0, <1>2, <1>12, <2>1, <3>1, NoPolType DEF DSound
      <3> HIDE DEF n
      <3>4. DOwns(dd, dt[t]) => DPolOf(p, dt[t].mac)
        BY <1>20, <1>21, <3>2, <3>3
      <3>5. DApply(t, [DDone(t, dd) EXCEPT !.pol = p])
        BY <3>1 DEF n
      <3> HIDE DEF p
      <3> QED
        BY <1>19, <2>1, <3>4, <3>5
    <2> QED
      BY <1>22, <2>2, <2>3
  <1>23. ASSUME NEW t \in DTask, CallAnswer(t) PROVE DInv'
    <2>1. dt[t].pc = "post" /\ dt[t].ans # "none" /\ dBox' = dBox /\ dt[t] \in DRequests /\ DSound(dt[t])
          /\ dt[t].op \in DLocks
      BY <1>0, <1>11, <1>23 DEF CallAnswer
    <2>2. CASE dt[t].op = "policy" /\ dt[t].ans = "ok"
      <3> DEFINE r == [dt[t] EXCEPT !.pc = "get", !.ans = "none"]
      <3>1. /\ dt' = [dt EXCEPT ![t] = r]
            /\ DApply(t, IF dt[t].posted.known THEN [dd EXCEPT !.pol = dt[t].posted] ELSE dd)
        BY <1>23, <2>2 DEF CallAnswer
      <3>2. /\ r \in DRequests /\ r.pc = "get" /\ r.op = dt[t].op /\ r.mount = dt[t].mount /\ r.mac = dt[t].mac
            /\ r.fake = dt[t].fake /\ r.prev = dt[t].prev /\ r.old = dt[t].old /\ r.posted = dt[t].posted
            /\ r.patch = dt[t].patch
        BY <2>1 DEF DRequests
      <3> HIDE DEF r
      <3>3. DSound(r)
        BY <2>1, <2>2, <3>2 DEF DSound
      <3>4. /\ \A op : DHolds(dd, r, op) <=> DHolds(dd, dt[t], op)
            /\ DOwns(dd, r) => r.mac = dd.mac
        BY <1>1, <3>2 DEF DHolds, DOwns
      <3>5. r.op # "none" => r.mount <= dd.mount
        BY <1>0, <3>2 DEF DCalls
      <3>6. dd' \in DPages /\ DShown(dd') /\ dd'.mac = dd.mac /\ dd'.mount = dd.mount /\ dd'.busy = dd.busy
        <4>1. CASE dd' = dd
          BY <1>0, <4>1
        <4>2. CASE DOwns(dd, dt[t]) /\ dd' = [dd EXCEPT !.pol = dt[t].posted]
          <5>1. DPolOf(dt[t].posted, dt[t].mac) /\ dd.busy \in SUBSET DLocks
            BY <1>0, <2>1 DEF DSound, DPages
          <5> QED
            BY <1>13, <4>2, <5>1
        <4> QED
          BY <1>12, <2>1, <3>1, <4>1, <4>2 DEF DApply
      <3>7. DGood(dd', [dt EXCEPT ![t] = r])
        BY <3>2, <3>3, <3>4, <3>5, <3>6, DGoodStep DEF DInv
      <3> QED
        BY <1>0, <2>1, <3>1, <3>7 DEF DInv
    <2>3. CASE dt[t].op \in {"name", "dns"} /\ dt[t].ans = "ok"
      <3> DEFINE b == dd.busy \ {dt[t].op}
                 s == DDone(t, dd)
      <3>1. DEnd(t) /\ \E e \in edited(t, s) : DApply(t, e)
        BY <1>23, <2>3 DEF CallAnswer
      <3>2. CASE ~DOwns(dd, dt[t])
        <4>1. dd' = dd
          BY <1>12, <2>1, <3>1, <3>2 DEF DApply
        <4> QED
          BY <1>0, <1>5, <2>1, <3>1, <3>2, <4>1
      <3>3. CASE DOwns(dd, dt[t])
        <4>1. dd' \in edited(t, s) /\ dd.mac # NoDev /\ dt[t].mac = dd.mac
          BY <1>1, <1>12, <2>1, <3>1, <3>3 DEF DApply, DOwns
        <4>2. /\ s \in DPages /\ s.mac = dd.mac /\ s.mount = dd.mount /\ s.busy = b /\ s.pol = dd.pol /\ s.fake = dd.fake
              /\ s.anon = dd.anon /\ s.shown = dd.mac /\ s.draft = dd.draft /\ dd.draft.of = dd.mac
          BY <1>0, <4>1 DEF DDone, DPages, DShown
        <4> HIDE DEF s
        <4> DEFINE f == [of |-> dd.mac, typed |-> FALSE]
        <4>3. f \in DDrafts /\ f.of = dd.mac
          BY <1>0, DDraftType
        <4>4. \/ dd' = [s EXCEPT !.shown = dd.mac, !.draft = f, !.editing = "none"]
              \/ \E ed \in {"none", s.editing} : dd' = [s EXCEPT !.editing = ed, !.shown = dd.mac]
          BY <4>1, <4>2 DEF edited, resetEditors
        <4> HIDE DEF f
        <4>5. /\ dd' \in DPages /\ dd'.mac = dd.mac /\ dd'.mount = dd.mount /\ dd'.busy = b /\ dd'.pol = dd.pol
              /\ dd'.fake = dd.fake /\ dd'.anon = dd.anon /\ dd'.shown = dd.mac /\ dd'.draft.of = dd.mac
          BY <1>0, <4>2, <4>3, <4>4 DEF DPages
        <4>6. DShown(dd')
          BY <1>0, <4>1, <4>5 DEF DShown
        <4> QED
          BY <1>5, <2>1, <3>1, <3>3, <4>5, <4>6
      <3> QED
        BY <3>2, <3>3
    <2>4. CASE ~(dt[t].op = "policy" /\ dt[t].ans = "ok") /\ ~(dt[t].op \in {"name", "dns"} /\ dt[t].ans = "ok")
      <3> DEFINE p == IF dt[t].op = "policy" THEN dt[t].prev ELSE DDone(t, dd).pol
      <3>1. DEnd(t) /\ DApply(t, [DDone(t, dd) EXCEPT !.pol = p])
        BY <1>23, <2>4 DEF CallAnswer
      <3>2. DOwns(dd, dt[t]) => DPolOf(p, dt[t].mac)
        BY <1>20, <1>21, <2>1 DEF DSound
      <3> HIDE DEF p
      <3> QED
        BY <1>19, <2>1, <3>1, <3>2
    <2> QED
      BY <2>2, <2>3, <2>4
  <1>24. CASE UNCHANGED detailVars
    BY <1>24 DEF detailVars, DInv
  <1> QED
    BY <1>7, <1>8, <1>9, <1>10, <1>14, <1>15, <1>16, <1>17, <1>18, <1>22, <1>23, <1>24 DEF DetailNext, DetailReply

(* Whatever is answered, rolled back or read from a stale cache: a button  *)
(* of the device page is disabled exactly while its own call is under way, *)
(* the page shows the policy, name and drafts of its own device, never     *)
(* with monitoring and emergency access both on, and no call names the     *)
(* fake address of a device shown anonymously.                             *)
THEOREM DetailPageHolds ==
    DetailSpec => [](DetailBusyOwned /\ DetailOwn /\ DetailExclusive /\ DetailRealAddress)
  <1>1. DInv => DetailBusyOwned
    <2> SUFFICES ASSUME DInv, dd.mac # NoDev
                 PROVE  dd.busy = {dt[t].op : t \in {u \in DTask :
                                     dt[u].mount = dd.mount /\ dt[u].op \in {"wake", "name", "dns", "policy"}}}
      BY DEF DetailBusyOwned
    <2>1. dd.busy \in SUBSET DLocks /\ \A op \in DLocks : op \in dd.busy <=> \E t \in DTask : DHolds(dd, dt[t], op)
      BY DEF DInv, DGood, DPages, DCalls
    <2>2. \A op \in DLocks : \A t \in DTask : DHolds(dd, dt[t], op) <=> dt[t].mount = dd.mount /\ dt[t].op = op
      BY DEF DHolds, DOwns, DLocks
    <2> QED
      BY <2>1, <2>2 DEF DLocks
  <1>2. DInv => DetailOwn /\ DetailExclusive /\ DetailRealAddress
    BY DEF DInv, DGood, DShown, DCalls, DSound, DPolOf, DetailOwn, DetailExclusive, DetailRealAddress
  <1> QED
    BY <1>1, <1>2, DetailInitInv, DetailStepInv, PTL DEF DetailSpec

(* A policy the box confirmed is what the page shows when the read that    *)
(* follows comes from a stale cache, or carries no policy at all.          *)
THEOREM PolicyStaysHolds == DetailSpec => PolicyStays
  <1>1. ASSUME DInv, NEW t \in DTask, policyGot(t), dt[t].posted.known, dd.mac = dt[t].mac, dd.mount = dt[t].mount
        PROVE  hostPolicyMatchesPatch(dd'.pol, dt[t].patch)
    <2>1. DSound(dt[t]) /\ dd \in DPages /\ dt[t].pc = "get"
      BY <1>1 DEF DInv, DGood, DCalls, policyGot
    <2>2. dt[t].op = "policy" /\ dt[t].mac # NoDev /\ hostPolicyMatchesPatch(dt[t].posted, dt[t].patch)
      BY <1>1, <2>1 DEF DSound
    <2>3. PICK f \in {dBox[dt[t].mac], dt[t].old, NoPol} :
            dd' = [DDone(t, dd) EXCEPT !.pol = IF pickHostPolicy(f, dt[t].posted, dt[t].patch).known
                                               THEN pickHostPolicy(f, dt[t].posted, dt[t].patch)
                                               ELSE DDone(t, dd).pol]
      BY <1>1, <2>2 DEF policyGot, DApply
    <2> DEFINE n == pickHostPolicy(f, dt[t].posted, dt[t].patch)
    <2>4. n.known /\ hostPolicyMatchesPatch(n, dt[t].patch)
      BY <1>1, <2>2 DEF pickHostPolicy
    <2> HIDE DEF n
    <2>5. DDone(t, dd) \in DPages
      BY <2>1 DEF DDone, DPages
    <2>6. dd' = [DDone(t, dd) EXCEPT !.pol = n]
      BY <2>3, <2>4 DEF n
    <2>7. dd'.pol = n
      BY <2>5, <2>6 DEF DPages
    <2> QED
      BY <2>4, <2>7
  <1>2. DInv /\ [DetailNext]_detailVars =>
          [\A t \in DTask :
             (policyGot(t) /\ dt[t].posted.known /\ dd.mac = dt[t].mac /\ dd.mount = dt[t].mount)
             => hostPolicyMatchesPatch(dd'.pol, dt[t].patch)]_detailVars
    BY <1>1
  <1> QED
    BY <1>2, DetailInitInv, DetailStepInv, PTL DEF DetailSpec, PolicyStays

-----------------------------------------------------------------------------
(* The groups of the devices *)

GWrites == {"add", "remove", "clear"}
GEdits == {"other", "flag"} \cup GWrites
GTags == [MDevice -> SUBSET MTag]
GPages == [page: {"away", "devices", "groups"}, ready: BOOLEAN, busy: MDevice \cup {NoMac}, mount: Nat, edits: Nat]
GRequests == [pc: {"idle", "poll", "polled", "fetch", "post"}, op: {"none", "poll"} \cup GEdits, mount: Nat,
              mac: MDevice \cup {NoMac}, tag: SUBSET MTag, tags: GTags \cup SUBSET MTag,
              ans: {"none", "ok", "fail"}]

(* Call r, when the boxes held what past says: what it brings was true. *)
GSound(r, past) ==
    /\ r.pc = "idle" <=> r.op = "none"
    /\ r.pc \in {"poll", "polled"} <=> r.op = "poll"
    /\ r.op \in GEdits => r.mac \in MDevice /\ r.tags \in SUBSET MTag
    /\ r.pc = "polled" => r.tags \in GTags /\ \A d \in MDevice : r.tags[d] \in past[d]
    /\ r.pc = "post" /\ r.ans = "ok" /\ r.op \in GWrites => r.tags \in past[r.mac]

(* Call r holds the lock of page m. *)
GHolds(m, r) == m.page # "away" /\ r.mount = m.mount /\ r.op \in GEdits
GLock(m, q) ==
    /\ \A t \in MTask : q[t].op \in GEdits => q[t].mount <= m.mount
    /\ \A t \in MTask : GHolds(m, q[t]) => q[t].mac = m.busy
    /\ \A t, u \in MTask : GHolds(m, q[t]) /\ GHolds(m, q[u]) => t = u
    /\ m.page # "away" /\ m.busy # NoMac => \E t \in MTask : GHolds(m, q[t])

GData(box, past, list) ==
    /\ box \in GTags /\ list \in GTags /\ past \in [MDevice -> SUBSET SUBSET MTag]
    /\ \A d \in MDevice : box[d] \in past[d] /\ list[d] \in past[d]

GCalls(q, past) == q \in [MTask -> GRequests] /\ \A t \in MTask : GSound(q[t], past)
GInv == GData(mBox, mPast, mList) /\ mp \in GPages /\ GCalls(mt, mPast) /\ GLock(mp, mt)

LEMMA MIdleType == /\ MIdle \in GRequests /\ MIdle.op = "none" /\ MIdle.op \notin GEdits
                   /\ \A past : GSound(MIdle, past)
  <1>1. MIdle.pc = "idle" /\ MIdle.op = "none"
    BY DEF MIdle
  <1>2. MIdle.op \notin GEdits
    BY <1>1 DEF GEdits, GWrites
  <1>3. MIdle \in GRequests
    BY DEF MIdle, GRequests
  <1> QED
    BY <1>1, <1>2, <1>3 DEF GSound

(* One call changes, with what the boxes have held since. *)
LEMMA GCallStep ==
    ASSUME NEW q, NEW past, NEW more, NEW t \in MTask, NEW r \in GRequests, GCalls(q, past),
           \A d \in MDevice : past[d] \subseteq more[d], GSound(r, more)
    PROVE  GCalls([q EXCEPT ![t] = r], more)
  <1> DEFINE p == [q EXCEPT ![t] = r]
  <1>1. p \in [MTask -> GRequests] /\ p[t] = r /\ \A u \in MTask \ {t} : p[u] = q[u]
    BY DEF GCalls
  <1>2. \A u \in MTask : GSound(q[u], past)
    BY DEF GCalls
  <1>3. \A u \in MTask : GSound(q[u], more)
    <2> TAKE u \in MTask
    <2>1. q[u].op \in GWrites => q[u].mac \in MDevice
      BY <1>2 DEF GSound, GEdits
    <2> QED
      BY <1>2, <2>1 DEF GSound
  <1> HIDE DEF p
  <1>4. \A u \in MTask : GSound(p[u], more)
    BY <1>1, <1>3
  <1> QED
    BY <1>1, <1>4 DEF GCalls, p

LEMMA GLockStep ==
    ASSUME NEW m \in GPages, NEW n \in GPages, NEW q \in [MTask -> GRequests], NEW t \in MTask, NEW r \in GRequests,
           GLock(m, q), n.page = m.page, n.mount = m.mount,
           r.op \in GEdits => r.mount <= m.mount,
           \/ m.page = "away"
           \/ /\ n.busy = m.busy /\ (GHolds(m, r) <=> GHolds(m, q[t]))
              /\ GHolds(m, r) => r.mac = q[t].mac
           \/ /\ m.busy = NoMac /\ GHolds(m, r) /\ r.mac = n.busy
              /\ \A u \in MTask : ~GHolds(m, q[u])
           \/ n.busy = NoMac /\ GHolds(m, q[t]) /\ ~GHolds(m, r)
    PROVE  GLock(n, [q EXCEPT ![t] = r])
  <1> DEFINE p == [q EXCEPT ![t] = r]
  <1>1. p[t] = r /\ \A u \in MTask \ {t} : p[u] = q[u]
    OBVIOUS
  <1> HIDE DEF p
  <1>2. \A u \in MTask : GHolds(n, p[u]) <=> GHolds(m, p[u])
    BY DEF GHolds
  <1>3. \A u \in MTask : p[u].op \in GEdits => p[u].mount <= n.mount
    BY <1>1 DEF GLock
  <1>4. CASE m.page = "away"
    BY <1>3, <1>4 DEF GLock, GHolds, p
  <1>5. CASE m.page # "away"
    <2>1. \A u \in MTask : GHolds(m, p[u]) => p[u].mac = n.busy
      BY <1>1, <1>5 DEF GLock
    <2>2. \A u, v \in MTask : GHolds(m, p[u]) /\ GHolds(m, p[v]) => u = v
      BY <1>1, <1>5 DEF GLock
    <2>3. n.busy # NoMac => \E u \in MTask : GHolds(m, p[u])
      BY <1>1, <1>5 DEF GLock
    <2> QED
      BY <1>2, <1>3, <2>1, <2>2, <2>3 DEF GLock, p
  <1> QED
    BY <1>4, <1>5

LEMMA MembInitInv == MembInit => GInv
  <1> SUFFICES ASSUME MembInit PROVE GInv
    OBVIOUS
  <1>1. GData(mBox, mPast, mList)
    BY DEF MembInit, GData, GTags
  <1>2. mp \in GPages /\ mp.page = "away"
    BY DEF MembInit, MAway, GPages
  <1>3. GCalls(mt, mPast) /\ \A t \in MTask : mt[t].op \notin GEdits
    BY MIdleType DEF MembInit, GCalls
  <1> QED
    BY <1>1, <1>2, <1>3 DEF GInv, GLock, GHolds

LEMMA MembStepInv == GInv /\ [MembNext]_membVars => GInv'
  <1> SUFFICES ASSUME GInv, [MembNext]_membVars PROVE GInv'
    OBVIOUS
  <1>0. /\ mBox \in GTags /\ mList \in GTags /\ mPast \in [MDevice -> SUBSET SUBSET MTag] /\ mp \in GPages
        /\ \A d \in MDevice : mBox[d] \in mPast[d] /\ mList[d] \in mPast[d]
        /\ mt \in [MTask -> GRequests] /\ GCalls(mt, mPast) /\ GLock(mp, mt) /\ mp.mount \in Nat /\ mp.edits \in Nat
        /\ \A t \in MTask : mt[t] \in GRequests /\ GSound(mt[t], mPast) /\ mt[t].mount \in Nat
    BY DEF GInv, GData, GCalls, GPages, GRequests
  <1>0a. mp \in GPages /\ mp.mount + 1 \in Nat /\ mp.edits + 1 \in Nat
    BY <1>0
  (* A call changes, what the boxes hold and the list do not. *)
  <1>1. ASSUME NEW t \in MTask, NEW r \in GRequests, GSound(r, mPast), mt' = [mt EXCEPT ![t] = r],
               UNCHANGED <<mBox, mPast>>, mp' \in GPages, GLock(mp', mt'), GData(mBox, mPast, mList')
        PROVE  GInv'
    <2>1. GCalls([mt EXCEPT ![t] = r], mPast)
      BY <1>0, <1>1, GCallStep
    <2> QED
      BY <1>1, <2>1 DEF GInv
  (* A call that keeps its lock. *)
  <1>2. ASSUME NEW t \in MTask, NEW r \in GRequests, r.op = mt[t].op, r.mount = mt[t].mount, r.mac = mt[t].mac
        PROVE  GLock(mp, [mt EXCEPT ![t] = r])
    <2>1. (GHolds(mp, r) <=> GHolds(mp, mt[t])) /\ (r.op \in GEdits => r.mount <= mp.mount)
      BY <1>0, <1>2 DEF GHolds, GLock
    <2> QED
      BY <1>0, <1>2, <2>1, GLockStep
  <1>3. GData(mBox, mPast, mList)
    BY DEF GInv
  (* The list is polled. *)
  <1>4. ASSUME NEW t \in MTask, loadDevices(t) PROVE GInv'
    <2> DEFINE r == [MIdle EXCEPT !.pc = "poll", !.op = "poll"]
    <2>1. mt[t].pc = "idle" /\ mt' = [mt EXCEPT ![t] = r] /\ UNCHANGED <<mBox, mPast, mList, mp>>
      BY <1>4 DEF loadDevices, MFree
    <2>2. r \in GRequests /\ r.pc = "poll" /\ r.op = "poll"
      BY MIdleType DEF GRequests
    <2> HIDE DEF r
    <2>3. mt[t].op = "none" /\ "none" \notin GEdits /\ "poll" \notin GEdits
      BY <1>0, <2>1 DEF GSound, GEdits, GWrites
    <2>4. GSound(r, mPast)
      BY <2>2, <2>3 DEF GSound
    <2>5. GLock(mp, [mt EXCEPT ![t] = r])
      BY <1>0, <2>2, <2>3, GLockStep DEF GHolds
    <2> QED
      BY <1>0, <1>1, <1>3, <2>1, <2>2, <2>4, <2>5
  <1>5. ASSUME NEW t \in MTask, mt[t].op = "poll", mt' = [mt EXCEPT ![t] = MIdle], UNCHANGED <<mBox, mPast, mp>>,
               mList' \in GTags, \A d \in MDevice : mList'[d] \in mPast[d]
        PROVE  GInv'
    <2>1. "poll" \notin GEdits
      BY DEF GEdits, GWrites
    <2>2. GLock(mp, [mt EXCEPT ![t] = MIdle])
      BY <1>0, <1>5, <2>1, MIdleType, GLockStep DEF GHolds
    <2>3. GData(mBox, mPast, mList')
      BY <1>0, <1>5 DEF GData
    <2> QED
      BY <1>0, <1>1, <1>5, <2>2, <2>3, MIdleType
  <1>6. ASSUME NEW t \in MTask, ServeDevices(t) PROVE GInv'
    <2>1. mt[t].pc = "poll" /\ mt[t].op = "poll" /\ UNCHANGED <<mBox, mPast, mList, mp>>
      BY <1>0, <1>6 DEF ServeDevices, GSound
    <2>2. CASE mt' = [mt EXCEPT ![t] = MIdle]
      BY <1>0, <1>5, <2>1, <2>2
    <2>3. CASE mt' = [mt EXCEPT ![t] = [mt[t] EXCEPT !.pc = "polled", !.tags = mBox]]
      <3> DEFINE r == [mt[t] EXCEPT !.pc = "polled", !.tags = mBox]
      <3>1. /\ r \in GRequests /\ r.pc = "polled" /\ r.op = mt[t].op /\ r.mount = mt[t].mount /\ r.mac = mt[t].mac
            /\ r.tags = mBox
        BY <1>0 DEF GRequests
      <3> HIDE DEF r
      <3>2. "poll" \notin GEdits
        BY DEF GEdits, GWrites
      <3>3. GSound(r, mPast)
        BY <1>0, <2>1, <3>1, <3>2 DEF GSound
      <3>4. GLock(mp, [mt EXCEPT ![t] = r])
        BY <1>2, <3>1
      <3> QED
        BY <1>0, <1>1, <1>3, <2>1, <2>3, <3>1, <3>3, <3>4 DEF r
    <2> QED
      BY <1>6, <2>2, <2>3 DEF ServeDevices
  <1>7. ASSUME NEW t \in MTask, setDevices(t) PROVE GInv'
    <2>1. mt[t].pc = "polled" /\ mList' = mt[t].tags /\ mt' = [mt EXCEPT ![t] = MIdle] /\ UNCHANGED <<mBox, mPast, mp>>
      BY <1>7 DEF setDevices
    <2>2. mt[t].op = "poll" /\ mt[t].tags \in GTags /\ \A d \in MDevice : mt[t].tags[d] \in mPast[d]
      BY <1>0, <2>1 DEF GSound
    <2> QED
      BY <1>5, <2>1, <2>2
  (* The pages. *)
  <1>8. CASE (\E p \in {"devices", "groups"} : openPage(p)) \/ leavePage \/ setWakeReady
    <2>1. UNCHANGED <<mBox, mPast, mList, mt>>
      BY <1>8 DEF openPage, leavePage, setWakeReady
    <2>2. /\ mp' \in GPages
          /\ \/ mp'.page = "away" /\ mp'.mount = mp.mount
             \/ mp'.mount = mp.mount + 1 /\ mp'.busy = NoMac
             \/ mp'.page = mp.page /\ mp'.mount = mp.mount /\ mp'.busy = mp.busy
      <3>1. CASE \E p \in {"devices", "groups"} : openPage(p)
        BY <1>0a, <3>1 DEF openPage, GPages
      <3>2. CASE leavePage
        BY <1>0, <3>2 DEF leavePage, GPages
      <3>3. CASE setWakeReady
        BY <1>0, <3>3 DEF setWakeReady, GPages
      <3> QED
        BY <1>8, <3>1, <3>2, <3>3
    <2>3. GLock(mp', mt)
      BY <1>0, <2>2 DEF GLock, GHolds
    <2> QED
      BY <1>0, <1>3, <2>1, <2>2, <2>3 DEF GInv
  (* An edit begins. *)
  <1>9. ASSUME NEW t \in MTask, NEW op \in GEdits, NEW pc \in {"fetch", "post"}, NEW d \in MDevice,
               NEW g \in SUBSET MTag, NEW tags \in SUBSET MTag, mp.page # "away", MStart(t, op, pc, d, g, tags)
        PROVE  GInv'
    <2> DEFINE n == [mp EXCEPT !.busy = d, !.edits = @ + 1]
               r == [pc |-> pc, op |-> op, mount |-> mp.mount, mac |-> d, tag |-> g, tags |-> tags, ans |-> "none"]
    <2>1. /\ mt[t].pc = "idle" /\ mp.busy = NoMac /\ mp' = n /\ mt' = [mt EXCEPT ![t] = r]
          /\ UNCHANGED <<mBox, mPast, mList>>
      BY <1>9 DEF MStart, MFree
    <2>2. n \in GPages /\ n.page = mp.page /\ n.mount = mp.mount /\ n.busy = d
      BY <1>0a DEF GPages
    <2>3. /\ r.pc = pc /\ r.op = op /\ r.mount = mp.mount /\ r.mac = d /\ r.tags = tags
          /\ r.ans = "none"
      OBVIOUS
    <2>4. r \in GRequests
      BY <1>0 DEF GRequests
    <2> HIDE DEF n, r
    <2>5. op # "none" /\ op # "poll"
      BY DEF GEdits, GWrites
    <2>6. GSound(r, mPast)
      BY <2>3, <2>5 DEF GSound
    <2>7. \A u \in MTask : ~GHolds(mp, mt[u])
      <3>1. \A u \in MTask : GHolds(mp, mt[u]) => mt[u].mac = mp.busy /\ mt[u].mac \in MDevice
        BY <1>0 DEF GLock, GHolds, GSound
      <3> QED
        BY <2>1, <3>1, MDeviceAssumption
    <2>8. GHolds(mp, r) /\ r.mount <= mp.mount
      BY <1>0, <1>9, <2>3 DEF GHolds
    <2>9. GLock(n, [mt EXCEPT ![t] = r])
      BY <1>0, <2>1, <2>2, <2>3, <2>4, <2>7, <2>8, GLockStep
    <2> QED
      BY <1>1, <1>3, <2>1, <2>2, <2>4, <2>6, <2>9
  <1>10. ASSUME NEW t \in MTask, NEW d \in MDevice,
                \/ wakeDevice(t, d) \/ togglePolicyFlag(t, d) \/ setDeviceGroup(t, d)
                \/ \E g \in MTag : assign(t, d, g) \/ unassign(t, d, g)
         PROVE  GInv'
    <2>1. mp.page # "away"
      BY <1>10 DEF wakeDevice, togglePolicyFlag, setDeviceGroup, assign, unassign
    <2>2. mList[d] \in SUBSET MTag
      BY <1>0 DEF GTags
    <2>3. /\ "other" \in GEdits /\ "flag" \in GEdits /\ "add" \in GEdits /\ "remove" \in GEdits /\ "clear" \in GEdits
      BY DEF GEdits, GWrites
    <2>4. \E op \in GEdits, pc \in {"fetch", "post"}, g \in SUBSET MTag, tags \in SUBSET MTag :
             MStart(t, op, pc, d, g, tags)
      <3>1. CASE wakeDevice(t, d)
        BY <2>3, <3>1 DEF wakeDevice
      <3>2. CASE togglePolicyFlag(t, d)
        BY <2>3, <3>2 DEF togglePolicyFlag
      <3>3. CASE setDeviceGroup(t, d)
        BY <2>3, <3>3 DEF setDeviceGroup
      <3>4. ASSUME NEW g \in MTag, assign(t, d, g) \/ unassign(t, d, g)
            PROVE  \E op \in GEdits, pc \in {"fetch", "post"}, h \in SUBSET MTag, tags \in SUBSET MTag :
                      MStart(t, op, pc, d, h, tags)
        <4>1. {g} \in SUBSET MTag /\ hostTagsAdd(mList[d], {g}) \in SUBSET MTag /\ hostTagsRemove(mList[d], {g}) \in SUBSET MTag
          BY <2>2 DEF hostTagsAdd, hostTagsRemove
        <4> QED
          BY <2>3, <3>4, <4>1 DEF assign, unassign
      <3> QED
        BY <1>10, <3>1, <3>2, <3>3, <3>4
    <2> QED
      BY <1>9, <2>1, <2>4
  (* The answers. *)
  <1>11. \A t \in MTask : mt[t].pc \in {"fetch", "post"} =>
           mt[t].op \in GEdits /\ mt[t].mac \in MDevice /\ mt[t].tags \in SUBSET MTag
    BY <1>0 DEF GSound, GRequests
  <1>12. "none" \notin GEdits /\ "poll" \notin GEdits
    BY DEF GEdits, GWrites
  <1>13. ASSUME NEW t \in MTask, ServePolicy(t) PROVE GInv'
    <2>1. mt[t].pc = "fetch" /\ UNCHANGED <<mBox, mPast, mList, mp>>
      BY <1>13 DEF ServePolicy
    <2>2. mBox[mt[t].mac] \in SUBSET MTag /\ mt[t].op \in GEdits
      BY <1>0, <1>11, <2>1 DEF GTags
    <2>3. PICK r : /\ r \in {[mt[t] EXCEPT !.ans = "ok", !.tags = mBox[mt[t].mac]], [mt[t] EXCEPT !.ans = "fail"]}
                   /\ mt' = [mt EXCEPT ![t] = r]
      BY <1>13 DEF ServePolicy
    <2>4. /\ r \in GRequests /\ r.pc = "fetch" /\ r.op = mt[t].op /\ r.mount = mt[t].mount /\ r.mac = mt[t].mac
          /\ r.tags \in SUBSET MTag
      BY <1>0, <1>11, <2>1, <2>2, <2>3 DEF GRequests
    <2>5. GSound(r, mPast)
      BY <1>11, <1>12, <2>1, <2>2, <2>4 DEF GSound
    <2>6. GLock(mp, [mt EXCEPT ![t] = r])
      BY <1>2, <2>4
    <2> QED
      BY <1>0, <1>1, <1>3, <2>1, <2>3, <2>4, <2>5, <2>6
  <1>14. ASSUME NEW t \in MTask, mt[t].op \in GEdits, MRelease(t), UNCHANGED <<mBox, mPast>>,
                mList' \in GTags, \A d \in MDevice : mList'[d] \in mPast[d]
         PROVE  GInv'
    <2>1. mt' = [mt EXCEPT ![t] = MIdle] /\ mp' = IF mt[t].mount = mp.mount THEN [mp EXCEPT !.busy = NoMac] ELSE mp
      BY <1>14 DEF MRelease
    <2>2. /\ mp' \in GPages /\ mp'.page = mp.page /\ mp'.mount = mp.mount
          /\ mp'.busy = IF mt[t].mount = mp.mount THEN NoMac ELSE mp.busy
      BY <1>0, <2>1 DEF GPages
    <2>3. GHolds(mp, mt[t]) <=> mp.page # "away" /\ mt[t].mount = mp.mount
      BY <1>14 DEF GHolds
    <2>4. ~GHolds(mp, MIdle)
      BY MIdleType DEF GHolds
    <2>5. GLock(mp', [mt EXCEPT ![t] = MIdle])
      BY <1>0, <2>2, <2>3, <2>4, MIdleType, GLockStep
    <2>6. GData(mBox, mPast, mList')
      BY <1>0, <1>14 DEF GData
    <2> QED
      BY <1>1, <1>14, <2>1, <2>2, <2>5, <2>6, MIdleType
  <1>15. ASSUME NEW t \in MTask, fetchHostPolicy(t) PROVE GInv'
    <2>1. mt[t].pc = "fetch" /\ mt[t].op \in GEdits /\ UNCHANGED <<mBox, mPast, mList>>
      BY <1>11, <1>15 DEF fetchHostPolicy
    <2>2. CASE MRelease(t)
      BY <1>0, <1>14, <2>1, <2>2
    <2>3. CASE /\ mt' = [mt EXCEPT ![t] = [mt[t] EXCEPT !.pc = "post", !.ans = "none",
                              !.tags = IF mt[t].op = "add" THEN hostTagsAdd(mt[t].tags, mt[t].tag) ELSE {}]]
               /\ UNCHANGED mp
      <3> DEFINE g == IF mt[t].op = "add" THEN hostTagsAdd(mt[t].tags, mt[t].tag) ELSE {}
                 r == [mt[t] EXCEPT !.pc = "post", !.ans = "none", !.tags = g]
      <3>1. g \in SUBSET MTag
        BY <1>0, <1>11, <2>1 DEF hostTagsAdd, GRequests
      <3> HIDE DEF g
      <3>2. /\ r \in GRequests /\ r.pc = "post" /\ r.ans = "none" /\ r.op = mt[t].op /\ r.mount = mt[t].mount
            /\ r.mac = mt[t].mac /\ r.tags = g
        BY <1>0, <3>1 DEF GRequests
      <3> HIDE DEF r
      <3>3. GSound(r, mPast)
        BY <1>11, <1>12, <2>1, <3>1, <3>2 DEF GSound
      <3>4. GLock(mp, [mt EXCEPT ![t] = r])
        BY <1>2, <3>2
      <3>5. mt' = [mt EXCEPT ![t] = r]
        BY <2>3 DEF r, g
      <3> QED
        BY <1>0, <1>1, <1>3, <2>1, <2>3, <3>2, <3>3, <3>4, <3>5
    <2> QED
      BY <1>15, <2>2, <2>3 DEF fetchHostPolicy
  (* The boxes take an edit: the groups a device had stay known. *)
  <1>16. ASSUME NEW t \in MTask, postHostPolicy(t) PROVE GInv'
    <2> DEFINE m == mt[t].mac
               now == IF mt[t].op \in {"add", "remove", "clear"} THEN [mBox EXCEPT ![m] = mt[t].tags] ELSE mBox
    <2>1. mt[t].pc = "post" /\ mt[t].op \in GEdits /\ m \in MDevice /\ mt[t].tags \in SUBSET MTag /\ mList' = mList /\ mp' = mp
      BY <1>11, <1>16 DEF postHostPolicy
    <2>2. PICK a \in {"ok", "fail"}, b \in {mBox, now} :
            /\ a = "ok" => b = now
            /\ mBox' = b
            /\ mPast' = [d \in MDevice |-> mPast[d] \cup {b[d]}]
            /\ mt' = [mt EXCEPT ![t] = [mt[t] EXCEPT !.ans = a]]
      BY <1>16 DEF postHostPolicy
    <2>3. now \in GTags /\ (mt[t].op \in GWrites => now[m] = mt[t].tags)
      BY <1>0, <2>1 DEF GTags, GWrites
    <2> HIDE DEF now
    <2>4. b \in GTags
      BY <1>0, <2>2, <2>3
    <2>5. \A d \in MDevice : b[d] \in SUBSET MTag
      BY <2>4 DEF GTags
    <2>6. /\ mPast' \in [MDevice -> SUBSET SUBSET MTag]
          /\ \A d \in MDevice : mPast[d] \subseteq mPast'[d] /\ b[d] \in mPast'[d]
      BY <1>0, <2>2, <2>5
    <2>7. GData(mBox', mPast', mList')
      BY <1>0, <2>1, <2>2, <2>4, <2>6 DEF GData
    <2> DEFINE r == [mt[t] EXCEPT !.ans = a]
    <2>8. /\ r \in GRequests /\ r.pc = "post" /\ r.ans = a /\ r.op = mt[t].op /\ r.mount = mt[t].mount
          /\ r.mac = m /\ r.tags = mt[t].tags
      BY <1>0, <2>1 DEF GRequests
    <2> HIDE DEF r
    <2>9. GSound(r, mPast')
      BY <1>12, <2>1, <2>2, <2>3, <2>6, <2>8 DEF GSound
    <2>10. GCalls([mt EXCEPT ![t] = r], mPast')
      BY <1>0, <2>6, <2>8, <2>9, GCallStep
    <2>11. GLock(mp, [mt EXCEPT ![t] = r])
      BY <1>2, <2>8
    <2> QED
      BY <1>0, <2>1, <2>2, <2>7, <2>10, <2>11 DEF GInv, r
  <1>17. ASSUME NEW t \in MTask, onGroupUpdated(t) PROVE GInv'
    <2>1. /\ mt[t].pc = "post" /\ mt[t].op \in GEdits /\ mt[t].mac \in MDevice /\ mt[t].tags \in SUBSET MTag
          /\ MRelease(t) /\ UNCHANGED <<mBox, mPast>>
          /\ mList' = IF mt[t].op \in GWrites /\ mt[t].ans = "ok" THEN [mList EXCEPT ![mt[t].mac] = mt[t].tags] ELSE mList
      BY <1>11, <1>17 DEF onGroupUpdated, patchDeviceTags, GWrites
    <2>2. mt[t].op \in GWrites /\ mt[t].ans = "ok" => mt[t].tags \in mPast[mt[t].mac]
      BY <1>0, <2>1 DEF GSound
    <2>3. mList' \in GTags /\ \A d \in MDevice : mList'[d] \in mPast[d]
      BY <1>0, <2>1, <2>2 DEF GTags
    <2> QED
      BY <1>14, <2>1, <2>3
  <1>18. ASSUME NEW d \in MDevice, NEW g \in MTag, OtherClient(d, g) PROVE GInv'
    <2> DEFINE v == IF g \in mBox[d] THEN mBox[d] \ {g} ELSE mBox[d] \cup {g}
    <2>1. /\ mBox' = [mBox EXCEPT ![d] = v] /\ mPast' = [mPast EXCEPT ![d] = mPast[d] \cup {mBox'[d]}]
          /\ mp' = [mp EXCEPT !.edits = mp.edits + 1] /\ UNCHANGED <<mList, mt>>
      BY <1>18 DEF OtherClient
    <2>2. v \in SUBSET MTag
      BY <1>0 DEF GTags
    <2> HIDE DEF v
    <2>3. mBox' \in GTags /\ mBox'[d] = v /\ \A e \in MDevice \ {d} : mBox'[e] = mBox[e]
      BY <1>0, <2>1, <2>2 DEF GTags
    <2>4. /\ mPast' \in [MDevice -> SUBSET SUBSET MTag] /\ \A e \in MDevice : mPast[e] \subseteq mPast'[e]
          /\ v \in mPast'[d]
      BY <1>0, <2>1, <2>2, <2>3
    <2>5. GData(mBox', mPast', mList')
      BY <1>0, <2>1, <2>3, <2>4 DEF GData
    <2>6. mp' \in GPages /\ mp'.page = mp.page /\ mp'.mount = mp.mount /\ mp'.busy = mp.busy
      BY <1>0, <2>1 DEF GPages
    <2>7. GLock(mp', mt)
      BY <1>0, <2>6 DEF GLock, GHolds
    <2>8. \A t \in MTask : GSound(mt[t], mPast')
      <3> TAKE t \in MTask
      <3>1. GSound(mt[t], mPast) /\ (mt[t].op \in GWrites => mt[t].mac \in MDevice)
        BY <1>0 DEF GSound, GEdits
      <3> QED
        BY <2>4, <3>1 DEF GSound
    <2> QED
      BY <1>0, <2>1, <2>5, <2>6, <2>7, <2>8 DEF GInv, GCalls
  <1>19. CASE UNCHANGED membVars
    BY <1>19 DEF membVars, GInv
  <1> QED
    BY <1>4, <1>6, <1>7, <1>8, <1>10, <1>13, <1>15, <1>16, <1>17, <1>18, <1>19 DEF MembNext, MembReply

(* The device table and the groups page are locked exactly while one call  *)
(* of their own is under way, by the device it is about.                   *)
THEOREM RowLockHeldHolds == MembSpec => []RowLockHeld
  <1>1. GInv => RowLockHeld
    <2> SUFFICES ASSUME GInv, mp.page # "away"
                 PROVE  LET own == {t \in MTask : mt[t].op \notin {"none", "poll"} /\ mt[t].mount = mp.mount}
                        IN IF mp.busy = NoMac THEN own = {}
                           ELSE Cardinality(own) = 1 /\ \A t \in own : mt[t].mac = mp.busy
      BY DEF RowLockHeld
    <2> DEFINE own == {t \in MTask : mt[t].op \notin {"none", "poll"} /\ mt[t].mount = mp.mount}
    <2>1. \A t \in MTask : t \in own <=> GHolds(mp, mt[t])
      BY DEF GInv, GCalls, GRequests, GHolds, GEdits, GWrites
    <2>2. \A t \in own : mt[t].mac = mp.busy /\ mt[t].mac \in MDevice
      BY <2>1 DEF GInv, GLock, GCalls, GSound, GHolds
    <2>3. (\A t, u \in own : t = u) /\ (mp.busy # NoMac => own # {})
      BY <2>1 DEF GInv, GLock
    <2> HIDE DEF own
    <2>4. mp.busy # NoMac => Cardinality(own) = 1
      BY <2>3, NoneOrOne
    <2>5. mp.busy = NoMac => own = {}
      BY <2>2, MDeviceAssumption
    <2> QED
      BY <2>2, <2>4, <2>5 DEF own
  <1> QED
    BY <1>1, MembInitInv, MembStepInv, PTL DEF MembSpec

(* The list of devices shows groups the device had on the box, whatever    *)
(* polls overlap and whatever answers are lost.                            *)
THEOREM ShownWasTrueHolds == MembSpec => []ShownWasTrue
  <1>1. GInv => ShownWasTrue
    BY DEF GInv, GData, ShownWasTrue
  <1> QED
    BY <1>1, MembInitInv, MembStepInv, PTL DEF MembSpec

-----------------------------------------------------------------------------
(* The rules page *)

RWriters == {"pause", "delete", "create", "emergency"}
RLoadPcs == {"status1", "rules", "refresh", "status2"}

(* The page and a call; what the proofs do not look into has any value. *)
RPages(m) == m \in [open: BOOLEAN, mount: Nat, status: {m.status}, loaded: BOOLEAN, data: {m.data}, busy: BOOLEAN,
                    scopeId: {m.scopeId}, sheet: {m.sheet}, selected: {m.selected}, forms: Nat, form: Nat,
                    working: BOOLEAN, on: {m.on}, anon: {m.anon}]
RRequest(r) == r \in [pc: {"idle", "write"} \cup RLoadPcs, op: {"none", "load", "sync"} \cup RWriters, mount: Nat,
                      form: Nat, job: {r.job}, ans: {"none", "ok", "fail"}, view: {r.view}]

RSound(r) ==
    /\ RRequest(r)
    /\ r.pc = "idle" <=> r.op = "none"
    /\ r.pc = "write" => r.op \in RWriters
    /\ r.op \notin RWriters => r.form = 0

RScoped(m) == m.scopeId # NoScope => m.scopeId \in scopes(m)
RShown(m) == RPages(m) /\ RScoped(m) /\ m.form <= m.forms /\ (m.form # 0 => m.loaded)
RLoads(m, r) == r.mount = m.mount /\ r.pc \in RLoadPcs
RCallsOf(q) == q = [t \in RTask |-> q[t]] /\ \A t \in RTask : RSound(q[t])
RForms(m, q) ==
    /\ \A t \in RTask : q[t].op \in RWriters => /\ q[t].form # 0 /\ q[t].form <= m.forms
                                                /\ q[t].form = m.form => m.working
    /\ \A t, u \in RTask : q[t].op \in RWriters /\ q[u].op \in RWriters /\ q[t].form = q[u].form => t = u

RGood(m, q) ==
    /\ RShown(m) /\ RCallsOf(q) /\ RForms(m, q)
    /\ m.busy => m.open /\ \E t \in RTask : RLoads(m, q[t])
RuInv == RGood(ru, rt)

LEMMA RIdleSound == RSound(RIdle) /\ RIdle.op = "none" /\ RIdle.pc = "idle" /\ "none" \notin RWriters
  <1>1. RRequest(RIdle) /\ RIdle.pc = "idle" /\ RIdle.op = "none" /\ RIdle.form = 0
    BY DEF RIdle, RRequest
  <1> QED
    BY <1>1 DEF RSound, RWriters

(* What follows every change: a scope the rules have, a sheet that is      *)
(* fresh when it is not the one before.                                    *)
LEMMA RSettleOf ==
    ASSUME NEW s, RPages(s), s.form <= s.forms
    PROVE  LET n == RSettle(s) IN
           /\ RShown(n) /\ n.open = s.open /\ n.mount = s.mount /\ n.busy = s.busy
           /\ \/ n.form = s.form /\ n.forms = s.forms /\ n.working = s.working
              \/ n.form = 0 /\ n.forms = s.forms
              \/ n.form = s.forms + 1 /\ n.forms = s.forms + 1
  <1> DEFINE a == IF s.scopeId \in scopes(s) THEN s ELSE [s EXCEPT !.scopeId = NoScope]
             wants == RVisible(a) /\ (a.sheet # "none" \/ a.selected # NoRule)
             n == RSettle(s)
             o == defaultOn(a)
  <1>0. s.forms \in Nat /\ s.form \in Nat /\ s.forms + 1 \in Nat
    BY DEF RPages
  <1>1. /\ RPages(a) /\ a.open = s.open /\ a.mount = s.mount /\ a.busy = s.busy /\ a.form = s.form /\ a.forms = s.forms
        /\ a.working = s.working /\ a.loaded = s.loaded /\ a.data = s.data /\ a.anon = s.anon
        /\ a.scopeId = NoScope \/ (a.scopeId = s.scopeId /\ s.scopeId \in scopes(s))
    BY DEF RPages
  <1>2. n = IF wants /\ a.form = 0
            THEN [a EXCEPT !.forms = a.forms + 1, !.form = a.forms + 1, !.working = FALSE, !.on = o]
            ELSE IF wants THEN a ELSE [a EXCEPT !.form = 0, !.working = FALSE, !.on = AllScope]
    BY DEF RSettle
  <1>3. wants => a.loaded
    BY DEF RVisible
  <1> HIDE DEF a, wants, o, n
  <1>4. /\ RPages(n) /\ n.open = s.open /\ n.mount = s.mount /\ n.busy = s.busy
        /\ n.data = s.data /\ n.anon = s.anon /\ n.scopeId = a.scopeId /\ n.loaded = a.loaded
        /\ \/ n.form = s.form /\ n.forms = s.forms /\ n.working = s.working /\ wants
           \/ n.form = 0 /\ n.forms = s.forms
           \/ n.form = s.forms + 1 /\ n.forms = s.forms + 1 /\ wants
    <2>1. CASE wants /\ a.form = 0
      <3>1. n = [a EXCEPT !.forms = s.forms + 1, !.form = s.forms + 1, !.working = FALSE, !.on = o]
        BY <1>1, <1>2, <2>1
      <3> QED
        BY <1>0, <1>1, <2>1, <3>1 DEF RPages
    <2>2. CASE wants /\ a.form # 0
      BY <1>1, <1>2, <2>2 DEF RPages
    <2>3. CASE ~wants
      <3>1. n = [a EXCEPT !.form = 0, !.working = FALSE, !.on = AllScope]
        BY <1>2, <2>3
      <3> QED
        BY <1>0, <1>1, <3>1 DEF RPages
    <2> QED
      BY <2>1, <2>2, <2>3
  <1>5. scopes(n) = scopes(s)
    BY <1>4 DEF scopes, show
  <1>6. RScoped(n)
    BY <1>1, <1>4, <1>5 DEF RScoped
  <1>7. n.form <= n.forms /\ (n.form # 0 => n.loaded)
    BY <1>0, <1>3, <1>4
  <1> QED
    BY <1>4, <1>6, <1>7 DEF RShown, n

(* The page changes, no call does. *)
LEMMA RGoodPage ==
    ASSUME NEW m, NEW n, NEW q, RGood(m, q), RShown(n),
           n.busy => m.busy /\ n.mount = m.mount /\ n.open,
           \/ n.form = m.form /\ n.forms = m.forms /\ (m.working => n.working)
           \/ n.form = 0 /\ n.forms = m.forms
           \/ n.form = m.forms + 1 /\ n.forms = m.forms + 1
    PROVE  RGood(n, q)
  <1>1. m.forms \in Nat /\ \A t \in RTask : q[t].form \in Nat
    BY DEF RGood, RShown, RPages, RCallsOf, RSound, RRequest
  <1>2. RForms(n, q)
    BY <1>1 DEF RForms, RGood
  <1> QED
    BY <1>2 DEF RGood, RLoads

(* One call changes, and the page with it. *)
LEMMA RGoodStep ==
    ASSUME NEW m, NEW n, NEW q, NEW t \in RTask, NEW r, RGood(m, q), RShown(n), RSound(r),
           n.busy => /\ n.open
                     /\ RLoads(n, r) \/ (m.busy /\ n.mount = m.mount /\ (RLoads(m, q[t]) => RLoads(m, r))),
           \/ n.form = m.form /\ n.forms = m.forms
           \/ n.form = 0 /\ n.forms = m.forms
           \/ n.form = m.forms + 1 /\ n.forms = m.forms + 1,
           \/ r.op \notin RWriters
           \/ r.op \in RWriters /\ q[t].op \in RWriters /\ r.form = q[t].form
           \/ r.op \in RWriters /\ r.form # 0 /\ r.form = m.form /\ n.form = m.form /\ ~m.working /\ n.working,
           n.form = m.form /\ n.form # 0 /\ m.working /\ ~n.working => q[t].form = m.form /\ r.op \notin RWriters
    PROVE  RGood(n, [q EXCEPT ![t] = r])
  <1> DEFINE p == [q EXCEPT ![t] = r]
  <1>0. /\ RCallsOf(q) /\ RForms(m, q) /\ q = [u \in RTask |-> q[u]]
        /\ m.forms \in Nat /\ m.form \in Nat /\ m.form <= m.forms /\ \A u \in RTask : q[u].form \in Nat
    BY DEF RGood, RShown, RPages, RCallsOf, RSound, RRequest
  <1>1. p = [u \in RTask |-> p[u]] /\ p[t] = r /\ \A u \in RTask : u # t => p[u] = q[u]
    BY <1>0
  <1> HIDE DEF p
  <1>2. RCallsOf(p)
    BY <1>0, <1>1 DEF RCallsOf
  <1>3. \A u \in RTask : q[u].op \in RWriters => q[u].form <= m.forms /\ q[u].form # 0 /\ (q[u].form = m.form => m.working)
    BY <1>0 DEF RForms
  <1>4. \A u, v \in RTask : q[u].op \in RWriters /\ q[v].op \in RWriters /\ q[u].form = q[v].form => u = v
    BY <1>0 DEF RForms
  <1>5. \A u \in RTask : q[u].op \notin RWriters => q[u].form = 0
    BY <1>0 DEF RCallsOf, RSound
  <1>6. \A u \in RTask : p[u].op \in RWriters => p[u].form # 0 /\ p[u].form <= n.forms
    BY <1>0, <1>1, <1>3
  <1>7. \A u \in RTask : p[u].op \in RWriters /\ p[u].form = n.form => n.working
    <2> SUFFICES ASSUME NEW u \in RTask, p[u].op \in RWriters, p[u].form = n.form, ~n.working PROVE FALSE
      OBVIOUS
    <2>1. p[u].form # 0
      BY <1>6
    <2>2. q[u].op \in RWriters /\ q[u].form = n.form
      BY <1>1
    <2>3. n.form = m.form /\ m.working
      BY <1>0, <1>3, <2>1, <2>2
    <2>4. q[t].form = m.form /\ r.op \notin RWriters
      BY <2>1, <2>3
    <2>5. u # t
      BY <1>1, <2>4
    <2> QED
      BY <1>4, <1>5, <2>1, <2>2, <2>3, <2>4, <2>5
  <1>8. \A u, v \in RTask : p[u].op \in RWriters /\ p[v].op \in RWriters /\ p[u].form = p[v].form => u = v
    BY <1>1, <1>3, <1>4
  <1>9. RForms(n, p)
    BY <1>6, <1>7, <1>8 DEF RForms
  <1>10. n.busy => n.open /\ \E u \in RTask : RLoads(n, p[u])
    BY <1>1 DEF RGood, RLoads
  <1> QED
    BY <1>2, <1>9, <1>10 DEF RGood, p

LEMMA RulesInitInv == RulesInit => RuInv
  <1> SUFFICES ASSUME RulesInit PROVE RuInv
    OBVIOUS
  <1>1. RShown(ru) /\ ~ru.busy
    BY DEF RulesInit, RClosed, RShown, RPages, RScoped
  <1>2. RCallsOf(rt) /\ \A t \in RTask : rt[t].op \notin RWriters
    BY RIdleSound DEF RulesInit, RCallsOf
  <1> QED
    BY <1>1, <1>2 DEF RuInv, RGood, RForms

LEMMA RulesStepInv == RuInv /\ [RulesNext]_rulesVars => RuInv'
  <1> SUFFICES ASSUME RuInv, [RulesNext]_rulesVars PROVE RuInv'
    OBVIOUS
  <1>0. /\ RGood(ru, rt) /\ RShown(ru) /\ RPages(ru) /\ ru.form <= ru.forms /\ ru.form \in Nat /\ ru.forms \in Nat
        /\ ru.mount \in Nat /\ ru.mount + 1 \in Nat
        /\ \A t \in RTask : RSound(rt[t]) /\ RRequest(rt[t]) /\ (rt[t].op \in RWriters => rt[t].form # 0)
    BY DEF RuInv, RGood, RShown, RPages, RCallsOf, RSound, RForms
  <1>1. RIdle.op \notin RWriters
    BY RIdleSound
  (* A change of the page that keeps its sheet and whether it loads. *)
  <1>2. ASSUME NEW s, RPages(s), s.open = ru.open, s.mount = ru.mount, s.busy = ru.busy, s.form = ru.form,
               s.forms = ru.forms, s.working = ru.working, RPage(s)
        PROVE  RuInv'
    <2> DEFINE n == RSettle(s)
    <2>1. ru' = n /\ rt' = rt
      BY <1>2 DEF RPage
    <2>2. /\ RShown(n) /\ n.open = ru.open /\ n.mount = ru.mount /\ n.busy = ru.busy
          /\ \/ n.form = ru.form /\ n.forms = ru.forms /\ n.working = ru.working
             \/ n.form = 0 /\ n.forms = ru.forms
             \/ n.form = ru.forms + 1 /\ n.forms = ru.forms + 1
      BY <1>0, <1>2, RSettleOf
    <2> HIDE DEF n
    <2>3. n.busy => n.open
      BY <1>0, <2>2 DEF RGood
    <2>4. RGood(n, rt)
      BY <1>0, <2>2, <2>3, RGoodPage
    <2> QED
      BY <2>1, <2>4 DEF RuInv
  <1>3. CASE \/ \E s \in scopes(ru) : openScope(s)
             \/ \E r \in show(ru) : setSelectedRule(r)
             \/ \E k \in {"add", "emergency", "exceptions"} : setSheet(k)
             \/ backToScopes \/ onClose \/ setAnonOn
    <2>1. PICK s : RPage(s) /\ \/ \E c : s = [ru EXCEPT !.scopeId = c]
                               \/ \E r : s = [ru EXCEPT !.selected = r]
                               \/ \E k : s = [ru EXCEPT !.sheet = k]
                               \/ s = [ru EXCEPT !.sheet = "none", !.selected = NoRule]
                               \/ \E a : s = [ru EXCEPT !.anon = a]
      BY <1>3 DEF openScope, setSelectedRule, setSheet, backToScopes, onClose, setAnonOn
    <2>2. /\ RPages(s) /\ s.open = ru.open /\ s.mount = ru.mount /\ s.busy = ru.busy /\ s.form = ru.form
          /\ s.forms = ru.forms /\ s.working = ru.working
      BY <1>0, <2>1 DEF RPages
    <2> QED
      BY <1>2, <2>1, <2>2
  <1>4. CASE setOn
    <2>1. PICK c : ru' = [ru EXCEPT !.on = c] /\ rt' = rt
      BY <1>4 DEF setOn
    <2>2. /\ RPages(ru') /\ ru'.open = ru.open /\ ru'.mount = ru.mount /\ ru'.busy = ru.busy /\ ru'.form = ru.form
          /\ ru'.forms = ru.forms /\ ru'.working = ru.working /\ ru'.loaded = ru.loaded
          /\ ru'.data = ru.data /\ ru'.anon = ru.anon /\ ru'.scopeId = ru.scopeId
      BY <1>0, <2>1 DEF RPages
    <2>3. scopes(ru') = scopes(ru)
      BY <2>2 DEF scopes, show
    <2>4. RShown(ru')
      BY <1>0, <2>2, <2>3 DEF RShown, RScoped
    <2>5. ru'.busy => ru'.open
      BY <1>0, <2>2 DEF RGood
    <2>6. RGood(ru', rt)
      BY <1>0, <2>2, <2>4, <2>5, RGoodPage
    <2> QED
      BY <2>1, <2>6 DEF RuInv
  (* Entering and leaving. *)
  <1>5. /\ RPages(RClosed) /\ RClosed.form = 0 /\ RClosed.scopeId = NoScope /\ RClosed.busy = FALSE
    BY DEF RClosed, RPages
  <1>6. CASE leaveRules
    <2>1. /\ rt' = rt /\ ru' = [RClosed EXCEPT !.mount = ru.mount, !.anon = ru.anon, !.forms = ru.forms]
      BY <1>6 DEF leaveRules
    <2>3. /\ RPages(ru') /\ ru'.busy = FALSE /\ ru'.form = 0 /\ ru'.forms = ru.forms /\ ru'.scopeId = NoScope
      BY <1>0, <1>5, <2>1 DEF RPages
    <2>4. RShown(ru')
      BY <1>0, <2>3 DEF RShown, RScoped
    <2>5. RGood(ru', rt)
      BY <1>0, <2>3, <2>4, RGoodPage
    <2> QED
      BY <2>1, <2>5 DEF RuInv
  <1>7. ASSUME NEW t \in RTask, enterRules(t) PROVE RuInv'
    <2> DEFINE r == [RIdle EXCEPT !.pc = "status1", !.op = "load", !.mount = ru.mount + 1]
    <2>1. /\ ru' = [RClosed EXCEPT !.open = TRUE, !.mount = ru.mount + 1, !.busy = TRUE, !.anon = ru.anon, !.forms = ru.forms]
          /\ rt' = [rt EXCEPT ![t] = r] /\ rt[t].pc = "idle"
      BY <1>7 DEF enterRules, RFree
    <2>2. RShown(ru') /\ ru'.open /\ ru'.mount = ru.mount + 1 /\ ru'.form = 0 /\ ru'.forms = ru.forms
      <3>1. /\ RPages(ru') /\ ru'.open /\ ru'.mount = ru.mount + 1 /\ ru'.form = 0 /\ ru'.forms = ru.forms
            /\ ru'.scopeId = NoScope
        BY <1>0, <1>5, <2>1 DEF RPages
      <3> QED
        BY <1>0, <3>1 DEF RShown, RScoped
    <2>3. "status1" \in RLoadPcs /\ "load" \notin RWriters /\ RRequest(RIdle) /\ RIdle.form = 0
      BY RIdleSound DEF RLoadPcs, RWriters, RSound, RIdle
    <2>4. RRequest(r) /\ r.pc = "status1" /\ r.op = "load" /\ r.mount = ru.mount + 1 /\ r.form = 0
      BY <1>0, <2>3 DEF RRequest
    <2> HIDE DEF r
    <2>5. RSound(r) /\ RLoads(ru', r)
      BY <2>2, <2>3, <2>4 DEF RSound, RLoads
    <2>6. rt[t].op = "none" /\ rt[t].form = 0
      BY <1>0, <2>1, RIdleSound DEF RSound
    <2>7. ru'.form = ru.form /\ ru.working /\ ~ru'.working => rt[t].form = ru.form
      BY <2>2, <2>6
    <2>8. RGood(ru', [rt EXCEPT ![t] = r])
      <3>1. r.op \notin RWriters
        BY <2>3, <2>4
      <3> QED
        BY <1>0, <2>2, <2>5, <2>7, <3>1, RGoodStep
    <2> QED
      BY <2>1, <2>8 DEF RuInv
  (* A call goes on or ends, and the page changes if it is still there. *)
  <1>8. ASSUME NEW t \in RTask, NEW r, NEW s, RSound(r), RPages(s),
               r.op = "none" \/ (r.op = rt[t].op /\ r.form = rt[t].form /\ r.mount = rt[t].mount),
               rt[t].pc \in RLoadPcs /\ r.op # "none" => r.pc \in RLoadPcs,
               s.open = ru.open, s.mount = ru.mount, s.form = ru.form, s.forms = ru.forms,
               s.busy => r.pc \in RLoadPcs \/ (ru.busy /\ rt[t].pc \notin RLoadPcs),
               s.working = ru.working \/ (rt[t].form = ru.form /\ r.op = "none"),
               RApply(t, s), rt' = [rt EXCEPT ![t] = r]
        PROVE  RuInv'
    <2>1. r.op \in RWriters => rt[t].op \in RWriters /\ r.form = rt[t].form
      BY <1>8, RIdleSound
    <2>2. r.op = "none" => r.pc = "idle" /\ r.op \notin RWriters
      BY <1>8, RIdleSound DEF RSound
    <2>3. "idle" \notin RLoadPcs
      BY DEF RLoadPcs
    <2>4. CASE ru.open /\ rt[t].mount = ru.mount
      <3> DEFINE n == RSettle(s)
      <3>1. ru' = n
        BY <1>8, <2>4 DEF RApply
      <3>2. /\ RShown(n) /\ n.open = ru.open /\ n.mount = ru.mount /\ n.busy = s.busy
            /\ \/ n.form = ru.form /\ n.forms = ru.forms /\ n.working = s.working
               \/ n.form = 0 /\ n.forms = ru.forms
               \/ n.form = ru.forms + 1 /\ n.forms = ru.forms + 1
        BY <1>0, <1>8, RSettleOf
      <3> HIDE DEF n
      <3>3. n.busy => n.open /\ (RLoads(n, r) \/ (ru.busy /\ n.mount = ru.mount /\ (RLoads(ru, rt[t]) => RLoads(ru, r))))
        BY <1>8, <2>2, <2>3, <2>4, <3>2 DEF RLoads
      <3>4. \/ n.form = ru.form /\ n.working = s.working
            \/ n.form = 0 /\ ru.form = 0
            \/ n.form # ru.form
        BY <1>0, <3>2
      <3>5. RGood(n, [rt EXCEPT ![t] = r])
        <4>1. CASE n.form = ru.form /\ n.working = s.working
          <5>1. n.form = ru.form /\ ru.working /\ ~n.working => rt[t].form = ru.form /\ r.op \notin RWriters
            BY <1>8, <2>2, <4>1
          <5>2. n.forms = ru.forms
            BY <1>0, <3>2, <4>1
          <5> QED
            BY <1>0, <1>8, <2>1, <3>2, <3>3, <4>1, <5>1, <5>2, RGoodStep
        <4>2. CASE n.form # ru.form
          BY <1>0, <1>8, <2>1, <3>2, <3>3, <4>2, RGoodStep
        <4>3. CASE n.form = 0 /\ ru.form = 0
          <5>1. n.forms = ru.forms
            BY <1>0, <3>2, <4>3
          <5> QED
            BY <1>0, <1>8, <2>1, <3>2, <3>3, <4>3, <5>1, RGoodStep
        <4> QED
          BY <3>4, <4>1, <4>2, <4>3
      <3> QED
        BY <1>8, <3>1, <3>5 DEF RuInv
    <2>5. CASE ~(ru.open /\ rt[t].mount = ru.mount)
      <3>1. ru' = ru
        BY <1>8, <2>5 DEF RApply
      <3>2. ru.busy => ru.open /\ ~RLoads(ru, rt[t])
        BY <1>0, <2>5 DEF RGood, RLoads
      <3>3. RGood(ru, [rt EXCEPT ![t] = r])
        BY <1>0, <1>8, <2>1, <3>2, RGoodStep
      <3> QED
        BY <1>8, <3>1, <3>3 DEF RuInv
    <2> QED
      BY <2>4, <2>5
  <1>9. \A pc \in RLoadPcs : pc # "idle" /\ pc # "write"
    BY DEF RLoadPcs
  (* load goes on: the call keeps its form and its page. *)
  <1>10. ASSUME NEW t \in RTask, NEW pc \in RLoadPcs, RGoto(t, pc), rt[t].op # "none"
         PROVE  \E r : /\ rt' = [rt EXCEPT ![t] = r] /\ RSound(r) /\ r.pc = pc /\ r.op = rt[t].op
                       /\ r.form = rt[t].form /\ r.mount = rt[t].mount
    <2> DEFINE j == IF rt[t].job.do = "create" THEN rt[t].job ELSE NoJob
               r == [rt[t] EXCEPT !.pc = pc, !.ans = "none", !.view = {}, !.job = j]
    <2>1. rt' = [rt EXCEPT ![t] = r]
      BY <1>10 DEF RGoto
    <2> HIDE DEF j
    <2>2. RRequest(r) /\ r.pc = pc /\ r.op = rt[t].op /\ r.form = rt[t].form /\ r.mount = rt[t].mount
      BY <1>0 DEF RRequest
    <2> HIDE DEF r
    <2>3. RSound(r)
      BY <1>0, <1>9, <1>10, <2>2 DEF RSound
    <2> QED
      BY <2>1, <2>2, <2>3
  (* load ends. *)
  <1>11. ASSUME NEW t \in RTask, NEW x, RPages(x), x.open = ru.open, x.mount = ru.mount, x.form = ru.form,
                x.forms = ru.forms, x.working = ru.working, RApply(t, afterLoad(t, x)), RFinish(t)
         PROVE  RuInv'
    <2> DEFINE y == [x EXCEPT !.busy = FALSE]
               b == RReleased(t, y)
               s == afterLoad(t, x)
    <2>1. /\ RPages(y) /\ y.open = ru.open /\ y.mount = ru.mount /\ y.form = ru.form /\ y.forms = ru.forms
          /\ y.working = ru.working /\ y.busy = FALSE
      BY <1>11 DEF RPages
    <2>2. b = IF rt[t].form = y.form THEN [y EXCEPT !.working = FALSE] ELSE y
      BY DEF RReleased
    <2>3. s = b \/ s = [b EXCEPT !.scopeId = rt[t].job.scope]
      BY DEF afterLoad
    <2> HIDE DEF y, b, s
    <2>4. /\ RPages(b) /\ b.open = ru.open /\ b.mount = ru.mount /\ b.form = ru.form /\ b.forms = ru.forms
          /\ b.working = ru.working \/ rt[t].form = ru.form
          /\ b.busy = FALSE
      BY <2>1, <2>2 DEF RPages
    <2>5. /\ RPages(s) /\ s.open = ru.open /\ s.mount = ru.mount /\ s.form = ru.form /\ s.forms = ru.forms
          /\ s.working = ru.working \/ rt[t].form = ru.form
          /\ s.busy = FALSE
      BY <2>3, <2>4 DEF RPages
    <2>6. RApply(t, s) /\ rt' = [rt EXCEPT ![t] = RIdle]
      BY <1>11 DEF s, RFinish
    <2> QED
      BY <1>8, <2>5, <2>6, RIdleSound
  <1>12. \A t \in RTask : rt[t].pc \in {"write"} \cup RLoadPcs => rt[t].op # "none"
    BY <1>0, <1>9 DEF RSound
  <1>13. RPages(RFailed(ru)) /\ \A x : RPages(x) =>
           /\ RPages(RFailed(x)) /\ RFailed(x).open = x.open /\ RFailed(x).mount = x.mount /\ RFailed(x).form = x.form
           /\ RFailed(x).forms = x.forms /\ RFailed(x).working = x.working
    BY <1>0 DEF RFailed, RPages
  <1>14. \A c : LET x == [ru EXCEPT !.status = c] IN
           /\ RPages(x) /\ x.open = ru.open /\ x.mount = ru.mount /\ x.form = ru.form
           /\ x.forms = ru.forms /\ x.working = ru.working /\ x.busy = ru.busy
    BY <1>0 DEF RPages
  <1>15. ASSUME NEW t \in RTask, StatusAnswer(t) PROVE RuInv'
    <2>1. rt[t].pc \in RLoadPcs /\ rt[t].op # "none"
      BY <1>12, <1>15 DEF StatusAnswer, RLoadPcs
    <2>2. CASE RApply(t, [ru EXCEPT !.status = "ok"]) /\ RGoto(t, "rules")
      <3>1. "rules" \in RLoadPcs
        BY DEF RLoadPcs
      <3>2. PICK r : /\ rt' = [rt EXCEPT ![t] = r] /\ RSound(r) /\ r.pc = "rules" /\ r.op = rt[t].op
                     /\ r.form = rt[t].form /\ r.mount = rt[t].mount
        BY <1>10, <2>1, <2>2, <3>1
      <3> DEFINE x == [ru EXCEPT !.status = "ok"]
      <3>3. /\ RPages(x) /\ x.open = ru.open /\ x.mount = ru.mount /\ x.form = ru.form
            /\ x.forms = ru.forms /\ x.working = ru.working /\ RApply(t, x)
        BY <1>14, <2>2
      <3> HIDE DEF x
      <3> QED
        BY <1>8, <2>1, <3>1, <3>2, <3>3
    <2>3. CASE RFinish(t) /\ \E c : \E s \in {ru, [ru EXCEPT !.status = c]} :
                 RApply(t, afterLoad(t, s)) \/ RApply(t, afterLoad(t, RFailed(s)))
      <3>0. PICK c : \E s \in {ru, [ru EXCEPT !.status = c]} :
                 RApply(t, afterLoad(t, s)) \/ RApply(t, afterLoad(t, RFailed(s)))
        BY <2>3
      <3>1. PICK s \in {ru, [ru EXCEPT !.status = c]} :
                 RApply(t, afterLoad(t, s)) \/ RApply(t, afterLoad(t, RFailed(s)))
        BY <3>0
      <3>2. /\ RPages(s) /\ s.open = ru.open /\ s.mount = ru.mount /\ s.form = ru.form
            /\ s.forms = ru.forms /\ s.working = ru.working
        BY <1>0, <1>14, <3>1
      <3>3. CASE RApply(t, afterLoad(t, s))
        BY <1>11, <2>3, <3>2, <3>3
      <3>4. CASE RApply(t, afterLoad(t, RFailed(s)))
        <4> DEFINE x == RFailed(s)
        <4>1. /\ RPages(x) /\ x.open = ru.open /\ x.mount = ru.mount /\ x.form = ru.form
              /\ x.forms = ru.forms /\ x.working = ru.working /\ RApply(t, afterLoad(t, x))
          BY <1>13, <3>2, <3>4
        <4> HIDE DEF x
        <4> QED
          BY <1>11, <2>3, <4>1
      <3> QED
        BY <3>1, <3>3, <3>4
    <2> QED
      BY <1>15, <2>2, <2>3 DEF StatusAnswer
  <1>16. ASSUME NEW t \in RTask, RulesAnswer(t) PROVE RuInv'
    <2>1. rt[t].pc \in RLoadPcs /\ rt[t].op # "none"
      BY <1>12, <1>16 DEF RulesAnswer, RLoadPcs
    <2>2. CASE RApply(t, [ru EXCEPT !.loaded = TRUE, !.data = rt[t].view]) /\ RGoto(t, "status2")
      <3>1. "status2" \in RLoadPcs
        BY DEF RLoadPcs
      <3>2. PICK r : /\ rt' = [rt EXCEPT ![t] = r] /\ RSound(r) /\ r.pc = "status2" /\ r.op = rt[t].op
                     /\ r.form = rt[t].form /\ r.mount = rt[t].mount
        BY <1>10, <2>1, <2>2, <3>1
      <3> DEFINE x == [ru EXCEPT !.loaded = TRUE, !.data = rt[t].view]
      <3>3. /\ RPages(x) /\ x.open = ru.open /\ x.mount = ru.mount /\ x.form = ru.form
            /\ x.forms = ru.forms /\ x.working = ru.working
        BY <1>0 DEF RPages
      <3>4. RApply(t, x)
        BY <2>2
      <3> HIDE DEF x
      <3> QED
        BY <1>8, <2>1, <3>1, <3>2, <3>3, <3>4
    <2>3. CASE RFinish(t) /\ \E c : \/ RApply(t, afterLoad(t, [ru EXCEPT !.status = c]))
                                    \/ RApply(t, afterLoad(t, RFailed([ru EXCEPT !.status = c])))
      <3>1. PICK c : \/ RApply(t, afterLoad(t, [ru EXCEPT !.status = c]))
                     \/ RApply(t, afterLoad(t, RFailed([ru EXCEPT !.status = c])))
        BY <2>3
      <3> DEFINE s == [ru EXCEPT !.status = c]
                 x == RFailed(s)
      <3>2. /\ RPages(s) /\ s.open = ru.open /\ s.mount = ru.mount /\ s.form = ru.form
            /\ s.forms = ru.forms /\ s.working = ru.working
        BY <1>14
      <3>3. RApply(t, afterLoad(t, s)) \/ RApply(t, afterLoad(t, x))
        BY <3>1
      <3> HIDE DEF s
      <3>4. /\ RPages(x) /\ x.open = ru.open /\ x.mount = ru.mount /\ x.form = ru.form
            /\ x.forms = ru.forms /\ x.working = ru.working
        BY <1>13, <3>2
      <3> HIDE DEF x
      <3> QED
        BY <1>11, <2>3, <3>2, <3>3, <3>4
    <2> QED
      BY <1>16, <2>2, <2>3 DEF RulesAnswer
  (* The server answers: only what the call brings back changes. *)
  <1>17. ASSUME NEW t \in RTask, ServeRules(t) \/ ServeWrite(t) PROVE RuInv'
    <2>1. ru' = ru /\ rt[t].pc \in {"write"} \cup RLoadPcs
      BY <1>17 DEF ServeRules, ServeWrite, RLoadPcs
    <2>2. PICK a \in {"ok", "fail"} : \/ \E v : rt' = [rt EXCEPT ![t] = [rt[t] EXCEPT !.ans = a, !.view = v]]
                                     \/ rt' = [rt EXCEPT ![t] = [rt[t] EXCEPT !.ans = a]]
      BY <1>17 DEF ServeRules, ServeWrite
    <2>3. PICK r : /\ rt' = [rt EXCEPT ![t] = r]
                   /\ (\E v : r = [rt[t] EXCEPT !.ans = a, !.view = v]) \/ r = [rt[t] EXCEPT !.ans = a]
      BY <2>2
    <2>4. RRequest(r) /\ r.pc = rt[t].pc /\ r.op = rt[t].op /\ r.form = rt[t].form /\ r.mount = rt[t].mount
      BY <1>0, <2>3 DEF RRequest
    <2>5. RSound(r)
      BY <1>0, <2>4 DEF RSound
    <2>6. RLoads(ru, rt[t]) => RLoads(ru, r)
      BY <2>4 DEF RLoads
    <2>7. RGood(ru, [rt EXCEPT ![t] = r])
      <3>1. ru.busy => ru.open
        BY <1>0 DEF RGood
      <3> QED
        BY <1>0, <2>4, <2>5, <2>6, <3>1, RGoodStep
    <2> QED
      BY <2>1, <2>3, <2>7 DEF RuInv
  (* The writes. *)
  <1>18. ASSUME NEW t \in RTask, WriteAnswer(t) PROVE RuInv'
    <2>1. rt[t].pc = "write" /\ rt[t].op # "none" /\ rt[t].pc \notin RLoadPcs
      BY <1>9, <1>12, <1>18 DEF WriteAnswer
    <2>2. CASE RFinish(t)
      <3> DEFINE b == RReleased(t, ru)
      <3>1. RApply(t, b) \/ RApply(t, [b EXCEPT !.sheet = "none"])
        <4>1. ~RGoto(t, "status1")
          <5>1. rt' = [rt EXCEPT ![t] = RIdle] /\ rt = [u \in RTask |-> rt[u]]
            BY <1>0, <2>2 DEF RFinish, RGood, RCallsOf
          <5>2. rt'[t].op = "none"
            BY <5>1, RIdleSound
          <5>3. SUFFICES ASSUME RGoto(t, "status1") PROVE FALSE
            OBVIOUS
          <5>4. "status1" \in RLoadPcs
            BY DEF RLoadPcs
          <5>5. PICK r : rt' = [rt EXCEPT ![t] = r] /\ r.op = rt[t].op
            BY <1>10, <2>1, <5>3, <5>4
          <5> QED
            BY <2>1, <5>1, <5>2, <5>5
        <4> QED
          BY <1>18, <4>1 DEF WriteAnswer
      <3>2. b = IF rt[t].form = ru.form THEN [ru EXCEPT !.working = FALSE] ELSE ru
        BY DEF RReleased
      <3>3. PICK s \in {b, [b EXCEPT !.sheet = "none"]} : RApply(t, s)
        BY <3>1
      <3> HIDE DEF b
      <3>4. /\ RPages(b) /\ b.open = ru.open /\ b.mount = ru.mount /\ b.form = ru.form /\ b.forms = ru.forms
            /\ b.working = ru.working \/ rt[t].form = ru.form
            /\ b.busy = ru.busy
        BY <1>0, <3>2 DEF RPages
      <3>5. /\ RPages(s) /\ s.open = ru.open /\ s.mount = ru.mount /\ s.form = ru.form /\ s.forms = ru.forms
            /\ s.working = ru.working \/ rt[t].form = ru.form
            /\ s.busy = ru.busy
        BY <3>3, <3>4 DEF RPages
      <3>6. rt' = [rt EXCEPT ![t] = RIdle]
        BY <2>2 DEF RFinish
      <3> QED
        BY <1>8, <2>1, <3>3, <3>5, <3>6, RIdleSound
    <2>3. CASE RGoto(t, "status1") /\ ~RFinish(t)
      <3>1. "status1" \in RLoadPcs
        BY DEF RLoadPcs
      <3>2. PICK r : /\ rt' = [rt EXCEPT ![t] = r] /\ RSound(r) /\ r.pc = "status1" /\ r.op = rt[t].op
                     /\ r.form = rt[t].form /\ r.mount = rt[t].mount
        BY <1>10, <2>1, <2>3, <3>1
      <3>3. PICK s \in {[ru EXCEPT !.sheet = "none", !.busy = TRUE], [ru EXCEPT !.selected = NoRule, !.busy = TRUE]} :
               RApply(t, s)
        BY <1>18, <2>3 DEF WriteAnswer
      <3>4. /\ RPages(s) /\ s.open = ru.open /\ s.mount = ru.mount /\ s.form = ru.form /\ s.forms = ru.forms
            /\ s.working = ru.working
        BY <1>0, <3>3 DEF RPages
      <3> QED
        BY <1>8, <2>1, <3>1, <3>2, <3>3, <3>4
    <2> QED
      BY <1>18, <2>2, <2>3 DEF WriteAnswer
  <1>19. ASSUME NEW t \in RTask, NEW r, RRequest(r), rt[t].pc = "idle", rt' = [rt EXCEPT ![t] = r],
                r.pc # "idle", r.op # "none", r.mount = ru.mount, r.form = ru.form
         PROVE  rt[t].op = "none" /\ rt[t].form = 0 /\ ~RLoads(ru, rt[t])
    BY <1>0, <1>9, <1>19, RIdleSound DEF RSound, RLoads
  <1>20. ASSUME NEW t \in RTask, pause(t) \/ remove(t) \/ apply(t) \/ submit(t) PROVE RuInv'
    <2>0. PICK op \in RWriters : \E j : RWrite(t, op, j)
      BY <1>20 DEF pause, remove, apply, submit, RWriters
    <2>1. PICK j : RWrite(t, op, j)
      BY <2>0
    <2> DEFINE r == [pc |-> "write", op |-> op, mount |-> ru.mount, form |-> ru.form, job |-> j,
                     ans |-> "none", view |-> {}]
    <2>2. /\ rt[t].pc = "idle" /\ ru.form # 0 /\ ~ru.working /\ ru' = [ru EXCEPT !.working = TRUE]
          /\ rt' = [rt EXCEPT ![t] = r]
      BY <2>1 DEF RWrite, RStart, RFree
    <2>3. r.pc = "write" /\ r.op = op /\ r.mount = ru.mount /\ r.form = ru.form
      OBVIOUS
    <2>4. RRequest(r)
      BY <1>0 DEF RRequest
    <2> HIDE DEF r
    <2>5. op # "none"
      BY DEF RWriters
    <2>6. RSound(r)
      BY <2>3, <2>4, <2>5 DEF RSound
    <2>7. rt[t].op = "none" /\ rt[t].form = 0 /\ ~RLoads(ru, rt[t])
      BY <1>19, <2>2, <2>3, <2>4, <2>5
    <2>8. /\ RPages(ru') /\ ru'.open = ru.open /\ ru'.mount = ru.mount /\ ru'.busy = ru.busy /\ ru'.form = ru.form
          /\ ru'.forms = ru.forms /\ ru'.working = TRUE /\ ru'.loaded = ru.loaded
          /\ ru'.data = ru.data /\ ru'.anon = ru.anon /\ ru'.scopeId = ru.scopeId
      BY <1>0, <2>2 DEF RPages
    <2>9. scopes(ru') = scopes(ru)
      BY <2>8 DEF scopes, show
    <2>10. RShown(ru') /\ (ru'.busy => ru'.open)
      BY <1>0, <2>8, <2>9 DEF RShown, RScoped, RGood
    <2>11. RGood(ru', [rt EXCEPT ![t] = r])
      BY <1>0, <2>2, <2>3, <2>6, <2>7, <2>8, <2>10, RGoodStep
    <2> QED
      BY <2>2, <2>11 DEF RuInv
  <1>21. ASSUME NEW t \in RTask, sync(t) PROVE RuInv'
    <2> DEFINE x == [ru EXCEPT !.busy = TRUE]
               n == RSettle(x)
               r == [pc |-> "refresh", op |-> "sync", mount |-> ru.mount, form |-> ru.form, job |-> NoJob,
                     ans |-> "none", view |-> {}]
    <2>1. /\ rt[t].pc = "idle" /\ ru.open /\ (~ru.loaded \/ ru.form = 0)
          /\ ru' = n /\ rt' = [rt EXCEPT ![t] = r]
      BY <1>21 DEF sync, RStart, RFree, RPageFree
    <2>2. ru.form = 0
      BY <1>0, <2>1 DEF RShown
    <2>3. r.pc = "refresh" /\ r.op = "sync" /\ r.mount = ru.mount /\ r.form = ru.form
      OBVIOUS
    <2>4. "refresh" \in RLoadPcs /\ "sync" \notin RWriters
      BY DEF RLoadPcs, RWriters
    <2>5. RRequest(r)
      BY <1>0, <2>4 DEF RRequest
    <2> HIDE DEF r
    <2>6. RSound(r)
      BY <2>2, <2>3, <2>4, <2>5 DEF RSound
    <2>7. rt[t].op = "none" /\ rt[t].form = 0
      BY <1>19, <2>1, <2>3, <2>5
    <2>8. /\ RPages(x) /\ x.open = ru.open /\ x.mount = ru.mount /\ x.form = ru.form /\ x.forms = ru.forms
          /\ x.working = ru.working
      BY <1>0 DEF RPages
    <2> HIDE DEF x
    <2>9. /\ RShown(n) /\ n.open = ru.open /\ n.mount = ru.mount
          /\ \/ n.form = ru.form /\ n.forms = ru.forms
             \/ n.form = 0 /\ n.forms = ru.forms
             \/ n.form = ru.forms + 1 /\ n.forms = ru.forms + 1
      BY <1>0, <2>8, RSettleOf
    <2> HIDE DEF n
    <2>10. RLoads(n, r)
      BY <2>3, <2>4, <2>9 DEF RLoads
    <2>11. RGood(n, [rt EXCEPT ![t] = r])
      <3>1. ru.open
        BY <1>21 DEF sync
      <3> QED
        BY <1>0, <2>2, <2>3, <2>4, <2>6, <2>7, <2>9, <2>10, <3>1, RGoodStep
    <2> QED
      BY <2>1, <2>11 DEF RuInv
  <1>22. CASE UNCHANGED rulesVars
    BY <1>22 DEF rulesVars, RuInv
  <1> QED
    BY <1>3, <1>4, <1>6, <1>7, <1>15, <1>16, <1>17, <1>18, <1>20, <1>21, <1>22 DEF RulesNext, RulesReply

(* The rules page is busy only while a load or a sync of this visit is     *)
(* under way, and a sheet never has two writes of its own in flight.       *)
THEOREM RulesLocksHold == RulesSpec => [](RulesBusyOwned /\ RulesOneWrite)
  <1>1. RuInv => RulesBusyOwned /\ RulesOneWrite
    BY DEF RuInv, RGood, RLoads, RLoadPcs, RForms, RCallsOf, RSound, RulesBusyOwned, RulesOneWrite
  <1> QED
    BY <1>1, RulesInitInv, RulesStepInv, PTL DEF RulesSpec

(* A scope that is open is one of the rules on display. *)
THEOREM RulesScopeShownHolds == RulesSpec => []RulesScopeShown
  <1>1. RuInv => RulesScopeShown
    BY DEF RuInv, RGood, RShown, RScoped, RulesScopeShown
  <1> QED
    BY <1>1, RulesInitInv, RulesStepInv, PTL DEF RulesSpec

(* Every rule of the open scope is listed in one section, also a rule of a *)
(* section this page does not know.                                        *)
THEOREM RulesListedOnceHolds == RulesSpec => []RulesListedOnce
  <1>1. RulesListedOnce
    <2> SUFFICES ASSUME NEW r \in scopedRules(ru)
                 PROVE  Cardinality({c \in SECTIONS : r \in bySection(ru)[c]}) = 1
      BY DEF RulesListedOnce
    <2> DEFINE k == IF r.section \in SECTIONS THEN r.section ELSE "other"
    <2>1. k \in SECTIONS /\ "other" \in SECTIONS
      BY DEF SECTIONS
    <2>2. \A c \in SECTIONS : r \in bySection(ru)[c] <=> (r.section = c \/ (c = "other" /\ r.section \notin SECTIONS))
      BY DEF bySection
    <2>3. {c \in SECTIONS : r \in bySection(ru)[c]} = {k}
      BY <2>1, <2>2
    <2> QED
      BY <2>3, FS_Singleton
  <1> QED
    BY <1>1, PTL
=============================================================================
