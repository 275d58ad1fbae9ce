---------------------------- MODULE UiPagesProofs ----------------------------
(***************************************************************************)
(* Proofs about the shell, the logs and the alarms of the web interface,   *)
(* and about all the pages that call the server together, for any number   *)
(* of calls, visits and edits.                                             *)
(***************************************************************************)
EXTENDS UiPages, UiSettingsProofs, UiDeviceProofs

-----------------------------------------------------------------------------
(* The shell *)

ShLoads == [pc: {"idle", "sent", "status", "history", "devices"}, live: BOOLEAN, range: ChartRange \cup {"none"},
            since: Nat, ver: Nat, st: {"none", "ok", "missing", "error"}]
ShEffects == [on: BOOLEAN, range: ChartRange]
ShServer(s) == s \in [ver: Nat, session: BOOLEAN, events: Nat] /\ s.ver # 0

(* The page; the proofs do not look into what it shows. *)
ShPage(m) == m \in [auth: {"checking", "ok", "needed"}, range: ChartRange, lan: BOOLEAN, refreshing: BOOLEAN,
                    history: {m.history}, devices: {m.devices}]

(* Load r, with the server at version v and the effect at e. *)
ShLoad(r, v, e) ==
    /\ r.pc = "idle" => ~r.live
    /\ r.since <= v
    /\ r.pc \notin {"idle", "sent"} => r.since <= r.ver /\ r.ver <= v
    /\ r.live => e.on /\ r.range = e.range /\ r.since # 0

ShInv ==
    /\ ShServer(sv) /\ ShPage(ap) /\ fx \in ShEffects /\ ld \in [LTask -> ShLoads]
    /\ \A t \in LTask : ShLoad(ld[t], sv.ver, fx)

(* What a load asks the abstract specification for. *)
ShPend(r) == IF r.live THEN [range |-> r.range, since |-> r.since] ELSE [range |-> "none", since |-> 0]
ShFresh == [Fresh!Change \/ Fresh!BeginOrDrop \/ Fresh!Show]_<<sv.ver, [t \in LTask |-> ShPend(ld[t])], ap.history>>

LEMMA LoadIdleType == LoadIdle \in ShLoads /\ LoadIdle.pc = "idle" /\ ~LoadIdle.live /\ LoadIdle.since = 0
  BY DEF LoadIdle, ShLoads

(* The page goes on showing the same history. *)
LEMMA ShAnswered == ASSUME ShPage(ap) PROVE ShPage(apiAnswered(ap)) /\ apiAnswered(ap).history = ap.history
  BY DEF ShPage, apiAnswered, onNeed

LEMMA ShReleased ==
    ASSUME NEW m, NEW ok, ShPage(m)
    PROVE  ShPage(release(m, ok)) /\ release(m, ok).history = m.history
  BY DEF ShPage, release

(* The server moves on only in the number of its events. *)
LEMMA ShSpent == ASSUME ShServer(sv) PROVE ShServer(SvSpent) /\ SvSpent.ver = sv.ver /\ SvSpent.session = sv.session
  <1>1. sv \in [ver: Nat, session: BOOLEAN, events: Nat] /\ sv.events + 1 \in Nat
    BY DEF ShServer
  <1> QED
    BY <1>1 DEF ShServer, SvSpent

LEMMA ShellInitInv == ShellInit => ShInv
  <1> SUFFICES ASSUME ShellInit PROVE ShInv
    OBVIOUS
  <1>1. ShServer(sv) /\ sv.ver \in Nat
    BY DEF ShellInit, ShServer
  <1>2. ShPage(ap) /\ fx \in ShEffects
    BY RangeAssumption DEF ShellInit, ShPage, ShEffects
  <1>3. ld \in [LTask -> ShLoads] /\ \A t \in LTask : ld[t] = LoadIdle
    BY LoadIdleType DEF ShellInit
  <1> QED
    BY <1>1, <1>2, <1>3, LoadIdleType DEF ShInv, ShLoad

LEMMA ShellStepInv == ShInv /\ [ShellNext]_shellVars => ShInv' /\ ShFresh
  <1> SUFFICES ASSUME ShInv, [ShellNext]_shellVars PROVE ShInv' /\ ShFresh
    OBVIOUS
  <1> DEFINE pend == [t \in LTask |-> ShPend(ld[t])]
  <1>0. /\ ShServer(sv) /\ ShPage(ap) /\ fx \in ShEffects /\ ld \in [LTask -> ShLoads] /\ sv.ver \in Nat /\ sv.ver # 0
        /\ \A t \in LTask : ld[t] \in ShLoads /\ ShLoad(ld[t], sv.ver, fx)
        /\ \A t \in LTask : ld[t].since \in Nat /\ ld[t].ver \in Nat /\ ld[t].live \in BOOLEAN
    BY DEF ShInv, ShServer, ShLoads
  <1>0a. ShPage(ap)
    BY <1>0
  <1>1. ASSUME ShServer(sv'), sv'.ver = sv.ver, ShPage(ap'), ap'.history = ap.history, fx' = fx, ld' = ld
        PROVE  ShInv' /\ ShFresh
    BY <1>0, <1>1 DEF ShInv, ShFresh
  (* A load changes: it goes on, ends, or begins. *)
  <1>2. ASSUME NEW t \in LTask, NEW r \in ShLoads, ShLoad(r, sv.ver, fx), ld' = [ld EXCEPT ![t] = r],
               \/ r.live = ld[t].live /\ r.range = ld[t].range /\ r.since = ld[t].since
               \/ ~r.live
               \/ ~ld[t].live /\ r.since = sv.ver,
               ShServer(sv'), sv'.ver = sv.ver, ShPage(ap'), ap'.history = ap.history, fx' = fx
        PROVE  ShInv' /\ ShFresh
    <2>1. ld' \in [LTask -> ShLoads] /\ ld'[t] = r /\ \A u \in LTask : u # t => ld'[u] = ld[u]
      BY <1>0, <1>2
    <2>2. ShInv'
      BY <1>0, <1>2, <2>1 DEF ShInv
    <2>3. \A u \in LTask : \/ ShPend(ld'[u]) = ShPend(ld[u])
                           \/ ShPend(ld'[u]) = [range |-> "none", since |-> 0]
                           \/ ShPend(ld[u]) = [range |-> "none", since |-> 0] /\ ShPend(ld'[u]).since = sv.ver
      BY <1>2, <2>1 DEF ShPend
    <2>4. ShFresh
      BY <1>2, <2>3 DEF ShFresh, Fresh!BeginOrDrop, Fresh!NoRead, ShPend
    <2> QED
      BY <2>2, <2>4
  <1>3. ASSUME NEW t \in LTask, NEW e \in ShEffects, e.on
        PROVE  LET r == [LoadIdle EXCEPT !.pc = "sent", !.live = TRUE, !.range = e.range, !.since = sv.ver]
               IN r \in ShLoads /\ r.live /\ r.range = e.range /\ r.since = sv.ver /\ ShLoad(r, sv.ver, e)
    <2> DEFINE r == [LoadIdle EXCEPT !.pc = "sent", !.live = TRUE, !.range = e.range, !.since = sv.ver]
    <2>1. e.range \in ChartRange \cup {"none"}
      BY DEF ShEffects
    <2>2. r \in ShLoads /\ r.pc = "sent" /\ r.live = TRUE /\ r.range = e.range /\ r.since = sv.ver
      BY <1>0, <2>1, LoadIdleType DEF ShLoads
    <2> HIDE DEF r
    <2>3. ShLoad(r, sv.ver, e)
      BY <1>0, <1>3, <2>2 DEF ShLoad
    <2> QED
      BY <2>2, <2>3 DEF r
  (* A load begins for the effect that runs. *)
  <1>4. ASSUME NEW t \in LTask, fx.on, LFree(t), ld' = beginLoad(ld, t, fx.range), UNCHANGED <<sv, ap, fx>>
        PROVE  ShInv' /\ ShFresh
    <2> DEFINE r == [LoadIdle EXCEPT !.pc = "sent", !.live = TRUE, !.range = fx.range, !.since = sv.ver]
    <2>1. r \in ShLoads /\ r.since = sv.ver /\ ShLoad(r, sv.ver, fx)
      BY <1>0, <1>3, <1>4
    <2>2. ld' = [ld EXCEPT ![t] = r] /\ ~ld[t].live
      BY <1>0, <1>4 DEF beginLoad, LFree, ShLoad
    <2> HIDE DEF r
    <2> QED
      BY <1>0, <1>2, <1>4, <2>1, <2>2
  <1>5. ASSUME NEW t \in LTask, runEffect(t) PROVE ShInv' /\ ShFresh
    <2>1. /\ ld[t].pc = "idle" /\ fx' = [on |-> ap.auth = "ok", range |-> ap.range] /\ UNCHANGED <<sv, ap>>
          /\ ld' = IF fx'.on THEN beginLoad(cancelled(ld), t, ap.range) ELSE cancelled(ld)
      BY <1>5 DEF runEffect, LFree
    <2>2. fx' \in ShEffects /\ fx'.range = ap.range
      <3>1. (ap.auth = "ok") \in BOOLEAN /\ ap.range \in ChartRange
        BY <1>0 DEF ShPage
      <3> QED
        BY <2>1, <3>1 DEF ShEffects
    <2>3. \A u \in LTask : LET c == [ld[u] EXCEPT !.live = FALSE] IN
            c \in ShLoads /\ c.pc = ld[u].pc /\ c.live = FALSE /\ c.since = ld[u].since /\ c.ver = ld[u].ver
      BY <1>0 DEF ShLoads
    <2>4. /\ cancelled(ld) \in [LTask -> ShLoads]
          /\ \A u \in LTask : /\ cancelled(ld)[u].pc = ld[u].pc /\ cancelled(ld)[u].live = FALSE
                              /\ cancelled(ld)[u].since = ld[u].since /\ cancelled(ld)[u].ver = ld[u].ver
      BY <2>3 DEF cancelled
    <2> DEFINE r == [LoadIdle EXCEPT !.pc = "sent", !.live = TRUE, !.range = fx'.range, !.since = sv.ver]
    <2>5. fx'.on => r \in ShLoads /\ r.since = sv.ver /\ ShLoad(r, sv.ver, fx') /\ ld' = [cancelled(ld) EXCEPT ![t] = r]
      BY <1>3, <2>1, <2>2 DEF beginLoad
    <2> HIDE DEF r
    <2>6. /\ ld' \in [LTask -> ShLoads]
          /\ \A u \in LTask : ld'[u] = cancelled(ld)[u] \/ (fx'.on /\ u = t /\ ld'[u] = r)
      BY <2>1, <2>4, <2>5
    <2>7. \A u \in LTask : ShLoad(cancelled(ld)[u], sv.ver, fx')
      BY <1>0, <2>4 DEF ShLoad
    <2>8. ShInv'
      BY <1>0, <2>1, <2>2, <2>5, <2>6, <2>7 DEF ShInv
    <2>9. \A u \in LTask : \/ ShPend(ld'[u]) = [range |-> "none", since |-> 0]
                           \/ ShPend(ld[u]) = [range |-> "none", since |-> 0] /\ ShPend(ld'[u]).since = sv.ver
      <3> TAKE u \in LTask
      <3>1. CASE ld'[u] = cancelled(ld)[u]
        BY <2>4, <3>1 DEF ShPend
      <3>2. CASE fx'.on /\ u = t /\ ld'[u] = r
        <4>1. ~ld[t].live
          BY <1>0, <2>1 DEF ShLoad
        <4> QED
          BY <1>0, <2>5, <3>2, <4>1 DEF ShPend
      <3> QED
        BY <2>6, <3>1, <3>2
    <2>10. ShFresh
      BY <2>1, <2>9 DEF ShFresh, Fresh!BeginOrDrop, Fresh!NoRead, ShPend
    <2> QED
      BY <2>8, <2>10
  <1>6. ASSUME NEW t \in LTask, interval(t) \/ refreshAnswered(t) PROVE ShInv' /\ ShFresh
    <2>1. CASE fx.on /\ LFree(t) /\ ld' = beginLoad(ld, t, fx.range) /\ UNCHANGED <<sv, ap, fx>>
      BY <1>4, <2>1
    <2>2. CASE UNCHANGED <<sv, fx, ld>> /\ ap' = release(ap, TRUE)
      BY <1>0, <1>1, <2>2, ShReleased
    <2> QED
      BY <1>6, <2>1, <2>2 DEF interval, refreshAnswered
  (* The answers of a load. *)
  <1>7. ASSUME NEW t \in LTask, promiseAll(t) PROVE ShInv' /\ ShFresh
    <2>1. PICK st \in {"ok", "missing", "error"} :
            LStep(t, [ld[t] EXCEPT !.pc = "status", !.ver = sv.ver, !.st = st], apiAnswered(ap)) /\ ld[t].pc = "sent"
      BY <1>7 DEF promiseAll
    <2>2. sv' \in {SvSpent, sv}
      BY <1>7 DEF promiseAll
    <2>3. ShServer(sv') /\ sv'.ver = sv.ver
      BY <1>0, <2>2, ShSpent
    <2> DEFINE r == [ld[t] EXCEPT !.pc = "status", !.ver = sv.ver, !.st = st]
    <2>4. ld' = [ld EXCEPT ![t] = r] /\ ap' = apiAnswered(ap) /\ fx' = fx
      BY <2>1 DEF LStep
    <2>5. /\ r \in ShLoads /\ r.pc = "status" /\ r.ver = sv.ver /\ r.live = ld[t].live /\ r.range = ld[t].range
          /\ r.since = ld[t].since
      BY <1>0 DEF ShLoads
    <2> HIDE DEF r
    <2>6. ShLoad(r, sv.ver, fx)
      BY <1>0, <2>5 DEF ShLoad
    <2>7. ShPage(ap') /\ ap'.history = ap.history
      BY <1>0a, <2>4, ShAnswered
    <2> QED
      BY <1>2, <2>3, <2>4, <2>5, <2>6, <2>7
  <1>8. ASSUME NEW t \in LTask, NEW pc \in {"history", "devices"}, ld[t].pc \in {"status", "history"}
        PROVE  LET r == [ld[t] EXCEPT !.pc = pc] IN
               /\ r \in ShLoads /\ r.live = ld[t].live /\ r.range = ld[t].range /\ r.since = ld[t].since
               /\ ShLoad(r, sv.ver, fx)
    <2> DEFINE r == [ld[t] EXCEPT !.pc = pc]
    <2>1. /\ r \in ShLoads /\ r.pc = pc /\ r.ver = ld[t].ver /\ r.live = ld[t].live /\ r.range = ld[t].range
          /\ r.since = ld[t].since
      BY <1>0 DEF ShLoads
    <2> HIDE DEF r
    <2>2. ShLoad(r, sv.ver, fx)
      BY <1>0, <1>8, <2>1 DEF ShLoad
    <2> QED
      BY <2>1, <2>2 DEF r
  <1>9. ASSUME NEW t \in LTask, setControlLanOk(t) PROVE ShInv' /\ ShFresh
    <2> DEFINE r == [ld[t] EXCEPT !.pc = "history"]
    <2>1. PICK lan \in BOOLEAN : LStep(t, r, LApply(t, [ap EXCEPT !.lan = lan])) /\ ld[t].pc = "status" /\ sv' = sv
      BY <1>9 DEF setControlLanOk
    <2>2. ld' = [ld EXCEPT ![t] = r] /\ fx' = fx /\ ap' \in {ap, [ap EXCEPT !.lan = lan]}
      BY <2>1 DEF LStep, LApply
    <2>3. ShPage(ap') /\ ap'.history = ap.history
      BY <1>0a, <2>2 DEF ShPage
    <2>4. /\ r \in ShLoads /\ r.live = ld[t].live /\ r.range = ld[t].range /\ r.since = ld[t].since
          /\ ShLoad(r, sv.ver, fx)
      BY <1>8, <2>1
    <2> HIDE DEF r
    <2> QED
      BY <1>0, <1>2, <2>1, <2>2, <2>3, <2>4
  (* A history is shown: of the range, and no older than the start, of a   *)
  (* load that is still wanted.                                            *)
  <1>10. ASSUME NEW t \in LTask, historyAnswered(t) PROVE ShInv' /\ ShFresh
    <2> DEFINE r == [ld[t] EXCEPT !.pc = "devices"]
               h == [range |-> ld[t].range, ver |-> ld[t].ver]
    <2>1. /\ ld[t].pc = "history" /\ sv' = sv /\ ld' = [ld EXCEPT ![t] = r] /\ fx' = fx
          /\ ap' = ap \/ (ld[t].live /\ ap' = [ap EXCEPT !.history = h])
      BY <1>10 DEF historyAnswered, LStep, LApply, setHistory
    <2>2. /\ r \in ShLoads /\ r.live = ld[t].live /\ r.range = ld[t].range /\ r.since = ld[t].since
          /\ ShLoad(r, sv.ver, fx)
      BY <1>8, <2>1
    <2> HIDE DEF r, h
    <2>3. CASE ap' = ap
      BY <1>0, <1>2, <2>1, <2>2, <2>3
    <2>4. CASE ld[t].live /\ ap' = [ap EXCEPT !.history = h]
      <3>1. ShPage(ap') /\ ap'.history = h
        BY <1>0a, <2>4 DEF ShPage
      <3>2. ld' \in [LTask -> ShLoads] /\ ld'[t] = r /\ \A u \in LTask : u # t => ld'[u] = ld[u]
        BY <1>0, <2>1, <2>2
      <3>3. ShInv'
        BY <1>0, <2>1, <2>2, <3>1, <3>2 DEF ShInv
      <3>4. \A u \in LTask : ShPend(ld'[u]) = ShPend(ld[u])
        BY <2>2, <3>2 DEF ShPend
      <3>5. ShPend(ld[t]).range = ld[t].range /\ ShPend(ld[t]).since = ld[t].since /\ ld[t].since # 0
        BY <1>0, <2>4 DEF ShPend, ShLoad
      <3>6. h.range = ld[t].range /\ h.ver = ld[t].ver /\ ld[t].ver \in ld[t].since .. sv.ver
        BY <1>0, <2>1 DEF ShLoad, h
      <3>7. pend' = pend
        BY <3>4
      <3>8. Fresh!Show
        <4>1. pend[t] # Fresh!NoRead /\ pend[t].range = ld[t].range /\ pend[t].since = ld[t].since
          BY <3>5 DEF Fresh!NoRead
        <4>2. /\ (ap.history)'.range = pend[t].range
              /\ (ap.history)'.ver \in pend[t].since .. sv.ver
          BY <3>1, <3>6, <4>1
        <4> QED
          BY <2>1, <3>7, <4>1, <4>2 DEF Fresh!Show, ShPend
      <3> QED
        BY <3>3, <3>8 DEF ShFresh
    <2> QED
      BY <2>1, <2>3, <2>4
  (* A load ends. *)
  <1>11. ASSUME NEW t \in LTask, NEW m, ShPage(m), m.history = ap.history, EndLoad(t, m), sv' \in {sv, SvSpent}
         PROVE  ShInv' /\ ShFresh
    <2>1. ld' = [ld EXCEPT ![t] = LoadIdle] /\ ap' \in {m, release(m, TRUE)} /\ fx' = fx
      BY <1>11 DEF EndLoad
    <2>2. ShServer(sv') /\ sv'.ver = sv.ver /\ ShPage(ap') /\ ap'.history = ap.history
      BY <1>0, <1>11, <2>1, ShSpent, ShReleased
    <2>3. ShLoad(LoadIdle, sv.ver, fx)
      BY <1>0, LoadIdleType DEF ShLoad
    <2> QED
      BY <1>2, <2>1, <2>2, <2>3, LoadIdleType
  <1>12. ASSUME NEW t \in LTask, devicesAnswered(t) \/ loadThrows(t) PROVE ShInv' /\ ShFresh
    <2>1. CASE loadThrows(t)
      BY <1>0, <1>11, <2>1 DEF loadThrows
    <2>2. CASE devicesAnswered(t)
      <3>1. PICK m : EndLoad(t, m) /\ (m = ap \/ \E d : m = [ap EXCEPT !.devices = d]) /\ sv' = sv
        BY <2>2 DEF devicesAnswered, LApply
      <3>2. ShPage(m) /\ m.history = ap.history
        BY <1>0a, <3>1 DEF ShPage
      <3> QED
        BY <1>11, <3>1, <3>2
    <2> QED
      BY <1>12, <2>1, <2>2
  (* The server, the session and the visitor. *)
  <1>13. CASE serverChanges
    <2>1. sv' = [SvSpent EXCEPT !.ver = SvSpent.ver + 1] /\ UNCHANGED <<ap, fx, ld>>
      BY <1>13 DEF serverChanges
    <2>2. SvSpent \in [ver: Nat, session: BOOLEAN, events: Nat] /\ SvSpent.ver = sv.ver /\ sv.ver + 1 \in Nat
      BY <1>0, ShSpent DEF ShServer
    <2>3. ShServer(sv') /\ sv'.ver = sv.ver + 1
      <3>1. sv' = [SvSpent EXCEPT !.ver = sv.ver + 1]
        BY <2>1, <2>2
      <3> QED
        BY <1>0, <2>2, <3>1 DEF ShServer
    <2>4. \A t \in LTask : ShLoad(ld[t], sv'.ver, fx)
      BY <1>0, <2>3 DEF ShLoad
    <2>5. ShInv'
      BY <1>0, <2>1, <2>3, <2>4 DEF ShInv
    <2>6. Fresh!Change
      BY <2>1, <2>3 DEF Fresh!Change, ShPend
    <2> QED
      BY <2>5, <2>6 DEF ShFresh
  <1>14. CASE sessionEnds \/ loginServed
    <2>1. /\ UNCHANGED <<ap, fx, ld>>
          /\ \E b \in BOOLEAN : sv' = [SvSpent EXCEPT !.session = b] \/ sv' = [sv EXCEPT !.session = b] \/ sv' = sv
      BY <1>14 DEF sessionEnds, loginServed
    <2>2. ShServer(SvSpent) /\ SvSpent.ver = sv.ver
      BY <1>0, ShSpent
    <2>3. ShServer(sv') /\ sv'.ver = sv.ver
      BY <1>0, <2>1, <2>2 DEF ShServer
    <2> QED
      BY <1>0, <1>1, <2>1, <2>3
  <1>15. CASE \/ \E r \in ChartRange : setChartRange(r)
              \/ meAnswered \/ checkDone \/ checkThrows \/ onSubmit \/ onAuthed \/ refreshFromControl
    <2>1. UNCHANGED <<fx, ld>> /\ sv' \in {sv, SvSpent}
      BY <1>15 DEF setChartRange, meAnswered, checkDone, checkThrows, onSubmit, onAuthed, refreshFromControl
    <2>2. \/ ap' = ap \/ ap' = apiAnswered(ap)
          \/ \E a \in {"ok", "needed"} : ap' = [ap EXCEPT !.auth = a]
          \/ \E r \in ChartRange : ap' = [ap EXCEPT !.range = r]
          \/ ap' = [ap EXCEPT !.refreshing = TRUE]
      BY <1>15 DEF setChartRange, meAnswered, checkDone, checkAuth, checkThrows, onSubmit, onAuthed, refreshFromControl
    <2>3. ShPage(ap') /\ ap'.history = ap.history
      BY <1>0a, <2>2, ShAnswered DEF ShPage
    <2>4. ShServer(sv') /\ sv'.ver = sv.ver
      BY <1>0, <2>1, ShSpent
    <2> QED
      BY <1>1, <2>1, <2>3, <2>4
  <1>16. CASE refreshFailed
    <2>1. ap' = release(apiAnswered(ap), FALSE) /\ UNCHANGED <<fx, ld>> /\ sv' \in {sv, SvSpent}
      BY <1>16 DEF refreshFailed
    <2>2. ShPage(ap') /\ ap'.history = ap.history
      BY <1>0a, <2>1, ShAnswered, ShReleased
    <2>3. ShServer(sv') /\ sv'.ver = sv.ver
      BY <1>0, <2>1, ShSpent
    <2> QED
      BY <1>1, <2>1, <2>2, <2>3
  <1>17. CASE UNCHANGED shellVars
    BY <1>0, <1>1, <1>17 DEF shellVars
  <1> QED
    BY <1>5, <1>6, <1>7, <1>9, <1>10, <1>12, <1>13, <1>14, <1>15, <1>16, <1>17 DEF ShellNext, LoadStep

(* A load that may still write to the page is one of the range and the     *)
(* session the effect runs for.                                            *)
THEOREM LoadsOfEffectHolds == ShellSpec => []LoadsOfEffect
  <1>1. ShInv => LoadsOfEffect
    BY DEF ShInv, ShLoad, LoadsOfEffect
  <1>2. ShInv /\ [ShellNext]_shellVars => ShInv'
    BY ShellStepInv
  <1> QED
    BY <1>1, <1>2, ShellInitInv, PTL DEF ShellSpec

(* The shell implements UiFreshRead: a history appears as the result of a  *)
(* load that is still wanted, of its range, and of a version the server    *)
(* had since that load began.                                              *)
THEOREM HistoryFreshHolds == ShellSpec => HistoryFresh
  <1>1. ShellInit => Fresh!FreshInit
    <2> SUFFICES ASSUME ShellInit PROVE Fresh!FreshInit
      OBVIOUS
    <2>1. \A t \in LTask : ~ld[t].live
      BY LoadIdleType DEF ShellInit
    <2>2. ap.history.ver = 0
      BY DEF ShellInit
    <2> QED
      BY <2>1, <2>2 DEF Fresh!FreshInit, Fresh!NoRead
  <1>2. ShInv /\ [ShellNext]_shellVars
        => [Fresh!Change \/ Fresh!BeginOrDrop \/ Fresh!Show]_<<sv.ver, [t \in LTask |-> IF ld[t].live
              THEN [range |-> ld[t].range, since |-> ld[t].since] ELSE [range |-> "none", since |-> 0]], ap.history>>
    BY ShellStepInv DEF ShFresh, ShPend
  <1>3. ShInv /\ [ShellNext]_shellVars => ShInv'
    BY ShellStepInv
  <1> QED
    BY <1>1, <1>2, <1>3, ShellInitInv, PTL DEF ShellSpec, HistoryFresh, Fresh!FreshSpec

-----------------------------------------------------------------------------
(* The logs *)

LgPage(m) == m \in [on: BOOLEAN, gen: Nat, src: Chosen, lines: {m.lines}, last: {m.last}, busy: BOOLEAN,
                    want: BOOLEAN, live: {m.live}, cur: {m.cur}, edits: {m.edits}]
LgReadTypes == [pc: {"idle", "load", "fetch", "reload"}, gen: Nat, src: Chosen]
LgSocks == [st: {"none", "connecting", "open", "closing", "failed", "gone"}, gen: Nat, since: Chosen, proven: BOOLEAN]

(* Read r is one of the mount on display, and one of a refresh. *)
LgOwns(m, r) == m.on /\ r.gen = m.gen /\ r.pc # "idle"
LgRefreshes(m, r) == LgOwns(m, r) /\ r.pc \in {"fetch", "reload"}

(* The reads: at most one refresh, which holds the lock; and the lines fit *)
(* the chosen filter unless a read begun by choosing it is still out.      *)
LgReads(m, q) ==
    /\ \A t \in VTask : q[t].pc # "idle" => q[t].gen <= m.gen
    /\ m.on => (m.busy <=> \E t \in VTask : LgRefreshes(m, q[t]))
    /\ \A t, u \in VTask : LgRefreshes(m, q[t]) /\ LgRefreshes(m, q[u]) => t = u
    /\ m.on /\ m.last = m.src /\ (\A t \in VTask : LgOwns(m, q[t]) => q[t].pc # "load") => m.lines \subseteq fits(m.src)

(* The sockets: of this mount only the current one may still send. *)
LgSends(m, k) == m.on /\ k.gen = m.gen /\ k.st \in {"connecting", "open"}
LgLive(m, k) ==
    /\ \A s \in Sock : k[s].st # "none" => k[s].gen <= m.gen
    /\ \A s \in Sock : LgSends(m, k[s]) => m.want /\ m.cur = s
    /\ m.live = "on" => /\ m.on /\ m.want /\ m.cur \in Sock /\ k[m.cur].gen = m.gen
                        /\ k[m.cur].st = "open" /\ k[m.cur].proven

LgInv == /\ LgPage(lv) /\ lq \in [VTask -> LgReadTypes] /\ sk \in [Sock -> LgSocks]
         /\ LgReads(lv, lq) /\ LgLive(lv, sk)

LEMMA VIdleType == VIdle \in LgReadTypes /\ VIdle.pc = "idle"
  BY DEF VIdle, LgReadTypes, Chosen

LEMMA LgLiveKept ==
    ASSUME NEW m, NEW n, NEW k, LgLive(m, k), n.on = m.on, n.gen = m.gen, n.want = m.want, n.cur = m.cur, n.live = m.live
    PROVE  LgLive(n, k)
  BY DEF LgLive, LgSends

LEMMA LgReadsKept ==
    ASSUME NEW m, NEW n, NEW q, LgReads(m, q), n.on = m.on, n.gen = m.gen, n.busy = m.busy, n.src = m.src,
           n.last = m.last, n.lines \subseteq m.lines \cup fits(m.src)
    PROVE  LgReads(n, q)
  <1>1. \A t \in VTask : (LgOwns(n, q[t]) <=> LgOwns(m, q[t])) /\ (LgRefreshes(n, q[t]) <=> LgRefreshes(m, q[t]))
    BY DEF LgOwns, LgRefreshes
  <1> QED
    BY <1>1 DEF LgReads

(* One read changes. *)
LEMMA LgReadsStep ==
    ASSUME NEW m, NEW n, NEW q \in [VTask -> LgReadTypes], NEW t \in VTask, NEW r \in LgReadTypes, LgReads(m, q),
           n.on = m.on, n.gen = m.gen, r.pc # "idle" => r.gen <= m.gen,
           \/ n.busy = m.busy /\ (LgRefreshes(m, r) <=> LgRefreshes(m, q[t]))
           \/ ~m.busy /\ n.busy /\ LgRefreshes(m, r) /\ m.on
           \/ ~n.busy /\ LgRefreshes(m, q[t]) /\ ~LgRefreshes(m, r),
           \/ LgOwns(m, r) /\ r.pc = "load"
           \/ n.last # n.src
           \/ n.lines \subseteq fits(n.src)
           \/ /\ n.lines = m.lines /\ n.last = m.last /\ n.src = m.src
              /\ LgOwns(m, q[t]) => q[t].pc # "load"
    PROVE  LgReads(n, [q EXCEPT ![t] = r])
  <1> DEFINE p == [q EXCEPT ![t] = r]
  <1>1. p[t] = r /\ \A u \in VTask : u # t => p[u] = q[u]
    OBVIOUS
  <1> HIDE DEF p
  <1>2. \A u \in VTask : (LgOwns(n, p[u]) <=> LgOwns(m, p[u])) /\ (LgRefreshes(n, p[u]) <=> LgRefreshes(m, p[u]))
    BY DEF LgOwns, LgRefreshes
  <1>3. \A u \in VTask : p[u].pc # "idle" => p[u].gen <= n.gen
    BY <1>1 DEF LgReads
  <1>4. /\ n.on => (n.busy <=> \E u \in VTask : LgRefreshes(m, p[u]))
        /\ \A u, v \in VTask : LgRefreshes(m, p[u]) /\ LgRefreshes(m, p[v]) => u = v
    <2>1. /\ m.on => (m.busy <=> \E u \in VTask : LgRefreshes(m, q[u]))
          /\ \A u, v \in VTask : LgRefreshes(m, q[u]) /\ LgRefreshes(m, q[v]) => u = v
      BY DEF LgReads
    <2> QED
      BY <1>1, <2>1
  <1>5. n.on /\ n.last = n.src /\ (\A u \in VTask : LgOwns(m, p[u]) => p[u].pc # "load") => n.lines \subseteq fits(n.src)
    BY <1>1 DEF LgReads
  <1> QED
    BY <1>2, <1>3, <1>4, <1>5 DEF LgReads, p

(* One socket changes, and the light with it. *)
LEMMA LgLiveStep ==
    ASSUME NEW m, NEW n, NEW k \in [Sock -> LgSocks], NEW s \in Sock, NEW r \in LgSocks, LgLive(m, k),
           n.on = m.on, n.gen = m.gen, r.gen <= m.gen,
           \/ n.want = m.want /\ n.cur = m.cur
           \/ \A u \in Sock \ {s} : ~LgSends(m, k[u]),
           LgSends(m, r) => n.want /\ n.cur = s,
           n.live = "on" => /\ m.on /\ n.want /\ n.cur \in Sock
                            /\ \/ n.cur = s /\ r.gen = m.gen /\ r.st = "open" /\ r.proven
                               \/ n.cur # s /\ n.cur = m.cur /\ m.live = "on"
    PROVE  LgLive(n, [k EXCEPT ![s] = r])
  <1> DEFINE p == [k EXCEPT ![s] = r]
  <1>1. p[s] = r /\ \A u \in Sock : u # s => p[u] = k[u]
    OBVIOUS
  <1> HIDE DEF p
  <1>2. \A u \in Sock : LgSends(n, p[u]) <=> LgSends(m, p[u])
    BY DEF LgSends
  <1>3. \A u \in Sock : p[u].st # "none" => p[u].gen <= n.gen
    BY <1>1 DEF LgLive
  <1>4. \A u \in Sock : LgSends(m, p[u]) => n.want /\ n.cur = u
    BY <1>1 DEF LgLive
  <1>5. n.live = "on" => /\ n.on /\ n.want /\ n.cur \in Sock /\ p[n.cur].gen = n.gen
                         /\ p[n.cur].st = "open" /\ p[n.cur].proven
    BY <1>1 DEF LgLive
  <1> QED
    BY <1>2, <1>3, <1>4, <1>5 DEF LgLive, p

LEMMA LogsInitInv == LogsInit => LgInv
  <1> SUFFICES ASSUME LogsInit PROVE LgInv
    OBVIOUS
  <1>1. LgPage(lv) /\ lv.on = FALSE /\ lv.live = "off"
    BY DEF LogsInit, LgPage, Chosen
  <1>2. lq \in [VTask -> LgReadTypes] /\ \A t \in VTask : lq[t].pc = "idle"
    BY VIdleType DEF LogsInit
  <1>3. sk \in [Sock -> LgSocks] /\ \A s \in Sock : sk[s].st = "none"
    BY DEF LogsInit, NoSock, LgSocks, Chosen
  <1> QED
    BY <1>1, <1>2, <1>3 DEF LgInv, LgReads, LgLive, LgOwns, LgRefreshes, LgSends

LEMMA LogsStepInv == LgInv /\ [LogsNext]_logVars => LgInv'
  <1> SUFFICES ASSUME LgInv, [LogsNext]_logVars PROVE LgInv'
    OBVIOUS
  <1>0. /\ LgPage(lv) /\ lq \in [VTask -> LgReadTypes] /\ sk \in [Sock -> LgSocks] /\ LgReads(lv, lq) /\ LgLive(lv, sk)
        /\ lv.gen \in Nat /\ lv.gen + 1 \in Nat /\ lv.on \in BOOLEAN /\ lv.busy \in BOOLEAN /\ lv.src \in Chosen
        /\ \A t \in VTask : lq[t] \in LgReadTypes /\ lq[t].gen \in Nat /\ lq[t].src \in Chosen
        /\ \A s \in Sock : sk[s] \in LgSocks /\ sk[s].gen \in Nat
    BY DEF LgInv, LgPage, LgReadTypes, LgSocks
  <1>0a. LgPage(lv)
    BY <1>0
  <1>1. "all" \in Chosen /\ "none" \notin Chosen
    BY LogSourceAssumption DEF Chosen
  (* A read changes. *)
  <1>2. ASSUME LgPage(lv'), lv'.on = lv.on, lv'.gen = lv.gen, lv'.want = lv.want, lv'.cur = lv.cur, lv'.live = lv.live,
               sk' = sk, lq' \in [VTask -> LgReadTypes], LgReads(lv', lq')
        PROVE  LgInv'
    BY <1>0, <1>2, LgLiveKept DEF LgInv
  (* A socket changes. *)
  <1>3. ASSUME LgPage(lv'), lv'.on = lv.on, lv'.gen = lv.gen, lv'.busy = lv.busy, lv'.src = lv.src, lv'.last = lv.last,
               lv'.lines \subseteq lv.lines \cup fits(lv.src), lq' = lq, sk' \in [Sock -> LgSocks], LgLive(lv', sk')
        PROVE  LgInv'
    BY <1>0, <1>3, LgReadsKept DEF LgInv
  (* The mount and its end. *)
  <1>4. ASSUME NEW t \in VTask, NEW u \in VTask, mountLogs(t, u) PROVE LgInv'
    <2> DEFINE r == [pc |-> "fetch", gen |-> lv.gen + 1, src |-> "all"]
               w == [pc |-> "load", gen |-> lv.gen + 1, src |-> "all"]
    <2>1. t # u /\ lv' = freshLogs(TRUE, lv.gen + 1) /\ lq' = [lq EXCEPT ![t] = r, ![u] = w] /\ sk' = sk
      BY <1>4 DEF mountLogs
    <2>2. /\ LgPage(lv') /\ lv'.on = TRUE /\ lv'.gen = lv.gen + 1 /\ lv'.busy = TRUE /\ lv'.live = "off"
          /\ lv'.lines = {}
      BY <1>0, <1>1, <2>1 DEF LgPage, freshLogs
    <2>3. /\ r \in LgReadTypes /\ w \in LgReadTypes
          /\ r.pc = "fetch" /\ w.pc = "load" /\ r.gen = lv.gen + 1 /\ w.gen = lv.gen + 1
      BY <1>0, <1>1 DEF LgReadTypes
    <2> HIDE DEF r, w
    <2>4. lq' \in [VTask -> LgReadTypes]
      BY <1>0, <2>1, <2>3
    <2>5. lq'[t] = r /\ lq'[u] = w /\ \A v \in VTask : v # t /\ v # u => lq'[v] = lq[v]
      BY <1>0, <2>1
    <2>6. \A v \in VTask : v # t /\ v # u => ~LgOwns(lv', lq'[v]) /\ (lq'[v].pc # "idle" => lq'[v].gen <= lv.gen)
      <3>1. \A v \in VTask : lq[v].pc # "idle" => lq[v].gen <= lv.gen
        BY <1>0 DEF LgReads
      <3> QED
        BY <1>0, <2>2, <2>5, <3>1 DEF LgOwns
    <2>7. LgRefreshes(lv', r) /\ ~LgRefreshes(lv', w)
      BY <2>2, <2>3 DEF LgOwns, LgRefreshes
    <2>8. /\ \A v \in VTask : lq'[v].pc # "idle" => lq'[v].gen <= lv'.gen
          /\ \A v \in VTask : LgRefreshes(lv', lq'[v]) <=> v = t
      <3>1. \A v \in VTask : lq[v].gen \in Nat /\ (lq[v].gen <= lv.gen => lq[v].gen <= lv.gen + 1)
        BY <1>0
      <3> QED
        BY <1>0, <2>2, <2>3, <2>5, <2>6, <2>7, <3>1 DEF LgRefreshes
    <2>9. LgReads(lv', lq')
      BY <2>2, <2>8 DEF LgReads
    <2>10. LgLive(lv', sk')
      <3>1. \A s \in Sock : sk[s].st # "none" => sk[s].gen <= lv.gen
        BY <1>0 DEF LgLive
      <3>2. \A s \in Sock : (sk[s].st # "none" => sk[s].gen <= lv.gen + 1) /\ ~LgSends(lv', sk[s])
        BY <1>0, <2>2, <3>1 DEF LgSends
      <3> QED
        BY <2>1, <2>2, <3>2 DEF LgLive
    <2> QED
      BY <1>0, <2>1, <2>2, <2>4, <2>9, <2>10 DEF LgInv
  <1>5. CASE leaveLogs
    <2>1. /\ lv' = [freshLogs(FALSE, lv.gen) EXCEPT !.edits = lv.edits]
          /\ sk' = [s \in Sock |-> closing(s)] /\ lq' = lq
      BY <1>5 DEF leaveLogs
    <2>2. LgPage(lv') /\ lv'.on = FALSE /\ lv'.gen = lv.gen /\ lv'.live = "off"
      BY <1>0, <1>1, <2>1 DEF LgPage, freshLogs
    <2>3. \A s \in Sock : closing(s) \in LgSocks /\ closing(s).gen = sk[s].gen
                            /\ (closing(s).st = "none" <=> sk[s].st = "none")
      BY <1>0 DEF closing, LgSocks
    <2>4. LgReads(lv', lq')
      BY <1>0, <2>1, <2>2 DEF LgReads, LgRefreshes, LgOwns
    <2>5. LgLive(lv', sk')
      BY <1>0, <2>1, <2>2, <2>3 DEF LgLive, LgSends
    <2> QED
      BY <1>0, <2>1, <2>2, <2>3, <2>4, <2>5 DEF LgInv
  (* The reads. *)
  <1>6. ASSUME NEW t \in VTask, NEW src \in Chosen, setSource(t, src) PROVE LgInv'
    <2> DEFINE r == [pc |-> "load", gen |-> lv.gen, src |-> src]
    <2>1. /\ lv' = [lv EXCEPT !.src = src, !.edits = @ + 1] /\ lq' = [lq EXCEPT ![t] = r] /\ sk' = sk
          /\ lv.on /\ lq[t].pc = "idle"
      BY <1>6 DEF setSource, VFree
    <2>2. /\ LgPage(lv') /\ lv'.on = lv.on /\ lv'.gen = lv.gen /\ lv'.want = lv.want /\ lv'.cur = lv.cur
          /\ lv'.live = lv.live /\ lv'.busy = lv.busy
      BY <1>0a, <2>1 DEF LgPage
    <2>3. r \in LgReadTypes /\ r.pc = "load" /\ r.gen = lv.gen
      BY <1>0 DEF LgReadTypes
    <2> HIDE DEF r
    <2>4. LgOwns(lv, r) /\ ~LgRefreshes(lv, r) /\ ~LgRefreshes(lv, lq[t]) /\ r.gen <= lv.gen
      BY <1>0, <2>1, <2>3 DEF LgOwns, LgRefreshes
    <2>5. LgReads(lv', lq')
      BY <1>0, <2>1, <2>2, <2>3, <2>4, LgReadsStep
    <2> QED
      BY <1>0, <1>2, <2>1, <2>2, <2>3, <2>5
  <1>7. ASSUME NEW t \in VTask, refresh(t) PROVE LgInv'
    <2> DEFINE r == [pc |-> "fetch", gen |-> lv.gen, src |-> lv.src]
    <2>1. /\ lv' = [lv EXCEPT !.busy = TRUE, !.edits = @ + 1] /\ lq' = [lq EXCEPT ![t] = r] /\ sk' = sk
          /\ lv.on /\ ~lv.busy /\ lq[t].pc = "idle"
      BY <1>7 DEF refresh, VFree
    <2>2. /\ LgPage(lv') /\ lv'.on = lv.on /\ lv'.gen = lv.gen /\ lv'.want = lv.want /\ lv'.cur = lv.cur
          /\ lv'.live = lv.live /\ lv'.busy = TRUE /\ lv'.lines = lv.lines /\ lv'.last = lv.last /\ lv'.src = lv.src
      BY <1>0a, <2>1 DEF LgPage
    <2>3. r \in LgReadTypes /\ r.pc = "fetch" /\ r.gen = lv.gen
      BY <1>0 DEF LgReadTypes
    <2> HIDE DEF r
    <2>4. LgRefreshes(lv, r) /\ r.gen <= lv.gen
      BY <1>0, <2>1, <2>3 DEF LgOwns, LgRefreshes
    <2>5. LgReads(lv', lq')
      BY <1>0, <2>1, <2>2, <2>3, <2>4, LgReadsStep
    <2> QED
      BY <1>0, <1>2, <2>1, <2>2, <2>3, <2>5
  <1>8. ASSUME NEW t \in VTask, fetched(t) PROVE LgInv'
    <2>1. lq[t].pc = "fetch" /\ sk' = sk
      BY <1>8 DEF fetched
    <2>2. CASE lv' = lv /\ lq' = [lq EXCEPT ![t] = [lq[t] EXCEPT !.pc = "reload"]]
      <3> DEFINE r == [lq[t] EXCEPT !.pc = "reload"]
      <3>1. r \in LgReadTypes /\ r.pc = "reload" /\ r.gen = lq[t].gen
        BY <1>0 DEF LgReadTypes
      <3>2. lq' = [lq EXCEPT ![t] = r]
        BY <2>2
      <3> HIDE DEF r
      <3>3. (LgRefreshes(lv, r) <=> LgRefreshes(lv, lq[t])) /\ r.gen <= lv.gen
        BY <1>0, <2>1, <3>1 DEF LgOwns, LgRefreshes, LgReads
      <3>4. LgReads(lv', lq')
        <4>1. LgReads(lv, lq) /\ lq \in [VTask -> LgReadTypes] /\ lv' = lv /\ lq[t].pc # "load"
          BY <1>0, <2>1, <2>2
        <4>2. LgReads(lv, [lq EXCEPT ![t] = r])
          BY <3>1, <3>3, <4>1, LgReadsStep
        <4> QED
          BY <3>2, <4>1, <4>2
      <3> QED
        BY <1>0, <1>2, <2>1, <2>2, <3>1, <3>2, <3>4
    <2>3. CASE lq' = [lq EXCEPT ![t] = VIdle] /\ lv' = IF VMine(t) THEN refreshEnds(lv) ELSE lv
      <3>1. /\ LgPage(lv') /\ lv'.on = lv.on /\ lv'.gen = lv.gen /\ lv'.want = lv.want /\ lv'.cur = lv.cur
            /\ lv'.live = lv.live /\ lv'.lines = lv.lines /\ lv'.last = lv.last /\ lv'.src = lv.src
            /\ lv'.busy = IF VMine(t) THEN FALSE ELSE lv.busy
        BY <1>0a, <2>3 DEF LgPage, refreshEnds
      <3>2. ~LgRefreshes(lv, VIdle) /\ (LgRefreshes(lv, lq[t]) <=> VMine(t))
        BY <2>1, VIdleType DEF LgOwns, LgRefreshes, VMine
      <3>3. LgReads(lv', lq')
        BY <1>0, <2>1, <2>3, <3>1, <3>2, VIdleType, LgReadsStep
      <3> QED
        BY <1>0, <1>2, <2>1, <2>3, <3>1, <3>3, VIdleType
    <2> QED
      BY <1>8, <2>2, <2>3 DEF fetched
  <1>9. ASSUME NEW t \in VTask, loadLogs(t) PROVE LgInv'
    <2> DEFINE m == IF lq[t].pc = "reload" THEN refreshEnds(lv) ELSE lv
    <2>1. lq[t].pc \in {"load", "reload"} /\ lq' = [lq EXCEPT ![t] = VIdle] /\ sk' = sk
      BY <1>9 DEF loadLogs
    <2>2. ~LgRefreshes(lv, VIdle) /\ (LgRefreshes(lv, lq[t]) <=> VMine(t) /\ lq[t].pc = "reload")
           /\ (LgOwns(lv, lq[t]) <=> VMine(t))
      BY <2>1, VIdleType DEF LgOwns, LgRefreshes, VMine
    <2>3. CASE ~VMine(t)
      <3>1. lv' = lv
        BY <1>9, <2>3 DEF loadLogs
      <3>2. LgReads(lv', lq')
        BY <1>0, <2>1, <2>2, <2>3, <3>1, VIdleType, LgReadsStep
      <3> QED
        BY <1>0, <1>2, <2>1, <3>1, <3>2, VIdleType
    <2>4. CASE VMine(t)
      <3>1. /\ LgPage(m) /\ m.on = lv.on /\ m.gen = lv.gen /\ m.want = lv.want /\ m.cur = lv.cur
            /\ m.live = lv.live /\ m.src = lv.src /\ m.busy = IF lq[t].pc = "reload" THEN FALSE ELSE lv.busy
        BY <1>0a DEF LgPage, refreshEnds
      <3>2. \/ lv' = [m EXCEPT !.last = "none"]
            \/ \E l \in SUBSET fits(lq[t].src) : lv' = [m EXCEPT !.lines = l, !.last = lq[t].src]
        BY <1>9, <2>4 DEF loadLogs
      <3> HIDE DEF m
      <3>3. /\ LgPage(lv') /\ lv'.on = m.on /\ lv'.gen = m.gen /\ lv'.want = m.want /\ lv'.cur = m.cur
            /\ lv'.live = m.live /\ lv'.src = m.src /\ lv'.busy = m.busy
            /\ \/ lv'.last = "none"
               \/ lv'.last = lq[t].src /\ lv'.lines \subseteq fits(lq[t].src)
        BY <3>1, <3>2 DEF LgPage
      <3>4. lv'.last # lv'.src \/ lv'.lines \subseteq fits(lv'.src)
        BY <1>0, <1>1, <3>1, <3>3
      <3>5. LgReads(lv', lq')
        BY <1>0, <2>1, <2>2, <2>4, <3>1, <3>3, <3>4, VIdleType, LgReadsStep
      <3> QED
        BY <1>0, <1>2, <2>1, <3>1, <3>3, <3>5, VIdleType
    <2> QED
      BY <2>3, <2>4
  (* The sockets. *)
  <1>10. ASSUME NEW s \in Sock, toggleLive(s) PROVE LgInv'
    <2>1. CASE /\ ~lv.want /\ sk[s].st = "none" /\ lv.on /\ lq' = lq
               /\ lv' = [lv EXCEPT !.want = TRUE, !.live = "connecting", !.cur = s]
               /\ sk' = [sk EXCEPT ![s] = [st |-> "connecting", gen |-> lv.gen, since |-> lv.src, proven |-> FALSE]]
      <3> DEFINE r == [st |-> "connecting", gen |-> lv.gen, since |-> lv.src, proven |-> FALSE]
      <3>1. r \in LgSocks /\ r.gen = lv.gen
        BY <1>0 DEF LgSocks
      <3>2. sk' = [sk EXCEPT ![s] = r]
        BY <2>1
      <3> HIDE DEF r
      <3>3. /\ LgPage(lv') /\ lv'.on = lv.on /\ lv'.gen = lv.gen /\ lv'.want = TRUE /\ lv'.cur = s /\ lv'.live = "connecting"
            /\ lv'.lines = lv.lines /\ lv'.last = lv.last /\ lv'.src = lv.src /\ lv'.busy = lv.busy
        BY <1>0a, <2>1 DEF LgPage
      <3>4. \A u \in Sock : ~LgSends(lv, sk[u])
        BY <1>0, <2>1 DEF LgLive
      <3>5. LgLive(lv', sk')
        <4>1. LgLive(lv, sk) /\ sk \in [Sock -> LgSocks] /\ r.gen <= lv.gen
          BY <1>0, <3>1
        <4>2. LgLive(lv', [sk EXCEPT ![s] = r])
          BY <3>1, <3>3, <3>4, <4>1, LgLiveStep
        <4> QED
          BY <3>2, <4>2
      <3> QED
        BY <1>0, <1>3, <2>1, <3>1, <3>2, <3>3, <3>5
    <2>2. CASE /\ lv.want /\ lv.cur = s /\ lv.on /\ lq' = lq
               /\ lv' = [lv EXCEPT !.want = FALSE, !.live = "off"]
               /\ sk' = [sk EXCEPT ![s] = closing(s)]
      <3>1. closing(s) \in LgSocks /\ closing(s).gen = sk[s].gen /\ ~LgSends(lv, closing(s))
            /\ (closing(s).st = "none" <=> sk[s].st = "none")
        BY <1>0 DEF closing, LgSocks, LgSends
      <3>3. /\ LgPage(lv') /\ lv'.on = lv.on /\ lv'.gen = lv.gen /\ lv'.want = FALSE /\ lv'.live = "off"
            /\ lv'.lines = lv.lines /\ lv'.last = lv.last /\ lv'.src = lv.src /\ lv'.busy = lv.busy
        BY <1>0a, <2>2 DEF LgPage
      <3>4. \A u \in Sock \ {s} : ~LgSends(lv, sk[u])
        BY <1>0, <2>2 DEF LgLive
      <3>5. LgLive(lv', sk')
        <4>1. sk'[s] = closing(s) /\ \A u \in Sock : u # s => sk'[u] = sk[u]
          BY <1>0, <2>2
        <4>2. \A u \in Sock : ~LgSends(lv, sk'[u])
          BY <3>1, <3>4, <4>1
        <4>3. \A u \in Sock : ~LgSends(lv', sk'[u])
          BY <3>3, <4>2 DEF LgSends
        <4> QED
          BY <1>0, <3>1, <3>3, <4>1, <4>3 DEF LgLive
      <3> QED
        BY <1>0, <1>3, <2>2, <3>1, <3>3, <3>5
    <2> QED
      BY <1>10, <2>1, <2>2 DEF toggleLive
  (* The handlers: the light is on only when the socket of the call has      *)
  (* proven itself, or was on and the call is of another socket.             *)
  <1>11. ASSUME NEW s \in Sock, NEW r \in LgSocks, r.gen = sk[s].gen, sk[s].st # "none", lq' = lq,
                LgPage(lv'), lv'.on = lv.on, lv'.gen = lv.gen, lv'.want = lv.want, lv'.cur = lv.cur,
                lv'.busy = lv.busy, lv'.src = lv.src, lv'.last = lv.last,
                lv'.lines \subseteq lv.lines \cup fits(lv.src),
                sk' = [sk EXCEPT ![s] = r], LgSends(lv, r) => LgSends(lv, sk[s]),
                \/ lv'.live # "on"
                \/ LgSends(lv, sk[s]) /\ r.st = "open" /\ r.proven
                \/ lv'.live = lv.live /\ ~(lv.on /\ sk[s].gen = lv.gen)
         PROVE  LgInv'
    <2>1. r.gen <= lv.gen
      BY <1>0, <1>11 DEF LgLive
    <2>2. LgSends(lv, r) => lv'.want /\ lv'.cur = s
      BY <1>0, <1>11 DEF LgLive
    <2>3. lv'.live = "on" => /\ lv.on /\ lv'.want /\ lv'.cur \in Sock
                             /\ \/ lv'.cur = s /\ r.gen = lv.gen /\ r.st = "open" /\ r.proven
                                \/ lv'.cur # s /\ lv'.cur = lv.cur /\ lv.live = "on"
      BY <1>0, <1>11 DEF LgLive, LgSends
    <2>4. LgLive(lv', sk')
      BY <1>0, <1>11, <2>1, <2>2, <2>3, LgLiveStep
    <2> QED
      BY <1>0, <1>3, <1>11, <2>4
  <1>12. ASSUME NEW s \in Sock, sockOpens(s) PROVE LgInv'
    <2> DEFINE r == [sk[s] EXCEPT !.st = "open"]
    <2>1. sk[s].st = "connecting" /\ sk' = [sk EXCEPT ![s] = r] /\ lq' = lq
      BY <1>12 DEF sockOpens
    <2>2. r \in LgSocks /\ r.gen = sk[s].gen /\ r.st = "open"
      BY <1>0 DEF LgSocks
    <2> HIDE DEF r
    <2>3. lv' = IF lv.on /\ sk[s].gen = lv.gen THEN [lv EXCEPT !.live = IF lv.live = "on" THEN lv.live ELSE "connecting"] ELSE lv
      BY <1>12 DEF sockOpens, setLive, onopen
    <2>4. /\ LgPage(lv') /\ lv'.on = lv.on /\ lv'.gen = lv.gen /\ lv'.want = lv.want /\ lv'.cur = lv.cur
          /\ lv'.busy = lv.busy /\ lv'.src = lv.src /\ lv'.last = lv.last /\ lv'.lines = lv.lines
          /\ lv'.live = IF lv.on /\ sk[s].gen = lv.gen /\ lv.live # "on" THEN "connecting" ELSE lv.live
      BY <1>0a, <2>3 DEF LgPage
    <2>5. LgSends(lv, r) => LgSends(lv, sk[s])
      BY <2>1, <2>2 DEF LgSends
    <2>6. lv.on /\ sk[s].gen = lv.gen => lv'.live # "on"
      BY <1>0, <2>1, <2>4 DEF LgLive, LgSends
    <2> QED
      BY <1>11, <2>1, <2>2, <2>4, <2>5, <2>6
  <1>13. ASSUME NEW s \in Sock, logsStatus(s) PROVE LgInv'
    <2>1. sk[s].st = "open" /\ lq' = lq
      BY <1>13 DEF logsStatus
    <2>2. CASE setLive(s, [lv EXCEPT !.live = "error"]) /\ sk' = sk
      <3>1. lv' = IF lv.on /\ sk[s].gen = lv.gen THEN [lv EXCEPT !.live = "error"] ELSE lv
        BY <2>2 DEF setLive
      <3>2. /\ LgPage(lv') /\ lv'.on = lv.on /\ lv'.gen = lv.gen /\ lv'.want = lv.want /\ lv'.cur = lv.cur
            /\ lv'.busy = lv.busy /\ lv'.src = lv.src /\ lv'.last = lv.last /\ lv'.lines = lv.lines
            /\ lv'.live \in {"error", lv.live}
        BY <1>0a, <3>1 DEF LgPage
      <3>3. LgLive(lv', sk')
        BY <1>0, <2>2, <3>2 DEF LgLive, LgSends
      <3> QED
        BY <1>0, <1>3, <2>1, <2>2, <3>2, <3>3
    <2>3. CASE setLive(s, [lv EXCEPT !.live = "on"]) /\ sk' = [sk EXCEPT ![s] = [sk[s] EXCEPT !.proven = TRUE]]
      <3> DEFINE r == [sk[s] EXCEPT !.proven = TRUE]
      <3>1. lv' = IF lv.on /\ sk[s].gen = lv.gen THEN [lv EXCEPT !.live = "on"] ELSE lv
        BY <2>3 DEF setLive
      <3>2. /\ LgPage(lv') /\ lv'.on = lv.on /\ lv'.gen = lv.gen /\ lv'.want = lv.want /\ lv'.cur = lv.cur
            /\ lv'.busy = lv.busy /\ lv'.src = lv.src /\ lv'.last = lv.last /\ lv'.lines = lv.lines
            /\ lv'.live = IF lv.on /\ sk[s].gen = lv.gen THEN "on" ELSE lv.live
        BY <1>0a, <3>1 DEF LgPage
      <3>3. r \in LgSocks /\ r.gen = sk[s].gen /\ r.st = sk[s].st /\ r.proven /\ sk' = [sk EXCEPT ![s] = r]
        BY <1>0, <2>3 DEF LgSocks
      <3> HIDE DEF r
      <3>4. /\ LgSends(lv, r) => LgSends(lv, sk[s])
            /\ lv.on /\ sk[s].gen = lv.gen => LgSends(lv, sk[s])
        BY <2>1, <3>3 DEF LgSends
      <3> QED
        BY <1>11, <2>1, <3>2, <3>3, <3>4
    <2> QED
      BY <1>13, <2>2, <2>3 DEF logsStatus
  <1>14. ASSUME NEW s \in Sock, logsBatch(s) PROVE LgInv'
    <2> DEFINE r == [sk[s] EXCEPT !.proven = TRUE]
    <2>1. sk[s].st = "open" /\ sk' = [sk EXCEPT ![s] = r] /\ lq' = lq
      BY <1>14 DEF logsBatch
    <2>2. PICK batch : lv' = IF lv.on /\ sk[s].gen = lv.gen
                             THEN [lv EXCEPT !.live = "on", !.lines = lv.lines \cup (batch \cap fits(lv.src))] ELSE lv
      BY <1>14 DEF logsBatch, setLive, sourceRef
    <2>3. /\ LgPage(lv') /\ lv'.on = lv.on /\ lv'.gen = lv.gen /\ lv'.want = lv.want /\ lv'.cur = lv.cur
          /\ lv'.busy = lv.busy /\ lv'.src = lv.src /\ lv'.last = lv.last
          /\ lv'.lines \in {lv.lines, lv.lines \cup (batch \cap fits(lv.src))}
          /\ lv'.live = IF lv.on /\ sk[s].gen = lv.gen THEN "on" ELSE lv.live
      BY <1>0a, <2>2 DEF LgPage
    <2>4. lv'.lines \subseteq lv.lines \cup fits(lv.src)
      BY <2>3
    <2>5. r \in LgSocks /\ r.gen = sk[s].gen /\ r.st = sk[s].st /\ r.proven
      BY <1>0 DEF LgSocks
    <2> HIDE DEF r
    <2>6. /\ LgSends(lv, r) => LgSends(lv, sk[s])
          /\ lv.on /\ sk[s].gen = lv.gen => LgSends(lv, sk[s])
      BY <2>1, <2>5 DEF LgSends
    <2> QED
      BY <1>11, <2>1, <2>3, <2>4, <2>5, <2>6
  <1>15. ASSUME NEW s \in Sock, onerror(s) \/ sockCloses(s) PROVE LgInv'
    <2>1. sk[s].st # "none" /\ lq' = lq /\ \E x \in {"failed", "gone"} : sk' = [sk EXCEPT ![s] = [sk[s] EXCEPT !.st = x]]
      BY <1>15 DEF onerror, sockCloses
    <2>2. PICK x \in {"failed", "gone"} : sk' = [sk EXCEPT ![s] = [sk[s] EXCEPT !.st = x]]
      BY <2>1
    <2> DEFINE r == [sk[s] EXCEPT !.st = x]
    <2>3. \E y \in {"error", "off"} : lv' = IF lv.on /\ sk[s].gen = lv.gen THEN [lv EXCEPT !.live = y] ELSE lv
      BY <1>15 DEF onerror, sockCloses, setLive, onclose
    <2>4. /\ LgPage(lv') /\ lv'.on = lv.on /\ lv'.gen = lv.gen /\ lv'.want = lv.want /\ lv'.cur = lv.cur
          /\ lv'.busy = lv.busy /\ lv'.src = lv.src /\ lv'.last = lv.last /\ lv'.lines = lv.lines
          /\ IF lv.on /\ sk[s].gen = lv.gen THEN lv'.live # "on" ELSE lv'.live = lv.live
      BY <1>0a, <2>3 DEF LgPage
    <2>5. r \in LgSocks /\ r.gen = sk[s].gen /\ ~LgSends(lv, r) /\ sk' = [sk EXCEPT ![s] = r]
      BY <1>0, <2>2 DEF LgSocks, LgSends
    <2> HIDE DEF r
    <2> QED
      BY <1>11, <2>1, <2>4, <2>5
  <1>16. CASE UNCHANGED logVars
    BY <1>16 DEF logVars, LgInv
  <1> QED
    BY <1>4, <1>5, <1>6, <1>7, <1>8, <1>9, <1>10, <1>12, <1>13, <1>14, <1>15, <1>16 DEF LogsNext

(* The Refresh button is locked exactly while a refresh of this mount is   *)
(* out; with no read out the lines shown are those of the chosen filter;   *)
(* and the live light is on only by a socket that has proven itself.       *)
THEOREM LogsPageHolds == LogsSpec => [](RefreshOwned /\ LinesAsChosen /\ LiveProven)
  <1>1. LgInv => RefreshOwned /\ LinesAsChosen /\ LiveProven
    <2> SUFFICES ASSUME LgInv PROVE RefreshOwned /\ LinesAsChosen /\ LiveProven
      OBVIOUS
    <2>1. \A t \in VTask : LgRefreshes(lv, lq[t]) <=> VMine(t) /\ lq[t].pc \in {"fetch", "reload"}
      BY DEF LgRefreshes, LgOwns, VMine
    <2>2. \A t \in VTask : LgOwns(lv, lq[t]) <=> VMine(t) /\ ~VFree(t)
      BY DEF LgOwns, VMine, VFree
    <2>3. RefreshOwned
      BY <2>1 DEF LgInv, LgReads, RefreshOwned
    <2>4. LinesAsChosen
      BY <2>2 DEF LgInv, LgReads, LinesAsChosen
    <2>5. LiveProven
      BY DEF LgInv, LgLive, LiveProven
    <2> QED
      BY <2>3, <2>4, <2>5
  <1> QED
    BY <1>1, LogsInitInv, LogsStepInv, PTL DEF LogsSpec

-----------------------------------------------------------------------------
(* The alarms *)

AlBoxes == [active: SUBSET Alarm, raised: SUBSET Alarm]
AlBell(b) == b \in [open: BOOLEAN, gen: Nat, loading: BOOLEAN, count: {b.count}, fromApi: {b.fromApi},
                    preview: {b.preview}, anon: {b.anon}, lan: {b.lan}, switched: {b.switched}]
AlTab(m) == m \in [on: BOOLEAN, gen: Nat, known: BOOLEAN, view: SUBSET Alarm, busy: {m.busy},
                   aid: Alarm \cup {"none", "all"}, confirm: BOOLEAN, gone: SUBSET Alarm]
AlOps == {"none", "panel", "load", "ignore", "all"}
AlRequests == [pc: {"idle", "sent", "back"}, op: AlOps, gen: Nat, aid: Alarm \cup {"none", "all"},
               ok: BOOLEAN, got: SUBSET Alarm]

(* What a request carries: an ignore is of an alarm that was raised, and   *)
(* what it reports to have removed is no longer in the inbox.              *)
AlSound(x, r) ==
    /\ r.got \subseteq x.raised
    /\ r.op = "panel" => r.aid = "none"
    /\ r.op = "ignore" => r.aid \in x.raised
    /\ r.op = "all" => r.aid = "all"
    /\ r.pc = "sent" => ~r.ok
    /\ r.pc = "back" /\ r.ok /\ r.op \in {"ignore", "all"} => r.got \cap x.active = {}

(* The inbox: an alarm that left it does not come back. *)
AlBox(x, m, q) ==
    /\ x.active \subseteq x.raised /\ m.view \subseteq x.raised
    /\ m.gone \subseteq x.raised /\ m.gone \cap x.active = {}
    /\ \A t \in ATask : AlSound(x, q[t])

(* The panel: one read for each opening. *)
AlOpens(b, r) == r.pc # "idle" /\ r.op = "panel" /\ r.gen = b.gen
AlPanel(b, q) ==
    /\ \A t \in ATask : q[t].pc # "idle" /\ q[t].op = "panel" => q[t].gen <= b.gen
    /\ \A t, u \in ATask : AlOpens(b, q[t]) /\ AlOpens(b, q[u]) => t = u
    /\ b.open => (b.loading <=> \E t \in ATask : AlOpens(b, q[t]))

(* The page: its requests, and among them the one of the ignore, which is  *)
(* single and holds the lock.                                              *)
AlMine(m, r) == m.on /\ r.pc # "idle" /\ r.op # "panel" /\ r.gen = m.gen
AlOwns(m, r) == AlMine(m, r) /\ r.aid # "none"
AlPlain(m, r) == AlMine(m, r) /\ r.aid = "none"
AlLock(m, q) ==
    /\ \A t \in ATask : q[t].pc # "idle" /\ q[t].op # "panel" => q[t].gen <= m.gen
    /\ \A t, u \in ATask : AlOwns(m, q[t]) /\ AlOwns(m, q[u]) => t = u
    /\ \A t \in ATask : AlOwns(m, q[t]) => q[t].aid = m.aid
    /\ m.on /\ m.aid # "none" => \E t \in ATask : AlOwns(m, q[t])
    /\ m.confirm => m.on

(* The list: the mount's read is over before the first ignore, and a list  *)
(* that may show an ignored alarm waits for the read behind the ignore.    *)
AlShown(m, q) ==
    /\ \A t \in ATask : AlPlain(m, q[t]) => /\ q[t].op = "load" /\ m.gone = {} /\ ~m.known /\ ~m.confirm
                                            /\ \A u \in ATask : AlMine(m, q[u]) => u = t
    /\ \A t \in ATask : AlMine(m, q[t]) /\ q[t].op = "load" /\ q[t].pc = "back" /\ q[t].ok => q[t].got \cap m.gone = {}
    /\ m.on /\ m.known /\ (\A t \in ATask : AlOwns(m, q[t]) => q[t].op # "load") => m.view \cap m.gone = {}

AlInv == /\ inbox \in AlBoxes /\ AlBell(bell) /\ AlTab(al) /\ aq \in [ATask -> AlRequests]
         /\ AlBox(inbox, al, aq) /\ AlPanel(bell, aq) /\ AlLock(al, aq) /\ AlShown(al, aq)

LEMMA AIdleType == /\ AIdle \in AlRequests /\ AIdle.pc = "idle" /\ AIdle.op = "none" /\ AIdle.got = {}
                   /\ \A x : AlSound(x, AIdle)
  <1>1. AIdle \in AlRequests /\ AIdle.pc = "idle" /\ AIdle.op = "none" /\ AIdle.got = {} /\ ~AIdle.ok
    BY DEF AIdle, AlRequests, AlOps
  <1> QED
    BY <1>1 DEF AlSound

(* The inbox and what was taken from it. *)
LEMMA AlBoxStep ==
    ASSUME NEW x, NEW y, NEW m, NEW n, NEW q \in [ATask -> AlRequests], NEW t \in ATask, NEW r \in AlRequests,
           AlBox(x, m, q), AlSound(y, r), x.raised \subseteq y.raised, y.active \subseteq y.raised,
           y.active \cap x.raised \subseteq x.active,
           n.view \subseteq y.raised, n.gone \subseteq y.raised, n.gone \cap y.active = {}
    PROVE  AlBox(y, n, [q EXCEPT ![t] = r])
  <1> DEFINE p == [q EXCEPT ![t] = r]
  <1>1. p[t] = r /\ \A u \in ATask : u # t => p[u] = q[u]
    OBVIOUS
  <1>2. \A u \in ATask : AlSound(x, q[u]) => AlSound(y, q[u])
    BY DEF AlSound
  <1> HIDE DEF p
  <1>3. \A u \in ATask : AlSound(y, p[u])
    BY <1>1, <1>2 DEF AlBox
  <1> QED
    BY <1>3 DEF AlBox, p

(* One request changes: the panel does not see it, or it is its read. *)
LEMMA AlPanelStep ==
    ASSUME NEW b, NEW c, NEW q \in [ATask -> AlRequests], NEW t \in ATask, NEW r \in AlRequests, AlPanel(b, q),
           r.pc # "idle" /\ r.op = "panel" => r.gen <= c.gen, c.gen = b.gen,
           \/ AlOpens(b, r) <=> AlOpens(b, q[t])
           \/ AlOpens(b, q[t]) /\ ~AlOpens(b, r),
           c.open => b.open,
           c.open => \/ c.loading = b.loading /\ (AlOpens(b, r) <=> AlOpens(b, q[t]))
                     \/ ~c.loading /\ AlOpens(b, q[t]) /\ ~AlOpens(b, r)
    PROVE  AlPanel(c, [q EXCEPT ![t] = r])
  <1> DEFINE p == [q EXCEPT ![t] = r]
  <1>1. p[t] = r /\ \A u \in ATask : u # t => p[u] = q[u]
    OBVIOUS
  <1> HIDE DEF p
  <1>2. \A u \in ATask : AlOpens(c, p[u]) <=> AlOpens(b, p[u])
    BY DEF AlOpens
  <1>3. \A u \in ATask : p[u].pc # "idle" /\ p[u].op = "panel" => p[u].gen <= c.gen
    BY <1>1 DEF AlPanel
  <1>4. /\ \A u, v \in ATask : AlOpens(b, p[u]) /\ AlOpens(b, p[v]) => u = v
        /\ c.open => (c.loading <=> \E u \in ATask : AlOpens(b, p[u]))
    <2>1. /\ \A u, v \in ATask : AlOpens(b, q[u]) /\ AlOpens(b, q[v]) => u = v
          /\ b.open => (b.loading <=> \E u \in ATask : AlOpens(b, q[u]))
      BY DEF AlPanel
    <2> QED
      BY <1>1, <2>1
  <1> QED
    BY <1>2, <1>3, <1>4 DEF AlPanel, p

(* One request changes, of the ignore or not. *)
LEMMA AlLockStep ==
    ASSUME NEW m, NEW n, NEW q \in [ATask -> AlRequests], NEW t \in ATask, NEW r \in AlRequests, AlLock(m, q),
           n.on = m.on, n.gen = m.gen, r.pc # "idle" /\ r.op # "panel" => r.gen <= m.gen, n.confirm => n.on,
           \/ n.aid = m.aid /\ (AlOwns(m, r) <=> AlOwns(m, q[t])) /\ (AlOwns(m, r) => r.aid = q[t].aid)
           \/ m.aid = "none" /\ AlOwns(m, r) /\ n.aid = r.aid
           \/ n.aid = "none" /\ AlOwns(m, q[t]) /\ ~AlOwns(m, r)
    PROVE  AlLock(n, [q EXCEPT ![t] = r])
  <1> DEFINE p == [q EXCEPT ![t] = r]
  <1>1. p[t] = r /\ \A u \in ATask : u # t => p[u] = q[u]
    OBVIOUS
  <1> HIDE DEF p
  <1>2. \A u \in ATask : AlOwns(n, p[u]) <=> AlOwns(m, p[u])
    BY DEF AlOwns, AlMine
  <1>3. \A u \in ATask : p[u].pc # "idle" /\ p[u].op # "panel" => p[u].gen <= n.gen
    BY <1>1 DEF AlLock
  <1>4. \A u \in ATask : AlOwns(m, q[u]) => q[u].aid # "none" /\ q[u].aid = m.aid
    BY DEF AlLock, AlOwns
  <1>5. /\ \A u, v \in ATask : AlOwns(m, p[u]) /\ AlOwns(m, p[v]) => u = v
        /\ \A u \in ATask : AlOwns(m, p[u]) => p[u].aid = n.aid
        /\ n.on /\ n.aid # "none" => \E u \in ATask : AlOwns(m, p[u])
    <2>1. /\ \A u, v \in ATask : AlOwns(m, q[u]) /\ AlOwns(m, q[v]) => u = v
          /\ m.on /\ m.aid # "none" => \E u \in ATask : AlOwns(m, q[u])
      BY DEF AlLock
    <2> QED
      BY <1>1, <1>4, <2>1
  <1> QED
    BY <1>2, <1>3, <1>5 DEF AlLock, p

(* One request changes, and what is listed with it. *)
LEMMA AlShownStep ==
    ASSUME NEW m, NEW n, NEW q \in [ATask -> AlRequests], NEW t \in ATask, NEW r \in AlRequests, AlShown(m, q),
           n.on = m.on, n.gen = m.gen,
           \A u \in ATask : u # t /\ AlPlain(m, q[u]) => n.gone = {} /\ ~n.known /\ ~n.confirm,
           AlPlain(m, r) => AlPlain(m, q[t]) /\ r.op = "load" /\ n.gone = {} /\ ~n.known /\ ~n.confirm,
           AlMine(m, r) => AlMine(m, q[t]) \/ \A u \in ATask : ~AlPlain(m, q[u]),
           n.gone = m.gone \/ \A u \in ATask : u # t => ~AlOwns(m, q[u]),
           AlMine(m, r) /\ r.op = "load" /\ r.pc = "back" /\ r.ok => r.got \cap n.gone = {},
           \/ ~n.known
           \/ AlOwns(m, r) /\ r.op = "load"
           \/ n.view \cap n.gone = {}
           \/ /\ n.view = m.view /\ n.gone = m.gone /\ n.known = m.known
              /\ AlOwns(m, q[t]) => q[t].op # "load"
    PROVE  AlShown(n, [q EXCEPT ![t] = r])
  <1> DEFINE p == [q EXCEPT ![t] = r]
  <1>1. p[t] = r /\ \A u \in ATask : u # t => p[u] = q[u]
    OBVIOUS
  <1> HIDE DEF p
  <1>2. \A u \in ATask : /\ AlMine(n, p[u]) <=> AlMine(m, p[u])
                         /\ AlOwns(n, p[u]) <=> AlOwns(m, p[u])
                         /\ AlPlain(n, p[u]) <=> AlPlain(m, p[u])
    BY DEF AlOwns, AlPlain, AlMine
  <1>3. \A u \in ATask : AlPlain(m, p[u]) => /\ p[u].op = "load" /\ n.gone = {} /\ ~n.known /\ ~n.confirm
                                             /\ \A v \in ATask : AlMine(m, p[v]) => v = u
    BY <1>1 DEF AlShown
  <1>4. \A u \in ATask : AlMine(m, p[u]) /\ p[u].op = "load" /\ p[u].pc = "back" /\ p[u].ok => p[u].got \cap n.gone = {}
    <2> SUFFICES ASSUME NEW u \in ATask, AlMine(m, p[u]), p[u].op = "load", p[u].pc = "back", p[u].ok
                 PROVE  p[u].got \cap n.gone = {}
      OBVIOUS
    <2>1. CASE u = t
      BY <1>1, <2>1
    <2>2. CASE u # t /\ AlPlain(m, q[u])
      BY <2>2
    <2>3. CASE u # t /\ AlOwns(m, q[u])
      BY <1>1, <2>3 DEF AlShown
    <2> QED
      BY <1>1, <2>1, <2>2, <2>3 DEF AlOwns, AlPlain
  <1>5. n.on /\ n.known /\ (\A u \in ATask : AlOwns(m, p[u]) => p[u].op # "load") => n.view \cap n.gone = {}
    BY <1>1 DEF AlShown
  <1> QED
    BY <1>2, <1>3, <1>4, <1>5 DEF AlShown, p

LEMMA AlarmsInitInv == AlarmsInit => AlInv
  <1> SUFFICES ASSUME AlarmsInit PROVE AlInv
    OBVIOUS
  <1>1. inbox \in AlBoxes /\ inbox.active \subseteq inbox.raised
    BY DEF AlarmsInit, AlBoxes
  <1>2. AlBell(bell) /\ bell.open = FALSE
    BY DEF AlarmsInit, AlBell
  <1>3. AlTab(al) /\ al.on = FALSE /\ al.view = {} /\ al.gone = {} /\ al.confirm = FALSE
    BY DEF AlarmsInit, AlTab, freshTab
  <1>4. aq \in [ATask -> AlRequests] /\ \A t \in ATask : aq[t].pc = "idle" /\ AlSound(inbox, aq[t])
    BY AIdleType DEF AlarmsInit
  <1> QED
    BY <1>1, <1>2, <1>3, <1>4 DEF AlInv, AlBox, AlPanel, AlLock, AlShown, AlOpens, AlOwns, AlPlain, AlMine

LEMMA AlarmsStepInv == AlInv /\ [AlarmsNext]_alarmVars => AlInv'
  <1> SUFFICES ASSUME AlInv, [AlarmsNext]_alarmVars PROVE AlInv'
    OBVIOUS
  <1>0. /\ inbox \in AlBoxes /\ aq \in [ATask -> AlRequests]
        /\ AlBox(inbox, al, aq) /\ AlPanel(bell, aq) /\ AlLock(al, aq) /\ AlShown(al, aq)
    BY DEF AlInv
  <1>0a. AlBell(bell) /\ bell.gen \in Nat /\ bell.gen + 1 \in Nat /\ bell.open \in BOOLEAN /\ bell.loading \in BOOLEAN
    BY DEF AlInv, AlBell
  <1>0b. /\ AlTab(al) /\ al.gen \in Nat /\ al.gen + 1 \in Nat /\ al.on \in BOOLEAN /\ al.known \in BOOLEAN
         /\ al.aid \in Alarm \cup {"none", "all"} /\ al.confirm \in BOOLEAN
         /\ al.view \in SUBSET Alarm /\ al.gone \in SUBSET Alarm
    BY DEF AlInv, AlTab
  <1>0c. \A t \in ATask : /\ aq[t] \in AlRequests /\ aq[t].gen \in Nat /\ aq[t].aid \in Alarm \cup {"none", "all"}
                          /\ aq[t].ok \in BOOLEAN /\ aq[t].got \in SUBSET Alarm
    BY <1>0 DEF AlRequests
  <1>0d. inbox.active \subseteq inbox.raised /\ inbox.raised \subseteq Alarm
    BY <1>0 DEF AlBox, AlBoxes
  <1>0e. /\ \A t \in ATask : AlSound(inbox, aq[t])
         /\ al.view \subseteq inbox.raised /\ al.gone \subseteq inbox.raised /\ al.gone \cap inbox.active = {}
    BY <1>0 DEF AlBox
  (* The page is the same, and so is its part in the request that changes. *)
  <1>1. ASSUME NEW t \in ATask, NEW r \in AlRequests, aq' = [aq EXCEPT ![t] = r], al' = al,
               r.pc # "idle" => r.op = "panel", aq[t].pc # "idle" => aq[t].op = "panel"
        PROVE  AlLock(al', aq') /\ AlShown(al', aq')
    <2>1. ~AlMine(al, r) /\ ~AlMine(al, aq[t]) /\ ~AlOwns(al, r) /\ ~AlOwns(al, aq[t]) /\ ~AlPlain(al, r)
      BY <1>1 DEF AlMine, AlOwns, AlPlain
    <2>2. (al.confirm => al.on) /\ \A u \in ATask : AlPlain(al, aq[u]) => al.gone = {} /\ ~al.known /\ ~al.confirm
      BY <1>0 DEF AlLock, AlShown
    <2>3. AlLock(al, [aq EXCEPT ![t] = r])
      BY <1>0, <1>1, <2>1, <2>2, AlLockStep
    <2>4. AlShown(al, [aq EXCEPT ![t] = r])
      BY <1>0, <1>1, <2>1, <2>2, AlShownStep
    <2> QED
      BY <1>1, <2>3, <2>4
  (* The panel is the same, or closes, and the request is none of its. *)
  <1>2. ASSUME NEW t \in ATask, NEW r \in AlRequests, aq' = [aq EXCEPT ![t] = r],
               bell'.gen = bell.gen, bell'.loading = bell.loading, bell'.open => bell.open,
               r.pc # "idle" => r.op # "panel", aq[t].pc # "idle" => aq[t].op # "panel"
        PROVE  AlPanel(bell', aq')
    <2>1. ~AlOpens(bell, r) /\ ~AlOpens(bell, aq[t])
      BY <1>2 DEF AlOpens
    <2>2. AlPanel(bell', [aq EXCEPT ![t] = r])
      BY <1>0, <1>2, <2>1, AlPanelStep
    <2> QED
      BY <1>2, <2>2
  (* The inbox is the same. *)
  <1>3. ASSUME NEW t \in ATask, NEW r \in AlRequests, aq' = [aq EXCEPT ![t] = r], inbox' = inbox, AlSound(inbox, r),
               al'.view \subseteq inbox.raised, al'.gone \subseteq inbox.raised, al'.gone \cap inbox.active = {}
        PROVE  AlBox(inbox', al', aq')
    <2>1. AlBox(inbox, al', [aq EXCEPT ![t] = r])
      BY <1>0, <1>0d, <1>3, AlBoxStep
    <2> QED
      BY <1>3, <2>1
  <1>4. ASSUME NEW t \in ATask, NEW r \in AlRequests, aq' = [aq EXCEPT ![t] = r] PROVE aq' \in [ATask -> AlRequests]
    BY <1>0, <1>4
  (* The server. *)
  <1>5. CASE AlarmRaised
    <2>1. PICK a \in Alarm \ inbox.raised :
             inbox' = [active |-> inbox.active \cup {a}, raised |-> inbox.raised \cup {a}]
      BY <1>5 DEF AlarmRaised
    <2>2. bell' = bell /\ al' = al /\ aq' = aq
      BY <1>5 DEF AlarmRaised
    <2>3. /\ inbox' \in AlBoxes /\ inbox'.active = inbox.active \cup {a} /\ inbox'.raised = inbox.raised \cup {a}
      BY <1>0, <2>1 DEF AlBoxes
    <2>4. \A t \in ATask : AlSound(inbox', aq[t])
      BY <1>0e, <2>1, <2>3 DEF AlSound
    <2>5. AlBox(inbox', al', aq')
      BY <1>0d, <1>0e, <2>1, <2>2, <2>3, <2>4 DEF AlBox
    <2> QED
      BY <1>0, <1>0a, <1>0b, <2>2, <2>3, <2>5 DEF AlInv
  <1>6. ASSUME NEW t \in ATask, ServeAlarms(t) PROVE AlInv'
    <2>1. aq[t].pc = "sent" /\ bell' = bell /\ al' = al
      BY <1>6 DEF ServeAlarms
    (* An answer is of the same request. *)
    <2>2. ASSUME NEW r \in AlRequests, aq' = [aq EXCEPT ![t] = r], r.pc = "back", r.op = aq[t].op, r.gen = aq[t].gen,
                 r.aid = aq[t].aid, r.ok /\ r.op = "load" => r.got \cap al.gone = {},
                 AlBox(inbox', al', aq'), inbox' \in AlBoxes
          PROVE  AlInv'
      <3>1. /\ AlMine(al, r) <=> AlMine(al, aq[t])
            /\ AlOwns(al, r) <=> AlOwns(al, aq[t])
            /\ AlPlain(al, r) <=> AlPlain(al, aq[t])
            /\ AlOpens(bell, r) <=> AlOpens(bell, aq[t])
        BY <2>1, <2>2 DEF AlMine, AlOwns, AlPlain, AlOpens
      <3>2. /\ r.op # "panel" => r.gen <= al.gen
            /\ r.op = "panel" => r.gen <= bell.gen
            /\ al.confirm => al.on
            /\ \A u \in ATask : AlPlain(al, aq[u]) => aq[u].op = "load" /\ al.gone = {} /\ ~al.known /\ ~al.confirm
        BY <1>0, <2>1, <2>2 DEF AlLock, AlPanel, AlShown
      <3>3. AlLock(al, [aq EXCEPT ![t] = r])
        BY <1>0, <2>2, <3>1, <3>2, AlLockStep
      <3>4. AlPanel(bell, [aq EXCEPT ![t] = r])
        BY <1>0, <2>2, <3>1, <3>2, AlPanelStep
      <3>5. AlShown(al, [aq EXCEPT ![t] = r])
        <4>1. CASE AlOwns(al, r) /\ r.op = "load"
          BY <1>0, <2>2, <3>1, <3>2, <4>1, AlShownStep
        <4>2. CASE ~(AlOwns(al, r) /\ r.op = "load")
          BY <1>0, <2>2, <3>1, <3>2, <4>2, AlShownStep
        <4> QED
          BY <4>1, <4>2
      <3> QED
        BY <1>0a, <1>0b, <1>4, <2>1, <2>2, <3>3, <3>4, <3>5 DEF AlInv
    <2>3. CASE aq' = [aq EXCEPT ![t] = [aq[t] EXCEPT !.pc = "back"]] /\ inbox' = inbox
      <3> DEFINE r == [aq[t] EXCEPT !.pc = "back"]
      <3>1. /\ r \in AlRequests /\ r.pc = "back" /\ r.op = aq[t].op /\ r.gen = aq[t].gen /\ r.aid = aq[t].aid
            /\ r.ok = aq[t].ok /\ r.got = aq[t].got
        BY <1>0c DEF AlRequests
      <3>2. aq' = [aq EXCEPT ![t] = r]
        BY <2>3
      <3> HIDE DEF r
      <3>3. ~r.ok /\ AlSound(inbox, r)
        BY <1>0e, <2>1, <3>1 DEF AlSound
      <3>4. AlBox(inbox', al', aq')
        BY <1>0e, <1>3, <2>1, <2>3, <3>1, <3>2, <3>3
      <3> QED
        BY <1>0, <2>2, <2>3, <3>1, <3>2, <3>3, <3>4
    <2>4. ASSUME NEW hit \in SUBSET inbox.raised, NEW ok \in BOOLEAN,
                 inbox' = [inbox EXCEPT !.active = inbox.active \ hit],
                 aq' = [aq EXCEPT ![t] = [aq[t] EXCEPT !.pc = "back", !.ok = ok,
                                             !.got = IF aq[t].op \in {"panel", "load"} THEN inbox.active ELSE hit]]
          PROVE  AlInv'
      <3> DEFINE r == [aq[t] EXCEPT !.pc = "back", !.ok = ok,
                                    !.got = IF aq[t].op \in {"panel", "load"} THEN inbox.active ELSE hit]
      <3>1. /\ r \in AlRequests /\ r.pc = "back" /\ r.op = aq[t].op /\ r.gen = aq[t].gen /\ r.aid = aq[t].aid
            /\ r.got = IF aq[t].op \in {"panel", "load"} THEN inbox.active ELSE hit
        BY <1>0c, <1>0d, <2>4 DEF AlRequests
      <3>2. aq' = [aq EXCEPT ![t] = r]
        BY <2>4
      <3> HIDE DEF r
      <3>3. inbox' \in AlBoxes /\ inbox'.active = inbox.active \ hit /\ inbox'.raised = inbox.raised
        BY <1>0, <2>4 DEF AlBoxes
      <3>4. AlSound(inbox', r)
        BY <1>0d, <1>0e, <3>1, <3>3 DEF AlSound
      <3>5. AlBox(inbox', al, [aq EXCEPT ![t] = r])
        BY <1>0, <1>0d, <1>0e, <3>1, <3>3, <3>4, AlBoxStep
      <3>6. r.op = "load" => r.got \cap al.gone = {}
        BY <1>0e, <3>1
      <3> QED
        BY <2>1, <2>2, <3>1, <3>2, <3>3, <3>5, <3>6
    <2>5. CASE /\ inbox' = [inbox EXCEPT !.active = inbox.active \ (CASE aq[t].op = "ignore" -> {aq[t].aid}
                                                      [] aq[t].op = "all" -> inbox.active [] OTHER -> {})]
               /\ \E ok \in BOOLEAN :
                     aq' = [aq EXCEPT ![t] = [aq[t] EXCEPT !.pc = "back", !.ok = ok,
                              !.got = IF aq[t].op \in {"panel", "load"} THEN inbox.active
                                      ELSE CASE aq[t].op = "ignore" -> {aq[t].aid}
                                             [] aq[t].op = "all" -> inbox.active [] OTHER -> {}]]
      <3> DEFINE hit == CASE aq[t].op = "ignore" -> {aq[t].aid} [] aq[t].op = "all" -> inbox.active [] OTHER -> {}
      <3>1. hit \subseteq inbox.raised
        BY <1>0d, <1>0e DEF AlSound
      <3>2. PICK ok \in BOOLEAN : aq' = [aq EXCEPT ![t] = [aq[t] EXCEPT !.pc = "back", !.ok = ok,
                              !.got = IF aq[t].op \in {"panel", "load"} THEN inbox.active ELSE hit]]
        BY <2>5
      <3>3. inbox' = [inbox EXCEPT !.active = inbox.active \ hit]
        BY <2>5
      <3> HIDE DEF hit
      <3> QED
        BY <2>4, <3>1, <3>2, <3>3
    <2> QED
      BY <1>6, <2>3, <2>5 DEF ServeAlarms
  (* The bell. *)
  <1>7. ASSUME NEW t \in ATask, openBell(t) PROVE AlInv'
    <2> DEFINE r == ARequest("panel", bell.gen + 1, "none")
    <2>1. /\ aq[t].pc = "idle" /\ bell' = [bell EXCEPT !.open = TRUE, !.gen = bell.gen + 1, !.loading = TRUE]
          /\ aq' = [aq EXCEPT ![t] = r] /\ inbox' = inbox /\ al' = al
      BY <1>7 DEF openBell, AFree
    <2>2. /\ r \in AlRequests /\ r.pc = "sent" /\ r.op = "panel" /\ r.gen = bell.gen + 1 /\ r.aid = "none"
          /\ r.ok = FALSE /\ r.got = {}
      BY <1>0a DEF ARequest, AIdle, AlRequests, AlOps
    <2> HIDE DEF r
    <2>3. AlBell(bell') /\ bell'.open = TRUE /\ bell'.gen = bell.gen + 1 /\ bell'.loading = TRUE
      BY <1>0a, <2>1 DEF AlBell
    <2>4. AlSound(inbox, r)
      BY <2>2 DEF AlSound
    <2>5. aq'[t] = r /\ \A u \in ATask : u # t => aq'[u] = aq[u]
      BY <1>0, <2>1
    <2>6. \A u \in ATask : aq[u].pc # "idle" /\ aq[u].op = "panel" => aq[u].gen <= bell.gen
      BY <1>0 DEF AlPanel
    <2>7. \A u \in ATask : aq[u].pc # "idle" /\ aq[u].op = "panel" => aq[u].gen <= bell.gen + 1 /\ aq[u].gen # bell.gen + 1
      BY <1>0a, <1>0c, <2>6
    <2>8. \A u \in ATask : AlOpens(bell', aq'[u]) <=> u = t
      BY <2>2, <2>3, <2>5, <2>7 DEF AlOpens
    <2>9. \A u \in ATask : aq'[u].pc # "idle" /\ aq'[u].op = "panel" => aq'[u].gen <= bell'.gen
      BY <1>0a, <2>2, <2>3, <2>5, <2>7
    <2>10. AlPanel(bell', aq')
      BY <2>3, <2>8, <2>9 DEF AlPanel
    <2>11. AlBox(inbox', al', aq')
      BY <1>0e, <1>3, <2>1, <2>2, <2>4
    <2>12. AlLock(al', aq') /\ AlShown(al', aq')
      BY <1>1, <2>1, <2>2
    <2> QED
      BY <1>0, <1>0b, <1>4, <2>1, <2>2, <2>3, <2>10, <2>11, <2>12 DEF AlInv
  <1>8. CASE closeBell \/ ASwitch
    <2>1. inbox' = inbox /\ al' = al /\ aq' = aq
      BY <1>8 DEF closeBell, ASwitch
    <2>2. AlBell(bell') /\ bell'.gen = bell.gen /\ bell'.loading = bell.loading /\ (bell'.open => bell.open)
      <3>1. CASE closeBell
        BY <1>0a, <3>1 DEF closeBell, AlBell
      <3>2. CASE ASwitch
        <4>1. PICK d : bell' = [bell EXCEPT !.anon = d.anon, !.lan = d.lan, !.switched = bell.switched + 1]
          BY <3>2 DEF ASwitch
        <4> QED
          BY <1>0a, <4>1 DEF AlBell
      <3> QED
        BY <1>8, <3>1, <3>2
    <2>3. AlPanel(bell', aq')
      BY <1>0, <2>1, <2>2 DEF AlPanel, AlOpens
    <2> QED
      BY <1>0, <1>0b, <2>1, <2>2, <2>3 DEF AlInv
  <1>9. ASSUME NEW t \in ATask, alarmsRead(t) PROVE AlInv'
    <2>1. /\ aq[t].pc = "back" /\ aq[t].op = "panel" /\ aq' = [aq EXCEPT ![t] = AIdle] /\ inbox' = inbox /\ al' = al
      BY <1>9 DEF alarmsRead, ABack, AEnds
    <2>2. /\ AlBell(bell') /\ bell'.gen = bell.gen /\ bell'.open = bell.open
          /\ bell'.loading = IF ~bell.open \/ aq[t].gen # bell.gen THEN bell.loading ELSE FALSE
      <3>1. \E p : bell' = IF ~bell.open \/ aq[t].gen # bell.gen THEN bell
                           ELSE [bell EXCEPT !.count = Cardinality(p), !.fromApi = TRUE, !.preview = p, !.loading = FALSE]
        BY <1>9 DEF alarmsRead, onAlarmCount
      <3> QED
        BY <1>0a, <3>1 DEF AlBell
    <2>3. ~AlOpens(bell, AIdle) /\ (AlOpens(bell, aq[t]) <=> aq[t].gen = bell.gen)
      BY <2>1, AIdleType DEF AlOpens
    <2>4. AlPanel(bell', [aq EXCEPT ![t] = AIdle])
      BY <1>0, <2>1, <2>2, <2>3, AIdleType, AlPanelStep
    <2>5. AlLock(al', aq') /\ AlShown(al', aq')
      BY <1>1, <2>1, AIdleType
    <2>6. AlBox(inbox', al', aq')
      BY <1>0e, <1>3, <2>1, AIdleType
    <2> QED
      BY <1>0, <1>0b, <1>4, <2>1, <2>2, <2>4, <2>5, <2>6, AIdleType DEF AlInv
  (* The page and its mount. *)
  <1>10. ASSUME NEW t \in ATask, aq[t].pc = "idle", al' = freshTab(TRUE, al.gen + 1), inbox' = inbox,
                aq' = [aq EXCEPT ![t] = ARequest("load", al.gen + 1, "none")], AlBell(bell'), bell'.gen = bell.gen,
                bell'.loading = bell.loading, bell'.open => bell.open
         PROVE  AlInv'
    <2> DEFINE r == ARequest("load", al.gen + 1, "none")
    <2>1. /\ r \in AlRequests /\ r.pc = "sent" /\ r.op = "load" /\ r.gen = al.gen + 1 /\ r.aid = "none"
          /\ r.ok = FALSE /\ r.got = {}
      BY <1>0b DEF ARequest, AIdle, AlRequests, AlOps
    <2>2. aq' = [aq EXCEPT ![t] = r]
      BY <1>10
    <2> HIDE DEF r
    <2>3. /\ AlTab(al') /\ al'.on = TRUE /\ al'.gen = al.gen + 1 /\ al'.known = FALSE /\ al'.view = {}
          /\ al'.aid = "none" /\ al'.confirm = FALSE /\ al'.gone = {}
      BY <1>0b, <1>10 DEF AlTab, freshTab
    <2>4. aq'[t] = r /\ \A u \in ATask : u # t => aq'[u] = aq[u]
      BY <1>0, <2>2
    <2>5. \A u \in ATask : aq[u].pc # "idle" /\ aq[u].op # "panel" => aq[u].gen <= al.gen
      BY <1>0 DEF AlLock
    <2>6. \A u \in ATask : aq[u].pc # "idle" /\ aq[u].op # "panel" => aq[u].gen <= al.gen + 1 /\ aq[u].gen # al.gen + 1
      BY <1>0b, <1>0c, <2>5
    <2>7. \A u \in ATask : ~AlOwns(al', aq'[u]) /\ (AlMine(al', aq'[u]) => u = t)
      BY <2>1, <2>3, <2>4, <2>6 DEF AlOwns, AlMine
    <2>8. AlLock(al', aq')
      <3>1. \A u \in ATask : aq'[u].pc # "idle" /\ aq'[u].op # "panel" => aq'[u].gen <= al'.gen
        BY <1>0b, <2>1, <2>3, <2>4, <2>6
      <3> QED
        BY <2>3, <2>7, <3>1 DEF AlLock
    <2>9. AlShown(al', aq')
      BY <2>1, <2>3, <2>4, <2>7 DEF AlShown, AlPlain
    <2>10. AlSound(inbox, r)
      BY <2>1 DEF AlSound
    <2>11. AlBox(inbox', al', aq')
      BY <1>3, <1>10, <2>1, <2>2, <2>3, <2>10
    <2>12. AlPanel(bell', aq')
      BY <1>2, <1>10, <2>1, <2>2
    <2> QED
      BY <1>0, <1>4, <1>10, <2>1, <2>2, <2>3, <2>8, <2>9, <2>11, <2>12 DEF AlInv
  <1>11. ASSUME NEW t \in ATask, openAlarms(t) \/ selectAlarms(t) PROVE AlInv'
    <2>1. aq[t].pc = "idle" /\ inbox' = inbox
      BY <1>11 DEF openAlarms, selectAlarms, AFree
    <2>2. bell' = bell \/ bell' = [bell EXCEPT !.open = FALSE]
      BY <1>11 DEF openAlarms, selectAlarms
    <2>3. AlBell(bell') /\ bell'.gen = bell.gen /\ bell'.loading = bell.loading /\ (bell'.open => bell.open)
      BY <1>0a, <2>2 DEF AlBell
    <2>4. CASE al' = al /\ aq' = aq
      <3>1. AlPanel(bell', aq')
        BY <1>0, <2>3, <2>4 DEF AlPanel, AlOpens
      <3> QED
        BY <1>0, <1>0b, <2>1, <2>3, <2>4, <3>1 DEF AlInv
    <2>5. CASE al' = freshTab(TRUE, al.gen + 1) /\ aq' = [aq EXCEPT ![t] = ARequest("load", al.gen + 1, "none")]
      BY <1>10, <2>1, <2>3, <2>5
    <2> QED
      BY <1>11, <2>4, <2>5 DEF openAlarms, selectAlarms
  <1>12. CASE leaveAlarms
    <2>1. al' = freshTab(FALSE, al.gen) /\ inbox' = inbox /\ bell' = bell /\ aq' = aq
      BY <1>12 DEF leaveAlarms
    <2>2. AlTab(al') /\ al'.on = FALSE /\ al'.gen = al.gen /\ al'.view = {} /\ al'.confirm = FALSE /\ al'.gone = {}
      BY <1>0b, <2>1 DEF AlTab, freshTab
    <2>3. AlLock(al', aq') /\ AlShown(al', aq') /\ AlBox(inbox', al', aq')
      BY <1>0, <2>1, <2>2 DEF AlLock, AlShown, AlBox, AlOwns, AlPlain, AlMine
    <2> QED
      BY <1>0, <1>0a, <2>1, <2>2, <2>3 DEF AlInv
  (* The answer of the mount's read, or of the one behind an ignore. *)
  <1>13. ASSUME NEW t \in ATask, loadAlarms(t) PROVE AlInv'
    <2>1. /\ aq[t].pc = "back" /\ aq[t].op = "load" /\ aq' = [aq EXCEPT ![t] = AIdle] /\ inbox' = inbox
      BY <1>13 DEF loadAlarms, ABack, AEnds
    <2>2. AlBell(bell') /\ bell'.gen = bell.gen /\ bell'.open = bell.open /\ bell'.loading = bell.loading
      <3>1. \E k : bell' \in {bell, [bell EXCEPT !.count = k, !.fromApi = TRUE]}
        BY <1>13 DEF loadAlarms, onAlarmCount
      <3> QED
        BY <1>0a, <3>1 DEF AlBell
    <2>3. AlPanel(bell', aq')
      BY <1>2, <2>1, <2>2, AIdleType
    <2>4. ~AlMine(al, AIdle) /\ ~AlOwns(al, AIdle) /\ ~AlPlain(al, AIdle) /\ (AlMine(al, aq[t]) <=> AMine(t))
      BY <2>1, AIdleType DEF AlMine, AlOwns, AlPlain, AMine
    <2>5. /\ al.confirm => al.on
          /\ \A u \in ATask : AlPlain(al, aq[u]) => al.gone = {} /\ ~al.known /\ ~al.confirm
          /\ AlMine(al, aq[t]) /\ aq[t].ok => aq[t].got \cap al.gone = {}
      BY <1>0, <2>1 DEF AlLock, AlShown
    <2>6. CASE ~AMine(t)
      <3>1. al' = al
        BY <1>13, <2>6 DEF loadAlarms
      <3>2. ~AlOwns(al, aq[t])
        BY <2>4, <2>6 DEF AlOwns
      <3>3. AlLock(al, [aq EXCEPT ![t] = AIdle])
        BY <1>0, <2>4, <2>5, <3>2, AIdleType, AlLockStep
      <3>4. AlShown(al, [aq EXCEPT ![t] = AIdle])
        BY <1>0, <2>4, <2>5, <3>2, AIdleType, AlShownStep
      <3>5. AlBox(inbox', al', aq')
        BY <1>0e, <1>3, <2>1, <3>1, AIdleType
      <3> QED
        BY <1>0, <1>0b, <1>4, <2>1, <2>2, <2>3, <3>1, <3>3, <3>4, <3>5, AIdleType DEF AlInv
    <2>7. CASE AMine(t)
      <3>1. al' = [al EXCEPT !.busy = FALSE, !.known = aq[t].ok, !.view = IF aq[t].ok THEN aq[t].got ELSE {},
                             !.aid = IF aq[t].aid # "none" THEN "none" ELSE al.aid]
        BY <1>13, <2>7 DEF loadAlarms
      <3>2. /\ AlTab(al') /\ al'.on = al.on /\ al'.gen = al.gen /\ al'.known = aq[t].ok /\ al'.confirm = al.confirm
            /\ al'.gone = al.gone /\ al'.view = IF aq[t].ok THEN aq[t].got ELSE {}
            /\ al'.aid = IF aq[t].aid # "none" THEN "none" ELSE al.aid
        BY <1>0b, <1>0c, <3>1 DEF AlTab
      <3>3. AlOwns(al, aq[t]) <=> aq[t].aid # "none"
        BY <2>4, <2>7 DEF AlOwns
      <3>4. AlLock(al', [aq EXCEPT ![t] = AIdle])
        BY <1>0, <2>4, <2>5, <3>2, <3>3, AIdleType, AlLockStep
      <3>5. al'.view \cap al'.gone = {}
        BY <2>4, <2>5, <2>7, <3>2
      (* Another plain read cannot be out with an answer: there is one in a mount. *)
      <3>6. \A u \in ATask : u # t => ~AlPlain(al, aq[u])
        BY <1>0, <2>1, <2>4, <2>7, <3>3 DEF AlShown
      <3>7. AlShown(al', [aq EXCEPT ![t] = AIdle])
        BY <1>0, <2>4, <3>2, <3>5, <3>6, AIdleType, AlShownStep
      <3>8. al'.view \subseteq inbox.raised
        BY <1>0e, <3>2 DEF AlSound
      <3>9. AlBox(inbox', al', aq')
        BY <1>0e, <1>3, <2>1, <3>2, <3>8, AIdleType
      <3> QED
        BY <1>0, <1>4, <2>1, <2>2, <2>3, <3>2, <3>4, <3>7, <3>9, AIdleType DEF AlInv
    <2> QED
      BY <2>6, <2>7
  (* The ignores. *)
  <1>14. ASSUME NEW t \in ATask, NEW op \in {"ignore", "all"}, NEW a \in Alarm \cup {"all"}, aq[t].pc = "idle",
                op = "ignore" => a \in al.view, op = "all" => a = "all",
                al.on, al.aid = "none", al.known \/ al.confirm, inbox' = inbox, bell' = bell,
                AlTab(al'), al'.on = al.on, al'.gen = al.gen, al'.aid = a, al'.known = al.known, al'.view = al.view,
                al'.gone = al.gone, al'.confirm => al.confirm,
                aq' = [aq EXCEPT ![t] = ARequest(op, al.gen, a)]
         PROVE  AlInv'
    <2> DEFINE r == ARequest(op, al.gen, a)
    <2>1. /\ r \in AlRequests /\ r.pc = "sent" /\ r.op = op /\ r.gen = al.gen /\ r.aid = a /\ r.ok = FALSE /\ r.got = {}
      BY <1>0b DEF ARequest, AIdle, AlRequests, AlOps
    <2>2. aq' = [aq EXCEPT ![t] = r]
      BY <1>14
    <2> HIDE DEF r
    <2>3. a # "none" /\ r.gen <= al.gen
      BY <1>0b, <2>1, AlarmAssumption
    <2>4. AlMine(al, r) /\ AlOwns(al, r) /\ ~AlPlain(al, r)
      BY <1>14, <2>1, <2>3 DEF AlMine, AlOwns, AlPlain
    <2>5. ~AlOwns(al, aq[t]) /\ \A u \in ATask : ~AlPlain(al, aq[u])
      BY <1>0, <1>14 DEF AlShown, AlOwns, AlMine
    <2>6. AlSound(inbox, r)
      BY <1>0e, <1>14, <2>1 DEF AlSound
    <2>7. AlLock(al', [aq EXCEPT ![t] = r])
      <3>1. al'.confirm => al'.on
        BY <1>0, <1>14 DEF AlLock
      <3> QED
        BY <1>0, <1>14, <2>1, <2>3, <2>4, <3>1, AlLockStep
    <2>8. AlShown(al', [aq EXCEPT ![t] = r])
      BY <1>0, <1>14, <2>1, <2>4, <2>5, AlShownStep
    <2>9. AlBox(inbox', al', aq')
      BY <1>0e, <1>3, <1>14, <2>1, <2>2, <2>6
    <2>10. AlPanel(bell', aq')
      BY <1>2, <1>14, <2>1, <2>2
    <2> QED
      BY <1>0, <1>0a, <1>4, <1>14, <2>1, <2>2, <2>7, <2>8, <2>9, <2>10 DEF AlInv
  <1>15. ASSUME NEW t \in ATask, NEW a \in Alarm, ignoreOne(t, a) PROVE AlInv'
    <2>1. /\ aq[t].pc = "idle" /\ al.on /\ al.known /\ a \in al.view /\ al.aid = "none" /\ inbox' = inbox /\ bell' = bell
          /\ al' = [al EXCEPT !.aid = a] /\ aq' = [aq EXCEPT ![t] = ARequest("ignore", al.gen, a)]
      BY <1>15 DEF ignoreOne, AlarmInboxList, mayIgnore, AFree
    <2>2. /\ AlTab(al') /\ al'.on = al.on /\ al'.gen = al.gen /\ al'.aid = a /\ al'.known = al.known
          /\ al'.view = al.view /\ al'.gone = al.gone /\ al'.confirm = al.confirm
      BY <1>0b, <2>1 DEF AlTab
    <2> QED
      BY <1>14, <2>1, <2>2
  <1>16. ASSUME NEW t \in ATask, ignoreAll(t) PROVE AlInv'
    <2>1. /\ aq[t].pc = "idle" /\ al.confirm /\ al.aid = "none" /\ inbox' = inbox /\ bell' = bell
          /\ al' = [al EXCEPT !.confirm = FALSE, !.aid = "all"] /\ aq' = [aq EXCEPT ![t] = ARequest("all", al.gen, "all")]
      BY <1>16 DEF ignoreAll, mayIgnore, AFree
    <2>2. /\ AlTab(al') /\ al'.on = al.on /\ al'.gen = al.gen /\ al'.aid = "all" /\ al'.known = al.known
          /\ al'.view = al.view /\ al'.gone = al.gone /\ al'.confirm = FALSE
      BY <1>0b, <2>1 DEF AlTab
    <2>3. al.on
      BY <1>0, <2>1 DEF AlLock
    <2> QED
      BY <1>14, <2>1, <2>2, <2>3
  <1>17. CASE askAll \/ cancelAll
    <2>1. /\ inbox' = inbox /\ bell' = bell /\ aq' = aq /\ \E c \in BOOLEAN : al' = [al EXCEPT !.confirm = c]
          /\ (al.on /\ al.known) \/ al'.confirm = FALSE
      BY <1>0b, <1>17 DEF askAll, cancelAll, AlarmInboxList, AlTab
    <2>2. /\ AlTab(al') /\ al'.on = al.on /\ al'.gen = al.gen /\ al'.aid = al.aid /\ al'.known = al.known
          /\ al'.view = al.view /\ al'.gone = al.gone
      BY <1>0b, <2>1 DEF AlTab
    <2>3. AlLock(al', aq') /\ AlShown(al', aq') /\ AlBox(inbox', al', aq')
      <3>1. \A u \in ATask : /\ AlMine(al', aq[u]) <=> AlMine(al, aq[u])
                             /\ AlOwns(al', aq[u]) <=> AlOwns(al, aq[u])
                             /\ AlPlain(al', aq[u]) <=> AlPlain(al, aq[u])
        BY <2>2 DEF AlOwns, AlPlain, AlMine
      <3>2. AlLock(al', aq')
        BY <1>0, <2>1, <2>2, <3>1 DEF AlLock
      <3>3. AlShown(al', aq')
        BY <1>0, <2>1, <2>2, <3>1 DEF AlShown
      <3>4. AlBox(inbox', al', aq')
        BY <1>0, <2>1, <2>2 DEF AlBox
      <3> QED
        BY <3>2, <3>3, <3>4
    <2> QED
      BY <1>0, <1>0a, <2>1, <2>2, <2>3 DEF AlInv
  (* The answer of an ignore: the read behind it takes its place. *)
  <1>18. ASSUME NEW t \in ATask, ignored(t) PROVE AlInv'
    <2>1. aq[t].pc = "back" /\ aq[t].op \in {"ignore", "all"} /\ inbox' = inbox /\ bell' = bell
      BY <1>18 DEF ignored
    <2>2. /\ aq[t].aid # "none" /\ AlSound(inbox, aq[t])
      BY <1>0d, <1>0e, <2>1, AlarmAssumption DEF AlSound
    <2>3. /\ al.confirm => al.on
          /\ aq[t].gen <= al.gen
          /\ AlMine(al, aq[t]) <=> AMine(t)
          /\ AlOwns(al, aq[t]) <=> AMine(t)
          /\ \A u \in ATask : u # t /\ AlOwns(al, aq[u]) => ~AMine(t)
      <3>1. /\ AlMine(al, aq[t]) <=> AMine(t)
            /\ AlOwns(al, aq[t]) <=> AMine(t)
        BY <2>1, <2>2 DEF AlMine, AlOwns, AMine
      <3> QED
        BY <1>0, <2>1, <3>1 DEF AlLock
    <2>4. /\ AMine(t) => \A u \in ATask : ~AlPlain(al, aq[u])
          /\ \A u \in ATask : AlPlain(al, aq[u]) => al.gone = {} /\ ~al.known /\ ~al.confirm
      BY <1>0, <2>2, <2>3 DEF AlShown, AlPlain
    <2>5. CASE aq[t].ok
      <3> DEFINE r == ARequest("load", aq[t].gen, aq[t].aid)
      <3>1. aq' = [aq EXCEPT ![t] = r]
        BY <1>18, <2>5 DEF ignored
      <3>2. /\ r \in AlRequests /\ r.pc = "sent" /\ r.op = "load" /\ r.gen = aq[t].gen /\ r.aid = aq[t].aid
            /\ r.ok = FALSE /\ r.got = {}
        BY <1>0c DEF ARequest, AIdle, AlRequests, AlOps
      <3> HIDE DEF r
      <3>3. al' = IF AMine(t) THEN [al EXCEPT !.busy = TRUE, !.gone = al.gone \cup aq[t].got] ELSE al
        BY <1>18, <2>5 DEF ignored, duringReload
      <3>4. /\ AlTab(al') /\ al'.on = al.on /\ al'.gen = al.gen /\ al'.aid = al.aid /\ al'.known = al.known
            /\ al'.view = al.view /\ al'.confirm = al.confirm
            /\ al'.gone = IF AMine(t) THEN al.gone \cup aq[t].got ELSE al.gone
        BY <1>0b, <1>0c, <3>3 DEF AlTab
      <3>5. /\ AlMine(al, r) <=> AMine(t)
            /\ AlOwns(al, r) <=> AMine(t)
            /\ ~AlPlain(al, r)
        BY <2>1, <2>2, <3>2 DEF AlMine, AlOwns, AlPlain, AMine
      <3>6. AlLock(al', [aq EXCEPT ![t] = r])
        BY <1>0, <2>3, <3>2, <3>4, <3>5, AlLockStep
      <3>7. AlShown(al', [aq EXCEPT ![t] = r])
        <4>1. CASE AMine(t)
          BY <1>0, <2>3, <2>4, <3>2, <3>4, <3>5, <4>1, AlShownStep
        <4>2. CASE ~AMine(t)
          BY <1>0, <2>3, <2>4, <3>2, <3>4, <3>5, <4>2, AlShownStep
        <4> QED
          BY <4>1, <4>2
      <3>8. aq[t].got \subseteq inbox.raised /\ aq[t].got \cap inbox.active = {}
        BY <2>1, <2>2, <2>5 DEF AlSound
      <3>9. AlSound(inbox, r)
        BY <3>2 DEF AlSound
      <3>10. al'.gone \subseteq inbox.raised /\ al'.gone \cap inbox.active = {}
        BY <1>0e, <3>4, <3>8
      <3>11. AlBox(inbox', al', aq')
        BY <1>0e, <1>3, <2>1, <3>1, <3>2, <3>4, <3>9, <3>10
      <3>12. AlPanel(bell', aq')
        BY <1>2, <2>1, <3>1, <3>2
      <3> QED
        BY <1>0, <1>0a, <1>4, <2>1, <3>1, <3>2, <3>4, <3>6, <3>7, <3>11, <3>12 DEF AlInv
    <2>6. CASE ~aq[t].ok
      <3>1. aq' = [aq EXCEPT ![t] = AIdle] /\ al' = IF AMine(t) THEN [al EXCEPT !.aid = "none"] ELSE al
        BY <1>18, <2>6 DEF ignored, ignoreFailed, AEnds
      <3>2. /\ AlTab(al') /\ al'.on = al.on /\ al'.gen = al.gen /\ al'.known = al.known
            /\ al'.view = al.view /\ al'.confirm = al.confirm /\ al'.gone = al.gone
            /\ al'.aid = IF AMine(t) THEN "none" ELSE al.aid
        BY <1>0b, <3>1 DEF AlTab
      <3>3. ~AlMine(al, AIdle) /\ ~AlOwns(al, AIdle) /\ ~AlPlain(al, AIdle)
        BY AIdleType DEF AlMine, AlOwns, AlPlain
      <3>4. AlLock(al', [aq EXCEPT ![t] = AIdle])
        BY <1>0, <2>3, <3>2, <3>3, AIdleType, AlLockStep
      <3>5. AlShown(al', [aq EXCEPT ![t] = AIdle])
        BY <1>0, <2>1, <2>4, <3>2, <3>3, AIdleType, AlShownStep
      <3>6. AlBox(inbox', al', aq')
        BY <1>0e, <1>3, <2>1, <3>1, <3>2, AIdleType
      <3>7. AlPanel(bell', aq')
        BY <1>2, <2>1, <3>1, AIdleType
      <3> QED
        BY <1>0, <1>0a, <1>4, <2>1, <3>1, <3>2, <3>4, <3>5, <3>6, <3>7, AIdleType DEF AlInv
    <2> QED
      BY <1>0c, <2>5, <2>6
  <1>19. CASE UNCHANGED alarmVars
    BY <1>19 DEF alarmVars, AlInv
  <1> QED
    BY <1>5, <1>6, <1>7, <1>8, <1>9, <1>11, <1>12, <1>13, <1>15, <1>16, <1>17, <1>18, <1>19 DEF AlarmsNext

(* The open panel says Loading exactly while the read of this opening is   *)
(* out; an alarm the box confirmed to have ignored is not listed once the  *)
(* ignore is over; and the page's buttons are locked exactly while an      *)
(* ignore, or the read behind it, is out.                                  *)
THEOREM AlarmsHold == AlarmsSpec => [](PanelLoadingOwn /\ IgnoredGone /\ IgnoreOwned)
  <1>1. AlInv => PanelLoadingOwn /\ IgnoredGone /\ IgnoreOwned
    <2> SUFFICES ASSUME AlInv PROVE PanelLoadingOwn /\ IgnoredGone /\ IgnoreOwned
      OBVIOUS
    <2>1. PanelLoadingOwn
      BY DEF AlInv, AlPanel, AlOpens, PanelLoadingOwn
    <2>2. \A t \in ATask : AlOwns(al, aq[t]) => aq[t].aid # "none" /\ aq[t].aid = al.aid /\ aq[t].pc # "idle" /\ aq[t].gen = al.gen
      BY DEF AlInv, AlLock, AlOwns, AlMine
    <2>3. IgnoredGone
      BY <2>2 DEF AlInv, AlShown, IgnoredGone
    <2>4. IgnoreOwned
      BY <2>2 DEF AlInv, AlLock, IgnoreOwned
    <2> QED
      BY <2>1, <2>3, <2>4
  <1> QED
    BY <1>1, AlarmsInitInv, AlarmsStepInv, PTL DEF AlarmsSpec

-----------------------------------------------------------------------------
(* The pages together *)

(* Each page is locked exactly while one call of its own is under way: no  *)
(* refused, lost or late answer leaves a lock behind or frees another's.   *)
THEOREM LocksOwnedHolds == PagesSpec => []LocksOwned
  <1>1. RulesSpec => [](RulesBusyOwned /\ RulesOneWrite)
    BY RulesLocksHold
  <1>2. MembSpec => []RowLockHeld
    BY RowLockHeldHolds
  <1>3. DetailSpec => []DetailBusyOwned
    BY DetailPageHolds, PTL
  <1>4. ModulesSpec => []NamesOneWrite
    BY NamesLockHolds
  <1>5. PairingSpec => [](PairingLocked /\ PingSingle)
    BY PairingLockHolds
  <1>6. SwitchesSpec => []SwitchOneWrite
    BY SwitchLockHolds
  <1>7. FeaturesSpec => []FeatureLockOwned
    BY FeatureLockHolds
  <1>8. LogsSpec => []RefreshOwned
    BY LogsPageHolds, PTL
  <1>9. AlarmsSpec => []IgnoreOwned
    BY AlarmsHold, PTL
  <1>10. RulesBusyOwned /\ RulesOneWrite /\ RowLockHeld /\ DetailBusyOwned /\ NamesOneWrite /\ PairingLocked
         /\ PingSingle /\ SwitchOneWrite /\ FeatureLockOwned /\ RefreshOwned /\ IgnoreOwned => LocksOwned
    BY DEF LocksOwned
  <1> QED
    BY <1>1, <1>2, <1>3, <1>4, <1>5, <1>6, <1>7, <1>8, <1>9, <1>10, PTL DEF PagesSpec

(* What a page shows, and what may still write to it, is of the range,     *)
(* session, scope, device, filter or opening that is chosen now.           *)
THEOREM ShownOwnHolds == PagesSpec => []ShownOwn
  <1>1. ShellSpec => []LoadsOfEffect
    BY LoadsOfEffectHolds
  <1>2. RulesSpec => []RulesScopeShown
    BY RulesScopeShownHolds
  <1>3. RulesSpec => []RulesListedOnce
    BY RulesListedOnceHolds
  <1>4. DetailSpec => [](DetailOwn /\ DetailExclusive)
    BY DetailPageHolds, PTL
  <1>5. LogsSpec => []LinesAsChosen
    BY LogsPageHolds, PTL
  <1>6. AlarmsSpec => []PanelLoadingOwn
    BY AlarmsHold, PTL
  <1>7. LoadsOfEffect /\ RulesScopeShown /\ RulesListedOnce /\ DetailOwn /\ DetailExclusive /\ LinesAsChosen
        /\ PanelLoadingOwn => ShownOwn
    BY DEF ShownOwn
  <1> QED
    BY <1>1, <1>2, <1>3, <1>4, <1>5, <1>6, <1>7, PTL DEF PagesSpec

(* No page claims what was not so: groups a device never had, live lines   *)
(* no socket has proven, an alarm that the box confirmed to have ignored.  *)
THEOREM ShownTrueHolds == PagesSpec => []ShownTrue
  <1>1. MembSpec => []ShownWasTrue
    BY ShownWasTrueHolds
  <1>2. LogsSpec => []LiveProven
    BY LogsPageHolds, PTL
  <1>3. AlarmsSpec => []IgnoredGone
    BY AlarmsHold, PTL
  <1>4. ShownWasTrue /\ LiveProven /\ IgnoredGone => ShownTrue
    BY DEF ShownTrue
  <1> QED
    BY <1>1, <1>2, <1>3, <1>4, PTL DEF PagesSpec

(* What is sent is what the visitor meant: no password typed for another   *)
(* switch, no fake address, no pairing whose risk was not acknowledged.    *)
THEOREM SentAsMeantHolds == PagesSpec => SentAsMeant
  <1>1. SwitchesSpec => []PasswordOwn
    BY PasswordOwnHolds
  <1>2. DetailSpec => []DetailRealAddress
    BY DetailPageHolds, PTL
  <1>3. PairingSpec => PairAcknowledged
    BY PairAcknowledgedHolds
  <1> QED
    BY <1>1, <1>2, <1>3, PTL DEF PagesSpec, SentAsMeant

(* No older answer takes back a policy the box confirmed, a URL typed and  *)
(* not saved, or a newer state of the features.                            *)
THEOREM NotTakenBackHolds == PagesSpec => NotTakenBack
  <1>1. DetailSpec => PolicyStays
    BY PolicyStaysHolds
  <1>2. ModulesSpec => TypedUrlKept
    BY TypedUrlKeptHolds
  <1>3. FeaturesSpec => FeaturesInOrder
    BY FeaturesInOrderHolds
  <1> QED
    BY <1>1, <1>2, <1>3 DEF PagesSpec, NotTakenBack
=============================================================================
