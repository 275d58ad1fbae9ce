------------------------- MODULE LogShippingProofs -------------------------
(***************************************************************************)
(* The agent's log shipping, for any number of runs, lines and connections *)
(* and any limits: the follow's bookkeeping (as long as active is set,     *)
(* Stop reaches a running run), what splitBatches makes of any lines, and  *)
(* why no cursor passes a line that the server does not have.              *)
(*                                                                         *)
(* The last two rest on each other: a cursor moves over what was read, and *)
(* what was read is in the batches or counted as dropped.                  *)
(***************************************************************************)
EXTENDS LogShipping, MCLogBatches, FiniteSetTheorems, WellFoundedInduction,
        NaturalsInduction, TLAPS

(* The part of the typing that the argument needs. *)
FollowType ==
    /\ runPC \in [Run -> {"new", "loop", "wait", "done"}]
    /\ stop \in [Run -> BOOLEAN]
    /\ cancel \in Run \cup {NoRun} /\ active \in BOOLEAN

(* Stopped runs were started: a run that has not begun carries no stop,    *)
(* so the run a Start picks is not stopped already.                        *)
NewUnstopped == \A r \in Run : runPC[r] = "new" => ~stop[r] /\ cancel # r

FollowInv == FollowType /\ NewUnstopped /\ ActiveRuns

LEMMA StopKeeps ==
    ASSUME FollowInv, StopFollow, UNCHANGED runPC
    PROVE  FollowInv'
  BY ShipAssumption DEF FollowInv, FollowType, NewUnstopped, ActiveRuns, StopFollow

(* A run that goes back and forth between its loop and the wait for an ack *)
(* is still running.                                                       *)
LEMMA RunKeeps ==
    ASSUME FollowInv, NEW r \in Run, NEW p \in {"loop", "wait"},
           runPC[r] \in {"loop", "wait"}, runPC' = [runPC EXCEPT ![r] = p],
           UNCHANGED <<stop, cancel, active>>
    PROVE  FollowInv'
  BY ShipAssumption DEF FollowInv, FollowType, NewUnstopped, ActiveRuns

LEMMA OthersKeep ==
    ASSUME FollowInv, UNCHANGED <<runPC, stop, cancel, active>>
    PROVE  FollowInv'
  BY DEF FollowInv, FollowType, NewUnstopped, ActiveRuns

LEMMA FollowInit == Init => FollowInv
  BY ShipAssumption DEF Init, FollowInv, FollowType, NewUnstopped, ActiveRuns

LEMMA FollowStepKeeps == FollowInv /\ [Next]_vars => FollowInv'
<1> SUFFICES ASSUME FollowInv, [Next]_vars PROVE FollowInv'
  OBVIOUS
<1> USE DEF follow, runs
<1>1. ASSUME NEW s \in Source, Logs(s) PROVE FollowInv'
  BY <1>1, OthersKeep DEF Logs
<1>2. CASE Connects
  BY <1>2, OthersKeep DEF Connects
<1>3. CASE Breaks
  BY <1>3, StopKeeps DEF Breaks
<1>4. CASE Server
  BY <1>4, OthersKeep DEF Server, ServerReads, ServerAcks
<1>5. CASE AckReads
  BY <1>5, OthersKeep DEF AckReads
<1>6. CASE SyncBegins
  BY <1>6, OthersKeep DEF SyncBegins
<1>7. CASE SyncStep
  <2>1. UNCHANGED <<runPC, stop, cancel, active>>
    BY <1>7 DEF SyncStep, CollectsJournal, JournalFails, CollectsACL, ACLFails, Packs,
       SyncSends,
       SyncCannotSend, SyncAcked, SyncTimesOut, ApplyCursors
  <2> QED  BY <2>1, OthersKeep
<1>8. CASE StopLive
  BY <1>8, StopKeeps DEF StopLive
<1>9. ASSUME NEW k \in 1..MaxConns, StartLive(k) PROVE FollowInv'
  <2>1. CASE active
    BY <1>9, <2>1, OthersKeep DEF StartLive, StartFollow
  <2>2. CASE ~active
    <3>1. PICK r \in Run : /\ runPC[r] = "new" /\ runPC' = [runPC EXCEPT ![r] = "loop"]
                           /\ active' = TRUE /\ cancel' = r
      BY <1>9, <2>2 DEF StartLive, StartFollow
    <3>2. UNCHANGED stop
      BY <1>9 DEF StartLive
    <3> QED
      BY <3>1, <3>2, ShipAssumption DEF FollowInv, FollowType, NewUnstopped, ActiveRuns
  <2> QED  BY <2>1, <2>2
<1>10. ASSUME NEW r \in Run, FollowStep(r) PROVE FollowInv'
  <2>1. CASE FollowReadsJournal(r)
    BY <2>1, OthersKeep DEF FollowReadsJournal
  <2>2. CASE FollowPollsACL(r)
    BY <2>2, OthersKeep DEF FollowPollsACL
  <2>3. CASE FollowEmits(r)
    <3>1. CASE Working(sink)
      BY <2>3, <3>1, RunKeeps DEF FollowEmits
    <3>2. CASE ~Working(sink)
      BY <2>3, <3>2, OthersKeep DEF FollowEmits
    <3> QED  BY <3>1, <3>2
  <2>4. CASE FollowAcked(r)
    BY <2>4, RunKeeps DEF FollowAcked
  <2>5. CASE FollowTimesOut(r)
    BY <2>5, RunKeeps DEF FollowTimesOut
  <2>6. CASE FollowExits(r)
    BY <2>6, ShipAssumption DEF FollowExits, FollowInv, FollowType, NewUnstopped, ActiveRuns
  <2> QED  BY <1>10, <2>1, <2>2, <2>3, <2>4, <2>5, <2>6 DEF FollowStep
<1>11. CASE UNCHANGED vars
  BY <1>11, OthersKeep DEF vars
<1> QED
  BY <1>1, <1>2, <1>3, <1>4, <1>5, <1>6, <1>7, <1>8, <1>9, <1>10, <1>11 DEF Next, Live

(* While Follow.active is set, the run that Stop would cancel is running   *)
(* and has not been stopped, whatever older runs are still winding down.   *)
THEOREM ActiveRunsHolds == Spec => []ActiveRuns
<1>1. FollowInv => ActiveRuns
  BY DEF FollowInv
<1> QED  BY <1>1, FollowInit, FollowStepKeeps, PTL DEF Spec

-----------------------------------------------------------------------------
(* Recursion and induction over an interval. *)

Below == {p \in Nat \X Nat : p[1] < p[2]}

LEMMA BelowWF == IsWellFoundedOn(Below, Nat)
  BY NatLessThanWellFounded, Zenon DEF OpToRel, Below

LEMMA LeastNat ==
    ASSUME NEW S \in SUBSET Nat, S # {}
    PROVE  \E i \in S : \A j \in S : i <= j
  <1>1. PICK i \in S : \A j \in S : ~(<<j, i>> \in Below)
    BY BelowWF, WFMin
  <1>2. \A j \in S : <<j, i>> \in Below <=> j < i
    BY DEF Below
  <1>3. \A j \in S : ~(j < i)
    BY <1>1, <1>2, Zenon
  <1>4. \A j \in S : i <= j
    BY <1>3
  <1> QED
    BY <1>4

Recursive(f, N, base, F) == f[0] = base /\ \A n \in 1..N : f[n] = F[<<n, f[n - 1]>>]

(* A function may be defined by recursion over an interval: what F makes   *)
(* of a number and the value before it.                                    *)
LEMMA Recursion ==
    ASSUME NEW N \in Nat, NEW T, NEW base \in T, NEW F \in [(1..N) \X T -> T]
    PROVE  \E f \in [0..N -> T] : Recursive(f, N, base, F)
  <1> USE DEF Recursive
  <1> DEFINE Ok(f, k) == f[0] = base /\ \A n \in 1..k : f[n] = F[<<n, f[n - 1]>>]
             Missing == {k \in 0..N : ~\E f \in [0..k -> T] : Ok(f, k)}
  <1>1. SUFFICES Missing = {}
    <2>1. N \in 0..N
      OBVIOUS
    <2>2. Missing = {} => \E f \in [0..N -> T] : Ok(f, N)
      BY <2>1, Zenon
    <2> QED  BY <2>2, Zenon
  <1>2. SUFFICES ASSUME Missing # {} PROVE FALSE
    OBVIOUS
  <1>3. PICK k \in Missing : \A j \in Missing : k <= j
    <2>1. Missing \in SUBSET Nat
      OBVIOUS
    <2> HIDE DEF Missing
    <2> QED  BY <1>2, <2>1, LeastNat
  <1>4. CASE k = 0
    <2>1. [n \in 0..0 |-> base] \in [0..0 -> T] /\ Ok([n \in 0..0 |-> base], 0)
      OBVIOUS
    <2> QED  BY <1>4, <2>1
  <1>5. CASE k # 0
    <2>1. k - 1 \in 0..N /\ k - 1 \notin Missing /\ k \in 1..N
      BY <1>3, <1>5
    <2>2. PICK f \in [0..k - 1 -> T] : Ok(f, k - 1)
      <3> HIDE DEF Ok
      <3> QED  BY <2>1, Zenon
    <2> DEFINE g == [n \in 0..k |-> IF n = k THEN F[<<k, f[k - 1]>>] ELSE f[n]]
    <2>3. F[<<k, f[k - 1]>>] \in T
      BY <2>1
    <2>4. g \in [0..k -> T]
      BY <2>3, <2>1
    <2>5. Ok(g, k)
      <3>1. \A n \in 0..k - 1 : g[n] = f[n]
        BY <2>1
      <3>2. g[k] = F[<<k, f[k - 1]>>]
        BY <2>1
      <3>3. \A n \in 1..k : n - 1 \in 0..k - 1 /\ (n = k \/ n \in 1..k - 1)
        BY <2>1
      <3>4. 0 \in 0..k - 1 /\ \A n \in 1..k - 1 : n \in 0..k - 1
        BY <2>1
      <3> HIDE DEF g
      <3> QED  BY <2>2, <3>1, <3>2, <3>3, <3>4
    <2> QED  BY <2>4, <2>5, <1>3
  <1> QED  BY <1>4, <1>5

(* Induction over an interval, with the set of the numbers reached. *)
LEMMA IntervalInduction ==
    ASSUME NEW N \in Nat, NEW S, 0 \in S, \A n \in 1..N : n - 1 \in S => n \in S
    PROVE  \A n \in 0..N : n \in S
  <1> DEFINE Missing == {k \in 0..N : k \notin S}
  <1>1. SUFFICES ASSUME Missing # {} PROVE FALSE
    OBVIOUS
  <1>2. PICK k \in Missing : \A j \in Missing : k <= j
    <2>1. Missing \in SUBSET Nat
      OBVIOUS
    <2> HIDE DEF Missing
    <2> QED  BY <1>1, <2>1, LeastNat
  <1>3. k # 0 /\ k \in 1..N /\ k - 1 \in 0..N /\ k - 1 \notin Missing
    BY <1>2
  <1>4. k - 1 \in S
    BY <1>3
  <1> QED  BY <1>2, <1>3, <1>4

-----------------------------------------------------------------------------
(* splitBatches: the types of the loop's state. *)

PackState(L) == [batches : Seq(Seq(L)), cur : Seq(L), bytes : Nat, dropped : Nat]

LEMMA FlushType ==
    ASSUME NEW L, NEW p \in PackState(L)
    PROVE  /\ Flush(p) \in PackState(L)
           /\ p.cur # <<>> => /\ Flush(p).batches = Append(p.batches, p.cur)
                              /\ Flush(p).cur = <<>> /\ Flush(p).bytes = 0
                              /\ Flush(p).dropped = p.dropped
           /\ p.cur = <<>> => Flush(p) = p
  <1>1. CASE p.cur = <<>>
    BY <1>1 DEF Flush
  <1>2. CASE p.cur # <<>>
    <2>1. Append(p.batches, p.cur) \in Seq(Seq(L)) /\ <<>> \in Seq(L)
      BY DEF PackState
    <2> QED  BY <1>2, <2>1 DEF Flush, PackState
  <1> QED  BY <1>1, <1>2

LEMMA PutType ==
    ASSUME NEW L, NEW p \in PackState(L), NEW ln \in L, ln.cost \in Nat
    PROVE  /\ Put(p, ln) \in PackState(L)
           /\ Put(p, ln).batches = p.batches /\ Put(p, ln).dropped = p.dropped
           /\ Put(p, ln).cur = Append(p.cur, ln) /\ Put(p, ln).bytes = p.bytes + ln.cost
  <1> DEFINE c == Append(p.cur, ln)
             y == p.bytes + ln.cost
             r == [p EXCEPT !.cur = c, !.bytes = y]
  <1>1. c \in Seq(L) /\ y \in Nat
    BY DEF PackState
  <1>2. Put(p, ln) = r
    BY DEF Put
  <1>3. /\ r \in PackState(L)
        /\ r.batches = p.batches /\ r.dropped = p.dropped /\ r.cur = c /\ r.bytes = y
    <2> HIDE DEF c, y
    <2> QED  BY <1>1 DEF PackState
  <1> QED  BY <1>2, <1>3

LEMMA DropType ==
    ASSUME NEW L, NEW p \in PackState(L)
    PROVE  /\ Drop(p) \in PackState(L)
           /\ Drop(p).batches = p.batches /\ Drop(p).dropped = p.dropped + 1
           /\ Drop(p).cur = p.cur /\ Drop(p).bytes = p.bytes
  BY DEF Drop, PackState

(* The loop's body is total: it keeps the type whatever the state is. *)
LEMMA PackLineType ==
    ASSUME NEW L, NEW p \in PackState(L), NEW ln \in L, ln.cost \in Nat
    PROVE  PackLine(p, ln) \in PackState(L)
  <1> DEFINE q == IF Full(p, ln) THEN Flush(p) ELSE p
             r == IF Over(q, ln) THEN Flush(q) ELSE q
  <1>1. q \in PackState(L)
    BY FlushType
  <1>2. r \in PackState(L)
    <2> HIDE DEF q
    <2> QED  BY <1>1, FlushType
  <1>3. Drop(p) \in PackState(L) /\ Drop(q) \in PackState(L) /\ Put(r, ln) \in PackState(L)
    <2> HIDE DEF q, r
    <2> QED  BY <1>1, <1>2, DropType, PutType
  <1>4. PackLine(p, ln) \in {Drop(p), Drop(q), Put(r, ln)}
    BY DEF PackLine
  <1> QED  BY <1>3, <1>4

LEMMA PackedIs ==
    ASSUME NEW L, \A ln \in L : ln.cost \in Nat, NEW ls \in Seq(L)
    PROVE  /\ packed(ls) \in [0..Len(ls) -> PackState(L)]
           /\ packed(ls)[0] = Packing
           /\ \A n \in 1..Len(ls) : packed(ls)[n] = PackLine(packed(ls)[n - 1], ls[n])
  <1> DEFINE N == Len(ls)
             T == PackState(L)
             F == [q \in (1..N) \X T |-> PackLine(q[2], ls[q[1]])]
             Def(p) == [n \in 0..N |-> IF n = 0 THEN Packing ELSE PackLine(p[n - 1], ls[n])]
  <1>1. N \in Nat /\ \A n \in 1..N : ls[n] \in L
    OBVIOUS
  <1>2. Packing \in T
    BY DEF Packing, PackState
  <1>3. F \in [(1..N) \X T -> T]
    BY <1>1, PackLineType
  <1>4. PICK f \in [0..N -> T] : Recursive(f, N, Packing, F)
    <2>1. N \in Nat
      BY <1>1
    <2> HIDE DEF N, T, F
    <2> QED  BY <2>1, <1>2, <1>3, Recursion
  <1>5. \A n \in 1..N : f[n] = PackLine(f[n - 1], ls[n])
    <2> SUFFICES ASSUME NEW n \in 1..N PROVE f[n] = PackLine(f[n - 1], ls[n])
      OBVIOUS
    <2>1. f[n - 1] \in T
      <3>1. n - 1 \in 0..N
        BY <1>1
      <3> QED  BY <3>1
    <2>2. F[<<n, f[n - 1]>>] = PackLine(f[n - 1], ls[n])
      <3> HIDE DEF T, N
      <3> QED  BY <2>1
    <2> QED  BY <1>4, <2>2 DEF Recursive
  <1>6. f = Def(f)
    <2>1. \A n \in 0..N : f[n] = Def(f)[n]
      <3> SUFFICES ASSUME NEW n \in 0..N PROVE f[n] = Def(f)[n]
        OBVIOUS
      <3>1. CASE n = 0
        BY <3>1, <1>4 DEF Recursive
      <3>2. CASE n # 0
        BY <3>2, <1>5, <1>1
      <3> QED  BY <3>1, <3>2
    <2>2. DOMAIN f = 0..N /\ DOMAIN Def(f) = 0..N
      BY <1>4
    <2> QED  BY <2>1, <2>2, <1>4
  <1>7. packed(ls) = CHOOSE p : p = Def(p)
    BY DEF packed
  <1>8. packed(ls) = Def(packed(ls))
    <2> HIDE DEF Def
    <2> QED  BY <1>6, <1>7
  <1> DEFINE g == packed(ls)
  <1>9. g[0] = Packing /\ \A n \in 1..N : g[n] = PackLine(g[n - 1], ls[n])
    <2> HIDE DEF g
    <2>1. g = Def(g)
      BY <1>8 DEF g
    <2> HIDE DEF N
    <2>2. 0 \in 0..N /\ \A n \in 1..N : n \in 0..N /\ n # 0
      BY <1>1
    <2> QED  BY <2>1, <2>2
  <1>10. \A n \in 0..N : n \in {k \in 0..N : g[k] \in T}
    <2> DEFINE S == {k \in 0..N : g[k] \in T}
    <2>1. 0 \in S
      BY <1>9, <1>2, <1>1
    <2>2. ASSUME NEW n \in 1..N, n - 1 \in S PROVE n \in S
      <3>1. g[n] = PackLine(g[n - 1], ls[n])
        BY <1>9
      <3>2. ls[n] \in L /\ ls[n].cost \in Nat
        BY <1>1
      <3>3. g[n - 1] \in T
        BY <2>2
      <3> HIDE DEF g, N
      <3> QED  BY <3>1, <3>2, <3>3, PackLineType, <1>1
    <2> HIDE DEF S, g, N
    <2>3. \A n \in 0..N : n \in S
      BY <2>1, <2>2, <1>1, IntervalInduction
    <2> QED  BY <2>3 DEF S
  <1>11. g \in [0..N -> T]
    <2>1. g = [n \in 0..N |-> g[n]]
      <3>1. g = Def(g)
        BY <1>8
      <3> QED  BY <3>1
    <2> HIDE DEF g, T
    <2> QED  BY <2>1, <1>10
  <1> QED  BY <1>9, <1>11

-----------------------------------------------------------------------------
(* The bytes of a batch: the equation of its sum. *)
BytesTo(b) == LET sum[n \in 0..Len(b)] == IF n = 0 THEN 0 ELSE sum[n - 1] + b[n].cost IN sum

Costly == [at : Nat, cost : Nat]

LEMMA BytesToIs ==
    ASSUME NEW b \in Seq(Costly)
    PROVE  /\ BytesTo(b) \in [0..Len(b) -> Nat]
           /\ BytesTo(b)[0] = 0
           /\ \A n \in 1..Len(b) : BytesTo(b)[n] = BytesTo(b)[n - 1] + b[n].cost
           /\ Bytes(b) = BytesTo(b)[Len(b)]
  <1> DEFINE N == Len(b)
             F == [q \in (1..N) \X Nat |-> q[2] + b[q[1]].cost]
             Def(p) == [n \in 0..N |-> IF n = 0 THEN 0 ELSE p[n - 1] + b[n].cost]
             g == BytesTo(b)
  <1>1. N \in Nat /\ \A n \in 1..N : b[n].cost \in Nat
    <2>1. \A n \in 1..N : b[n] \in Costly
      OBVIOUS
    <2>2. \A x \in Costly : x.cost \in Nat
      BY DEF Costly
    <2> QED  BY <2>1, <2>2
  <1>2. F \in [(1..N) \X Nat -> Nat]
    BY <1>1
  <1>3. PICK f \in [0..N -> Nat] : Recursive(f, N, 0, F)
    <2>1. N \in Nat /\ 0 \in Nat
      BY <1>1
    <2> HIDE DEF N, F
    <2> QED  BY <2>1, <1>2, Recursion
  <1>4. \A n \in 1..N : n \in 0..N /\ n - 1 \in 0..N /\ n # 0
    BY <1>1
  <1>5. \A n \in 1..N : f[n] = f[n - 1] + b[n].cost
    <2> SUFFICES ASSUME NEW n \in 1..N PROVE f[n] = f[n - 1] + b[n].cost
      OBVIOUS
    <2>1. f[n - 1] \in Nat
      BY <1>4
    <2>2. F[<<n, f[n - 1]>>] = f[n - 1] + b[n].cost
      BY <2>1
    <2> QED  BY <1>3, <2>2 DEF Recursive
  <1>6. f = Def(f)
    <2> DEFINE d == Def(f)
    <2>1. DOMAIN d = 0..N /\ d[0] = 0 /\ \A n \in 1..N : d[n] = f[n - 1] + b[n].cost
      BY <1>4, <1>1
    <2>2. d = [n \in 0..N |-> d[n]]
      OBVIOUS
    <2> HIDE DEF d
    <2>3. \A n \in 0..N : n = 0 \/ n \in 1..N
      BY <1>1
    <2>4. \A n \in 0..N : d[n] = f[n]
      BY <2>1, <2>3, <1>5, <1>3 DEF Recursive
    <2>5. f = [n \in 0..N |-> f[n]]
      BY <1>3
    <2> HIDE DEF N
    <2>6. f = d
      BY <2>2, <2>4, <2>5
    <2> QED  BY <2>6 DEF d
  <1>7. g = CHOOSE p : p = Def(p)
    BY DEF BytesTo
  <1>8. g = Def(g)
    <2> HIDE DEF Def, g
    <2> QED  BY <1>6, <1>7
  <1> HIDE DEF g
  <1>9. DOMAIN g = 0..N /\ g[0] = 0 /\ \A n \in 1..N : g[n] = g[n - 1] + b[n].cost
    <2> DEFINE d == Def(g)
    <2>1. DOMAIN d = 0..N /\ d[0] = 0 /\ \A n \in 1..N : d[n] = g[n - 1] + b[n].cost
      BY <1>4, <1>1
    <2> HIDE DEF d
    <2>2. g = d
      BY <1>8 DEF d
    <2> QED  BY <2>1, <2>2
  <1>10. \A n \in 0..N : g[n] \in Nat
    <2> DEFINE S == {n \in 0..N : g[n] \in Nat}
    <2>1. 0 \in S
      BY <1>9, <1>1
    <2>2. ASSUME NEW n \in 1..N, n - 1 \in S PROVE n \in S
      <3>1. g[n - 1] \in Nat /\ b[n].cost \in Nat /\ g[n] = g[n - 1] + b[n].cost /\ n \in 0..N
        BY <1>9, <1>1, <1>4, <2>2
      <3> QED  BY <3>1
    <2> HIDE DEF S
    <2>3. N \in Nat
      BY <1>1
    <2> HIDE DEF N
    <2>4. \A n \in 0..N : n \in S
      BY <2>1, <2>2, <2>3, IntervalInduction
    <2> QED  BY <2>4 DEF S
  <1>11. g = [n \in 0..N |-> g[n]]
    <2>1. g = Def(g)
      BY <1>8
    <2> DEFINE d == Def(g)
    <2>2. d = [n \in 0..N |-> d[n]]
      OBVIOUS
    <2> HIDE DEF d
    <2>3. g = d
      BY <1>8 DEF d
    <2> QED  BY <2>2, <2>3
  <1>12. g \in [0..N -> Nat]
    <2> HIDE DEF N
    <2> QED  BY <1>10, <1>11
  <1>13. Bytes(b) = g[N]
    BY DEF Bytes, g, BytesTo
  <1> QED  BY <1>9, <1>12, <1>13 DEF g

LEMMA BytesNil == Bytes(<<>>) = 0
  <1>1. <<>> \in Seq(Costly) /\ Len(<<>>) = 0
    OBVIOUS
  <1> QED  BY <1>1, BytesToIs

LEMMA BytesNat == ASSUME NEW b \in Seq(Costly) PROVE Bytes(b) \in Nat
  <1>1. Len(b) \in 0..Len(b)
    OBVIOUS
  <1> QED  BY <1>1, BytesToIs

LEMMA BytesAppend ==
    ASSUME NEW b \in Seq(Costly), NEW ln \in Costly
    PROVE  Bytes(Append(b, ln)) = Bytes(b) + ln.cost
  <1> DEFINE a == Append(b, ln)
             N == Len(b)
             f == BytesTo(b)
             g == BytesTo(a)
             S == {n \in 0..N : g[n] = f[n]}
  <1>1. a \in Seq(Costly) /\ Len(a) = N + 1 /\ N \in Nat /\ a[N + 1] = ln /\ \A n \in 1..N : a[n] = b[n]
    OBVIOUS
  <1>2. /\ f[0] = 0 /\ \A n \in 1..N : f[n] = f[n - 1] + b[n].cost
        /\ Bytes(b) = f[N]
    BY BytesToIs
  <1>3. /\ g[0] = 0 /\ \A n \in 1..N + 1 : g[n] = g[n - 1] + a[n].cost
        /\ Bytes(a) = g[N + 1]
    <2> HIDE DEF a
    <2> QED  BY <1>1, BytesToIs
  <1> HIDE DEF a, f, g, N
  <1>4. 0 \in S
    BY <1>1, <1>2, <1>3
  <1>5. ASSUME NEW n \in 1..N, n - 1 \in S PROVE n \in S
    <2>1. n \in 1..N + 1 /\ n \in 0..N
      BY <1>1
    <2>2. g[n] = g[n - 1] + a[n].cost /\ f[n] = f[n - 1] + b[n].cost /\ a[n] = b[n]
      BY <1>1, <1>2, <1>3, <2>1
    <2> QED  BY <1>5, <2>1, <2>2
  <1> HIDE DEF S
  <1>6. \A n \in 0..N : n \in S
    BY <1>1, <1>4, <1>5, IntervalInduction
  <1>7. g[N] = f[N]
    BY <1>1, <1>6 DEF S
  <1>8. g[N + 1] = g[N] + ln.cost
    <2>1. N + 1 \in 1..N + 1 /\ (N + 1) - 1 = N
      BY <1>1
    <2> QED  BY <1>1, <1>3, <2>1
  <1> QED  BY <1>2, <1>3, <1>7, <1>8 DEF a

-----------------------------------------------------------------------------
(* What one turn of the loop does: it may flush the batch it was filling,  *)
(* never the last one, and then takes the line, if it fits or the batch is *)
(* empty, or counts it as dropped.                                         *)
Turns(p, q, ln) ==
    /\ q = p \/ (p.cur # <<>> /\ q = Flush(p) /\ Len(p.batches) + 1 < MaxBatches)
    /\ \/ PackLine(p, ln) = Drop(q)
       \/ /\ PackLine(p, ln) = Put(q, ln) /\ Len(q.cur) < MaxLinesPerBatch
          /\ q.cur = <<>> \/ q.bytes + ln.cost <= MaxBytesPerBatch

LEMMA PackLineTurns ==
    ASSUME NEW L, NEW p \in PackState(L), NEW ln, ln.cost \in Nat,
           Len(p.batches) < MaxBatches, p.cur = <<>> => p.bytes = 0
    PROVE  \E q \in PackState(L) : Turns(p, q, ln)
  <1>1. /\ Len(p.batches) \in Nat /\ Len(p.cur) \in Nat /\ p.bytes \in Nat
        /\ p.cur = <<>> <=> Len(p.cur) = 0
    BY DEF PackState
  <1>2. MaxLinesPerBatch \in Nat \ {0} /\ MaxBytesPerBatch \in Nat /\ MaxBatches \in Nat
    BY BatchAssumption
  <1> DEFINE f == Flush(p)
  <1>3. f \in PackState(L)
    BY FlushType
  <1>4. CASE Full(p, ln) /\ LastBatch(p)
    <2>1. PackLine(p, ln) = Drop(p)
      BY <1>4 DEF PackLine
    <2> QED  BY <2>1 DEF Turns
  <1>5. CASE Full(p, ln) /\ ~LastBatch(p)
    <2>1. p.cur # <<>>
      BY <1>5, <1>1, <1>2 DEF Full
    <2>2. /\ f.batches = Append(p.batches, p.cur) /\ f.cur = <<>> /\ f.bytes = 0
      BY <2>1, FlushType
    <2>3. Len(p.batches) + 1 < MaxBatches
      BY <1>5, <1>1, <1>2 DEF LastBatch
    <2>4. Len(f.batches) = Len(p.batches) + 1 /\ Len(f.cur) = 0
      BY <2>2 DEF PackState
    <2>5. ~(Len(f.batches) >= MaxBatches)
      BY <2>3, <2>4, <1>1, <1>2
    <2>6. Flush(f) = f
      BY <2>2, <1>3, FlushType
    <2>7. PackLine(p, ln) = IF Over(f, ln) /\ LastBatch(f) THEN Drop(f) ELSE Put(f, ln)
      <3> HIDE DEF f
      <3>1. PackLine(p, ln) = IF Len(f.batches) >= MaxBatches THEN Drop(f)
                              ELSE IF Over(f, ln) /\ LastBatch(f) THEN Drop(f)
                              ELSE Put(IF Over(f, ln) THEN Flush(f) ELSE f, ln)
        BY <1>5 DEF PackLine, f
      <3> QED  BY <3>1, <2>5, <2>6
    <2>8. Len(f.cur) < MaxLinesPerBatch
      BY <2>4, <1>2
    <2> HIDE DEF f
    <2>9. Turns(p, f, ln)
      BY <2>1, <2>2, <2>3, <2>7, <2>8 DEF Turns, f
    <2> QED  BY <2>9, <1>3
  <1>6. CASE ~Full(p, ln)
    <2>1. ~(Len(p.batches) >= MaxBatches)
      BY <1>1, <1>2
    <2>2. PackLine(p, ln) = IF Over(p, ln) /\ LastBatch(p) THEN Drop(p)
                            ELSE Put(IF Over(p, ln) THEN Flush(p) ELSE p, ln)
      BY <1>6, <2>1 DEF PackLine
    <2>3. Len(p.cur) < MaxLinesPerBatch /\ (p.cur = <<>> \/ p.bytes + ln.cost <= MaxBytesPerBatch)
      BY <1>6, <1>1, <1>2 DEF Full
    <2>4. Over(p, ln) => Flush(p) = p
      <3>1. Over(p, ln) => p.cur = <<>>
        BY <2>3, <1>1, <1>2 DEF Over
      <3> QED  BY <3>1, FlushType
    <2>5. PackLine(p, ln) = Drop(p) \/ PackLine(p, ln) = Put(p, ln)
      BY <2>2, <2>4
    <2> QED  BY <2>3, <2>5 DEF Turns
  <1> QED  BY <1>4, <1>5, <1>6

-----------------------------------------------------------------------------
(* The loop's invariant after n lines. What is open counts as a batch. *)
Open(p) == Append(p.batches, p.cur)

SizesKept(p) ==
    /\ p \in PackState(Costly)
    /\ Len(p.batches) < MaxBatches
    /\ \A b \in DOMAIN p.batches : Len(p.batches[b]) \in 1..MaxLinesPerBatch
    /\ Len(p.cur) <= MaxLinesPerBatch
    /\ p.bytes = Bytes(p.cur)
    /\ \A b \in DOMAIN p.batches : Bytes(p.batches[b]) > MaxBytesPerBatch => Len(p.batches[b]) = 1
    /\ Bytes(p.cur) > MaxBytesPerBatch => Len(p.cur) = 1

LinesKept(bs, dropped_, n) ==
    /\ Kept(bs) \subseteq 1..n /\ Cardinality(Kept(bs)) + dropped_ = n
    /\ Verbatim(bs) /\ InOrder(bs)

LoopInv(p, n) == SizesKept(p) /\ LinesKept(Open(p), p.dropped, n)

LEMMA KeptIs ==
    \A bs, x : x \in Kept(bs) <=> \E b \in DOMAIN bs : \E i \in DOMAIN bs[b] : x = bs[b][i].at
  BY DEF Kept

(* A batch that is closed and an empty one that is opened hold the lines   *)
(* they held.                                                              *)
LEMMA EmptyBatch ==
    ASSUME NEW bs \in Seq(Seq(Costly))
    PROVE  /\ Kept(Append(bs, <<>>)) = Kept(bs)
           /\ Verbatim(Append(bs, <<>>)) <=> Verbatim(bs)
           /\ InOrder(Append(bs, <<>>)) <=> InOrder(bs)
  <1> DEFINE a == Append(bs, <<>>)
             N == Len(bs)
  <1>1. N \in Nat /\ DOMAIN bs = 1..N /\ DOMAIN a = 1..N + 1
    OBVIOUS
  <1>2. a[N + 1] = <<>> /\ \A b \in 1..N : a[b] = bs[b]
    OBVIOUS
  <1>3. DOMAIN a[N + 1] = {}
    BY <1>2
  <1>4. \A b \in 1..N + 1 : b \in 1..N \/ b = N + 1
    BY <1>1
  <1>5. \A b \in 1..N : b \in 1..N + 1
    BY <1>1
  <1> HIDE DEF a, N
  <1>6. Kept(a) = Kept(bs)
    <2>1. \A x : x \in Kept(a) => x \in Kept(bs)
      BY KeptIs, <1>1, <1>2, <1>3, <1>4
    <2>2. \A x : x \in Kept(bs) => x \in Kept(a)
      BY KeptIs, <1>1, <1>2, <1>5
    <2> QED  BY <2>1, <2>2
  <1>7. Verbatim(a) <=> Verbatim(bs)
    <2>1. Verbatim(a) => Verbatim(bs)
      BY <1>1, <1>2, <1>5 DEF Verbatim
    <2>2. Verbatim(bs) => Verbatim(a)
      BY <1>1, <1>2, <1>3, <1>4 DEF Verbatim
    <2> QED  BY <2>1, <2>2
  <1>8. InOrder(a) <=> InOrder(bs)
    BY <1>1, <1>2, <1>3, <1>4, <1>5 DEF InOrder
  <1> QED  BY <1>6, <1>7, <1>8 DEF a

(* The batch being filled takes the next line. *)
LEMMA NextLine ==
    ASSUME NEW bs \in Seq(Seq(Costly)), NEW cur \in Seq(Costly), NEW ln \in Costly, NEW n \in Nat \ {0},
           ln.at = n, lines[n] = ln, Kept(Append(bs, cur)) \subseteq 1..n - 1,
           Verbatim(Append(bs, cur)), InOrder(Append(bs, cur))
    PROVE  /\ Kept(Append(bs, Append(cur, ln))) = Kept(Append(bs, cur)) \cup {n}
           /\ Verbatim(Append(bs, Append(cur, ln))) /\ InOrder(Append(bs, Append(cur, ln)))
  <1> DEFINE c == Append(cur, ln)
             a == Append(bs, c)
             o == Append(bs, cur)
             N == Len(bs)
             M == Len(cur)
  <1>1. /\ N \in Nat /\ M \in Nat /\ DOMAIN o = 1..N + 1
        /\ o[N + 1] = cur /\ \A b \in 1..N : o[b] = bs[b]
    OBVIOUS
  <1>2. DOMAIN c = 1..M + 1 /\ c[M + 1] = ln /\ \A i \in 1..M : c[i] = cur[i]
    OBVIOUS
  <1>3. DOMAIN a = 1..N + 1 /\ a[N + 1] = c /\ \A b \in 1..N : a[b] = bs[b]
    <2>1. c \in Seq(Costly)
      OBVIOUS
    <2> HIDE DEF c
    <2> QED  BY <2>1
  <1>4. DOMAIN cur = 1..M
    OBVIOUS
  <1>5. \A b \in 1..N + 1 : b \in 1..N \/ b = N + 1
    BY <1>1
  <1>6. \A i \in 1..M + 1 : i \in 1..M \/ i = M + 1
    BY <1>1
  <1>7. (\A i \in 1..M : i \in 1..M + 1) /\ M + 1 \in 1..M + 1 /\ N + 1 \in 1..N + 1 /\ \A b \in 1..N : b \in 1..N + 1
    BY <1>1
  <1> HIDE DEF a, c, o, N, M
  (* A place of the new batches is the new line's or an old place. *)
  <1>8. ASSUME NEW b \in DOMAIN a, NEW i \in DOMAIN a[b]
        PROVE  \/ b = N + 1 /\ i = M + 1 /\ a[b][i] = ln
               \/ b \in DOMAIN o /\ i \in DOMAIN o[b] /\ a[b][i] = o[b][i]
    BY <1>1, <1>2, <1>3, <1>4, <1>5, <1>6, <1>8
  <1>9. ASSUME NEW b \in DOMAIN o, NEW i \in DOMAIN o[b]
        PROVE  b \in DOMAIN a /\ i \in DOMAIN a[b] /\ a[b][i] = o[b][i]
    BY <1>1, <1>2, <1>3, <1>4, <1>5, <1>7, <1>9
  <1>10. N + 1 \in DOMAIN a /\ M + 1 \in DOMAIN a[N + 1] /\ a[N + 1][M + 1] = ln
    BY <1>2, <1>3, <1>7
  <1>11. Kept(a) = Kept(o) \cup {n}
    <2>1. \A x : x \in Kept(a) => x \in Kept(o) \cup {n}
      BY KeptIs, <1>8
    <2>2. \A x : x \in Kept(o) => x \in Kept(a)
      BY KeptIs, <1>9
    <2>3. n \in Kept(a)
      BY KeptIs, <1>10
    <2> QED  BY <2>1, <2>2, <2>3
  <1>12. Verbatim(o) /\ InOrder(o) /\ Kept(o) \subseteq 1..n - 1
    BY DEF o
  <1>13. Verbatim(a)
    <2> SUFFICES ASSUME NEW b \in DOMAIN a, NEW i \in DOMAIN a[b] PROVE a[b][i] = lines[a[b][i].at]
      BY DEF Verbatim
    <2>1. CASE b = N + 1 /\ i = M + 1 /\ a[b][i] = ln
      BY <2>1
    <2>2. CASE b \in DOMAIN o /\ i \in DOMAIN o[b] /\ a[b][i] = o[b][i]
      BY <2>2, <1>12 DEF Verbatim
    <2> QED  BY <2>1, <2>2, <1>8
  <1>14. InOrder(a)
    <2> SUFFICES ASSUME NEW b \in DOMAIN a, NEW d \in DOMAIN a, NEW i \in DOMAIN a[b], NEW k \in DOMAIN a[d],
                        b < d \/ (b = d /\ i < k)
                 PROVE  a[b][i].at < a[d][k].at
      BY DEF InOrder
    <2>1. ~(b = N + 1 /\ i = M + 1)
      <3>1. b \in 1..N + 1 /\ d \in 1..N + 1
        BY <1>3
      <3>2. d = N + 1 => k \in 1..M + 1
        BY <1>2, <1>3
      <3> QED  BY <3>1, <3>2, <1>1
    <2>2. b \in DOMAIN o /\ i \in DOMAIN o[b] /\ a[b][i] = o[b][i]
      BY <2>1, <1>8
    <2>3. CASE d = N + 1 /\ k = M + 1 /\ a[d][k] = ln
      <3>1. a[b][i].at \in Kept(o)
        BY <2>2, KeptIs
      <3>2. a[b][i].at \in 1..n - 1
        BY <3>1, <1>12
      <3> QED  BY <3>2, <2>3
    <2>4. CASE d \in DOMAIN o /\ k \in DOMAIN o[d] /\ a[d][k] = o[d][k]
      BY <2>2, <2>4, <1>12 DEF InOrder
    <2> QED  BY <2>3, <2>4, <1>8
  <1> QED  BY <1>11, <1>13, <1>14 DEF a, c, o

LEMMA FlushKeeps ==
    ASSUME NEW p, NEW n, LoopInv(p, n), p.cur # <<>>, Len(p.batches) + 1 < MaxBatches
    PROVE  LoopInv(Flush(p), n)
  <1> DEFINE f == Flush(p)
  <1>1. SizesKept(p) /\ p \in PackState(Costly)
    BY DEF LoopInv, SizesKept
  <1>2. /\ f \in PackState(Costly) /\ f.batches = Append(p.batches, p.cur)
        /\ f.cur = <<>> /\ f.bytes = 0 /\ f.dropped = p.dropped
    BY <1>1, FlushType
  <1>3. p.batches \in Seq(Seq(Costly)) /\ p.cur \in Seq(Costly)
    BY <1>1 DEF PackState
  <1> DEFINE N == Len(p.batches)
  <1>4. /\ N \in Nat /\ DOMAIN p.batches = 1..N /\ DOMAIN f.batches = 1..N + 1 /\ Len(f.batches) = N + 1
        /\ f.batches[N + 1] = p.cur /\ \A b \in 1..N : f.batches[b] = p.batches[b]
    BY <1>2, <1>3
  <1>5. Len(p.cur) \in 1..MaxLinesPerBatch
    <2>1. Len(p.cur) \in Nat /\ Len(p.cur) # 0
      BY <1>3
    <2> QED  BY <1>1, <2>1, BatchAssumption DEF SizesKept
  <1>6. \A b \in 1..N + 1 : b \in 1..N \/ b = N + 1
    BY <1>4
  <1>7. Len(f.cur) = 0 /\ Bytes(f.cur) = 0
    BY <1>2, BytesNil
  <1> HIDE DEF f, N
  <1>8. SizesKept(f)
    BY <1>1, <1>2, <1>4, <1>5, <1>6, <1>7, BatchAssumption DEF SizesKept, N
  <1>9. Open(f) = Append(Open(p), <<>>) /\ Open(p) \in Seq(Seq(Costly))
    BY <1>2, <1>3 DEF Open
  <1>10. LinesKept(Open(f), f.dropped, n)
    BY <1>2, <1>9, EmptyBatch DEF LoopInv, LinesKept
  <1> QED  BY <1>8, <1>10 DEF LoopInv, f

LinesOK == lines \in Seq(Costly) /\ \A i \in DOMAIN lines : lines[i].at = i

LEMMA DropKeeps ==
    ASSUME NEW p, NEW n \in Nat \ {0}, LoopInv(p, n - 1)
    PROVE  LoopInv(Drop(p), n)
  <1>1. p \in PackState(Costly)
    BY DEF LoopInv, SizesKept
  <1>2. /\ Drop(p) \in PackState(Costly) /\ Drop(p).batches = p.batches /\ Drop(p).dropped = p.dropped + 1
        /\ Drop(p).cur = p.cur /\ Drop(p).bytes = p.bytes
    BY <1>1, DropType
  <1>3. SizesKept(Drop(p))
    BY <1>2 DEF LoopInv, SizesKept
  <1>4. Open(Drop(p)) = Open(p)
    BY <1>2 DEF Open
  <1>5. Kept(Open(p)) \subseteq 1..n - 1 /\ Cardinality(Kept(Open(p))) + p.dropped = n - 1
    BY DEF LoopInv, LinesKept
  <1>6. IsFiniteSet(Kept(Open(p)))
    <2>1. IsFiniteSet(1..n - 1)
      BY FS_Interval
    <2> QED  BY <2>1, <1>5, FS_Subset
  <1>7. Cardinality(Kept(Open(p))) \in Nat /\ p.dropped \in Nat
    BY <1>1, <1>6, FS_CardinalityType DEF PackState
  <1>8. Kept(Open(p)) \subseteq 1..n /\ Cardinality(Kept(Open(p))) + (p.dropped + 1) = n
    BY <1>5, <1>7
  <1> QED  BY <1>2, <1>3, <1>4, <1>8 DEF LoopInv, LinesKept

LEMMA PutKeeps ==
    ASSUME NEW p, NEW n \in 1..Len(lines), LinesOK, LoopInv(p, n - 1),
           Len(p.cur) < MaxLinesPerBatch,
           p.cur = <<>> \/ p.bytes + lines[n].cost <= MaxBytesPerBatch
    PROVE  LoopInv(Put(p, lines[n]), n)
  <1> DEFINE ln == lines[n]
             q == Put(p, ln)
  <1>1. p \in PackState(Costly) /\ SizesKept(p)
    BY DEF LoopInv, SizesKept
  <1>2. n \in Nat \ {0} /\ ln \in Costly /\ ln.at = n
    BY DEF LinesOK
  <1>3. ln.cost \in Nat
    BY <1>2 DEF Costly
  <1> HIDE DEF ln
  <1>4. /\ q \in PackState(Costly) /\ q.batches = p.batches /\ q.dropped = p.dropped
        /\ q.cur = Append(p.cur, ln) /\ q.bytes = p.bytes + ln.cost
    BY <1>1, <1>2, <1>3, PutType
  <1>5. p.batches \in Seq(Seq(Costly)) /\ p.cur \in Seq(Costly) /\ p.bytes \in Nat /\ p.dropped \in Nat
    BY <1>1 DEF PackState
  <1> HIDE DEF q
  <1>6. SizesKept(q)
    <2>1. Len(q.cur) = Len(p.cur) + 1 /\ Len(p.cur) \in Nat
      BY <1>4, <1>5
    <2>2. Bytes(q.cur) = Bytes(p.cur) + ln.cost
      BY <1>2, <1>4, <1>5, BytesAppend
    <2>3. q.bytes = Bytes(q.cur)
      BY <2>2, <1>1, <1>4 DEF SizesKept
    <2>4. Len(q.cur) <= MaxLinesPerBatch
      BY <2>1, BatchAssumption
    <2>5. q.bytes > MaxBytesPerBatch => Len(q.cur) = 1
      <3>1. CASE p.cur = <<>>
        BY <3>1, <2>1
      <3>2. CASE p.bytes + ln.cost <= MaxBytesPerBatch
        BY <3>2, <1>4, <1>5, <1>3, BatchAssumption
      <3> QED  BY <3>1, <3>2 DEF ln
    <2> QED  BY <1>1, <1>4, <2>3, <2>4, <2>5 DEF SizesKept
  <1>7. /\ Kept(Open(p)) \subseteq 1..n - 1 /\ Cardinality(Kept(Open(p))) + p.dropped = n - 1
        /\ Verbatim(Open(p)) /\ InOrder(Open(p))
    BY DEF LoopInv, LinesKept
  <1>8. /\ Kept(Open(q)) = Kept(Open(p)) \cup {n} /\ Verbatim(Open(q)) /\ InOrder(Open(q))
    <2>1. lines[n] = ln
      BY DEF ln
    <2> QED  BY <1>2, <1>4, <1>5, <1>7, <2>1, NextLine DEF Open
  <1>9. IsFiniteSet(Kept(Open(p)))
    <2>1. IsFiniteSet(1..n - 1)
      <3>1. 1 \in Int /\ n - 1 \in Int
        BY <1>2
      <3> QED  BY ONLY <3>1, FS_Interval
    <2> QED  BY <2>1, <1>7, FS_Subset
  <1>10. n \notin Kept(Open(p))
    BY <1>2, <1>7
  <1>11. Cardinality(Kept(Open(q))) = Cardinality(Kept(Open(p))) + 1 /\ Cardinality(Kept(Open(p))) \in Nat
    BY <1>8, <1>9, <1>10, FS_AddElement, FS_CardinalityType
  <1>12. Cardinality(Kept(Open(q))) + q.dropped = n
    BY <1>2, <1>4, <1>5, <1>7, <1>11
  <1>13. Kept(Open(q)) \subseteq 1..n
    BY <1>2, <1>7, <1>8
  <1> QED  BY <1>6, <1>8, <1>12, <1>13 DEF LoopInv, LinesKept, q, ln

LEMMA LoopHolds ==
    ASSUME LinesOK
    PROVE  \A n \in 0..Len(lines) : LoopInv(packed(lines)[n], n)
  <1> DEFINE N == Len(lines)
             g == packed(lines)
             S == {n \in 0..N : LoopInv(g[n], n)}
  <1>1. N \in Nat /\ lines \in Seq(Costly) /\ \A ln \in Costly : ln.cost \in Nat
    BY DEF LinesOK, Costly
  <1>2. /\ g \in [0..N -> PackState(Costly)] /\ g[0] = Packing
        /\ \A n \in 1..N : g[n] = PackLine(g[n - 1], lines[n])
    BY <1>1, PackedIs
  <1> HIDE DEF g
  <1>3. LoopInv(Packing, 0)
    <2>1. /\ Packing \in PackState(Costly) /\ Packing.batches = <<>> /\ Packing.cur = <<>>
          /\ Packing.bytes = 0 /\ Packing.dropped = 0 /\ Len(<<>>) = 0 /\ DOMAIN <<>> = {}
      BY DEF Packing, PackState
    <2>2. SizesKept(Packing)
      BY <2>1, BytesNil, BatchAssumption DEF SizesKept
    <2>3. <<>> \in Seq(Seq(Costly)) /\ Open(Packing) = Append(<<>>, <<>>)
      BY <2>1 DEF Open
    <2>4. Kept(<<>>) = {} /\ Verbatim(<<>>) /\ InOrder(<<>>)
      <3>1. DOMAIN <<>> = {}
        OBVIOUS
      <3> QED  BY <3>1 DEF Kept, Verbatim, InOrder
    <2>5. Kept(Open(Packing)) = {} /\ Verbatim(Open(Packing)) /\ InOrder(Open(Packing))
      BY <2>3, <2>4, EmptyBatch
    <2>6. Cardinality({}) = 0
      BY FS_EmptySet
    <2> QED  BY <2>1, <2>2, <2>5, <2>6 DEF LoopInv, LinesKept
  <1>4. 0 \in S
    BY <1>1, <1>2, <1>3
  <1>5. ASSUME NEW n \in 1..N, n - 1 \in S PROVE n \in S
    <2> DEFINE p == g[n - 1]
               ln == lines[n]
    <2>1. LoopInv(p, n - 1) /\ g[n] = PackLine(p, ln) /\ n \in 0..N /\ n \in Nat \ {0}
      BY <1>1, <1>2, <1>5
    <2>2. SizesKept(p) /\ p \in PackState(Costly)
      BY <2>1 DEF LoopInv, SizesKept
    <2>3. ln.cost \in Nat
      BY <1>1
    <2>4. p.cur = <<>> => p.bytes = 0
      BY <2>2, BytesNil DEF SizesKept
    <2> HIDE DEF p, ln
    <2>5. PICK q \in PackState(Costly) : Turns(p, q, ln)
      <3>1. Len(p.batches) < MaxBatches
        BY <2>2 DEF SizesKept
      <3> QED  BY <2>2, <2>3, <2>4, <3>1, PackLineTurns
    <2>6. LoopInv(q, n - 1)
      BY <2>1, <2>5, FlushKeeps DEF Turns
    <2>7. CASE PackLine(p, ln) = Drop(q)
      BY <2>1, <2>6, <2>7, DropKeeps
    <2>8. CASE /\ PackLine(p, ln) = Put(q, ln) /\ Len(q.cur) < MaxLinesPerBatch
               /\ q.cur = <<>> \/ q.bytes + ln.cost <= MaxBytesPerBatch
      <3>1. LoopInv(Put(q, ln), n)
        BY <2>6, <2>8, PutKeeps DEF ln
      <3> QED  BY <2>1, <2>8, <3>1
    <2> QED  BY <2>5, <2>7, <2>8 DEF Turns
  <1> HIDE DEF S
  <1>6. \A n \in 0..N : n \in S
    BY <1>1, <1>4, <1>5, IntervalInduction
  <1> QED  BY <1>6 DEF S, g

LEMMA FinishSound ==
    ASSUME NEW p, NEW n, LoopInv(p, n)
    PROVE  /\ LinesKept(Finish(p).batches, Finish(p).dropped, n)
           /\ Len(Finish(p).batches) <= MaxBatches
           /\ \A b \in DOMAIN Finish(p).batches :
                  /\ Len(Finish(p).batches[b]) \in 1..MaxLinesPerBatch
                  /\ Bytes(Finish(p).batches[b]) > MaxBytesPerBatch => Len(Finish(p).batches[b]) = 1
  <1>1. p \in PackState(Costly) /\ SizesKept(p)
    BY DEF LoopInv, SizesKept
  <1>2. Finish(p) = Flush(p)
    BY <1>1 DEF Finish, SizesKept
  <1>3. p.batches \in Seq(Seq(Costly)) /\ p.cur \in Seq(Costly)
    BY <1>1 DEF PackState
  <1>4. CASE p.cur = <<>>
    <2>1. Flush(p) = p
      BY <1>1, <1>4, FlushType
    <2>2. Open(p) = Append(p.batches, <<>>)
      BY <1>4 DEF Open
    <2>3. LinesKept(p.batches, p.dropped, n)
      BY <1>3, <2>2, EmptyBatch DEF LoopInv, LinesKept
    <2>4. Len(p.batches) <= MaxBatches
      BY <1>1, <1>3, BatchAssumption DEF SizesKept
    <2> QED  BY <1>1, <1>2, <2>1, <2>3, <2>4 DEF SizesKept
  <1>5. CASE p.cur # <<>>
    <2> DEFINE f == Flush(p)
               N == Len(p.batches)
    <2>1. f.batches = Open(p) /\ f.dropped = p.dropped
      BY <1>1, <1>5, FlushType DEF Open
    <2>2. LinesKept(f.batches, f.dropped, n)
      BY <2>1 DEF LoopInv
    <2>3. /\ N \in Nat /\ DOMAIN p.batches = 1..N /\ DOMAIN f.batches = 1..N + 1 /\ Len(f.batches) = N + 1
          /\ f.batches[N + 1] = p.cur /\ \A b \in 1..N : f.batches[b] = p.batches[b]
      BY <1>3, <2>1 DEF Open
    <2>4. Len(p.cur) \in 1..MaxLinesPerBatch
      <3>1. Len(p.cur) \in Nat /\ Len(p.cur) # 0
        BY <1>3, <1>5
      <3> QED  BY <1>1, <3>1, BatchAssumption DEF SizesKept
    <2>5. N + 1 <= MaxBatches
      BY <1>1, <2>3, BatchAssumption DEF SizesKept
    <2>6. \A b \in 1..N + 1 : b \in 1..N \/ b = N + 1
      BY <2>3
    <2> HIDE DEF f, N
    <2>7. \A b \in DOMAIN f.batches :
                  /\ Len(f.batches[b]) \in 1..MaxLinesPerBatch
                  /\ Bytes(f.batches[b]) > MaxBytesPerBatch => Len(f.batches[b]) = 1
      BY <1>1, <2>3, <2>4, <2>6 DEF SizesKept
    <2> QED  BY <1>2, <2>2, <2>3, <2>5, <2>7 DEF f
  <1> QED  BY <1>4, <1>5

LEMMA BatchesSoundFor == LinesOK => BatchesSound
  <1> SUFFICES ASSUME LinesOK PROVE BatchesSound
    OBVIOUS
  <1> DEFINE p == packed(lines)[Len(lines)]
  <1>1. LoopInv(p, Len(lines))
    <2>1. Len(lines) \in 0..Len(lines)
      BY DEF LinesOK
    <2> QED  BY <2>1, LoopHolds
  <1>2. Out = Finish(p)
    BY DEF Out, splitBatches
  <1> HIDE DEF p
  <1> QED  BY <1>1, <1>2, FinishSound DEF BatchesSound, NothingVanishes, BatchesCapped, BytesCapped, LinesKept

(* Whatever lines Collect hands it, splitBatches keeps every line once, in *)
(* order and unchanged, or counts it as dropped, and stays within its      *)
(* limits of batches, lines and bytes.                                     *)
THEOREM BatchesSoundHolds == BatchSpec => []BatchesSound
  <1>1. BatchInit => LinesOK
    BY DEF BatchInit, LinesOK
  <1>2. LinesOK /\ [BatchNext]_lines => LinesOK'
    <2> SUFFICES ASSUME LinesOK, [BatchNext]_lines PROVE LinesOK'
      OBVIOUS
    <2>1. CASE UNCHANGED lines
      BY <2>1 DEF LinesOK
    <2>2. CASE CollectsAnew
      BY <2>2 DEF LinesOK, CollectsAnew
    <2>3. ASSUME NEW c \in Costs, Collects(c) PROVE LinesOK'
      <3> DEFINE ln == [at |-> Len(lines) + 1, cost |-> c]
      <3>1. ln \in Costly /\ ln.at = Len(lines) + 1
        BY InputAssumption DEF Costly, LinesOK
      <3>2. lines' = Append(lines, ln)
        BY <2>3 DEF Collects
      <3> HIDE DEF ln
      <3> QED  BY <3>1, <3>2 DEF LinesOK
    <2> QED  BY <2>1, <2>2, <2>3 DEF BatchNext
  <1> QED  BY <1>1, <1>2, BatchesSoundFor, PTL DEF BatchSpec

-----------------------------------------------------------------------------
(* The sync. A batch of it is in one place at a time: on the way, in the   *)
(* server's hands or acknowledged; only while the sync waits for it.       *)

SyncId == {"b"} \X (1..MaxBatches)
Msg == [id : Ids, lines : SUBSET Lines]

ShipType ==
    /\ size \in Cursors /\ cursor \in Cursors /\ pend \in Cursors
    /\ conn \in 0..MaxConns /\ link \in BOOLEAN /\ syncConn \in 0..conn
    /\ link => conn # 0
    /\ up \in Seq(Msg) /\ down \in Seq(Ids) /\ hand \in [1..MaxConns -> Msg \cup {NoMsg}]
    /\ acks \in [Ids -> Waiters \cup {NoWaiter}] /\ got \subseteq Waiters
    /\ syncPC \in {"idle", "journal", "acl", "send", "wait", "apply"}
    /\ found \in Seq(Lines) /\ todo \in Seq([id : SyncId, lines : SUBSET Lines])
    /\ syncPC \in {"send", "wait"} => todo # <<>>
    /\ syncPC = "apply" => todo = <<>>
    /\ sink \in 0..conn /\ seq \in [Run -> 0..MaxEmit]
    /\ buf \in [Run -> SUBSET Lines] /\ aclOff \in [Run -> 0..MaxLine]
    /\ hasACL \in [Run -> BOOLEAN]
    /\ handled \subseteq Lines /\ dropped \subseteq Lines

(* A batch of the sync on the way, in the server's hands, acknowledged. *)
Sent(i) == i \in DOMAIN up /\ up[i].id \in SyncId
Held(k) == k \in 1..MaxConns /\ hand[k] # NoMsg /\ hand[k].id \in SyncId
Acking(i) == i \in DOMAIN down /\ down[i] \in SyncId

OneInFlight ==
    /\ \A i, j : Sent(i) /\ Sent(j) => i = j
    /\ \A i, j : Held(i) /\ Held(j) => i = j
    /\ \A i, j : Acking(i) /\ Acking(j) => i = j
    /\ \A i, j : ~(Sent(i) /\ Held(j)) /\ ~(Sent(i) /\ Acking(j)) /\ ~(Held(i) /\ Acking(j))
    /\ \A i : Sent(i) \/ Held(i) \/ Acking(i) => syncPC = "wait" /\ "sync" \notin got

TokensTrue ==
    /\ \A i : Sent(i) => Working(syncConn) /\ Head(todo).lines \subseteq up[i].lines
    /\ \A k : Held(k) => Head(todo).lines \subseteq hand[k].lines
    /\ \A i : Acking(i) => Head(todo).lines \subseteq handled
    /\ syncPC = "wait" /\ "sync" \in got => Head(todo).lines \subseteq handled
    /\ \A i \in Ids : acks[i] = "sync" => i \in SyncId
    /\ \A k \in 1..MaxConns : hand[k] # NoMsg => k <= conn

(* The sources whose cursor only the sync moves. *)
Synced == IF Run = {} THEN Source ELSE {"journal"}

Covered(s, n, X) == \A i \in 1..n : Line(s, i) \in handled \cup dropped \cup X
TodoLines == UNION {todo[i].lines : i \in DOMAIN todo}

CursorsCovered ==
    \A s \in Synced :
        /\ Covered(s, cursor[s], {})
        /\ syncPC = "journal" => Covered(s, pend[s], {})
        /\ syncPC = "acl" => Covered(s, pend[s], Range(found))
        /\ syncPC \in {"send", "wait", "apply"} => Covered(s, pend[s], TodoLines)

-----------------------------------------------------------------------------
Short(p) == Len(p.batches) < MaxBatches /\ (p.cur = <<>> => p.bytes = 0)

LEMMA ShortKept ==
    ASSUME NEW L, NEW p \in PackState(L), NEW ln \in L, ln.cost \in Nat, Short(p)
    PROVE  Short(PackLine(p, ln))
  <1>1. PICK q \in PackState(L) : Turns(p, q, ln)
    BY PackLineTurns DEF Short
  <1>2. Short(q)
    <2>1. CASE q = p
      BY <2>1
    <2>2. CASE p.cur # <<>> /\ q = Flush(p) /\ Len(p.batches) + 1 < MaxBatches
      <3>1. q.batches = Append(p.batches, p.cur) /\ q.bytes = 0
        BY <2>2, FlushType
      <3>2. Len(q.batches) = Len(p.batches) + 1
        BY <3>1 DEF PackState
      <3> QED  BY <3>1, <3>2, <2>2 DEF Short
    <2> QED  BY <1>1, <2>1, <2>2 DEF Turns
  <1>3. CASE PackLine(p, ln) = Drop(q)
    BY <1>2, <1>3, DropType DEF Short
  <1>4. CASE PackLine(p, ln) = Put(q, ln)
    <2>1. Put(q, ln).batches = q.batches /\ Put(q, ln).cur = Append(q.cur, ln)
      BY PutType
    <2>2. Append(q.cur, ln) # <<>>
      <3>1. q.cur \in Seq(L)
        BY DEF PackState
      <3>2. Len(Append(q.cur, ln)) = Len(q.cur) + 1 /\ Len(q.cur) \in Nat
        BY <3>1
      <3>3. Len(<<>>) = 0
        OBVIOUS
      <3>4. ASSUME Append(q.cur, ln) = <<>> PROVE FALSE
        <4>1. Len(Append(q.cur, ln)) = 0
          BY <3>3, <3>4
        <4> QED  BY <3>2, <4>1
      <3> QED  BY <3>4
    <2> QED  BY <1>2, <1>4, <2>1, <2>2 DEF Short
  <1> QED  BY <1>1, <1>3, <1>4 DEF Turns

LEMMA SplitType ==
    ASSUME NEW L, \A ln \in L : ln.cost \in Nat, NEW ls \in Seq(L)
    PROVE  /\ splitBatches(ls).batches \in Seq(Seq(L))
           /\ Len(splitBatches(ls).batches) <= MaxBatches
  <1> DEFINE N == Len(ls)
             g == packed(ls)
             S == {n \in 0..N : Short(g[n])}
  <1>1. /\ g \in [0..N -> PackState(L)] /\ g[0] = Packing
        /\ \A n \in 1..N : g[n] = PackLine(g[n - 1], ls[n])
    BY PackedIs
  <1>2. N \in Nat /\ \A n \in 1..N : ls[n] \in L
    OBVIOUS
  <1>3. Short(Packing)
    BY BatchAssumption DEF Short, Packing
  <1> HIDE DEF g, N
  <1>4. 0 \in S
    BY <1>1, <1>2, <1>3
  <1>5. ASSUME NEW n \in 1..N, n - 1 \in S PROVE n \in S
    <2>1. g[n - 1] \in PackState(L) /\ Short(g[n - 1]) /\ n \in 0..N
      BY <1>1, <1>2, <1>5
    <2>2. ls[n] \in L /\ ls[n].cost \in Nat
      BY <1>2
    <2>3. Short(PackLine(g[n - 1], ls[n]))
      BY <2>1, <2>2, ShortKept
    <2> QED  BY <2>1, <2>3, <1>1
  <1> HIDE DEF S
  <1>6. \A n \in 0..N : n \in S
    BY <1>2, <1>4, <1>5, IntervalInduction
  <1> DEFINE p == g[N]
  <1>7. p \in PackState(L) /\ Short(p)
    BY <1>1, <1>2, <1>6 DEF S
  <1> HIDE DEF p
  <1>8. Finish(p) = Flush(p)
    BY <1>7 DEF Finish, Short
  <1>9. /\ p.batches \in Seq(Seq(L)) /\ p.cur \in Seq(L) /\ Len(p.batches) \in Nat
    BY <1>7 DEF PackState
  <1>10. Flush(p).batches \in Seq(Seq(L)) /\ Len(Flush(p).batches) <= Len(p.batches) + 1
    <2>1. CASE p.cur = <<>>
      BY <2>1, <1>7, <1>9, FlushType
    <2>2. CASE p.cur # <<>>
      <3>1. Flush(p).batches = Append(p.batches, p.cur)
        BY <2>2, <1>7, FlushType
      <3> QED  BY <3>1, <1>9
    <2> QED  BY <2>1, <2>2
  <1>11. Len(Flush(p).batches) \in Nat
    BY <1>10
  <1>12. Len(Flush(p).batches) <= MaxBatches
    BY <1>7, <1>9, <1>10, <1>11, BatchAssumption DEF Short
  <1>13. splitBatches(ls) = Flush(p)
    BY <1>8 DEF splitBatches, p, g, N
  <1> QED  BY <1>10, <1>12, <1>13

-----------------------------------------------------------------------------
LEMMA LineIn == \A s \in Source, i \in 1..MaxLine : Line(s, i) \in Lines
  BY DEF Lines

LEMMA LineCost == \A ln \in Lines : ln.cost \in Nat
  BY DEF Lines, Line

LEMMA ReadSourceType ==
    ASSUME ShipType, NEW s \in Source
    PROVE  ReadSource(s) \in Seq(Lines)
  <1> DEFINE n == Smaller(Limit, size[s] - cursor[s])
             from == IF s = "acl" \/ size[s] - cursor[s] <= Limit THEN cursor[s] ELSE size[s] - Limit
             m == IF n < 0 THEN 0 ELSE n
  <1>1. /\ size[s] \in 0..MaxLine /\ cursor[s] \in 0..MaxLine /\ Limit \in Nat /\ MaxLine \in Nat
    BY ShipAssumption DEF ShipType, Cursors
  <1>2. n \in Int /\ m \in Nat /\ 1..n = 1..m
    BY <1>1 DEF Smaller
  <1>3. \A i \in 1..m : from + i \in 1..MaxLine
    BY <1>1 DEF Smaller
  <1>4. ReadSource(s) = [i \in 1..m |-> Line(s, from + i)]
    BY <1>2 DEF ReadSource
  <1> HIDE DEF n, m, from
  <1>5. \A i \in 1..m : Line(s, from + i) \in Lines
    BY <1>3, LineIn
  <1> QED  BY <1>2, <1>4, <1>5

LEMMA ReadSourceAll ==
    ASSUME ShipType, NEW s \in Source, size[s] - cursor[s] <= Limit, NEW i \in 1..size[s]
    PROVE  i \in 1..cursor[s] \/ Line(s, i) \in Range(ReadSource(s))
  <1>1. /\ size[s] \in 0..MaxLine /\ cursor[s] \in 0..MaxLine /\ Limit \in Nat /\ MaxLine \in Nat
    BY ShipAssumption DEF ShipType, Cursors
  <1>2. SUFFICES ASSUME i > cursor[s] PROVE Line(s, i) \in Range(ReadSource(s))
    BY <1>1
  <1> DEFINE n == Smaller(Limit, size[s] - cursor[s])
             k == i - cursor[s]
  <1>3. n = size[s] - cursor[s]
    BY <1>1 DEF Smaller
  <1>4. ReadSource(s) = [x \in 1..n |-> Line(s, cursor[s] + x)]
    BY DEF ReadSource
  <1>5. k \in 1..n /\ cursor[s] + k = i
    BY <1>1, <1>2, <1>3
  <1> HIDE DEF n, k
  <1>6. ReadSource(s)[k] = Line(s, i) /\ k \in DOMAIN ReadSource(s)
    BY <1>4, <1>5
  <1> QED  BY <1>6 DEF Range

(* What packing leaves to send. *)
LEMMA PacksDoes ==
    ASSUME NEW all \in Seq(Lines), Packs(all), dropped \subseteq Lines
    PROVE  /\ todo' \in Seq([id : SyncId, lines : SUBSET Lines]) /\ todo' # <<>>
           /\ dropped' \subseteq Lines /\ dropped \subseteq dropped'
           /\ \A ln \in Range(all) : ln \in dropped' \cup TodoLines'
  <1> DEFINE bs == Batches(splitBatches(all))
  <1>1. bs \in Seq(Seq(Lines)) /\ Len(bs) \in 1..MaxBatches
    <2> DEFINE o == splitBatches(all).batches
    <2>1. o \in Seq(Seq(Lines)) /\ Len(o) <= MaxBatches
      BY SplitType, LineCost
    <2>2. bs = IF o = <<>> THEN << <<>> >> ELSE o
      BY DEF Batches
    <2> HIDE DEF o, bs
    <2>3. << <<>> >> \in Seq(Seq(Lines)) /\ Len(<< <<>> >>) = 1
      OBVIOUS
    <2>4. o # <<>> => Len(o) # 0
      BY <2>1
    <2>5. Len(o) \in Nat /\ MaxBatches \in Nat \ {0}
      BY <2>1, BatchAssumption
    <2> QED  BY <2>1, <2>2, <2>3, <2>4, <2>5
  <1> HIDE DEF bs
  <1>2. todo' = [i \in DOMAIN bs |-> [id |-> <<"b", i>>, lines |-> Range(bs[i])]]
    BY DEF Packs, bs
  <1>3. dropped' = dropped \cup (Range(all) \ UNION {m.lines : m \in Range(todo')})
    BY DEF Packs
  <1>4. Range(all) \subseteq Lines
    BY DEF Range
  <1>5. \A i \in DOMAIN bs : i \in 1..MaxBatches /\ Range(bs[i]) \subseteq Lines
    <2> SUFFICES ASSUME NEW i \in DOMAIN bs PROVE i \in 1..MaxBatches /\ Range(bs[i]) \subseteq Lines
      OBVIOUS
    <2>1. i \in 1..Len(bs) /\ bs[i] \in Seq(Lines)
      BY <1>1
    <2>2. i \in 1..MaxBatches
      BY <2>1, <1>1, BatchAssumption
    <2> QED  BY <2>1, <2>2 DEF Range
  <1>6. DOMAIN bs = 1..Len(bs) /\ Len(bs) \in Nat /\ Len(bs) # 0
    BY <1>1
  <1>7. todo' \in Seq([id : SyncId, lines : SUBSET Lines])
    BY <1>2, <1>5, <1>6 DEF SyncId
  <1>8. todo' # <<>>
    BY <1>2, <1>6
  <1>9. UNION {m.lines : m \in Range(todo')} = TodoLines'
    BY DEF TodoLines, Range
  <1> QED  BY <1>3, <1>4, <1>7, <1>8, <1>9

-----------------------------------------------------------------------------
(* The types of the whole state. *)

LEMMA HeadTail ==
    ASSUME NEW S, NEW q \in Seq(S), q # <<>>
    PROVE  /\ Head(q) \in S /\ Head(q) = q[1] /\ 1 \in DOMAIN q
           /\ Tail(q) \in Seq(S)
           /\ DOMAIN Tail(q) = {i \in Nat \ {0} : i + 1 \in DOMAIN q}
           /\ \A i \in DOMAIN Tail(q) : Tail(q)[i] = q[i + 1] /\ i + 1 \in DOMAIN q
  <1>1. Len(q) \in Nat /\ Len(q) # 0 /\ DOMAIN q = 1..Len(q)
    OBVIOUS
  <1>2. Tail(q) \in Seq(S) /\ Len(Tail(q)) = Len(q) - 1 /\ DOMAIN Tail(q) = 1..(Len(q) - 1)
    BY <1>1
  <1>3. \A i \in 1..(Len(q) - 1) : Tail(q)[i] = q[i + 1]
    BY <1>1
  <1>4. Head(q) = q[1] /\ 1 \in DOMAIN q /\ Head(q) \in S
    BY <1>1
  <1>5. 1..(Len(q) - 1) = {i \in Nat \ {0} : i + 1 \in DOMAIN q}
    BY <1>1
  <1>6. \A i \in 1..(Len(q) - 1) : i + 1 \in DOMAIN q
    BY <1>1
  <1> QED  BY <1>2, <1>3, <1>4, <1>5, <1>6

LEMMA Appended ==
    ASSUME NEW S, NEW q \in Seq(S), NEW x \in S
    PROVE  /\ Append(q, x) \in Seq(S)
           /\ DOMAIN Append(q, x) = DOMAIN q \cup {Len(q) + 1}
           /\ Len(q) + 1 \notin DOMAIN q
           /\ Append(q, x)[Len(q) + 1] = x
           /\ \A i \in DOMAIN q : Append(q, x)[i] = q[i]
  <1>1. Len(q) \in Nat /\ DOMAIN q = 1..Len(q)
    OBVIOUS
  <1>2. Append(q, x) \in Seq(S) /\ Len(Append(q, x)) = Len(q) + 1
    OBVIOUS
  <1>3. DOMAIN Append(q, x) = 1..(Len(q) + 1)
    BY <1>2
  <1>4. 1..(Len(q) + 1) = 1..Len(q) \cup {Len(q) + 1}
    BY <1>1
  <1> QED  BY <1>1, <1>2, <1>3, <1>4

LEMMA LiveId == \A n \in 1..MaxEmit : <<"live", n>> \in Ids /\ <<"live", n>> \notin SyncId
  BY DEF Ids, SyncId

LEMMA SyncIdIn == SyncId \subseteq Ids
  BY DEF Ids, SyncId

LEMMA ShipInit == Init => ShipType
  <1> SUFFICES ASSUME Init PROVE ShipType
    OBVIOUS
  <1>1. 0 \in 0..MaxLine /\ 0 \in 0..MaxConns /\ 0 \in 0..0 /\ 0 \in 0..MaxEmit
    BY ShipAssumption
  <1>2. /\ size \in Cursors /\ cursor \in Cursors /\ pend \in Cursors
        /\ hand \in [1..MaxConns -> Msg \cup {NoMsg}]
        /\ acks \in [Ids -> Waiters \cup {NoWaiter}]
        /\ seq \in [Run -> 0..MaxEmit] /\ buf \in [Run -> SUBSET Lines]
        /\ aclOff \in [Run -> 0..MaxLine] /\ hasACL \in [Run -> BOOLEAN]
    BY <1>1 DEF Init, Cursors
  <1>3. /\ up \in Seq(Msg) /\ down \in Seq(Ids) /\ found \in Seq(Lines)
        /\ todo \in Seq([id : SyncId, lines : SUBSET Lines])
    BY DEF Init
  <1>4. conn \in 0..MaxConns /\ syncConn \in 0..conn /\ sink \in 0..conn
    BY <1>1 DEF Init
  <1> QED  BY <1>2, <1>3, <1>4 DEF Init, ShipType

LEMMA ShipTypeKept ==
    ASSUME ShipType, [Next]_vars
    PROVE  ShipType'
  <1> USE DEF follow, runs, wire, syncVars, history
  <1>0. {Limit, MaxLine, MaxConns, MaxEmit} \subseteq Nat
    BY ShipAssumption
  <1>1. ASSUME NEW s \in Source, Logs(s) PROVE ShipType'
    <2>1. size[s] + 1 \in 0..MaxLine
      BY <1>0, <1>1 DEF Logs, ShipType, Cursors
    <2>2. size' \in Cursors
      BY <1>1, <2>1 DEF Logs, ShipType, Cursors
    <2> QED  BY <1>1, <2>2 DEF Logs, ShipType
  <1>2. CASE Connects
    <2>1. conn' \in 0..MaxConns /\ conn' # 0 /\ \A k \in 0..conn : k \in 0..conn'
      BY <1>0, <1>2 DEF Connects, ShipType
    <2> QED  BY <1>2, <2>1 DEF Connects, ShipType
  <1>3. CASE Breaks
    <2>1. up' \in Seq(Msg) /\ down' \in Seq(Ids)
      BY <1>3 DEF Breaks
    <2> QED  BY <1>3, <2>1 DEF Breaks, ShipType
  <1>4. CASE ServerReads
    <2>1. up # <<>> /\ up' = Tail(up) /\ hand' = [hand EXCEPT ![conn] = Head(up)]
      BY <1>4 DEF ServerReads
    <2>2. Head(up) \in Msg /\ Tail(up) \in Seq(Msg)
      BY <2>1, HeadTail DEF ShipType
    <2>3. hand' \in [1..MaxConns -> Msg \cup {NoMsg}]
      BY <2>1, <2>2 DEF ShipType
    <2> QED  BY <1>4, <2>1, <2>2, <2>3 DEF ServerReads, ShipType
  <1>5. ASSUME NEW k \in 1..MaxConns, ServerAcks(k) PROVE ShipType'
    <2>1. hand[k] \in Msg
      BY <1>5 DEF ServerAcks, ShipType
    <2>2. hand[k].id \in Ids /\ hand[k].lines \subseteq Lines
      BY <2>1 DEF Msg
    <2>3. down' \in Seq(Ids)
      BY <1>5, <2>2 DEF ServerAcks, ShipType
    <2>4. hand' \in [1..MaxConns -> Msg \cup {NoMsg}]
      BY <1>5 DEF ServerAcks, ShipType
    <2>5. handled' \subseteq Lines
      BY <1>5, <2>2 DEF ServerAcks, ShipType
    <2> QED  BY <1>5, <2>3, <2>4, <2>5 DEF ServerAcks, ShipType
  <1>6. CASE AckReads
    <2>1. down # <<>> /\ down \in Seq(Ids)
      BY <1>6 DEF AckReads, ShipType
    <2>2. Tail(down) \in Seq(Ids) /\ Head(down) \in Ids
      BY <2>1, HeadTail
    <2>3. got' \subseteq Waiters
      BY <1>6, <2>2 DEF AckReads, ShipType
    <2> QED  BY <1>6, <2>2, <2>3 DEF AckReads, ShipType
  <1>7. CASE SyncBegins
    <2>1. conn \in 0..conn
      BY <1>0 DEF ShipType
    <2> QED  BY <1>7, <2>1 DEF SyncBegins, ShipType
  <1>8. CASE SyncStep
    <2>1. CASE CollectsJournal
      <3>1. found' \in Seq(Lines)
        BY <2>1, ReadSourceType DEF CollectsJournal, Source
      <3>2. pend' \in Cursors
        BY <2>1 DEF CollectsJournal, ShipType, Cursors, Source
      <3> QED  BY <2>1, <3>1, <3>2 DEF CollectsJournal, ShipType
    <2>2. CASE JournalFails
      BY <2>2 DEF JournalFails, ShipType
    <2>3. ASSUME NEW all \in Seq(Lines), Packs(all), pend' \in Cursors PROVE ShipType'
      <3>1. dropped \subseteq Lines
        BY DEF ShipType
      <3>2. /\ todo' \in Seq([id : SyncId, lines : SUBSET Lines]) /\ todo' # <<>>
            /\ dropped' \subseteq Lines
        BY <2>3, <3>1, PacksDoes
      <3>3. /\ syncPC' = "send" /\ found' = <<>>
            /\ UNCHANGED <<size, cursor, wire, acks, got, syncConn, follow, runs, handled>>
        BY <2>3 DEF Packs
      <3> QED  BY <2>3, <3>2, <3>3 DEF ShipType
    <2>4. CASE CollectsACL
      <3>1. found \o ReadSource("acl") \in Seq(Lines)
        BY ReadSourceType DEF ShipType, Source
      <3>2. pend' \in Cursors
        BY <2>4 DEF CollectsACL, ShipType, Cursors, Source
      <3> QED  BY <2>3, <2>4, <3>1, <3>2 DEF CollectsACL
    <2>5. CASE ACLFails
      <3>1. found \in Seq(Lines) /\ pend' \in Cursors
        BY <2>5 DEF ACLFails, ShipType
      <3> QED  BY <2>3, <2>5, <3>1 DEF ACLFails
    <2>6. CASE syncPC \in {"send", "wait"} /\ (SyncSends \/ SyncCannotSend \/ SyncAcked \/ SyncTimesOut)
      <3>1. todo # <<>> /\ todo \in Seq([id : SyncId, lines : SUBSET Lines])
        BY <2>6 DEF ShipType
      <3>2. /\ Head(todo) \in [id : SyncId, lines : SUBSET Lines]
            /\ Tail(todo) \in Seq([id : SyncId, lines : SUBSET Lines])
        BY <3>1, HeadTail
      <3>3. Head(todo).id \in Ids /\ Head(todo).lines \subseteq Lines
        BY <3>2, SyncIdIn
      <3>4. [id |-> Head(todo).id, lines |-> Head(todo).lines] \in Msg
        BY <3>3 DEF Msg
      <3>5. CASE SyncSends
        <4>1. up' \in Seq(Msg)
          <5> DEFINE m == [id |-> Head(todo).id, lines |-> Head(todo).lines]
          <5>1. up' = up \/ up' = Append(up, m)
            BY <3>5 DEF SyncSends, Send
          <5>2. m \in Msg /\ up \in Seq(Msg)
            BY <3>4 DEF ShipType
          <5> HIDE DEF m
          <5> QED  BY <5>1, <5>2, Appended
        <4>2. acks' \in [Ids -> Waiters \cup {NoWaiter}] /\ got' \subseteq Waiters
          BY <3>3, <3>5 DEF SyncSends, Register, ShipType, Waiters
        <4> QED  BY <3>1, <3>5, <4>1, <4>2 DEF SyncSends, ShipType
      <3>6. acks' = [acks EXCEPT ![Head(todo).id] = NoWaiter] =>
                acks' \in [Ids -> Waiters \cup {NoWaiter}]
        BY <3>3 DEF ShipType
      <3>7. CASE SyncCannotSend \/ SyncTimesOut
        BY <3>6, <3>7 DEF SyncCannotSend, SyncTimesOut, Forget, ShipType
      <3>8. CASE SyncAcked
        BY <3>2, <3>6, <3>8 DEF SyncAcked, Forget, ShipType
      <3> QED  BY <2>6, <3>5, <3>7, <3>8
    <2>7. CASE ApplyCursors
      BY <2>7 DEF ApplyCursors, ShipType
    <2> QED
      BY <1>8, <2>1, <2>2, <2>4, <2>5, <2>6, <2>7
      DEF SyncStep, SyncSends, SyncCannotSend, SyncAcked, SyncTimesOut
  <1>9. CASE StopLive
    BY <1>9 DEF StopLive, ShipType
  <1>10. ASSUME NEW k \in 1..MaxConns, StartLive(k) PROVE ShipType'
    <2>1. sink' \in 0..conn
      BY <1>0, <1>10 DEF StartLive, ShipType
    <2> QED  BY <1>10, <2>1 DEF StartLive, ShipType
  <1>11. ASSUME NEW r \in Run, FollowStep(r) PROVE ShipType'
    <2>1. CASE FollowReadsJournal(r)
      <3>1. Line("journal", size["journal"]) \in Lines
        <4>1. size["journal"] \in 1..MaxLine /\ "journal" \in Source
          BY <1>0, <2>1 DEF FollowReadsJournal, ShipType, Cursors, Source
        <4> QED  BY <4>1, LineIn
      <3>2. buf' \in [Run -> SUBSET Lines]
        BY <2>1, <3>1 DEF FollowReadsJournal, ShipType
      <3> QED  BY <2>1, <3>2 DEF FollowReadsJournal, ShipType
    <2>2. CASE FollowPollsACL(r)
      <3> DEFINE ls == ReadSource("acl")
      <3>1. ls \in Seq(Lines)
        BY ReadSourceType DEF Source
      <3>2. PICK n \in 0..Len(ls) :
                /\ buf' = [buf EXCEPT ![r] = @ \cup {ls[i] : i \in 1..n}]
                /\ dropped' = dropped \cup {ls[i] : i \in (n + 1)..Len(ls)}
        BY <2>2 DEF FollowPollsACL
      <3>4. aclOff' \in [Run -> 0..MaxLine] /\ hasACL' \in [Run -> BOOLEAN]
        BY <2>2 DEF FollowPollsACL, ShipType, Cursors, Source
      <3> HIDE DEF ls
      <3>3. (\A i \in 1..n : ls[i] \in Lines) /\ (\A i \in (n + 1)..Len(ls) : ls[i] \in Lines)
        BY <3>1
      <3>5. buf' \in [Run -> SUBSET Lines] /\ dropped' \subseteq Lines
        BY <3>2, <3>3 DEF ShipType
      <3> QED  BY <2>2, <3>4, <3>5 DEF FollowPollsACL, ShipType
    <2>3. CASE FollowEmits(r)
      <3>1. seq[r] + 1 \in 1..MaxEmit /\ seq[r] + 1 \in 0..MaxEmit
        BY <1>0, <2>3 DEF FollowEmits, ShipType
      <3>2. <<"live", seq[r] + 1>> \in Ids
        BY <3>1, LiveId
      <3>3. seq' \in [Run -> 0..MaxEmit] /\ buf' \in [Run -> SUBSET Lines]
        BY <2>3, <3>1 DEF FollowEmits, ShipType
      <3>4. [id |-> <<"live", seq[r] + 1>>, lines |-> buf[r]] \in Msg
        BY <3>2 DEF Msg, ShipType
      <3>5. up' \in Seq(Msg)
        <4> DEFINE m == [id |-> <<"live", seq[r] + 1>>, lines |-> buf[r]]
        <4>1. up' = up \/ up' = Append(up, m)
          BY <2>3 DEF FollowEmits, Send
        <4>2. m \in Msg /\ up \in Seq(Msg)
          BY <3>4 DEF ShipType
        <4> HIDE DEF m
        <4> QED  BY <4>1, <4>2, Appended
      <3>6. acks' \in [Ids -> Waiters \cup {NoWaiter}] /\ got' \subseteq Waiters
        BY <2>3, <3>2 DEF FollowEmits, Register, ShipType, Waiters
      <3> QED  BY <2>3, <3>3, <3>5, <3>6 DEF FollowEmits, ShipType
    <2>4. CASE FollowAcked(r)
      <3>1. acks' \in [Ids -> Waiters \cup {NoWaiter}]
        BY <2>4 DEF FollowAcked, Forget, ShipType
      <3>2. cursor' \in Cursors
        BY <2>4 DEF FollowAcked, ShipType, Cursors, Source
      <3> QED  BY <2>4, <3>1, <3>2 DEF FollowAcked, ShipType
    <2>5. CASE FollowTimesOut(r)
      <3>1. acks' \in [Ids -> Waiters \cup {NoWaiter}]
        BY <2>5 DEF FollowTimesOut, Forget, ShipType
      <3> QED  BY <2>5, <3>1 DEF FollowTimesOut, ShipType
    <2>6. CASE FollowExits(r)
      BY <2>6 DEF FollowExits, ShipType
    <2> QED  BY <1>11, <2>1, <2>2, <2>3, <2>4, <2>5, <2>6 DEF FollowStep
  <1>12. CASE UNCHANGED vars
    BY <1>12 DEF vars, ShipType
  <1> QED
    BY <1>1, <1>2, <1>3, <1>4, <1>5, <1>6, <1>7, <1>8, <1>9, <1>10, <1>11, <1>12
    DEF Next, Live, Server

(* The shipping state is well typed, for any constants: ids, batches and   *)
(* cursors stay within their sets and a sync that sends has a batch.       *)
THEOREM TypeCorrect == Spec => []TypeOK
  <1>1. ASSUME ShipType, FollowInv PROVE TypeOK
    <2>1. up \in Seq(Msg) /\ down \in Seq(Ids)
      BY <1>1 DEF ShipType
    <2>2. (\A i \in DOMAIN up : up[i] \in Msg) /\ (\A i \in DOMAIN down : down[i] \in Ids)
      BY <2>1
    <2>3. Msg = [id: Ids, lines: SUBSET Lines]
      BY DEF Msg
    <2> QED  BY <1>1, <2>2, <2>3 DEF ShipType, FollowInv, FollowType, TypeOK
  <1>2. ShipType /\ [Next]_vars => ShipType'
    BY ShipTypeKept
  <1> QED  BY <1>1, <1>2, ShipInit, FollowInit, FollowStepKeeps, PTL DEF Spec

-----------------------------------------------------------------------------
FlightInv == OneInFlight /\ TokensTrue

(* Nothing of the sync is on the way. *)
Nothing == \A i : ~Sent(i) /\ ~Held(i) /\ ~Acking(i)

(* Steps that leave the sync's batch where it is. *)
LEMMA FlightSame ==
    ASSUME FlightInv, UNCHANGED <<syncPC, syncConn, todo>>,
           \A i : Sent(i)' => Sent(i) /\ up'[i] = up[i],
           \A i : Held(i)' => Held(i) /\ hand'[i] = hand[i],
           \A i : Acking(i)' => Acking(i),
           \A i : Sent(i)' /\ Working(syncConn) => Working(syncConn)',
           "sync" \in got' <=> "sync" \in got, handled \subseteq handled',
           \A i \in Ids : acks'[i] = "sync" => acks[i] = "sync",
           \A k \in 1..MaxConns : hand'[k] # NoMsg => k <= conn'
    PROVE  FlightInv'
  <1>1. OneInFlight'
    BY DEF FlightInv, OneInFlight
  <1>2. (\A i : Sent(i) => Working(syncConn) /\ Head(todo).lines \subseteq up[i].lines)'
    BY DEF FlightInv, TokensTrue
  <1>3. (\A k : Held(k) => Head(todo).lines \subseteq hand[k].lines)'
    BY DEF FlightInv, TokensTrue
  <1>4. (\A i : Acking(i) => Head(todo).lines \subseteq handled)'
    BY DEF FlightInv, TokensTrue
  <1>5. (syncPC = "wait" /\ "sync" \in got => Head(todo).lines \subseteq handled)'
    BY DEF FlightInv, TokensTrue
  <1>6. (\A i \in Ids : acks[i] = "sync" => i \in SyncId)'
    BY DEF FlightInv, TokensTrue
  <1> QED  BY <1>1, <1>2, <1>3, <1>4, <1>5, <1>6 DEF FlightInv, TokensTrue

(* Steps of the sync itself, all taken while nothing of it is on the way. *)
LEMMA FlightNone ==
    ASSUME FlightInv, Nothing, UNCHANGED <<up, down, hand, conn>>,
           syncPC' # "wait",
           \A i \in Ids : acks'[i] = "sync" => acks[i] = "sync"
    PROVE  FlightInv'
  <1>1. Nothing'
    BY DEF Nothing, Sent, Held, Acking
  <1> QED  BY <1>1 DEF FlightInv, OneInFlight, TokensTrue, Nothing

LEMMA NotWaiting ==
    ASSUME FlightInv, syncPC # "wait" \/ "sync" \in got
    PROVE  Nothing
  BY DEF FlightInv, OneInFlight, Nothing

LEMMA FlightInit == Init => FlightInv
  <1> SUFFICES ASSUME Init PROVE FlightInv
    OBVIOUS
  <1>1. Nothing
    BY DEF Init, Nothing, Sent, Held, Acking
  <1>2. syncPC = "idle" /\ (\A i \in Ids : acks[i] # "sync")
    BY ShipAssumption DEF Init
  <1>3. \A k \in 1..MaxConns : hand[k] = NoMsg
    BY DEF Init
  <1> QED  BY <1>1, <1>2, <1>3 DEF FlightInv, OneInFlight, TokensTrue, Nothing

LEMMA FlightKept ==
    ASSUME ShipType, FlightInv, ~Timeouts, [Next]_vars
    PROVE  FlightInv'
  <1> USE DEF follow, runs, wire, syncVars, history
  <1>0. {Limit, MaxLine, MaxConns, MaxEmit} \subseteq Nat
    BY ShipAssumption
  <1>a. ASSUME UNCHANGED <<wire, got, acks, syncPC, syncConn, todo, handled>> PROVE FlightInv'
    BY <1>a, FlightSame DEF Sent, Held, Acking, Working, FlightInv, TokensTrue
  <1>1. ASSUME NEW s \in Source, Logs(s) PROVE FlightInv'
    BY <1>a, <1>1 DEF Logs
  <1>2. CASE Connects
    <2>1. \A i : ~Sent(i)
      BY <1>2 DEF Connects, FlightInv, TokensTrue, Working
    <2>2. \A i : (Sent(i)' <=> Sent(i)) /\ (Held(i)' <=> Held(i)) /\ (Acking(i)' <=> Acking(i))
      BY <1>2 DEF Connects, Sent, Held, Acking
    <2>3. \A k \in 1..MaxConns : hand'[k] # NoMsg => k <= conn'
      <3>1. conn' = conn + 1 /\ hand' = hand /\ conn \in Nat
        BY <1>0, <1>2 DEF Connects, ShipType
      <3>2. \A k \in 1..MaxConns : hand[k] # NoMsg => k <= conn
        BY DEF FlightInv, TokensTrue
      <3> QED  BY <1>0, <3>1, <3>2
    <2>4. UNCHANGED <<syncPC, syncConn, todo, up, hand, got, acks, handled>>
      BY <1>2 DEF Connects
    <2> QED  BY <2>1, <2>2, <2>3, <2>4, FlightSame
  <1>3. CASE Breaks
    <2>1. \A i : ~Sent(i)' /\ ~Acking(i)' /\ (Held(i)' <=> Held(i))
      BY <1>3 DEF Breaks, Sent, Held, Acking
    <2>2. UNCHANGED <<syncPC, syncConn, todo, hand, got, acks, handled, conn>>
      BY <1>3 DEF Breaks
    <2> QED  BY <2>1, <2>2, FlightSame DEF FlightInv, TokensTrue
  <1>4. CASE ServerReads
    <2>1. /\ up # <<>> /\ up' = Tail(up) /\ hand' = [hand EXCEPT ![conn] = Head(up)]
          /\ UNCHANGED <<conn, link, down, acks, got, syncPC, syncConn, todo, handled>>
          /\ link /\ hand[conn] = NoMsg /\ up \in Seq(Msg) /\ conn \in 1..MaxConns
      <3>1. conn \in 1..MaxConns
        BY <1>0, <1>4 DEF ServerReads, ShipType
      <3> QED  BY <1>4, <3>1 DEF ServerReads, ShipType
    <2>2. hand'[conn] = Head(up) /\ \A k \in 1..MaxConns : k # conn => hand'[k] = hand[k]
      BY <2>1 DEF ShipType
    <2>3. /\ Head(up) = up[1] /\ 1 \in DOMAIN up
          /\ DOMAIN Tail(up) = {i \in Nat \ {0} : i + 1 \in DOMAIN up}
          /\ \A i \in DOMAIN Tail(up) : Tail(up)[i] = up[i + 1] /\ i + 1 \in DOMAIN up
      BY <2>1, HeadTail
    <2>4. \A i : Sent(i)' => i \in Nat \ {0} /\ Sent(i + 1) /\ up'[i] = up[i + 1]
      BY <2>1, <2>3 DEF Sent
    <2>5. \A k : Held(k)' => (Held(k) /\ hand'[k] = hand[k]) \/ (k = conn /\ Sent(1) /\ hand'[k] = up[1])
      BY <2>2, <2>3 DEF Held, Sent
    <2>6. \A i : Acking(i)' <=> Acking(i)
      BY <2>1 DEF Acking
    <2>7. ~Held(conn)
      BY <2>1 DEF Held
    <2>8. OneInFlight'
      <3>1. \A i, j : Sent(i)' /\ Sent(j)' => i = j
        <4>1. \A i, j : Sent(i)' /\ Sent(j)' => i + 1 = j + 1
          BY <2>4 DEF FlightInv, OneInFlight
        <4> QED  BY <2>4, <4>1
      <3>2. \A i : Sent(i)' => ~Sent(1)
        <4>1. \A i \in Nat \ {0} : i + 1 # 1
          OBVIOUS
        <4> QED  BY <2>4, <4>1 DEF FlightInv, OneInFlight
      <3>3. \A i, j : Held(i)' /\ Held(j)' => i = j
        BY <2>5, <2>7 DEF FlightInv, OneInFlight
      <3>4. \A i, j : ~(Sent(i)' /\ Held(j)') /\ ~(Sent(i)' /\ Acking(j)') /\ ~(Held(i)' /\ Acking(j)')
        BY <2>4, <2>5, <2>6, <3>2 DEF FlightInv, OneInFlight
      <3>5. \A i, j : Acking(i)' /\ Acking(j)' => i = j
        BY <2>6 DEF FlightInv, OneInFlight
      <3>6. \A i : Sent(i)' \/ Held(i)' \/ Acking(i)' => syncPC = "wait" /\ "sync" \notin got
        BY <2>4, <2>5, <2>6 DEF FlightInv, OneInFlight
      <3> QED  BY <2>1, <3>1, <3>3, <3>4, <3>5, <3>6 DEF OneInFlight
    <2>9. \A i : Sent(i)' => Working(syncConn)' /\ Head(todo).lines \subseteq up'[i].lines
      BY <2>1, <2>4 DEF FlightInv, TokensTrue, Working
    <2>10. \A k : Held(k)' => Head(todo).lines \subseteq hand'[k].lines
      BY <2>5 DEF FlightInv, TokensTrue
    <2>11. \A k \in 1..MaxConns : hand'[k] # NoMsg => k <= conn
      BY <2>1, <2>2 DEF FlightInv, TokensTrue
    <2> QED  BY <2>1, <2>6, <2>8, <2>9, <2>10, <2>11 DEF FlightInv, TokensTrue
  <1>5. ASSUME NEW k \in 1..MaxConns, ServerAcks(k) PROVE FlightInv'
    <2> DEFINE m == hand[k]
               n == Len(down) + 1
    <2>1. /\ hand[k] # NoMsg /\ handled' = handled \cup m.lines
          /\ down' = IF link THEN Append(down, m.id) ELSE down
          /\ hand' = [hand EXCEPT ![k] = NoMsg]
          /\ UNCHANGED <<conn, link, up, acks, got, syncPC, syncConn, todo>>
      BY <1>5 DEF ServerAcks
    <2>2. m \in Msg /\ m.id \in Ids /\ down \in Seq(Ids)
      BY <2>1 DEF ShipType, Msg
    <2>3. hand'[k] = NoMsg /\ \A j \in 1..MaxConns : j # k => hand'[j] = hand[j]
      BY <2>1 DEF ShipType
    <2>4. /\ DOMAIN Append(down, m.id) = DOMAIN down \cup {n} /\ n \notin DOMAIN down
          /\ Append(down, m.id)[n] = m.id /\ \A i \in DOMAIN down : Append(down, m.id)[i] = down[i]
      BY <2>2, Appended
    <2>5. \A i : Sent(i)' <=> Sent(i)
      BY <2>1 DEF Sent
    <2>6. \A j : Held(j)' => j # k /\ Held(j) /\ hand'[j] = hand[j]
      BY <2>3 DEF Held
    <2>7. \A i : Acking(i)' => Acking(i) \/ (i = n /\ Held(k))
      BY <2>1, <2>4 DEF Acking, Held
    <2> HIDE DEF m, n
    <2>8. OneInFlight'
      <3>1. \A i, j : Sent(i)' /\ Sent(j)' => i = j
        BY <2>5 DEF FlightInv, OneInFlight
      <3>2. \A i, j : Held(i)' /\ Held(j)' => i = j
        BY <2>6 DEF FlightInv, OneInFlight
      <3>3. \A i, j : Acking(i)' /\ Acking(j)' => i = j
        BY <2>7 DEF FlightInv, OneInFlight
      <3>4. \A i, j : ~(Sent(i)' /\ Held(j)') /\ ~(Sent(i)' /\ Acking(j)')
        BY <2>5, <2>6, <2>7 DEF FlightInv, OneInFlight
      <3>5. \A i, j : ~(Held(i)' /\ Acking(j)')
        BY <2>6, <2>7 DEF FlightInv, OneInFlight
      <3>6. \A i : Sent(i)' \/ Held(i)' \/ Acking(i)' => syncPC = "wait" /\ "sync" \notin got
        BY <2>5, <2>6, <2>7 DEF FlightInv, OneInFlight
      <3> QED  BY <2>1, <3>1, <3>2, <3>3, <3>4, <3>5, <3>6 DEF OneInFlight
    <2>9. \A i : Sent(i)' => Working(syncConn)' /\ Head(todo).lines \subseteq up'[i].lines
      BY <2>1, <2>5 DEF FlightInv, TokensTrue, Working
    <2>10. \A j : Held(j)' => Head(todo).lines \subseteq hand'[j].lines
      BY <2>6 DEF FlightInv, TokensTrue
    <2>11. \A i : Acking(i)' => Head(todo).lines \subseteq handled'
      BY <2>1, <2>7 DEF FlightInv, TokensTrue, m
    <2>12. \A j \in 1..MaxConns : hand'[j] # NoMsg => j <= conn
      BY <2>3 DEF FlightInv, TokensTrue
    <2> QED  BY <2>1, <2>8, <2>9, <2>10, <2>11, <2>12 DEF FlightInv, TokensTrue
  <1>6. CASE AckReads
    <2>1. /\ down # <<>> /\ down \in Seq(Ids) /\ down' = Tail(down)
          /\ UNCHANGED <<conn, link, up, hand, acks, syncPC, syncConn, todo, handled>>
      BY <1>6 DEF AckReads, ShipType
    <2>2. /\ Head(down) = down[1] /\ 1 \in DOMAIN down /\ Head(down) \in Ids
          /\ DOMAIN Tail(down) = {i \in Nat \ {0} : i + 1 \in DOMAIN down}
          /\ \A i \in DOMAIN Tail(down) : Tail(down)[i] = down[i + 1] /\ i + 1 \in DOMAIN down
      BY <2>1, HeadTail
    <2>3. \A i : (Sent(i)' <=> Sent(i)) /\ (Held(i)' <=> Held(i))
      BY <2>1 DEF Sent, Held
    <2>4. \A i : Acking(i)' => i \in Nat \ {0} /\ Acking(i + 1)
      BY <2>1, <2>2 DEF Acking
    <2>5. "sync" \in got' => "sync" \in got \/ Acking(1)
      <3>1. "sync" \in got' => "sync" \in got \/ acks[Head(down)] = "sync"
        BY <1>6 DEF AckReads
      <3>2. acks[Head(down)] = "sync" => Acking(1)
        BY <2>2 DEF FlightInv, TokensTrue, Acking
      <3> QED  BY <3>1, <3>2
    <2>6. \A i : Acking(i)' => ~Acking(1)
      <3>1. \A i \in Nat \ {0} : i + 1 # 1
        OBVIOUS
      <3> QED  BY <2>4, <3>1 DEF FlightInv, OneInFlight
    <2>7. OneInFlight'
      <3>1. \A i, j : Acking(i)' /\ Acking(j)' => i = j
        <4>1. \A i, j : Acking(i)' /\ Acking(j)' => i + 1 = j + 1
          BY <2>4 DEF FlightInv, OneInFlight
        <4> QED  BY <2>4, <4>1
      <3>2. /\ \A i, j : Sent(i)' /\ Sent(j)' => i = j
            /\ \A i, j : Held(i)' /\ Held(j)' => i = j
        BY <2>3 DEF FlightInv, OneInFlight
      <3>3. \A i, j : ~(Sent(i)' /\ Held(j)') /\ ~(Sent(i)' /\ Acking(j)') /\ ~(Held(i)' /\ Acking(j)')
        BY <2>3, <2>4 DEF FlightInv, OneInFlight
      <3>4. \A i : Sent(i)' \/ Held(i)' \/ Acking(i)' => syncPC' = "wait" /\ "sync" \notin got'
        BY <2>1, <2>3, <2>4, <2>5, <2>6 DEF FlightInv, OneInFlight
      <3> QED  BY <3>1, <3>2, <3>3, <3>4 DEF OneInFlight
    <2>8. \A i : Sent(i)' => Working(syncConn)' /\ Head(todo').lines \subseteq up'[i].lines
      BY <2>1, <2>3 DEF FlightInv, TokensTrue, Working
    <2>9. \A j : Held(j)' => Head(todo').lines \subseteq hand'[j].lines
      BY <2>1, <2>3 DEF FlightInv, TokensTrue
    <2>10. \A i : Acking(i)' => Head(todo').lines \subseteq handled'
      BY <2>1, <2>4 DEF FlightInv, TokensTrue
    <2>11. syncPC' = "wait" /\ "sync" \in got' => Head(todo').lines \subseteq handled'
      BY <2>1, <2>5 DEF FlightInv, TokensTrue
    <2> QED  BY <2>1, <2>7, <2>8, <2>9, <2>10, <2>11 DEF FlightInv, TokensTrue
  <1>7. CASE SyncBegins
    <2>1. Nothing
      BY <1>7, NotWaiting DEF SyncBegins
    <2> QED  BY <1>7, <2>1, FlightNone DEF SyncBegins
  <1>8. CASE SyncStep
    <2>1. CASE CollectsJournal \/ JournalFails \/ CollectsACL \/ ACLFails \/ ApplyCursors
      <3>1. /\ syncPC # "wait" /\ syncPC' # "wait"
            /\ UNCHANGED <<up, down, hand, conn, acks>>
        BY <2>1 DEF CollectsJournal, JournalFails, CollectsACL, ACLFails, ApplyCursors, Packs
      <3> QED  BY <3>1, NotWaiting, FlightNone
    <2>2. CASE syncPC \in {"send", "wait"} /\ (SyncSends \/ SyncCannotSend \/ SyncAcked \/ SyncTimesOut)
      <3>1. todo # <<>> /\ todo \in Seq([id : SyncId, lines : SUBSET Lines])
        BY <2>2 DEF ShipType
      <3>2. Head(todo).id \in SyncId /\ Head(todo).id \in Ids /\ Head(todo).lines \subseteq Lines
        <4>1. Head(todo) \in [id : SyncId, lines : SUBSET Lines]
          BY <3>1, HeadTail
        <4> QED  BY <4>1, SyncIdIn
      <3>3. acks' = [acks EXCEPT ![Head(todo).id] = NoWaiter] =>
                \A i \in Ids : acks'[i] = "sync" => acks[i] = "sync"
        BY <3>2, ShipAssumption DEF ShipType
      <3>4. CASE SyncSends
        <4> DEFINE n == Len(up) + 1
                   m == [id |-> Head(todo).id, lines |-> Head(todo).lines]
        <4>1. /\ syncPC # "wait" /\ syncPC' = "wait" /\ "sync" \notin got'
              /\ acks' = [acks EXCEPT ![Head(todo).id] = "sync"]
              /\ UNCHANGED <<conn, link, down, hand, syncConn, todo, handled>>
              /\ (Working(syncConn) /\ up' = Append(up, m)) \/ up' = up
          BY <3>4 DEF SyncSends, Register, Send
        <4>2. Nothing
          BY <4>1, NotWaiting
        <4>3. m \in Msg /\ up \in Seq(Msg)
          BY <3>2 DEF ShipType, Msg
        <4>7. m.lines = Head(todo).lines
          OBVIOUS
        <4> HIDE DEF m
        <4>4. /\ DOMAIN Append(up, m) = DOMAIN up \cup {n} /\ Append(up, m)[n] = m
              /\ \A i \in DOMAIN up : Append(up, m)[i] = up[i]
          BY <4>3, Appended
        <4> HIDE DEF n
        <4>5. \A i : ~Held(i)' /\ ~Acking(i)'
          BY <4>1, <4>2 DEF Nothing, Held, Acking
        <4>6. \A i : Sent(i)' => i = n /\ Working(syncConn) /\ up'[i] = m
          BY <4>1, <4>2, <4>4 DEF Nothing, Sent
        <4>8. \A i \in Ids : acks'[i] = "sync" => i \in SyncId
          BY <4>1, <3>2 DEF ShipType, FlightInv, TokensTrue
        <4>9. OneInFlight'
          BY <4>1, <4>5, <4>6 DEF OneInFlight
        <4>10. \A i : Sent(i)' => Working(syncConn)' /\ Head(todo').lines \subseteq up'[i].lines
          BY <4>1, <4>6, <4>7 DEF Working
        <4>11. \A k \in 1..MaxConns : hand'[k] # NoMsg => k <= conn'
          BY <4>1 DEF FlightInv, TokensTrue
        <4> QED  BY <4>1, <4>5, <4>8, <4>9, <4>10, <4>11 DEF FlightInv, TokensTrue
      <3>5. CASE SyncCannotSend
        <4>1. Nothing
          BY <3>5, NotWaiting DEF SyncCannotSend
        <4> QED  BY <3>3, <3>5, <4>1, FlightNone DEF SyncCannotSend, Forget
      <3>6. CASE SyncAcked
        <4>1. Nothing
          BY <3>6, NotWaiting DEF SyncAcked
        <4> QED  BY <3>3, <3>6, <4>1, FlightNone DEF SyncAcked, Forget
      <3>7. CASE SyncTimesOut
        <4>1. ~Working(syncConn) /\ down = <<>> /\ \A j \in 1..conn : hand[j] = NoMsg
          BY <3>7 DEF SyncTimesOut, Late
        <4>2. \A k \in 1..MaxConns : hand[k] = NoMsg
          <5>1. \A k \in 1..MaxConns : k <= conn => k \in 1..conn
            BY <1>0 DEF ShipType
          <5> QED  BY <4>1, <5>1 DEF FlightInv, TokensTrue
        <4>3. Nothing
          BY <4>1, <4>2 DEF Nothing, Sent, Held, Acking, FlightInv, TokensTrue
        <4> QED  BY <3>3, <3>7, <4>3, FlightNone DEF SyncTimesOut, Forget
      <3> QED  BY <2>2, <3>4, <3>5, <3>6, <3>7
    <2> QED
      BY <1>8, <2>1, <2>2
      DEF SyncStep, SyncSends, SyncCannotSend, SyncAcked, SyncTimesOut
  <1>9. CASE StopLive
    BY <1>a, <1>9 DEF StopLive
  <1>10. ASSUME NEW k \in 1..MaxConns, StartLive(k) PROVE FlightInv'
    BY <1>a, <1>10 DEF StartLive
  <1>11. ASSUME NEW r \in Run, FollowStep(r) PROVE FlightInv'
    <2>1. CASE FollowReadsJournal(r) \/ FollowPollsACL(r) \/ FollowExits(r)
      BY <1>a, <2>1 DEF FollowReadsJournal, FollowPollsACL, FollowExits
    <2>2. CASE FollowEmits(r) /\ ~Working(sink)
      BY <1>a, <2>2 DEF FollowEmits
    <2>3. CASE FollowEmits(r) /\ Working(sink)
      <3> DEFINE d == <<"live", seq[r] + 1>>
                 m == [id |-> d, lines |-> buf[r]]
                 n == Len(up) + 1
      <3>1. seq[r] + 1 \in 1..MaxEmit
        BY <1>0, <2>3 DEF FollowEmits, ShipType
      <3>2. d \in Ids /\ d \notin SyncId
        BY <3>1, LiveId
      <3>3. /\ acks' = [acks EXCEPT ![d] = r] /\ got' = got \ {r} /\ up' = Append(up, m)
            /\ UNCHANGED <<conn, link, down, hand, syncPC, syncConn, todo, handled>>
        BY <2>3 DEF FollowEmits, Register, Send
      <3> HIDE DEF d
      <3>4. m \in Msg /\ m.id = d /\ up \in Seq(Msg)
        BY <3>2 DEF ShipType, Msg
      <3> HIDE DEF m
      <3>5. /\ DOMAIN Append(up, m) = DOMAIN up \cup {n} /\ Append(up, m)[n] = m
            /\ \A i \in DOMAIN up : Append(up, m)[i] = up[i]
        BY <3>4, Appended
      <3> HIDE DEF n
      <3>6. \A i : Sent(i)' => Sent(i) /\ up'[i] = up[i]
        BY <3>2, <3>3, <3>4, <3>5 DEF Sent
      <3>7. r # "sync"
        BY ShipAssumption
      <3>8. \A i \in Ids : acks'[i] = "sync" => acks[i] = "sync"
        BY <3>2, <3>3, <3>7 DEF ShipType
      <3>9. \A i : (Held(i)' <=> Held(i)) /\ (Acking(i)' <=> Acking(i))
        BY <3>3 DEF Held, Acking
      <3>10. \A k \in 1..MaxConns : hand'[k] # NoMsg => k <= conn'
        BY <3>3 DEF FlightInv, TokensTrue
      <3>11. Working(syncConn) => Working(syncConn)'
        BY <3>3 DEF Working
      <3> QED  BY <3>3, <3>6, <3>7, <3>8, <3>9, <3>10, <3>11, FlightSame
    <2>4. CASE FollowAcked(r) \/ FollowTimesOut(r)
      <3>1. /\ acks' = [acks EXCEPT ![<<"live", seq[r]>>] = NoWaiter]
            /\ UNCHANGED <<wire, got, syncPC, syncConn, todo, handled>>
        BY <2>4 DEF FollowAcked, FollowTimesOut, Forget
      <3>2. \A i \in Ids : acks'[i] = "sync" => acks[i] = "sync"
        BY <3>1, ShipAssumption DEF ShipType
      <3>3. \A i : (Sent(i)' <=> Sent(i)) /\ (Held(i)' <=> Held(i)) /\ (Acking(i)' <=> Acking(i))
        BY <3>1 DEF Sent, Held, Acking
      <3>4. Working(syncConn) => Working(syncConn)'
        BY <3>1 DEF Working
      <3>5. \A k \in 1..MaxConns : hand'[k] # NoMsg => k <= conn'
        BY <3>1 DEF FlightInv, TokensTrue
      <3> QED  BY <3>1, <3>2, <3>3, <3>4, <3>5, FlightSame
    <2> QED  BY <1>11, <2>1, <2>2, <2>3, <2>4 DEF FollowStep
  <1>12. CASE UNCHANGED vars
    BY <1>a, <1>12 DEF vars
  <1> QED
    BY <1>1, <1>2, <1>3, <1>4, <1>5, <1>6, <1>7, <1>8, <1>9, <1>10, <1>11, <1>12
    DEF Next, Live, Server

-----------------------------------------------------------------------------
(* No read of a source is cut: the lines since the cursor fit the limit.   *)
WithinLimit == \A s \in Source : size[s] - cursor[s] <= Limit

LEMMA CoveredMore ==
    ASSUME NEW s, NEW n, NEW X, NEW Y, Covered(s, n, X),
           handled \subseteq handled', dropped \subseteq dropped',
           X \subseteq Y \cup handled' \cup dropped'
    PROVE  \A i \in 1..n : Line(s, i) \in handled' \cup dropped' \cup Y
  BY DEF Covered

LEMMA CoveredSame ==
    ASSUME CursorsCovered, handled \subseteq handled', dropped \subseteq dropped',
           UNCHANGED <<pend, syncPC, found, todo>>,
           \A s \in Synced : cursor'[s] = cursor[s]
    PROVE  CursorsCovered'
  <1> SUFFICES ASSUME NEW s \in Synced
      PROVE /\ Covered(s, cursor[s], {})'
            /\ syncPC = "journal" => Covered(s, pend[s], {})'
            /\ syncPC = "acl" => Covered(s, pend[s], Range(found))'
            /\ syncPC \in {"send", "wait", "apply"} => Covered(s, pend[s], TodoLines)'
    BY DEF CursorsCovered, Synced
  <1>1. /\ Covered(s, cursor[s], {})
        /\ syncPC = "journal" => Covered(s, pend[s], {})
        /\ syncPC = "acl" => Covered(s, pend[s], Range(found))
        /\ syncPC \in {"send", "wait", "apply"} => Covered(s, pend[s], TodoLines)
    BY DEF CursorsCovered
  <1>2. Range(found') = Range(found) /\ TodoLines' = TodoLines
    BY DEF TodoLines
  <1> QED  BY <1>1, <1>2 DEF Covered

LEMMA CoveredInit == Init => CursorsCovered
  <1> SUFFICES ASSUME Init, NEW s \in Synced PROVE Covered(s, cursor[s], {})
    BY DEF Init, CursorsCovered
  <1>1. cursor[s] = 0
    BY DEF Init, Synced, Source
  <1> QED  BY <1>1 DEF Covered

LEMMA SyncedIn == Synced \subseteq Source
  BY DEF Synced, Source

(* What is read covers what the cursor will pass. *)
LEMMA ReadCovers ==
    ASSUME ShipType, NEW s \in Source, size[s] - cursor[s] <= Limit, Covered(s, cursor[s], {})
    PROVE  Covered(s, size[s], Range(ReadSource(s)))
  <1> SUFFICES ASSUME NEW i \in 1..size[s]
        PROVE Line(s, i) \in handled \cup dropped \cup Range(ReadSource(s))
    BY DEF Covered
  <1>1. i \in 1..cursor[s] \/ Line(s, i) \in Range(ReadSource(s))
    BY ReadSourceAll
  <1> QED  BY <1>1 DEF Covered

LEMMA PacksCovers ==
    ASSUME ShipType, CursorsCovered, NEW all \in Seq(Lines), Packs(all),
           \A s \in Synced : Covered(s, pend'[s], Range(all))
    PROVE  CursorsCovered'
  <1>1. dropped \subseteq Lines
    BY DEF ShipType
  <1>2. dropped \subseteq dropped' /\ \A ln \in Range(all) : ln \in dropped' \cup TodoLines'
    BY <1>1, PacksDoes
  <1>3. syncPC' = "send" /\ UNCHANGED <<cursor, handled>>
    BY DEF Packs
  <1> SUFFICES ASSUME NEW s \in Synced
               PROVE Covered(s, cursor[s], {})' /\ Covered(s, pend[s], TodoLines)'
    BY <1>3 DEF CursorsCovered, Synced
  <1>4. Covered(s, cursor[s], {})'
    <2>1. Covered(s, cursor[s], {})
      BY DEF CursorsCovered
    <2> QED  BY <1>2, <1>3, <2>1 DEF Covered
  <1>5. Covered(s, pend[s], TodoLines)'
    BY <1>2, <1>3 DEF Covered
  <1> QED  BY <1>4, <1>5

LEMMA CoveredKept ==
    ASSUME ShipType, FlightInv, CursorsCovered, WithinLimit, [Next]_vars
    PROVE  CursorsCovered'
  <1> USE DEF follow, runs, wire, syncVars, history
  <1>a. ASSUME UNCHANGED <<cursor, pend, syncPC, found, todo>>,
               handled \subseteq handled', dropped \subseteq dropped'
        PROVE  CursorsCovered'
    BY <1>a, CoveredSame
  <1>b. \A s \in Synced : s \in Source /\ size[s] - cursor[s] <= Limit /\ Covered(s, cursor[s], {})
    BY SyncedIn DEF WithinLimit, CursorsCovered
  <1>1. ASSUME NEW s \in Source, Logs(s) PROVE CursorsCovered'
    BY <1>a, <1>1 DEF Logs
  <1>2. CASE Connects
    BY <1>a, <1>2 DEF Connects
  <1>3. CASE Breaks
    BY <1>a, <1>3 DEF Breaks
  <1>4. CASE ServerReads
    BY <1>a, <1>4 DEF ServerReads
  <1>5. ASSUME NEW k \in 1..MaxConns, ServerAcks(k) PROVE CursorsCovered'
    BY <1>a, <1>5 DEF ServerAcks
  <1>6. CASE AckReads
    BY <1>a, <1>6 DEF AckReads
  <1>7. CASE SyncBegins
    <2>1. syncPC' = "journal" /\ pend' = cursor /\ UNCHANGED <<cursor, handled, dropped>>
      BY <1>7 DEF SyncBegins
    <2> QED  BY <1>b, <2>1 DEF CursorsCovered, Covered, Synced
  <1>8. CASE SyncStep
    <2>1. CASE CollectsJournal
      <3>1. /\ syncPC = "journal" /\ syncPC' = "acl" /\ found' = ReadSource("journal")
            /\ pend' = [pend EXCEPT !["journal"] = size["journal"]]
            /\ UNCHANGED <<cursor, handled, dropped>>
        BY <2>1 DEF CollectsJournal
      <3>2. ASSUME NEW s \in Synced PROVE Covered(s, pend[s], Range(found))'
        <4>1. CASE s = "journal"
          <5>1. Covered(s, size[s], Range(ReadSource(s)))
            BY <1>b, ReadCovers
          <5>2. pend'[s] = size[s] /\ found' = ReadSource(s)
            BY <3>1, <4>1 DEF ShipType, Cursors, Source
          <5> QED  BY <3>1, <5>1, <5>2 DEF Covered
        <4>2. CASE s # "journal"
          <5>1. pend'[s] = pend[s]
            BY <3>1, <4>2, SyncedIn DEF ShipType, Cursors
          <5>2. Covered(s, pend[s], {})
            BY <3>1 DEF CursorsCovered
          <5> QED  BY <3>1, <5>1, <5>2 DEF Covered
        <4> QED  BY <4>1, <4>2
      <3>3. \A s \in Synced : Covered(s, cursor[s], {})'
        BY <1>b, <3>1 DEF Covered
      <3> QED  BY <3>1, <3>2, <3>3 DEF CursorsCovered, Synced
    <2>2. CASE JournalFails
      <3>1. /\ syncPC = "journal" /\ syncPC' = "acl" /\ UNCHANGED <<cursor, pend, handled, dropped>>
        BY <2>2 DEF JournalFails
      <3>2. \A s \in Synced : Covered(s, pend[s], Range(found))'
        BY <3>1 DEF CursorsCovered, Covered
      <3>3. \A s \in Synced : Covered(s, cursor[s], {})'
        BY <1>b, <3>1 DEF Covered
      <3> QED  BY <3>1, <3>2, <3>3 DEF CursorsCovered, Synced
    <2>3. CASE CollectsACL
      <3> DEFINE rd == ReadSource("acl")
                 all == found \o rd
      <3>1. Packs(all) /\ pend' = [pend EXCEPT !["acl"] = size["acl"]] /\ syncPC = "acl"
        BY <2>3 DEF CollectsACL, Packs
      <3>2. found \in Seq(Lines) /\ rd \in Seq(Lines)
        BY ReadSourceType DEF ShipType, Source
      <3> HIDE DEF rd
      <3>3. all \in Seq(Lines) /\ Range(found) \subseteq Range(all) /\ Range(rd) \subseteq Range(all)
        <4>1. all \in Seq(Lines) /\ Len(all) = Len(found) + Len(rd)
          BY <3>2
        <4>2. \A i \in 1..Len(found) : i \in 1..Len(all) /\ all[i] = found[i]
          BY <3>2, <4>1
        <4>3. \A i \in 1..Len(rd) : Len(found) + i \in 1..Len(all) /\ all[Len(found) + i] = rd[i]
          BY <3>2, <4>1
        <4>4. DOMAIN all = 1..Len(all) /\ DOMAIN found = 1..Len(found) /\ DOMAIN rd = 1..Len(rd)
          BY <3>2, <4>1
        <4> HIDE DEF all
        <4> QED  BY <4>1, <4>2, <4>3, <4>4 DEF Range
      <3> HIDE DEF all
      <3>4. ASSUME NEW s \in Synced PROVE Covered(s, pend'[s], Range(all))
        <4>1. CASE s = "acl"
          <5>1. Covered(s, size[s], Range(rd))
            BY <1>b, <4>1, ReadCovers DEF rd
          <5>2. pend'[s] = size[s]
            BY <3>1, <4>1 DEF ShipType, Cursors, Source
          <5> QED  BY <3>3, <5>1, <5>2 DEF Covered
        <4>2. CASE s # "acl"
          <5>1. pend'[s] = pend[s]
            BY <3>1, <4>2, SyncedIn DEF ShipType, Cursors
          <5>2. Covered(s, pend[s], Range(found))
            BY <3>1 DEF CursorsCovered
          <5> QED  BY <3>3, <5>1, <5>2 DEF Covered
        <4> QED  BY <4>1, <4>2
      <3> QED  BY <3>1, <3>3, <3>4, PacksCovers
    <2>4. CASE ACLFails
      <3>1. found \in Seq(Lines) /\ Packs(found) /\ pend' = pend /\ syncPC = "acl"
        BY <2>4 DEF ACLFails, Packs, ShipType
      <3>2. \A s \in Synced : Covered(s, pend'[s], Range(found))
        BY <3>1 DEF CursorsCovered
      <3> QED  BY <3>1, <3>2, PacksCovers
    <2>5. CASE SyncSends
      <3>1. /\ syncPC = "send" /\ syncPC' = "wait"
            /\ UNCHANGED <<cursor, pend, todo, handled, dropped>>
        BY <2>5 DEF SyncSends
      <3>2. \A s \in Synced : Covered(s, cursor[s], {})' /\ Covered(s, pend[s], TodoLines)'
        <4>1. TodoLines' = TodoLines
          BY <3>1 DEF TodoLines
        <4> QED  BY <3>1, <4>1 DEF CursorsCovered, Covered
      <3> QED  BY <3>1, <3>2 DEF CursorsCovered, Synced
    <2>6. CASE SyncCannotSend \/ SyncTimesOut
      <3>1. syncPC' = "idle" /\ UNCHANGED <<cursor, handled, dropped>>
        BY <2>6 DEF SyncCannotSend, SyncTimesOut
      <3> QED  BY <1>b, <3>1 DEF CursorsCovered, Covered, Synced
    <2>7. CASE SyncAcked
      <3>1. /\ syncPC = "wait" /\ "sync" \in got /\ todo' = Tail(todo)
            /\ syncPC' \in {"send", "apply"}
            /\ UNCHANGED <<cursor, pend, handled, dropped>>
        BY <2>7 DEF SyncAcked
      <3>2. Head(todo).lines \subseteq handled
        BY <3>1 DEF FlightInv, TokensTrue
      <3>3. todo \in Seq([id : SyncId, lines : SUBSET Lines]) /\ todo # <<>>
        BY <3>1 DEF ShipType
      <3>4. TodoLines \subseteq Head(todo).lines \cup TodoLines'
        <4>1. /\ Head(todo) = todo[1]
              /\ DOMAIN Tail(todo) = {i \in Nat \ {0} : i + 1 \in DOMAIN todo}
              /\ \A i \in DOMAIN Tail(todo) : Tail(todo)[i] = todo[i + 1]
          BY <3>3, HeadTail
        <4>2. ASSUME NEW x \in TodoLines PROVE x \in Head(todo).lines \cup TodoLines'
          <5>1. PICK i \in DOMAIN todo : x \in todo[i].lines
            BY DEF TodoLines
          <5>2. CASE i = 1
            BY <4>1, <5>1, <5>2
          <5>3. CASE i # 1
            <6>1. i \in Nat /\ i # 0
              BY <3>3
            <6>2. i - 1 \in Nat \ {0} /\ (i - 1) + 1 = i
              BY <5>3, <6>1
            <6>3. i - 1 \in DOMAIN Tail(todo)
              BY <4>1, <6>2
            <6>4. Tail(todo)[i - 1] = todo[i]
              BY <4>1, <6>2, <6>3
            <6> QED  BY <3>1, <5>1, <6>3, <6>4 DEF TodoLines
          <5> QED  BY <5>2, <5>3
        <4> QED  BY <4>2
      <3>5. \A s \in Synced : Covered(s, cursor[s], {})' /\ Covered(s, pend[s], TodoLines)'
        <4>1. \A s \in Synced : Covered(s, cursor[s], {})'
          BY <1>b, <3>1 DEF Covered
        <4>2. \A s \in Synced : Covered(s, pend[s], TodoLines)
          BY <3>1 DEF CursorsCovered
        <4>3. TodoLines \subseteq handled \cup TodoLines'
          BY <3>2, <3>4
        <4>4. \A s \in Synced : Covered(s, pend[s], TodoLines)'
          BY <3>1, <4>2, <4>3 DEF Covered
        <4> QED  BY <4>1, <4>4
      <3> QED  BY <3>1, <3>5 DEF CursorsCovered, Synced
    <2>8. CASE ApplyCursors
      <3>1. /\ syncPC = "apply" /\ syncPC' = "idle" /\ cursor' = pend
            /\ UNCHANGED <<handled, dropped>>
        BY <2>8 DEF ApplyCursors
      <3>2. TodoLines = {}
        BY <3>1 DEF ShipType, TodoLines
      <3>3. \A s \in Synced : Covered(s, pend[s], {})
        BY <3>1, <3>2 DEF CursorsCovered
      <3> QED  BY <3>1, <3>3 DEF CursorsCovered, Covered, Synced
    <2> QED  BY <1>8, <2>1, <2>2, <2>3, <2>4, <2>5, <2>6, <2>7, <2>8 DEF SyncStep
  <1>9. CASE StopLive
    BY <1>a, <1>9 DEF StopLive
  <1>10. ASSUME NEW k \in 1..MaxConns, StartLive(k) PROVE CursorsCovered'
    BY <1>a, <1>10 DEF StartLive
  <1>11. ASSUME NEW r \in Run, FollowStep(r) PROVE CursorsCovered'
    <2>1. CASE FollowReadsJournal(r) \/ FollowEmits(r) \/ FollowTimesOut(r) \/ FollowExits(r)
      BY <1>a, <2>1 DEF FollowReadsJournal, FollowEmits, FollowTimesOut, FollowExits
    <2>2. CASE FollowPollsACL(r)
      BY <1>a, <2>2 DEF FollowPollsACL
    <2>3. CASE FollowAcked(r)
      <3>1. \A s \in Synced : cursor'[s] = cursor[s]
        BY <2>3 DEF FollowAcked, Synced, ShipType, Cursors, Source
      <3> QED  BY <2>3, <3>1, CoveredSame DEF FollowAcked
    <2> QED  BY <1>11, <2>1, <2>2, <2>3 DEF FollowStep
  <1>12. CASE UNCHANGED vars
    BY <1>a, <1>12 DEF vars
  <1> QED
    BY <1>1, <1>2, <1>3, <1>4, <1>5, <1>6, <1>7, <1>8, <1>9, <1>10, <1>11, <1>12
    DEF Next, Live, Server

-----------------------------------------------------------------------------
ShipInv == ShipType /\ FlightInv /\ CursorsCovered

LEMMA ShipInvInit == Init => ShipInv
  BY ShipInit, FlightInit, CoveredInit DEF ShipInv

LEMMA ShipInvKept ==
    ~Timeouts => (ShipInv /\ WithinLimit /\ [Next]_vars => ShipInv')
  BY ShipTypeKept, FlightKept, CoveredKept DEF ShipInv

(* If acks come in time and reads are not cut, every line before a cursor  *)
(* that only the sync moves is acknowledged or counted as dropped, and so  *)
(* is every line before the cursors that syncOnce is about to apply, once  *)
(* its batches are through.                                                *)
THEOREM CursorsCoveredHolds ==
    ASSUME ~Timeouts
    PROVE  Spec /\ []WithinLimit => []CursorsCovered
  <1>1. ShipInv /\ WithinLimit /\ [Next]_vars => ShipInv'
    BY ShipInvKept
  <1>2. ShipInv => CursorsCovered
    BY DEF ShipInv
  <1> QED  BY <1>1, <1>2, ShipInvInit, PTL DEF Spec

(* An agent that only syncs never passes a line that the server has not    *)
(* acknowledged and that was not counted as dropped (ApplyCursors).        *)
THEOREM AckedBeforeCursorHolds ==
    ASSUME ~Timeouts, Run = {}
    PROVE  Spec /\ []WithinLimit => []AckedBeforeCursor
  <1>1. CursorsCovered => AckedBeforeCursor
    <2>1. Synced = Source
      BY DEF Synced
    <2> QED  BY <2>1 DEF CursorsCovered, Covered, AckedBeforeCursor
  <1> QED  BY <1>1, CursorsCoveredHolds, PTL

(* No journal line before its cursor is missing on the server uncounted. *)
JournalAcked == \A i \in 1..cursor["journal"] : Line("journal", i) \in handled \cup dropped

(* With any runs of the follow beside the sync, the same holds of the      *)
(* journal's cursor, which Follow.emit never moves.                        *)
THEOREM JournalAckedHolds ==
    ASSUME ~Timeouts
    PROVE  Spec /\ []WithinLimit => []JournalAcked
  <1>1. CursorsCovered => JournalAcked
    BY DEF CursorsCovered, Covered, JournalAcked, Synced, Source
  <1> QED  BY <1>1, CursorsCoveredHolds, PTL
=============================================================================
