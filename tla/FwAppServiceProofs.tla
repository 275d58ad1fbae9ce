------------------------- MODULE FwAppServiceProofs -------------------------
(***************************************************************************)
(* Proofs about FwAppService for every number of requests, boxes, pairings *)
(* and configuration changes.                                              *)
(***************************************************************************)
EXTENDS FwAppService, TLAPS

-----------------------------------------------------------------------------
(* What the request-building operators return. *)

\* The program counters at which a request is talking to a box.
Talking == {"call", "send", "fetch", "commit"}

\* A well-formed request: it does not talk to a box without credentials.
Good(r) == /\ r \in Requests
           /\ r.pc \in Talking => r.cred \in Creds

LEMMA IdleType == Idle \in Requests /\ Good(Idle)
  <1>1. Idle \in Requests
    BY BoundsAssumption DEF Idle, Requests, Ops, PCs, Epochs, Versions
  <1> QED
    BY <1>1 DEF Good, Talking, Idle

LEMMA NewType ==
  ASSUME NEW o \in Ops, NEW p \in PCs
  PROVE  /\ New(o, p) \in Requests
         /\ New(o, p).pc = p
         /\ p \notin Talking => Good(New(o, p))
  <1>1. New(o, p) \in Requests
    BY IdleType DEF New, Requests
  <1>2. New(o, p).pc = p
    BY DEF New, Idle
  <1> QED
    BY <1>1, <1>2 DEF Good

LEMMA ResumeType ==
  ASSUME NEW r \in Requests, NEW p \in PCs \ Talking
  PROVE  Good(Resume(r, p)) /\ Resume(r, p).pc = p
  <1>1. Resume(r, p) \in Requests
    BY IdleType DEF Resume, Requests
  <1>2. Resume(r, p).pc = p
    BY DEF Resume, Idle
  <1> QED
    BY <1>1, <1>2 DEF Good

LEMMA ReadGenType ==
  ASSUME NEW r \in Requests, pairGeneration \in Epochs, epoch \in Epochs
  PROVE  /\ ReadGen(r) \in Requests
         /\ ReadGen(r).pc = r.pc
         /\ ReadGen(r).cred = r.cred
  BY DEF ReadGen, Requests

\* Writing well-typed values into a request that is not talking to a box.
LEMMA UpdateType ==
  ASSUME NEW r \in Requests, r.pc \notin Talking,
         NEW g \in Epochs, NEW e \in Epochs
  PROVE  Good([r EXCEPT !.gen = g, !.epoch = e])
  BY DEF Good, Requests

LEMMA ReadCredsType ==
  ASSUME NEW r \in Requests, epoch \in Epochs, vault \in Creds \cup {NoCreds}
  PROVE  /\ ReadCreds(r) \in Requests
         /\ ReadCreds(r).pc = r.pc
         /\ ReadCreds(r).cred = vault
         /\ vault # NoCreds => Good(ReadCreds(r))
  BY DEF ReadCreds, Requests, Good

LEMMA AfterFetchType ==
  ASSUME NEW r \in Requests, NEW ok \in BOOLEAN
  PROVE  Good(AfterFetch(r, ok))
  <1>1. {"wake", "reread", "list", "overlay"} \subseteq PCs \ Talking
    BY DEF PCs, Talking
  <1>2. \A p \in PCs \ Talking : Good(Resume(r, p))
    BY ResumeType
  <1> QED
    BY <1>1, <1>2, IdleType DEF AfterFetch, AfterForced

LEMMA AfterReadType ==
  ASSUME NEW r \in Requests
  PROVE  Good(AfterRules(r)) /\ Good(AfterObs(r))
  <1>1. {"overlay", "creds", "hydrateObs", "ensure"} \subseteq PCs \ Talking
    BY DEF PCs, Talking
  <1>2. \A p \in PCs \ Talking : Good(Resume(r, p))
    BY ResumeType
  <1> QED
    BY <1>1, <1>2, IdleType DEF AfterRules, AfterObs

-----------------------------------------------------------------------------
(* Type correctness *)

\* The inductive strengthening of TypeOK: the generation cannot run past the
\* number of credential changes, and no request talks without credentials.
TypeInv == /\ TypeOK
           /\ pairGeneration <= epoch
           /\ \A t \in Request : Good(req[t])

LEMMA TypeInit == Init => TypeInv
  <1> SUFFICES ASSUME Init PROVE TypeInv
    OBVIOUS
  <1>1. 0 \in Epochs /\ 0 \in Versions /\ 0 \in Times
    BY BoundsAssumption DEF Epochs, Versions, Times
  <1>2. TypeOK
    BY <1>1, IdleType DEF Init, TypeOK, States
  <1>3. \A t \in Request : Good(req[t])
    BY IdleType DEF Init
  <1> QED
    BY <1>2, <1>3, <1>1 DEF Init, TypeInv, Epochs

\* A step that replaces one request by a well-formed one, and no other.
LEMMA StepType ==
  ASSUME req \in [Request -> Requests], \A u \in Request : Good(req[u]),
         NEW t \in Request, NEW r, Good(r), Step(t, r)
  PROVE  req' \in [Request -> Requests] /\ \A u \in Request : Good(req'[u])
  BY DEF Step, Good

\* A KV write leaves one of the two values there.
LEMMA KVWriteType ==
  ASSUME NEW old, NEW new, NEW v \in KVWrite(old, new)
  PROVE  v \in {old, new}
  BY DEF KVWrite

LEMMA PairingType ==
  ASSUME TypeInv, NEW t \in Request
  PROVE  /\ Pair(t) => TypeInv'
         /\ PairFails(t) => TypeInv'
         /\ PairDiscarded(t) => TypeInv'
         /\ \A c \in Creds : PairCommits(t, c) => TypeInv'
         /\ \A ok \in BOOLEAN : PairVerified(t, ok) => TypeInv'
  <1> USE DEF TypeInv
  <1>0. /\ pairGeneration \in Epochs /\ epoch \in Epochs
        /\ req \in [Request -> Requests] /\ req[t] \in Requests
    BY DEF TypeOK
  <1>1. /\ {"pair"} \subseteq Ops
        /\ {"cloud", "verify"} \subseteq PCs \ Talking
        /\ {"error", "ready", "lan-ok", "lan-down"} \subseteq States
    BY DEF Ops, PCs, Talking, States
  <1>2. ASSUME Pair(t) PROVE TypeInv'
    <2>1. Good(ReadGen(New("pair", "cloud")))
      BY <1>0, <1>1, NewType, ReadGenType DEF Good
    <2>2. req' \in [Request -> Requests] /\ \A u \in Request : Good(req'[u])
      BY <1>2, <1>0, <2>1, StepType DEF Pair, Begin
    <2> QED
      BY <1>2, <2>2 DEF Pair, TypeOK, kv, caches, status
  <1>3. ASSUME PairFails(t) PROVE TypeInv'
    <2>1. req' \in [Request -> Requests] /\ \A u \in Request : Good(req'[u])
      BY <1>3, <1>0, IdleType, StepType DEF PairFails
    <2> QED
      BY <1>3, <1>1, <2>1
      DEF PairFails, TypeOK, kv, caches, status, SetStatus
  <1>4. ASSUME PairDiscarded(t) PROVE TypeInv'
    <2>1. req' \in [Request -> Requests] /\ \A u \in Request : Good(req'[u])
      BY <1>4, <1>0, IdleType, StepType DEF PairDiscarded
    <2> QED
      BY <1>4, <2>1 DEF PairDiscarded, TypeOK, kv, caches, status
  <1>5. ASSUME NEW c \in Creds, PairCommits(t, c) PROVE TypeInv'
    <2>1. pairGeneration + 1 \in Epochs /\ epoch + 1 \in Epochs
      BY <1>5, <1>0, BoundsAssumption DEF PairCommits, Epochs
    <2>2. Good([New("pair", "verify") EXCEPT !.gen = pairGeneration + 1,
                                             !.epoch = epoch + 1])
      BY <2>1, <1>1, NewType, UpdateType
    <2>3. req' \in [Request -> Requests] /\ \A u \in Request : Good(req'[u])
      BY <1>5, <1>0, <2>2, StepType DEF PairCommits
    <2>4. kvRules' \in {kvRules, NoSnap} /\ kvObs' \in {kvObs, NoSnap}
      BY <1>5, KVWriteType DEF PairCommits, ClearCaches
    <2> QED
      BY <1>5, <1>0, <1>1, <2>1, <2>3, <2>4
      DEF PairCommits, ClearCaches, SetStatus, TypeOK, Epochs
  <1>6. ASSUME NEW ok \in BOOLEAN, PairVerified(t, ok) PROVE TypeInv'
    <2>1. req' \in [Request -> Requests] /\ \A u \in Request : Good(req'[u])
      BY <1>6, <1>0, IdleType, StepType DEF PairVerified
    <2>2. req[t].epoch \in Epochs
      BY <1>0 DEF Requests
    <2> QED
      BY <1>6, <1>1, <2>1, <2>2 DEF PairVerified, LanOK, LanDown, SetStatus,
                                TypeOK, kv, caches, status
  <1> QED
    BY <1>2, <1>3, <1>4, <1>5, <1>6

\* A step of one request that leaves everything else alone.
LEMMA QuietType ==
  ASSUME TypeInv, NEW t \in Request, NEW r, Good(r), Step(t, r),
         UNCHANGED <<kv, pairGeneration, caches, status, flight, cold, box,
                     clock, epoch>>
  PROVE  TypeInv'
  <1>1. req' \in [Request -> Requests] /\ \A u \in Request : Good(req'[u])
    BY StepType DEF TypeInv, TypeOK
  <1> QED
    BY <1>1 DEF TypeInv, TypeOK, kv, caches, status

LEMMA QuietActionsType ==
  ASSUME TypeInv, NEW t \in Request
  PROVE  /\ LanCall(t) => TypeInv'
         /\ EnsureInit(t) => TypeInv'
         /\ EnsureChecksWarm(t) => TypeInv'
         /\ FlightRechecksWarm(t) => TypeInv'
         /\ FetchLoads(t) => TypeInv'
         /\ BoxAnswers(t) => TypeInv'
         /\ ParseFails(t) => TypeInv'
         /\ InitDiscarded(t) => TypeInv'
         /\ RefreshRules(t) => TypeInv'
         /\ \A o \in {"mutate", "policy", "toggle"} : Mutate(t, o) => TypeInv'
         /\ PolicyIDCmd(t) => TypeInv'
         /\ PolicyIDLoads(t) => TypeInv'
         /\ RereadRules(t) => TypeInv'
         /\ ListFeatures(t) => TypeInv'
         /\ ReadRules(t) => TypeInv'
         /\ ReadObs(t) => TypeInv'
  <1>0. /\ pairGeneration \in Epochs /\ epoch \in Epochs
        /\ vault \in Creds \cup {NoCreds}
        /\ req[t] \in Requests /\ Good(req[t])
    BY DEF TypeInv, TypeOK
  <1>1. /\ {"lan", "ensure", "refresh", "mutate", "policy", "toggle",
            "features", "byid", "read"} \subseteq Ops
        /\ {"warm", "join", "wake", "load", "ensure", "reread",
            "hydrateRules", "hydrateObs"} \subseteq PCs \ Talking
        /\ {"call", "send", "fetch", "commit"} \subseteq PCs
    BY DEF Ops, PCs, Talking
  <1>2. LanCall(t) => TypeInv'
    BY <1>0, <1>1, NewType, ReadCredsType, QuietType DEF LanCall, Begin
  <1>3. EnsureInit(t) => TypeInv'
    <2>1. Good(ReadGen(New("ensure", "warm")))
      BY <1>0, <1>1, NewType, ReadGenType DEF Good
    <2> QED
      BY <2>1, IdleType, QuietType DEF EnsureInit, Begin
  <1>4. EnsureChecksWarm(t) => TypeInv'
    <2>1. ASSUME req[t].pc = "warm"
          PROVE  Good([req[t] EXCEPT !.pc = "join"])
      BY <1>0, <1>1 DEF Good, Requests
    <2> QED
      BY <2>1, IdleType, QuietType DEF EnsureChecksWarm
  <1>5. FlightRechecksWarm(t) => TypeInv'
    BY <1>0, <1>1, ResumeType, QuietType DEF FlightRechecksWarm
  <1>6. FetchLoads(t) => TypeInv'
    <2>1. ASSUME vault # NoCreds
          PROVE  Good([ReadGen(ReadCreds(req[t])) EXCEPT !.pc = "fetch"])
      <3>1. /\ ReadGen(ReadCreds(req[t])) \in Requests
            /\ ReadGen(ReadCreds(req[t])).cred \in Creds
        BY <2>1, <1>0, ReadGenType, ReadCredsType
      <3> QED
        BY <3>1, <1>1 DEF Good, Requests
    <2> QED
      BY <2>1, <1>0, AfterFetchType, QuietType DEF FetchLoads
  <1>7. BoxAnswers(t) => TypeInv'
    <2>1. ASSUME req[t].pc = "fetch"
          PROVE  Good([req[t] EXCEPT !.pc = "commit",
                                     !.ver = box[req[t].cred]])
      <3>1. req[t].cred \in Creds
        BY <2>1, <1>0 DEF Good, Talking
      <3>2. box[req[t].cred] \in Versions
        BY <3>1 DEF TypeInv, TypeOK
      <3> QED
        BY <3>1, <3>2, <1>0, <1>1 DEF Good, Requests
    <2> QED
      BY <2>1, QuietType DEF BoxAnswers
  <1>8. ParseFails(t) => TypeInv'
    BY <1>0, AfterFetchType, QuietType DEF ParseFails
  <1>9. InitDiscarded(t) => TypeInv'
    BY <1>0, AfterFetchType, QuietType DEF InitDiscarded
  <1>10. RefreshRules(t) => TypeInv'
    BY <1>1, NewType, QuietType DEF RefreshRules, Begin
  <1>11. ASSUME NEW o \in {"mutate", "policy", "toggle"}, Mutate(t, o)
         PROVE  TypeInv'
    BY <1>11, <1>0, <1>1, NewType, ReadCredsType, QuietType
    DEF Mutate, Begin
  <1>12. RereadRules(t) => TypeInv'
    BY <1>0, <1>1, AfterReadType, ResumeType, QuietType DEF RereadRules
  <1>13. ListFeatures(t) => TypeInv'
    <2>1. Good(New("features", FeaturesPath))
      BY <1>1, NewType DEF FeaturesPath
    <2> QED
      BY <2>1, IdleType, QuietType DEF ListFeatures, Begin
  <1>14. ReadRules(t) => TypeInv'
    BY <1>1, NewType, QuietType DEF ReadRules, Begin
  <1>15. ReadObs(t) => TypeInv'
    BY <1>1, NewType, QuietType DEF ReadObs, Begin
  <1>16. PolicyIDCmd(t) => TypeInv'
    BY <1>1, NewType, QuietType DEF PolicyIDCmd, Begin
  <1>17. PolicyIDLoads(t) => TypeInv'
    BY <1>0, <1>1, IdleType, NewType, ReadCredsType, QuietType
    DEF PolicyIDLoads
  <1> QED
    BY <1>2, <1>3, <1>4, <1>5, <1>6, <1>7, <1>8, <1>9, <1>10, <1>11, <1>12,
       <1>13, <1>14, <1>15, <1>16, <1>17

LEMMA OtherActionsType ==
  ASSUME TypeInv, NEW t \in Request
  PROVE  /\ LanReturns(t) => TypeInv'
         /\ FlightDo(t) => TypeInv'
         /\ FlightWakes(t) => TypeInv'
         /\ FlightDeletes(t) => TypeInv'
         /\ FetchFails(t) => TypeInv'
         /\ InitCommits(t) => TypeInv'
         /\ MutateSent(t) => TypeInv'
         /\ MutateUnreadable(t) => TypeInv'
         /\ MutateFails(t) => TypeInv'
         /\ OverlayHostPolicy(t) => TypeInv'
         /\ HydrateRules(t) => TypeInv'
         /\ HydrateObs(t) => TypeInv'
         /\ ColdStart(t) => TypeInv'
  <1>0. /\ req \in [Request -> Requests] /\ \A u \in Request : Good(req[u])
        /\ req[t] \in Requests /\ Good(req[t]) /\ req[t].epoch \in Epochs
        /\ req[t].op \in Ops /\ req[t].sentEpoch \in Epochs
        /\ box \in [Creds -> Versions] /\ pairGeneration <= epoch
    BY DEF TypeInv, TypeOK, Requests
  <1>1. /\ {"ensure", "cold"} \subseteq Ops
        /\ {"recheck", "wait", "delete", "load", "hydrateRules"}
             \subseteq PCs \ Talking
        /\ {"lan-ok", "lan-down"} \subseteq States
    BY DEF Ops, PCs, Talking, States
  \* Requests made from New with a key, or with what was sent.
  <1>2. ASSUME NEW o \in Ops, NEW p \in PCs \ Talking, NEW k \in Epochs
        PROVE  Good([New(o, p) EXCEPT !.key = k])
    <2>1. ASSUME NEW r \in Requests, r.pc \notin Talking
          PROVE  Good([r EXCEPT !.key = k])
      BY <2>1 DEF Good, Requests
    <2> QED
      BY <2>1, NewType
  <1>3. ASSUME NEW o \in Ops, NEW p \in PCs \ Talking, NEW v \in Versions,
               NEW e \in Epochs
        PROVE  Good([New(o, p) EXCEPT !.sent = v, !.sentEpoch = e])
    <2>1. ASSUME NEW r \in Requests, r.pc \notin Talking
          PROVE  Good([r EXCEPT !.sent = v, !.sentEpoch = e])
      BY <2>1 DEF Good, Requests
    <2> QED
      BY <2>1, NewType
  <1>4. ASSUME NEW c \in Creds, BoxAnswered(c)
        PROVE  box' \in [Creds -> Versions] /\ box'[c] \in Versions
    BY <1>4, <1>0, BoundsAssumption DEF BoxAnswered, Versions
  <1>5. LanReturns(t) => TypeInv'
    <2> SUFFICES ASSUME LanReturns(t) PROVE TypeInv'
      OBVIOUS
    <2>1. req' \in [Request -> Requests] /\ \A u \in Request : Good(req'[u])
      BY <1>0, IdleType, StepType DEF LanReturns
    <2>2. req[t].cred \in Creds
      BY <1>0 DEF LanReturns, Good, Talking
    <2>3. box' \in [Creds -> Versions]
      BY <1>0, <1>4, <2>2 DEF LanReturns
    <2>4. state' \in States /\ lastPingOK' \in BOOLEAN /\ stateEpoch' \in Epochs
      BY <1>0, <1>1
      DEF LanReturns, LanOK, LanDown, SetStatus, status, TypeInv, TypeOK
    <2> QED
      BY <2>1, <2>3, <2>4 DEF LanReturns, TypeInv, TypeOK, kv, caches
  <1>6. FlightDo(t) => TypeInv'
    <2> SUFFICES ASSUME FlightDo(t) PROVE TypeInv'
      OBVIOUS
    <2>1. req[t].gen \in Epochs
      BY <1>0 DEF Requests
    <2>2. req' \in [Request -> Requests] /\ \A u \in Request : Good(req'[u])
      BY <2>1, <1>0, <1>1, <1>2, IdleType, StepType DEF FlightDo
    <2>3. flight' \in [Epochs -> {"none", "run", "done"}]
      BY <2>1 DEF FlightDo, TypeInv, TypeOK
    <2> QED
      BY <2>2, <2>3 DEF FlightDo, TypeInv, TypeOK, kv, caches, status
  <1>7. FlightWakes(t) => TypeInv'
    <2> SUFFICES ASSUME FlightWakes(t) PROVE TypeInv'
      OBVIOUS
    <2>1. Good([req[t] EXCEPT !.pc = "delete"])
      BY <1>0, <1>1 DEF Good, Requests
    <2>2. req' \in [Request -> Requests] /\ \A u \in Request : Good(req'[u])
      BY <2>1, <1>0, IdleType DEF FlightWakes, Good
    <2>3. flight' \in [Epochs -> {"none", "run", "done"}]
      BY DEF FlightWakes, TypeInv, TypeOK
    <2> QED
      BY <2>2, <2>3 DEF FlightWakes, TypeInv, TypeOK, kv, caches, status
  <1>8. FlightDeletes(t) => TypeInv'
    <2> SUFFICES ASSUME FlightDeletes(t) PROVE TypeInv'
      OBVIOUS
    <2>1. req' \in [Request -> Requests] /\ \A u \in Request : Good(req'[u])
      BY <1>0, IdleType, StepType DEF FlightDeletes
    <2>2. flight' \in [Epochs -> {"none", "run", "done"}]
      BY DEF FlightDeletes, TypeInv, TypeOK
    <2> QED
      BY <2>1, <2>2 DEF FlightDeletes, TypeInv, TypeOK, kv, caches, status
  <1>9. FetchFails(t) => TypeInv'
    <2> SUFFICES ASSUME FetchFails(t) PROVE TypeInv'
      OBVIOUS
    <2>1. req' \in [Request -> Requests] /\ \A u \in Request : Good(req'[u])
      BY <1>0, AfterFetchType, StepType DEF FetchFails
    <2> QED
      BY <2>1, <1>0, <1>1 DEF FetchFails, LanDown, SetStatus, TypeInv, TypeOK,
                              kv, caches, status
  <1>10. InitCommits(t) => TypeInv'
    <2> SUFFICES ASSUME InitCommits(t) PROVE TypeInv'
      OBVIOUS
    <2> DEFINE s == [cred |-> req[t].cred, epoch |-> req[t].epoch,
                     ver |-> req[t].ver, at |-> clock]
    <2>1. s \in Snapshots
      BY <1>0 DEF InitCommits, Good, Talking, Snapshots, Requests, TypeInv,
                  TypeOK
    <2>2. req' \in [Request -> Requests] /\ \A u \in Request : Good(req'[u])
      BY <1>0, AfterFetchType, StepType DEF InitCommits
    <2>3. kvRules' \in {kvRules, s} /\ kvObs' \in {kvObs, s}
      BY KVWriteType DEF InitCommits
    <2>4. rules' = s /\ obs' = s /\ features' = s
      BY DEF InitCommits
    <2> HIDE DEF s
    <2> QED
      BY <2>1, <2>2, <2>3, <2>4, <1>0, <1>1
      DEF InitCommits, LanOK, SetStatus, TypeInv, TypeOK
  <1>11. MutateSent(t) => TypeInv'
    <2> SUFFICES ASSUME MutateSent(t) PROVE TypeInv'
      OBVIOUS
    <2>1. req[t].cred \in Creds
      BY <1>0 DEF MutateSent, Good, Talking
    <2>2. box' \in [Creds -> Versions] /\ box'[req[t].cred] \in Versions
      BY <2>1, <1>4 DEF MutateSent
    <2>3. req' \in [Request -> Requests] /\ \A u \in Request : Good(req'[u])
      BY <2>2, <1>0, <1>1, <1>3, StepType DEF MutateSent
    <2> QED
      BY <2>2, <2>3, <1>0, <1>1 DEF MutateSent, LanOK, SetStatus, TypeInv,
                                    TypeOK, kv, caches
  <1>12. MutateUnreadable(t) \/ MutateFails(t) => TypeInv'
    <2> SUFFICES ASSUME MutateUnreadable(t) \/ MutateFails(t) PROVE TypeInv'
      OBVIOUS
    <2>1. req[t].cred \in Creds
      BY <1>0 DEF MutateUnreadable, MutateFails, Good, Talking
    <2>2. box' \in [Creds -> Versions]
      BY <2>1, <1>4 DEF MutateUnreadable, MutateFails
    <2>3. req' \in [Request -> Requests] /\ \A u \in Request : Good(req'[u])
      BY <1>0, IdleType, StepType DEF MutateUnreadable, MutateFails
    <2> QED
      BY <2>2, <2>3, <1>0, <1>1
      DEF MutateUnreadable, MutateFails, LanOK, LanDown, SetStatus, TypeInv,
          TypeOK, kv, caches
  <1>13. OverlayHostPolicy(t) => TypeInv'
    <2> SUFFICES ASSUME OverlayHostPolicy(t) PROVE TypeInv'
      OBVIOUS
    <2>1. req' \in [Request -> Requests] /\ \A u \in Request : Good(req'[u])
      BY <1>0, IdleType, StepType DEF OverlayHostPolicy
    <2>2. overlay' \in SUBSET Epochs
      BY <1>0 DEF OverlayHostPolicy, TypeInv, TypeOK
    <2> QED
      BY <2>1, <2>2 DEF OverlayHostPolicy, TypeInv, TypeOK, kv, status
  <1>14. HydrateRules(t) => TypeInv'
    <2> SUFFICES ASSUME HydrateRules(t) PROVE TypeInv'
      OBVIOUS
    <2>1. req' \in [Request -> Requests] /\ \A u \in Request : Good(req'[u])
      BY <1>0, AfterReadType, StepType DEF HydrateRules
    <2> QED
      BY <2>1 DEF HydrateRules, TypeInv, TypeOK, kv, status
  <1>15. HydrateObs(t) => TypeInv'
    <2> SUFFICES ASSUME HydrateObs(t) PROVE TypeInv'
      OBVIOUS
    <2>1. req' \in [Request -> Requests] /\ \A u \in Request : Good(req'[u])
      BY <1>0, AfterReadType, StepType DEF HydrateObs
    <2>2. /\ obs' \in {obs, kvObs}
          /\ kvObs' \in {kvObs, NoSnap}
      BY KVWriteType DEF HydrateObs, Hydrated
    <2> QED
      BY <2>1, <2>2 DEF HydrateObs, TypeInv, TypeOK, status
  <1>16. ColdStart(t) => TypeInv'
    <2> SUFFICES ASSUME ColdStart(t) PROVE TypeInv'
      OBVIOUS
    <2>1. req' \in [Request -> Requests] /\ \A u \in Request : Good(req'[u])
      BY <1>0, <1>1, NewType, StepType DEF ColdStart, Begin
    <2> QED
      BY <2>1 DEF ColdStart, TypeInv, TypeOK, kv, caches, status
  <1> QED
    BY <1>5, <1>6, <1>7, <1>8, <1>9, <1>10, <1>11, <1>12, <1>13, <1>14,
       <1>15, <1>16

LEMMA TypeStep == TypeInv /\ [Next]_vars => TypeInv'
  <1> SUFFICES ASSUME TypeInv, [Next]_vars PROVE TypeInv'
    OBVIOUS
  <1>1. ASSUME NEW t \in Request, Start(t) PROVE TypeInv'
    BY <1>1, PairingType, QuietActionsType, OtherActionsType DEF Start
  <1>2. ASSUME NEW t \in Request, Continue(t) PROVE TypeInv'
    BY <1>2, PairingType, QuietActionsType, OtherActionsType DEF Continue
  <1>3. CASE Unpair
    <2>1. pairGeneration + 1 \in Epochs /\ epoch + 1 \in Epochs
      BY <1>3, BoundsAssumption DEF Unpair, TypeInv, TypeOK, Epochs
    <2>2. kvRules' \in {kvRules, NoSnap} /\ kvObs' \in {kvObs, NoSnap}
      BY <1>3, KVWriteType DEF Unpair, ClearCaches
    <2>3. pairGeneration' <= epoch' /\ req' = req
      BY <1>3 DEF Unpair, TypeInv, TypeOK, Epochs
    <2>4. TypeOK'
      BY <1>3, <2>1, <2>2
      DEF Unpair, ClearCaches, SetStatus, TypeInv, TypeOK, States
    <2> QED
      BY <2>3, <2>4 DEF TypeInv
  <1>4. CASE Restart
    <2>1. 0 \in Epochs /\ epoch \in Nat
      BY BoundsAssumption DEF Epochs, TypeInv, TypeOK
    <2>2. req' \in [Request -> Requests] /\ \A u \in Request : Good(req'[u])
      BY <1>4, IdleType DEF Restart
    <2>3. TypeOK'
      BY <1>4, <2>1, <2>2 DEF Restart, TypeInv, TypeOK, States, kv
    <2>4. pairGeneration' <= epoch'
      BY <1>4, <2>1 DEF Restart
    <2> QED
      BY <2>2, <2>3, <2>4 DEF TypeInv
  <1>5. CASE Tick
    <2>1. clock' \in Times
      BY <1>5, BoundsAssumption DEF Tick, Times, TypeInv, TypeOK
    <2> QED
      BY <1>5, <2>1 DEF Tick, TypeInv, TypeOK, kv, caches, status
  <1>6. CASE UNCHANGED vars
    BY <1>6 DEF vars, TypeInv, TypeOK, kv, caches, status
  <1> QED
    BY <1>1, <1>2, <1>3, <1>4, <1>5, <1>6 DEF Next

\* Every reachable state is well typed, whatever the store loses: in
\* particular the generation counter never outruns the credential changes.
THEOREM TypeCorrect == Spec => []TypeOK
  <1>1. Spec => []TypeInv
    BY TypeInit, TypeStep, PTL DEF Spec
  <1>2. TypeInv => TypeOK
    BY DEF TypeInv
  <1> QED
    BY <1>1, <1>2, PTL

-----------------------------------------------------------------------------
(* The generation check *)

\* The program counters between reading the generation and checking it.
Tracked == {"cloud", "fetch", "commit"}

\* What the check of a generation is worth: if it succeeds, no credential
\* change came between the read and the check.
Dated(r) == r.pc \in Tracked =>
              /\ r.gen <= pairGeneration
              /\ r.gen = pairGeneration => r.epoch = epoch

GenInv == \A t \in Request : Dated(req[t])

LEMMA UntrackedType ==
  ASSUME NEW r \in Requests
  PROVE  /\ Idle.pc \notin Tracked
         /\ \A o, p : New(o, p).pc = p
         /\ \A ok \in BOOLEAN : AfterFetch(r, ok).pc \notin Tracked
         /\ AfterRules(r).pc \notin Tracked
         /\ AfterObs(r).pc \notin Tracked
  <1>1. \A p : Resume(r, p).pc = p
    BY DEF Resume, Idle
  <1>2. Idle.pc = "idle"
    BY DEF Idle
  <1>3. \A o, p : New(o, p).pc = p
    BY DEF New, Idle
  <1>4. \A ok \in BOOLEAN : AfterFetch(r, ok).pc \notin Tracked
    BY <1>1, <1>2 DEF AfterFetch, AfterForced, Tracked
  <1> QED
    BY <1>1, <1>2, <1>3, <1>4 DEF AfterRules, AfterObs, Tracked

\* A step of one request that changes neither counter.
LEMMA GenKept ==
  ASSUME TypeInv, GenInv, NEW t \in Request, NEW r, Step(t, r), Dated(r),
         UNCHANGED <<pairGeneration, epoch>>
  PROVE  GenInv'
  BY DEF TypeInv, TypeOK, GenInv, Dated, Step

LEMMA GenStep == TypeInv /\ GenInv /\ [Next]_vars => GenInv'
  <1> SUFFICES ASSUME TypeInv, GenInv, [Next]_vars PROVE GenInv'
    OBVIOUS
  <1>0. /\ pairGeneration \in Nat /\ epoch \in Nat
        /\ \A u \in Request : /\ req[u] \in Requests /\ req[u].gen \in Nat
                              /\ Dated(req[u])
    BY DEF TypeInv, TypeOK, Epochs, Requests, GenInv
  <1>1. Dated(Idle)
    BY DEF Dated, Tracked, Idle
  <1>2. ASSUME NEW t \in Request,
               \/ Pair(t) \/ PairFails(t) \/ PairDiscarded(t)
               \/ \E ok \in BOOLEAN : PairVerified(t, ok)
               \/ LanCall(t) \/ LanReturns(t)
        PROVE  GenInv'
    <2>1. Dated(ReadGen(New("pair", "cloud")))
      <3>1. New("pair", "cloud") \in Requests
        BY NewType DEF Ops, PCs
      <3> QED
        BY <3>1, <1>0 DEF Dated, ReadGen, Requests
    <2>2. Dated(ReadCreds(New("lan", "call")))
      BY DEF Dated, ReadCreds, New, Idle, Tracked
    <2> QED
      BY <1>2, <1>1, <2>1, <2>2, GenKept
      DEF Pair, PairFails, PairDiscarded, PairVerified, LanCall, LanReturns,
          Begin
  <1>3. ASSUME NEW t \in Request, NEW c \in Creds, PairCommits(t, c)
        PROVE  GenInv'
    <2>1. /\ pairGeneration' = pairGeneration + 1
          /\ req' = [req EXCEPT ![t] =
                       [New("pair", "verify") EXCEPT
                          !.gen = pairGeneration + 1, !.epoch = epoch + 1]]
      BY <1>3 DEF PairCommits, Step
    <2>2. [New("pair", "verify") EXCEPT
             !.gen = pairGeneration + 1, !.epoch = epoch + 1].pc = "verify"
      BY DEF New, Idle
    <2>3. ASSUME NEW u \in Request PROVE Dated(req[u])'
      <3>1. CASE u = t
        BY <3>1, <2>1, <2>2 DEF Dated, Tracked, TypeInv, TypeOK
      <3>2. CASE u # t
        BY <3>2, <2>1, <1>0 DEF Dated, TypeInv, TypeOK
      <3> QED
        BY <3>1, <3>2
    <2> QED
      BY <2>3 DEF GenInv
  <1>4. ASSUME NEW t \in Request,
               \/ EnsureInit(t) \/ EnsureChecksWarm(t) \/ FlightDo(t)
               \/ FlightRechecksWarm(t) \/ FlightDeletes(t)
        PROVE  GenInv'
    <2>1. Dated(ReadGen(New("ensure", "warm")))
      BY DEF Dated, ReadGen, New, Idle, Tracked
    <2>2. Dated([req[t] EXCEPT !.pc = "join"])
      BY <1>0 DEF Dated, Requests, Tracked
    <2>3. \A k : /\ Dated([New("ensure", "recheck") EXCEPT !.key = k])
                 /\ Dated([New("ensure", "wait") EXCEPT !.key = k])
      BY DEF Dated, New, Idle, Tracked
    <2>4. \A p \in {"wake", "load"} : Dated(Resume(req[t], p))
      BY DEF Dated, Resume, Idle, Tracked
    <2> QED
      BY <1>4, <1>1, <2>1, <2>2, <2>3, <2>4, GenKept
      DEF EnsureInit, EnsureChecksWarm, FlightDo, FlightRechecksWarm,
          FlightDeletes, Begin
  <1>5. ASSUME NEW t \in Request, FlightWakes(t) PROVE GenInv'
    <2>1. Dated([req[t] EXCEPT !.pc = "delete"])
      BY <1>0 DEF Dated, Requests, Tracked
    <2>2. \A u \in Request : Dated(req'[u])
      BY <1>5, <1>0, <1>1, <2>1 DEF FlightWakes
    <2> QED
      BY <1>5, <2>2 DEF FlightWakes, GenInv, Dated
  <1>6. ASSUME NEW t \in Request,
               \/ FetchLoads(t) \/ BoxAnswers(t) \/ FetchFails(t)
               \/ ParseFails(t) \/ InitDiscarded(t) \/ InitCommits(t)
        PROVE  GenInv'
    <2>1. \A ok \in BOOLEAN : Dated(AfterFetch(req[t], ok))
      BY <1>0, UntrackedType DEF Dated
    <2>2. Dated([ReadGen(ReadCreds(req[t])) EXCEPT !.pc = "fetch"])
      BY <1>0 DEF Dated, ReadGen, ReadCreds, Requests
    <2>3. ASSUME req[t].pc = "fetch"
          PROVE  Dated([req[t] EXCEPT !.pc = "commit",
                                      !.ver = box[req[t].cred]])
      BY <2>3, <1>0 DEF Dated, Requests, Tracked
    <2> QED
      BY <1>6, <2>1, <2>2, <2>3, GenKept
      DEF FetchLoads, BoxAnswers, FetchFails, ParseFails, InitDiscarded,
          InitCommits
  <1>7. ASSUME NEW t \in Request,
               \/ RefreshRules(t) \/ PolicyIDCmd(t) \/ PolicyIDLoads(t)
               \/ MutateSent(t) \/ MutateUnreadable(t) \/ MutateFails(t)
               \/ \E o \in {"mutate", "policy", "toggle"} : Mutate(t, o)
               \/ RereadRules(t) \/ OverlayHostPolicy(t)
        PROVE  GenInv'
    <2>1. Dated(New("refresh", "load")) /\ Dated(New("byid", "reread"))
      BY DEF Dated, New, Idle, Tracked
    <2>2. \A o : Dated(ReadCreds(New(o, "send")))
      BY DEF Dated, ReadCreds, New, Idle, Tracked
    <2>3. \A v, e : Dated([New(req[t].op, "load") EXCEPT !.sent = v,
                                                         !.sentEpoch = e])
      BY DEF Dated, New, Idle, Tracked
    <2>4. Dated(AfterRules(req[t])) /\ Dated(Resume(req[t], "hydrateRules"))
      BY <1>0, UntrackedType DEF Dated, Resume, Idle, Tracked
    <2> QED
      BY <1>7, <1>1, <2>1, <2>2, <2>3, <2>4, GenKept
      DEF RefreshRules, Mutate, PolicyIDCmd, PolicyIDLoads, MutateSent,
          MutateUnreadable, MutateFails, RereadRules, OverlayHostPolicy, Begin
  <1>8. ASSUME NEW t \in Request,
               \/ ListFeatures(t) \/ ReadRules(t) \/ ReadObs(t)
               \/ HydrateRules(t) \/ HydrateObs(t) \/ ColdStart(t)
        PROVE  GenInv'
    <2>1. \A o : \A p \in {"ensure", "load", "hydrateRules", "hydrateObs"} :
            Dated(New(o, p))
      BY DEF Dated, New, Idle, Tracked
    <2>2. Dated(AfterRules(req[t])) /\ Dated(AfterObs(req[t]))
      BY <1>0, UntrackedType DEF Dated
    <2>3. CASE ColdStart(t)
      BY <2>3, <2>1, GenKept DEF ColdStart, Begin, GenInv, Dated
    <2> QED
      BY <1>8, <1>1, <2>1, <2>2, <2>3, GenKept
      DEF ListFeatures, FeaturesPath, ReadRules, ReadObs, HydrateRules,
          HydrateObs, Begin
  <1>9. CASE Unpair
    BY <1>9, <1>0 DEF Unpair, GenInv, Dated
  <1>10. CASE Restart
    <2>1. \A u \in Request : req'[u].pc = "idle"
      BY <1>10 DEF Restart, Idle
    <2> QED
      BY <2>1 DEF GenInv, Dated, Tracked
  <1>11. CASE Tick \/ UNCHANGED vars
    BY <1>11 DEF Tick, vars, GenInv, Dated
  <1> QED
    BY <1>2, <1>3, <1>4, <1>5, <1>6, <1>7, <1>8, <1>9, <1>10, <1>11
    DEF Next, Start, Continue

LEMMA GenInit == Init => GenInv
  BY DEF Init, GenInv, Dated, Tracked, Idle

\* The user's Unpair, or a later pairing, is never undone by a cloud join
\* that was already under way.
THEOREM UnpairWinsHolds == Spec => UnpairWins
  <1>1. ASSUME TypeInv, GenInv, [Next]_vars
        PROVE  epoch' # epoch /\ vault' # NoCreds =>
                 \E t \in Request : req[t].pc = "cloud" /\ req[t].epoch = epoch
    <2> SUFFICES ASSUME epoch' # epoch, vault' # NoCreds
                 PROVE  \E t \in Request :
                          req[t].pc = "cloud" /\ req[t].epoch = epoch
      OBVIOUS
    <2>1. PICK t \in Request : \E c \in Creds : PairCommits(t, c)
      BY <1>1 DEF Next, Start, Continue, Pair, PairFails, PairDiscarded,
         PairVerified, Unpair, LanCall, LanReturns, EnsureInit,
         EnsureChecksWarm, FlightDo, FlightRechecksWarm, FlightWakes,
         FlightDeletes, FetchLoads, BoxAnswers, FetchFails, ParseFails,
         InitDiscarded, InitCommits, RefreshRules, Mutate, PolicyIDCmd,
         PolicyIDLoads, MutateSent, MutateUnreadable, MutateFails, RereadRules, OverlayHostPolicy, ListFeatures, ReadRules,
         ReadObs, HydrateRules, HydrateObs, ColdStart, Restart, Tick, vars
    <2> QED
      BY <1>1, <2>1 DEF PairCommits, SameGeneration, GenInv, Dated, Tracked
  <1>2. Spec => [](TypeInv /\ GenInv)
    BY TypeInit, TypeStep, GenInit, GenStep, PTL DEF Spec
  <1>3. TypeInv /\ GenInv /\ [Next]_vars =>
          [epoch' # epoch /\ vault' # NoCreds =>
             \E t \in Request : req[t].pc = "cloud" /\ req[t].epoch = epoch]_vars
    BY <1>1
  <1> QED
    BY <1>2, <1>3, PTL DEF Spec, UnpairWins

-----------------------------------------------------------------------------
(* The caches *)

\* Which actions touch the caches, the vault or the epoch.
CacheVars == <<kv, rules, obs, features, epoch>>

LEMMA CacheActions ==
  ASSUME [Next]_vars
  PROVE  \/ UNCHANGED CacheVars
         \/ \E t \in Request : \/ \E c \in Creds : PairCommits(t, c)
                               \/ InitCommits(t)
                               \/ HydrateRules(t)
                               \/ HydrateObs(t)
         \/ Unpair
         \/ Restart
  <1> USE DEF CacheVars, kv, caches
  <1>1. ASSUME NEW t \in Request, Start(t) PROVE UNCHANGED CacheVars
    BY <1>1 DEF Start, Pair, LanCall, EnsureInit, RefreshRules, Mutate,
       PolicyIDCmd, ListFeatures, ReadRules, ReadObs, ColdStart
  <1>2. ASSUME NEW t \in Request,
               \/ PairFails(t) \/ PairDiscarded(t)
               \/ \E ok \in BOOLEAN : PairVerified(t, ok)
               \/ LanReturns(t) \/ PolicyIDLoads(t) \/ MutateSent(t)
               \/ MutateUnreadable(t) \/ MutateFails(t)
        PROVE  UNCHANGED CacheVars
    BY <1>2 DEF PairFails, PairDiscarded, PairVerified, LanReturns,
       PolicyIDLoads, MutateSent, MutateUnreadable, MutateFails
  <1>3. ASSUME NEW t \in Request,
               \/ EnsureInit(t) \/ EnsureChecksWarm(t) \/ FlightDo(t)
               \/ FlightRechecksWarm(t) \/ FlightWakes(t) \/ FlightDeletes(t)
        PROVE  UNCHANGED CacheVars
    BY <1>3 DEF EnsureInit, EnsureChecksWarm, FlightDo, FlightRechecksWarm,
       FlightWakes, FlightDeletes
  <1>4. ASSUME NEW t \in Request,
               \/ FetchLoads(t) \/ BoxAnswers(t) \/ FetchFails(t)
               \/ ParseFails(t) \/ InitDiscarded(t) \/ RereadRules(t)
               \/ OverlayHostPolicy(t) \/ ListFeatures(t)
        PROVE  UNCHANGED CacheVars
    BY <1>4 DEF FetchLoads, BoxAnswers, FetchFails, ParseFails,
       InitDiscarded, RereadRules, OverlayHostPolicy, ListFeatures
  <1>5. Tick \/ UNCHANGED vars => UNCHANGED CacheVars
    BY DEF Tick, vars
  <1> HIDE DEF CacheVars, kv, caches
  <1> QED
    BY <1>1, <1>2, <1>3, <1>4, <1>5 DEF Next, Continue

\* Inductive form of CachesOfPairing and OneAnswer: the persisted rules are
\* the last answer committed, and every other view is that answer or empty.
ViewInv ==
    /\ kvRules # NoSnap => OfPairing(kvRules)
    /\ \A s \in {rules, obs, features, kvObs} : s # NoSnap => s = kvRules

LEMMA ViewStep ==
  ASSUME ~StoreFaults, TypeInv, GenInv, ViewInv, [Next]_vars
  PROVE  ViewInv'
  <1>1. CASE UNCHANGED CacheVars
    BY <1>1 DEF CacheVars, kv, ViewInv, OfPairing
  <1>2. ASSUME NEW t \in Request, NEW c \in Creds, PairCommits(t, c)
        PROVE  ViewInv'
    BY <1>2 DEF PairCommits, ClearCaches, KVWrite, ViewInv
  <1>3. ASSUME NEW t \in Request, InitCommits(t) PROVE ViewInv'
    <2> DEFINE s == [cred |-> req[t].cred, epoch |-> req[t].epoch,
                     ver |-> req[t].ver, at |-> clock]
    <2>1. /\ rules' = s /\ obs' = s /\ features' = s
          /\ kvRules' = s /\ kvObs' = s
          /\ vault' = vault /\ epoch' = epoch
      BY <1>3 DEF InitCommits, KVWrite
    <2>2. vault # NoCreds /\ req[t].cred = vault /\ req[t].epoch = epoch
      BY <1>3 DEF InitCommits, StillPaired, SameGeneration, GenInv, Dated, Tracked
    <2>3. s.cred = vault /\ s.epoch = epoch
      BY <2>2
    <2> HIDE DEF s
    <2> QED
      BY <2>1, <2>2, <2>3 DEF ViewInv, OfPairing
  <1>4. ASSUME NEW t \in Request, HydrateRules(t) PROVE ViewInv'
    BY <1>4 DEF HydrateRules, kv, ViewInv, OfPairing
  <1>5. ASSUME NEW t \in Request, HydrateObs(t) PROVE ViewInv'
    BY <1>5 DEF HydrateObs, Hydrated, KVWrite, ViewInv, OfPairing
  <1>6. CASE Unpair
    BY <1>6 DEF Unpair, ClearCaches, KVWrite, ViewInv
  <1>7. CASE Restart
    BY <1>7 DEF Restart, kv, ViewInv, OfPairing
  <1> QED
    BY <1>1, <1>2, <1>3, <1>4, <1>5, <1>6, <1>7, CacheActions

LEMMA ViewInvHolds ==
  ASSUME ~StoreFaults
  PROVE  Spec => []ViewInv
  <1>1. Init => ViewInv
    BY DEF Init, ViewInv
  <1>2. TypeInv /\ GenInv /\ ViewInv /\ [Next]_vars => ViewInv'
    BY ViewStep
  <1> QED
    BY <1>1, <1>2, TypeInit, TypeStep, GenInit, GenStep, PTL DEF Spec

\* On a store that keeps its writes, everything cached or persisted belongs
\* to the pairing in force.
THEOREM CachesOfPairingHolds ==
  ASSUME ~StoreFaults
  PROVE  Spec => []CachesOfPairing
  <1>1. ViewInv => CachesOfPairing
    BY DEF ViewInv, CachesOfPairing
  <1> QED
    BY <1>1, ViewInvHolds, PTL

\* On such a store the five views never mix two init answers.
THEOREM OneAnswerHolds ==
  ASSUME ~StoreFaults
  PROVE  Spec => []OneAnswer
  <1>1. ViewInv => OneAnswer
    BY DEF ViewInv, OneAnswer
  <1> QED
    BY <1>1, ViewInvHolds, PTL

\* On any store, an unpaired server shows nothing.
THEOREM UnpairedMemoryEmptyHolds == Spec => []UnpairedMemoryEmpty
  <1>1. Init => UnpairedMemoryEmpty
    BY DEF Init, UnpairedMemoryEmpty
  <1>2. ASSUME UnpairedMemoryEmpty, [Next]_vars PROVE UnpairedMemoryEmpty'
    <2>1. CASE UNCHANGED CacheVars
      BY <1>2, <2>1 DEF CacheVars, kv, UnpairedMemoryEmpty
    <2>2. ASSUME NEW t \in Request, NEW c \in Creds, PairCommits(t, c)
          PROVE  UnpairedMemoryEmpty'
      BY <2>2 DEF PairCommits, ClearCaches, UnpairedMemoryEmpty
    <2>3. ASSUME NEW t \in Request, InitCommits(t)
          PROVE  UnpairedMemoryEmpty'
      BY <2>3 DEF InitCommits, StillPaired, UnpairedMemoryEmpty
    <2>4. ASSUME NEW t \in Request, HydrateRules(t) \/ HydrateObs(t)
          PROVE  UnpairedMemoryEmpty'
      BY <1>2, <2>4 DEF HydrateRules, HydrateObs, kv, UnpairedMemoryEmpty
    <2>5. CASE Unpair \/ Restart
      BY <2>5 DEF Unpair, Restart, ClearCaches, UnpairedMemoryEmpty
    <2> QED
      BY <1>2, <2>1, <2>2, <2>3, <2>4, <2>5, CacheActions
  <1> QED
    BY <1>1, <1>2, PTL DEF Spec

-----------------------------------------------------------------------------
(* The init flight *)

\* A request holds the key of a flight while it leads, waits for or cleans up
\* that flight, and at no other time.
Keyed(r) == /\ r.key # NoKey => r.pc \in Leading \cup {"wait", "delete"}
            /\ r.pc \in {"recheck", "wake", "wait", "delete"} => r.key # NoKey

\* The request that called Do first for its key, until it deletes the key.
Owns(r) == r.key # NoKey /\ r.pc \in Leading \cup {"delete"}

\* Inductive form of FlightHasLeader: the map says where each flight stands,
\* and one request, no more, owns a key that is in it.
FlightInv ==
    /\ \A t \in Request :
         /\ Keyed(req[t])
         /\ req[t].key # NoKey =>
              flight[req[t].key] = IF req[t].pc = "delete" THEN "done" ELSE "run"
    /\ \A t, u \in Request :
         Owns(req[t]) /\ Owns(req[u]) /\ req[t].key = req[u].key => t = u
    /\ \A k \in Epochs : flight[k] # "none" =>
         \E t \in Request : Owns(req[t]) /\ req[t].key = k

\* A step of one request that stays outside every flight, or goes on leading
\* the one it leads.
LEMMA FlightKept ==
  ASSUME TypeInv, FlightInv, NEW t \in Request, NEW r, Step(t, r), Keyed(r),
         r.key = req[t].key,
         r.key # NoKey => r.pc \in Leading /\ req[t].pc \in Leading,
         UNCHANGED flight
  PROVE  FlightInv'
  <1>1. /\ req'[t] = r
        /\ \A u \in Request \ {t} : req'[u] = req[u]
        /\ \A u \in Request : req'[u].key = req[u].key
    BY DEF TypeInv, TypeOK, Step
  <1>2. \A u \in Request : Owns(req'[u]) <=> Owns(req[u])
    BY <1>1 DEF Owns
  <1>3. \A u \in Request :
          req'[u].key # NoKey => (req'[u].pc = "delete" <=> req[u].pc = "delete")
    BY <1>1 DEF Leading
  <1>4. \A u \in Request : Keyed(req'[u])
    BY <1>1 DEF FlightInv
  <1>5. Keyed(r)' <=> Keyed(r)
    OBVIOUS
  <1> QED
    BY <1>1, <1>2, <1>3, <1>4 DEF FlightInv, Keyed, Owns

\* The requests a step can leave behind, as the flight sees them.
LEMMA KeyedNew ==
  ASSUME NEW r \in Requests
  PROVE  /\ Idle.key = NoKey /\ Keyed(Idle)
         /\ \A o : \A p \in PCs \ {"recheck", "wake", "wait", "delete"} :
              /\ New(o, p).key = NoKey /\ Keyed(New(o, p))
              /\ ReadGen(New(o, p)).key = NoKey /\ Keyed(ReadGen(New(o, p)))
              /\ ReadCreds(New(o, p)).key = NoKey
              /\ Keyed(ReadCreds(New(o, p)))
         /\ \A p : Resume(r, p).key = r.key /\ Resume(r, p).pc = p
  BY DEF Idle, New, ReadGen, ReadCreds, Resume, Keyed, Requests

\* fetchAndApplyInit returns a leader to its clean-up and keeps its key.
LEMMA KeyedAfterFetch ==
  ASSUME NEW r \in Requests, NEW ok \in BOOLEAN
  PROVE  LET q == AfterFetch(r, ok) IN
         /\ Keyed(q) /\ q.key = r.key
         /\ q.key # NoKey => q.pc = "wake"
  <1>1. CASE r.key # NoKey
    BY <1>1, KeyedNew DEF AfterFetch, Keyed, Leading
  <1>2. CASE r.key = NoKey
    <2>1. AfterFetch(r, ok) = AfterForced(r, ok)
      BY <1>2 DEF AfterFetch
    <2>2. \A p \in {"reread", "list", "overlay"} :
            Keyed(Resume(r, p)) /\ Resume(r, p).key = NoKey
      BY <1>2, KeyedNew DEF Keyed
    <2> QED
      BY <1>2, <2>1, <2>2, KeyedNew DEF AfterForced
  <1> QED
    BY <1>1, <1>2

LEMMA KeyedAfterRead ==
  ASSUME NEW r \in Requests, r.key = NoKey
  PROVE  /\ Keyed(AfterRules(r)) /\ AfterRules(r).key = NoKey
         /\ Keyed(AfterObs(r)) /\ AfterObs(r).key = NoKey
  <1>1. \A p \in {"overlay", "creds", "hydrateObs", "ensure"} :
          Keyed(Resume(r, p)) /\ Resume(r, p).key = NoKey
    BY KeyedNew DEF Keyed
  <1> QED
    BY <1>1, KeyedNew DEF AfterRules, AfterObs

LEMMA FlightStep == TypeInv /\ FlightInv /\ [Next]_vars => FlightInv'
  <1> SUFFICES ASSUME TypeInv, FlightInv, [Next]_vars PROVE FlightInv'
    OBVIOUS
  <1>0. /\ req \in [Request -> Requests]
        /\ flight \in [Epochs -> {"none", "run", "done"}]
        /\ \A u \in Request :
             /\ req[u] \in Requests /\ Keyed(req[u])
             /\ req[u].pc \in PCs /\ req[u].gen \in Epochs
             /\ req[u].key \in Epochs \cup {NoKey}
    BY DEF TypeInv, TypeOK, FlightInv, Requests
  <1>1. NoKey \notin Epochs
    BY NoKeyAssumption DEF Epochs
  \* Outside a flight a request has no key.
  <1>2. \A u \in Request :
          req[u].pc \notin Leading \cup {"wait", "delete"} => req[u].key = NoKey
    BY <1>0 DEF Keyed
  <1>3. ASSUME NEW t \in Request, NEW r, Step(t, r),
               req[t].pc \notin Leading \cup {"wait", "delete"},
               Keyed(r), r.key = NoKey, UNCHANGED flight
        PROVE  FlightInv'
    BY <1>2, <1>3, FlightKept
  <1>4. ASSUME NEW t \in Request, Start(t) PROVE FlightInv'
    <2>1. "idle" \notin Leading \cup {"wait", "delete"}
      BY DEF Leading
    <2>2. {"cloud", "call", "warm", "load", "send", "reread", "ensure",
           "hydrateRules", "hydrateObs"} \subseteq
            PCs \ {"recheck", "wake", "wait", "delete"}
      BY DEF PCs
    <2>3. CASE Pair(t)
      BY <2>1, <2>2, <2>3, <1>0, <1>3, KeyedNew DEF Pair, Begin
    <2>4. CASE LanCall(t)
      BY <2>1, <2>2, <2>4, <1>0, <1>3, KeyedNew DEF LanCall, Begin
    <2>5. CASE req[t].pc = "idle" /\ EnsureInit(t)
      BY <2>1, <2>2, <2>5, <1>0, <1>3, KeyedNew DEF EnsureInit, Begin
    <2>6. CASE RefreshRules(t) \/ PolicyIDCmd(t) \/ ReadRules(t) \/ ReadObs(t)
      BY <2>1, <2>2, <2>6, <1>0, <1>3, KeyedNew
      DEF RefreshRules, PolicyIDCmd, ReadRules, ReadObs, Begin
    <2>7. ASSUME NEW o \in {"mutate", "policy", "toggle"}, Mutate(t, o)
          PROVE  FlightInv'
      BY <2>1, <2>2, <2>7, <1>0, <1>3, KeyedNew DEF Mutate, Begin
    <2>8. CASE req[t].pc = "idle" /\ ListFeatures(t)
      BY <2>1, <2>2, <2>8, <1>0, <1>3, KeyedNew
      DEF ListFeatures, FeaturesPath, Begin
    <2>9. CASE ColdStart(t)
      <3>1. CASE vault # NoCreds
        BY <2>1, <2>2, <2>9, <3>1, <1>0, <1>3, KeyedNew DEF ColdStart, Begin
      <3>2. CASE vault = NoCreds
        BY <2>9, <3>2 DEF ColdStart, FlightInv
      <3> QED
        BY <3>1, <3>2
    <2> QED
      BY <1>4, <2>3, <2>4, <2>5, <2>6, <2>7, <2>8, <2>9 DEF Start
  <1>5. ASSUME NEW t \in Request,
               \/ PairFails(t) \/ PairDiscarded(t)
               \/ \E ok \in BOOLEAN : PairVerified(t, ok)
               \/ LanReturns(t) \/ MutateUnreadable(t) \/ MutateFails(t)
               \/ OverlayHostPolicy(t)
        PROVE  FlightInv'
    <2>1. /\ Step(t, Idle) /\ UNCHANGED flight
          /\ req[t].pc \in {"cloud", "verify", "call", "send", "overlay"}
      BY <1>5 DEF PairFails, PairDiscarded, PairVerified, LanReturns,
                  MutateUnreadable, MutateFails, OverlayHostPolicy
    <2> QED
      BY <2>1, <1>0, <1>3, KeyedNew DEF Leading
  <1>6. ASSUME NEW t \in Request, NEW c \in Creds, PairCommits(t, c)
        PROVE  FlightInv'
    <2> DEFINE r == [New("pair", "verify") EXCEPT !.gen = pairGeneration + 1,
                                                  !.epoch = epoch + 1]
    <2>1. Step(t, r) /\ req[t].pc = "cloud" /\ UNCHANGED flight
      BY <1>6 DEF PairCommits
    <2>2. r.key = NoKey /\ Keyed(r)
      BY DEF New, Idle, Keyed
    <2> HIDE DEF r
    <2> QED
      BY <2>1, <2>2, <1>3 DEF Leading
  <1>7. ASSUME NEW t \in Request,
               \/ req[t].pc = "ensure" /\ EnsureInit(t)
               \/ EnsureChecksWarm(t)
               \/ PolicyIDLoads(t) \/ RereadRules(t)
               \/ req[t].pc = "list" /\ ListFeatures(t)
               \/ HydrateRules(t) \/ HydrateObs(t) \/ MutateSent(t)
        PROVE  FlightInv'
    <2>0. \A p \in {"warm", "send", "load", "ensure"} :
            p \in PCs \ {"recheck", "wake", "wait", "delete"}
      BY DEF PCs
    <2>1. /\ req[t].pc \in {"ensure", "warm", "creds", "reread", "list",
                            "hydrateRules", "hydrateObs", "send"}
          /\ UNCHANGED flight
      BY <1>7 DEF EnsureInit, EnsureChecksWarm, PolicyIDLoads, RereadRules,
                  ListFeatures, HydrateRules, HydrateObs, MutateSent
    <2>2. req[t].pc \notin Leading \cup {"wait", "delete"}
      BY <2>1 DEF Leading
    <2>3. req[t].key = NoKey
      BY <2>2, <1>2
    <2>4. ASSUME req[t].pc = "warm"
          PROVE  LET r == [req[t] EXCEPT !.pc = "join"]
                 IN  Keyed(r) /\ r.key = NoKey
      BY <2>3, <1>0 DEF Keyed, Requests
    <2>5. Keyed(Resume(req[t], "hydrateRules"))
          /\ Resume(req[t], "hydrateRules").key = NoKey
      BY <2>3, <1>0, KeyedNew DEF Keyed
    <2>6. \E r : Step(t, r) /\ Keyed(r) /\ r.key = NoKey
      <3>1. CASE req[t].pc = "ensure" /\ EnsureInit(t)
        BY <3>1, <2>0, <1>0, KeyedNew DEF EnsureInit, Begin
      <3>2. CASE EnsureChecksWarm(t)
        BY <3>2, <2>4, <1>0, KeyedNew DEF EnsureChecksWarm
      <3>3. CASE PolicyIDLoads(t)
        BY <3>3, <2>0, <1>0, KeyedNew DEF PolicyIDLoads
      <3>4. CASE RereadRules(t)
        BY <3>4, <2>3, <2>5, <1>0, KeyedAfterRead DEF RereadRules
      <3>5. CASE req[t].pc = "list" /\ ListFeatures(t)
        BY <3>5, <2>0, <1>0, KeyedNew DEF ListFeatures, FeaturesPath, Begin
      <3>6. CASE HydrateRules(t) \/ HydrateObs(t)
        BY <3>6, <2>3, <1>0, KeyedAfterRead DEF HydrateRules, HydrateObs
      <3>7. CASE MutateSent(t)
        <4> DEFINE r == [New(req[t].op, "load") EXCEPT
                           !.sent = box'[req[t].cred],
                           !.sentEpoch = req[t].epoch]
        <4>1. Step(t, r)
          BY <3>7 DEF MutateSent
        <4>2. Keyed(r) /\ r.key = NoKey
          BY DEF New, Idle, Keyed
        <4> QED
          BY <4>1, <4>2
      <3> QED
        BY <1>7, <3>1, <3>2, <3>3, <3>4, <3>5, <3>6, <3>7
    <2> QED
      BY <2>1, <2>2, <2>6, <1>3
  <1>8. ASSUME NEW t \in Request,
               \/ FlightRechecksWarm(t)
               \/ FetchLoads(t) \/ BoxAnswers(t) \/ FetchFails(t)
               \/ ParseFails(t) \/ InitDiscarded(t) \/ InitCommits(t)
        PROVE  FlightInv'
    <2>1. /\ req[t].pc \in {"recheck", "load", "fetch", "commit"}
          /\ UNCHANGED flight
      BY <1>8 DEF FlightRechecksWarm, FetchLoads, BoxAnswers, FetchFails,
                  ParseFails, InitDiscarded, InitCommits
    <2>2. req[t].pc \in Leading
      BY <2>1 DEF Leading
    <2> DEFINE Goes(r) == /\ Keyed(r) /\ r.key = req[t].key
                          /\ r.key # NoKey => r.pc \in Leading
    <2>3. \A ok \in BOOLEAN : Goes(AfterFetch(req[t], ok))
      BY <1>0, KeyedAfterFetch DEF Leading
    <2>4. Goes([ReadGen(ReadCreds(req[t])) EXCEPT !.pc = "fetch"])
      BY <1>0 DEF ReadGen, ReadCreds, Keyed, Leading, Requests
    <2>5. Goes([req[t] EXCEPT !.pc = "commit", !.ver = box[req[t].cred]])
      BY <1>0 DEF Keyed, Leading, Requests
    <2>6. ASSUME req[t].pc = "recheck", NEW p \in {"wake", "load"}
          PROVE  Goes(Resume(req[t], p))
      BY <2>6, <1>0, KeyedNew DEF Keyed, Leading
    <2>7. \E r : Step(t, r) /\ Goes(r)
      <3>1. CASE FlightRechecksWarm(t)
        BY <3>1, <2>6 DEF FlightRechecksWarm
      <3>2. CASE FetchLoads(t)
        BY <3>2, <2>3, <2>4 DEF FetchLoads
      <3>3. CASE BoxAnswers(t)
        BY <3>3, <2>5 DEF BoxAnswers
      <3>4. CASE \/ FetchFails(t) \/ ParseFails(t) \/ InitDiscarded(t)
                 \/ InitCommits(t)
        BY <3>4, <2>3 DEF FetchFails, ParseFails, InitDiscarded, InitCommits
      <3> QED
        BY <1>8, <3>1, <3>2, <3>3, <3>4
    <2> QED
      BY <2>1, <2>2, <2>7, FlightKept
  <1>9. ASSUME NEW t \in Request, FlightDo(t) PROVE FlightInv'
    <2> DEFINE k == req[t].gen
    <2>0. k \in Epochs /\ k # NoKey /\ req[t].key = NoKey
      BY <1>9, <1>0, <1>1, <1>2 DEF FlightDo, Leading
    <2>1. CASE flight[k] = "none"
      <3> DEFINE r == [New("ensure", "recheck") EXCEPT !.key = k]
      <3>1. /\ req' = [req EXCEPT ![t] = r]
            /\ flight' = [flight EXCEPT ![k] = "run"]
        BY <1>9, <2>1 DEF FlightDo, Step
      <3>2. r.key = k /\ r.pc = "recheck"
        BY DEF New, Idle
      <3>3. Keyed(r) /\ Owns(r)
        BY <3>2, <2>0 DEF Keyed, Owns, Leading
      <3> HIDE DEF r
      <3>4. /\ req'[t] = r /\ \A u \in Request \ {t} : req'[u] = req[u]
            /\ flight'[k] = "run"
            /\ \A j \in Epochs \ {k} : flight'[j] = flight[j]
        BY <3>1, <2>0, <1>0
      \* Nobody else holds the key: the flight it names would be in the map.
      <3>5. \A u \in Request : req[u].key # k
        BY <2>0, <2>1 DEF FlightInv
      <3>6. ASSUME NEW u \in Request
            PROVE  /\ Keyed(req'[u])
                   /\ req'[u].key # NoKey =>
                        flight'[req'[u].key] =
                          IF req'[u].pc = "delete" THEN "done" ELSE "run"
        <4>1. CASE u = t
          BY <4>1, <3>2, <3>3, <3>4
        <4>2. CASE u # t
          BY <4>2, <3>4, <3>5, <1>0 DEF FlightInv
        <4> QED
          BY <4>1, <4>2
      <3>7. \A u, v \in Request :
              Owns(req'[u]) /\ Owns(req'[v]) /\ req'[u].key = req'[v].key => u = v
        BY <3>2, <3>4, <3>5 DEF FlightInv
      <3>8. \A j \in Epochs : flight'[j] # "none" =>
              \E u \in Request : Owns(req'[u]) /\ req'[u].key = j
        <4>1. ASSUME NEW j \in Epochs, flight'[j] # "none", j # k
              PROVE  \E u \in Request : Owns(req'[u]) /\ req'[u].key = j
          <5>1. PICK u \in Request : Owns(req[u]) /\ req[u].key = j
            BY <4>1, <3>4 DEF FlightInv
          <5>2. u # t
            BY <5>1, <2>0 DEF Owns
          <5> QED
            BY <5>1, <5>2, <3>4
        <4> QED
          BY <4>1, <3>2, <3>3, <3>4
      <3> QED
        BY <3>6, <3>7, <3>8 DEF FlightInv, Keyed, Owns
    <2>2. CASE flight[k] = "run"
      <3> DEFINE r == [New("ensure", "wait") EXCEPT !.key = k]
      <3>1. req' = [req EXCEPT ![t] = r] /\ flight' = flight
        BY <1>9, <2>2 DEF FlightDo, Step
      <3>2. r.key = k /\ r.pc = "wait"
        BY DEF New, Idle
      <3>3. Keyed(r) /\ ~Owns(r) /\ ~Owns(req[t])
        BY <3>2, <2>0 DEF Keyed, Owns, Leading
      <3> HIDE DEF r
      <3>4. req'[t] = r /\ \A u \in Request \ {t} : req'[u] = req[u]
        BY <3>1, <1>0
      <3>5. \A u \in Request :
              /\ Keyed(req'[u])
              /\ req'[u].key # NoKey =>
                   flight[req'[u].key] =
                     IF req'[u].pc = "delete" THEN "done" ELSE "run"
        BY <3>2, <3>3, <3>4, <2>2 DEF FlightInv
      <3>6. \A u \in Request : Owns(req'[u]) => u # t /\ Owns(req[u])
        BY <3>3, <3>4
      <3> QED
        BY <3>1, <3>3, <3>4, <3>5, <3>6 DEF FlightInv, Keyed, Owns
    <2>3. CASE flight[k] = "done"
      <3>1. Step(t, Idle) /\ UNCHANGED flight /\ req[t].pc = "join"
        BY <1>9, <2>3 DEF FlightDo
      <3> QED
        BY <3>1, <1>0, <1>3, KeyedNew DEF Leading
    <2> QED
      BY <2>0, <2>1, <2>2, <2>3, <1>0
  <1>10. ASSUME NEW t \in Request, FlightWakes(t) PROVE FlightInv'
    <2> DEFINE k == req[t].key
               r == [req[t] EXCEPT !.pc = "delete"]
    <2>0. k # NoKey /\ k \in Epochs /\ Owns(req[t]) /\ req[t].pc = "wake"
      BY <1>10, <1>0 DEF FlightWakes, Keyed, Owns, Leading
    <2>1. r.key = k /\ r.pc = "delete" /\ Owns(r) /\ Keyed(r)
      BY <2>0, <1>0 DEF Owns, Keyed, Requests
    <2>2. /\ req'[t] = r
          /\ \A u \in Request \ {t} :
               req'[u] = IF req[u].pc = "wait" /\ req[u].key = k
                         THEN Idle ELSE req[u]
          /\ flight'[k] = "done"
          /\ \A j \in Epochs \ {k} : flight'[j] = flight[j]
      BY <1>10, <1>0, <2>0 DEF FlightWakes
    <2> HIDE DEF r
    <2>3. Idle.key = NoKey /\ Keyed(Idle) /\ ~Owns(Idle)
      BY <1>0, KeyedNew DEF Owns
    \* Who else held the key was waiting, and has returned.
    <2>4. \A u \in Request \ {t} : req'[u].key # k
      <3>1. ASSUME NEW u \in Request \ {t}, req[u].key = k
            PROVE  req[u].pc = "wait"
        <4>1. ~Owns(req[u])
          BY <3>1, <2>0 DEF FlightInv
        <4> QED
          BY <4>1, <3>1, <2>0, <1>0 DEF Owns, Keyed
      <3> QED
        BY <3>1, <2>0, <2>2, <2>3
    <2>5. \A u \in Request \ {t} : Owns(req'[u]) <=> Owns(req[u])
      BY <2>2, <2>3 DEF Owns, Leading
    <2>6. \A u \in Request :
            /\ Keyed(req'[u])
            /\ req'[u].key # NoKey =>
                 flight'[req'[u].key] =
                   IF req'[u].pc = "delete" THEN "done" ELSE "run"
      <3>1. ASSUME NEW u \in Request \ {t}
            PROVE  /\ Keyed(req'[u])
                   /\ req'[u].key # NoKey =>
                        flight'[req'[u].key] =
                          IF req'[u].pc = "delete" THEN "done" ELSE "run"
        <4>1. CASE req'[u] = Idle
          BY <4>1, <2>3
        <4>2. CASE req'[u] = req[u]
          BY <4>2, <2>2, <2>4, <1>0 DEF FlightInv
        <4> QED
          BY <4>1, <4>2, <2>2
      <3> QED
        BY <3>1, <2>1, <2>2
    <2>7. \A u, v \in Request :
            Owns(req'[u]) /\ Owns(req'[v]) /\ req'[u].key = req'[v].key => u = v
      <3>1. \A u \in Request \ {t} : Owns(req'[u]) => req'[u] = req[u]
        BY <2>2, <2>3
      <3> QED
        BY <3>1, <2>1, <2>2, <2>4, <2>5 DEF FlightInv
    <2>8. \A j \in Epochs : flight'[j] # "none" =>
            \E u \in Request : Owns(req'[u]) /\ req'[u].key = j
      <3>1. ASSUME NEW j \in Epochs, flight'[j] # "none", j # k
            PROVE  \E u \in Request : Owns(req'[u]) /\ req'[u].key = j
        <4>1. PICK u \in Request : Owns(req[u]) /\ req[u].key = j
          BY <3>1, <2>2 DEF FlightInv
        <4>2. u # t
          BY <4>1, <3>1
        <4>3. req[u].pc # "wait"
          BY <4>1 DEF Owns, Leading
        <4> QED
          BY <4>1, <4>2, <4>3, <2>2
      <3> QED
        BY <3>1, <2>1, <2>2
    <2> QED
      BY <2>6, <2>7, <2>8 DEF FlightInv, Keyed, Owns
  <1>11. ASSUME NEW t \in Request, FlightDeletes(t) PROVE FlightInv'
    <2> DEFINE k == req[t].key
    <2>0. /\ k # NoKey /\ k \in Epochs /\ Owns(req[t]) /\ req[t].pc = "delete"
          /\ flight[k] = "done"
      BY <1>11, <1>0 DEF FlightDeletes, Keyed, Owns, FlightInv
    <2>1. /\ req'[t] = Idle /\ \A u \in Request \ {t} : req'[u] = req[u]
          /\ flight'[k] = "none"
          /\ \A j \in Epochs \ {k} : flight'[j] = flight[j]
      BY <1>11, <1>0, <2>0 DEF FlightDeletes, Step
    <2>2. Idle.key = NoKey /\ Keyed(Idle) /\ ~Owns(Idle)
      BY <1>0, KeyedNew DEF Owns
    \* A second holder would own the key, or wait for a flight that has ended.
    <2>3. \A u \in Request \ {t} : req[u].key # k
      <3>1. ASSUME NEW u \in Request \ {t}, req[u].key = k PROVE FALSE
        <4>1. req[u].pc = "delete"
          BY <3>1, <2>0 DEF FlightInv
        <4> QED
          BY <4>1, <3>1, <2>0 DEF FlightInv, Owns
      <3> QED
        BY <3>1
    <2>4. \A u \in Request :
            /\ Keyed(req'[u])
            /\ req'[u].key # NoKey =>
                 flight'[req'[u].key] =
                   IF req'[u].pc = "delete" THEN "done" ELSE "run"
      BY <2>1, <2>2, <2>3, <1>0 DEF FlightInv
    <2>5. \A u, v \in Request :
            Owns(req'[u]) /\ Owns(req'[v]) /\ req'[u].key = req'[v].key => u = v
      BY <2>1, <2>2 DEF FlightInv
    <2>6. \A j \in Epochs : flight'[j] # "none" =>
            \E u \in Request : Owns(req'[u]) /\ req'[u].key = j
      <3>1. ASSUME NEW j \in Epochs, flight'[j] # "none", j # k
            PROVE  \E u \in Request : Owns(req'[u]) /\ req'[u].key = j
        <4>1. PICK u \in Request : Owns(req[u]) /\ req[u].key = j
          BY <3>1, <2>1 DEF FlightInv
        <4> QED
          BY <4>1, <3>1, <2>1
      <3> QED
        BY <3>1, <2>1
    <2> QED
      BY <2>4, <2>5, <2>6 DEF FlightInv, Keyed, Owns
  <1>12. CASE Restart
    <2>1. /\ \A u \in Request : req'[u] = Idle
          /\ \A j \in Epochs : flight'[j] = "none"
      BY <1>12 DEF Restart
    <2>2. Idle.key = NoKey /\ Idle.pc = "idle"
      BY DEF Idle
    <2> QED
      BY <2>1, <2>2 DEF FlightInv, Keyed, Owns
  <1>13. CASE Unpair \/ Tick \/ UNCHANGED vars
    <2>1. req' = req /\ flight' = flight
      BY <1>13 DEF Unpair, Tick, vars
    <2> QED
      BY <2>1 DEF FlightInv, Keyed, Owns
  <1> QED
    BY <1>4, <1>5, <1>6, <1>7, <1>8, <1>9, <1>10, <1>11, <1>12, <1>13
    DEF Next, Continue

\* No waiter of a shared init fetch is left behind by its leader, and a key
\* is in the map exactly while the request that put it there is running.
THEOREM FlightHasLeaderHolds == Spec => []FlightHasLeader
  <1>1. Init => FlightInv
    BY DEF Init, FlightInv, Keyed, Owns, Idle
  <1>2. Spec => [](TypeInv /\ FlightInv)
    BY <1>1, TypeInit, TypeStep, FlightStep, PTL DEF Spec
  <1>3. TypeInv /\ FlightInv => FlightHasLeader
    <2> SUFFICES ASSUME TypeInv, FlightInv PROVE FlightHasLeader
      OBVIOUS
    <2>1. \A t \in Request : req[t].pc = "wait" => flight[req[t].key] = "run"
      BY DEF FlightInv, Keyed
    <2>2. ASSUME NEW k \in Epochs, flight[k] # "none"
          PROVE  \E t \in Request :
                   /\ req[t].key = k
                   /\ IF flight[k] = "run" THEN req[t].pc \in Leading
                                           ELSE req[t].pc = "delete"
      <3>1. PICK t \in Request : Owns(req[t]) /\ req[t].key = k
        BY <2>2 DEF FlightInv
      <3> QED
        BY <3>1 DEF FlightInv, Owns, Leading
    <2> QED
      BY <2>1, <2>2 DEF FlightHasLeader, TypeInv, TypeOK
  <1> QED
    BY <1>2, <1>3, PTL

-----------------------------------------------------------------------------
(* A mutation and the refresh that follows it *)

\* What request r knows, when e credential changes have been made, v is the
\* vault and b the boxes: credentials read in the pairing in force are those
\* in the vault, and what a mutation of this pairing made of its box is still
\* there to be fetched, or has been.
Knows(r, e, v, b) ==
    /\ r.pc = "idle" => r.op = "none"
    /\ r.epoch <= e /\ r.sentEpoch <= e
    /\ r.pc \in {"send", "fetch"} /\ r.epoch = e => r.cred = v
    /\ r.pc = "fetch" => r.sentEpoch <= r.epoch
    /\ r.pc \in {"load", "fetch"} /\ r.sentEpoch = e =>
         r.sent = 0 \/ (v # NoCreds /\ r.sent <= b[v])
    /\ r.pc = "commit" /\ r.sentEpoch = e => r.sent <= r.ver

SentInv == \A t \in Request : Knows(req[t], epoch, vault, box)

\* Boxes only gain versions.
LEMMA BoxGrows ==
  ASSUME TypeInv, NEW c \in Creds, BoxAnswered(c)
  PROVE  /\ box' \in [Creds -> Nat]
         /\ \A d \in Creds : box[d] <= box'[d]
  BY BoundsAssumption DEF TypeInv, TypeOK, BoxAnswered, Versions

\* A step of one request in which the boxes may have moved on.
LEMMA SentKept ==
  ASSUME TypeInv, SentInv, NEW t \in Request, NEW r, Step(t, r),
         Knows(r, epoch, vault, box'), UNCHANGED <<epoch, vault>>,
         box' \in [Creds -> Nat], \A d \in Creds : box[d] <= box'[d]
  PROVE  SentInv'
  <1>1. req'[t] = r /\ \A u \in Request \ {t} : req'[u] = req[u]
    BY DEF TypeInv, TypeOK, Step
  <1>2. /\ vault \in Creds \cup {NoCreds} /\ box \in [Creds -> Nat]
        /\ \A u \in Request : req[u].sent \in Nat
    BY BoundsAssumption DEF TypeInv, TypeOK, Versions, Requests
  <1>3. ASSUME NEW u \in Request \ {t}
        PROVE  Knows(req[u], epoch, vault, box')
    <2>1. Knows(req[u], epoch, vault, box)
      BY DEF SentInv
    <2>2. vault # NoCreds /\ req[u].sent <= box[vault] =>
            req[u].sent <= box'[vault]
      BY <1>2
    <2> QED
      BY <2>1, <2>2 DEF Knows
  <1> QED
    BY <1>1, <1>3 DEF SentInv

\* The same when the boxes stay as they are.
LEMMA SentQuiet ==
  ASSUME TypeInv, SentInv, NEW t \in Request, NEW r, Step(t, r),
         Knows(r, epoch, vault, box), UNCHANGED <<epoch, vault, box>>
  PROVE  SentInv'
  <1>1. box' \in [Creds -> Nat] /\ \A d \in Creds : box[d] <= box'[d]
    BY BoundsAssumption DEF TypeInv, TypeOK, Versions
  <1> QED
    BY <1>1, SentKept

\* A request that neither sends nor fetches knows nothing but its pairing.
LEMMA KnowsQuiet ==
  ASSUME NEW r, NEW e \in Nat, NEW v, NEW b,
         r.pc \notin {"idle", "send", "load", "fetch", "commit"},
         r.epoch <= e, r.sentEpoch <= e
  PROVE  Knows(r, e, v, b)
  BY DEF Knows

LEMMA KnowsNew ==
  ASSUME NEW e \in Nat, NEW v, NEW b, NEW r \in Requests,
         r.sentEpoch <= e
  PROVE  /\ Knows(Idle, e, v, b)
         /\ \A o : \A p \in PCs \ {"idle"} : Knows(New(o, p), e, v, b)
                     \/ p \in {"send", "fetch"}
         /\ \A p \in PCs \ {"idle", "send", "fetch"} :
              Knows(Resume(r, p), e, v, b)
         /\ \A ok \in BOOLEAN : Knows(AfterFetch(r, ok), e, v, b)
         /\ Knows(AfterRules(r), e, v, b)
         /\ Knows(AfterObs(r), e, v, b)
  <1>1. Knows(Idle, e, v, b)
    BY DEF Knows, Idle
  <1>2. ASSUME NEW o, NEW p \in PCs \ {"idle", "send", "fetch"}
        PROVE  Knows(New(o, p), e, v, b)
    BY <1>2 DEF Knows, New, Idle
  <1>3. ASSUME NEW p \in PCs \ {"idle", "send", "fetch"}
        PROVE  Knows(Resume(r, p), e, v, b)
    <2>1. /\ Resume(r, p).pc = p /\ Resume(r, p).epoch = 0
          /\ Resume(r, p).sentEpoch = r.sentEpoch /\ Resume(r, p).sent = 0
          /\ Resume(r, p).ver = 0
      BY DEF Resume, Idle
    <2> QED
      BY <2>1, <1>3 DEF Knows
  <1>4. {"wake", "reread", "list", "overlay", "creds", "hydrateObs", "ensure"}
          \subseteq PCs \ {"idle", "send", "fetch"}
    BY DEF PCs
  <1>5. \A ok \in BOOLEAN : Knows(AfterFetch(r, ok), e, v, b)
    BY <1>1, <1>3, <1>4 DEF AfterFetch, AfterForced
  <1>6. Knows(AfterRules(r), e, v, b) /\ Knows(AfterObs(r), e, v, b)
    BY <1>1, <1>3, <1>4 DEF AfterRules, AfterObs
  <1> QED
    BY <1>1, <1>2, <1>3, <1>5, <1>6

LEMMA SentStep == TypeInv /\ SentInv /\ [Next]_vars => SentInv'
  <1> SUFFICES ASSUME TypeInv, SentInv, [Next]_vars PROVE SentInv'
    OBVIOUS
  <1>0. /\ epoch \in Nat /\ vault \in Creds \cup {NoCreds}
        /\ req \in [Request -> Requests] /\ box \in [Creds -> Nat]
        /\ \A u \in Request :
             /\ req[u] \in Requests /\ Knows(req[u], epoch, vault, box)
             /\ req[u].epoch \in Nat /\ req[u].sentEpoch \in Nat
             /\ req[u].sent \in Nat /\ req[u].ver \in Nat
             /\ req[u].sentEpoch <= epoch /\ req[u].epoch <= epoch
    BY BoundsAssumption DEF TypeInv, TypeOK, Epochs, Versions, Requests,
                            SentInv, Knows
  \* Reading the credentials or the generation dates the request.
  <1>1. ASSUME NEW o, NEW p \in PCs \ {"idle", "fetch", "commit"}
        PROVE  Knows(ReadCreds(New(o, p)), epoch, vault, box)
    BY <1>0, <1>1 DEF Knows, ReadCreds, New, Idle
  <1>2. ASSUME NEW o, NEW p \in {"cloud", "warm"}
        PROVE  Knows(ReadGen(New(o, p)), epoch, vault, box)
    BY <1>0, <1>2 DEF Knows, ReadGen, New, Idle
  <1>3. {"call", "send", "load", "reread", "ensure", "hydrateRules",
         "hydrateObs", "join", "wake"} \subseteq PCs \ {"idle", "fetch", "commit"}
    BY DEF PCs
  <1>4. ASSUME NEW t \in Request, Start(t) PROVE SentInv'
    <2>0. \A b : Knows(Idle, epoch, vault, b)
      BY <1>0, KnowsNew
    <2>1. \A o : \A p \in {"load", "reread", "ensure", "hydrateRules",
                           "hydrateObs"} : Knows(New(o, p), epoch, vault, box)
      BY <1>0, <1>3, KnowsNew
    <2>2. CASE ColdStart(t)
      <3>1. CASE vault # NoCreds
        BY <2>2, <3>1, <2>1, SentQuiet DEF ColdStart, Begin, kv
      <3>2. CASE vault = NoCreds
        BY <2>2, <3>2 DEF ColdStart, kv, SentInv
      <3> QED
        BY <3>1, <3>2
    <2>3. CASE Pair(t) \/ LanCall(t)
      BY <2>3, <1>1, <1>2, <1>3, SentQuiet DEF Pair, LanCall, Begin, kv
    <2>4. CASE req[t].pc = "idle" /\ EnsureInit(t)
      BY <2>4, <1>2, SentQuiet DEF EnsureInit, Begin, kv
    <2>5. CASE RefreshRules(t) \/ PolicyIDCmd(t) \/ ReadRules(t) \/ ReadObs(t)
      BY <2>5, <2>1, SentQuiet
      DEF RefreshRules, PolicyIDCmd, ReadRules, ReadObs, Begin, kv
    <2>6. ASSUME NEW o \in {"mutate", "policy", "toggle"}, Mutate(t, o)
          PROVE  SentInv'
      BY <2>6, <1>1, <1>3, SentQuiet DEF Mutate, Begin, kv
    <2>7. CASE req[t].pc = "idle" /\ ListFeatures(t)
      BY <2>7, <2>1, SentQuiet DEF ListFeatures, FeaturesPath, Begin, kv
    <2> QED
      BY <1>4, <2>2, <2>3, <2>4, <2>5, <2>6, <2>7 DEF Start
  <1>5. ASSUME NEW t \in Request,
               \/ PairFails(t) \/ PairDiscarded(t)
               \/ \E ok \in BOOLEAN : PairVerified(t, ok)
               \/ OverlayHostPolicy(t) \/ FlightDeletes(t)
        PROVE  SentInv'
    <2>1. Step(t, Idle) /\ UNCHANGED <<epoch, vault, box>>
      BY <1>5 DEF PairFails, PairDiscarded, PairVerified, OverlayHostPolicy,
                  FlightDeletes, kv
    <2> QED
      BY <2>1, <1>0, KnowsNew, SentQuiet
  <1>6. ASSUME NEW t \in Request, NEW c \in Creds, PairCommits(t, c)
        PROVE  SentInv'
    <2> DEFINE r == [New("pair", "verify") EXCEPT !.gen = pairGeneration + 1,
                                                  !.epoch = epoch + 1]
    <2>1. /\ req'[t] = r /\ epoch' = epoch + 1 /\ box' = box
          /\ \A u \in Request \ {t} : req'[u] = req[u]
      BY <1>6, <1>0 DEF PairCommits, Step
    <2>2. Knows(r, epoch + 1, vault', box)
      BY <1>0 DEF Knows, New, Idle
    <2> HIDE DEF r
    <2>3. \A u \in Request \ {t} : Knows(req[u], epoch + 1, vault', box)
      BY <1>0 DEF Knows
    <2> QED
      BY <2>1, <2>2, <2>3 DEF SentInv
  <1>7. ASSUME NEW t \in Request,
               \/ LanReturns(t) \/ MutateUnreadable(t) \/ MutateFails(t)
        PROVE  SentInv'
    <2>1. /\ Step(t, Idle) /\ UNCHANGED <<epoch, vault>>
          /\ req[t].pc \in {"call", "send"}
          /\ BoxAnswered(req[t].cred) \/ UNCHANGED box
      BY <1>7 DEF LanReturns, MutateUnreadable, MutateFails, kv
    <2>2. req[t].cred \in Creds
      BY <2>1 DEF TypeInv, Good, Talking
    <2>3. box' \in [Creds -> Nat] /\ \A d \in Creds : box[d] <= box'[d]
      BY <2>1, <2>2, <1>0, BoxGrows
    <2> QED
      BY <2>1, <2>3, <1>0, KnowsNew, SentKept
  <1>8. ASSUME NEW t \in Request, MutateSent(t) PROVE SentInv'
    <2> DEFINE c == req[t].cred
               r == [New(req[t].op, "load") EXCEPT !.sent = box'[c],
                                                   !.sentEpoch = req[t].epoch]
    <2>1. /\ Step(t, r) /\ UNCHANGED <<epoch, vault>>
          /\ BoxAnswered(c) /\ req[t].pc = "send"
      BY <1>8 DEF MutateSent, kv
    <2>2. c \in Creds
      BY <2>1 DEF TypeInv, Good, Talking
    <2>3. box' \in [Creds -> Nat] /\ \A d \in Creds : box[d] <= box'[d]
      BY <2>1, <2>2, BoxGrows
    <2>4. req[t].epoch = epoch => vault = c /\ vault # NoCreds
      BY <2>1, <2>2, <1>0, CredsAssumption DEF Knows
    <2>5. /\ r.pc = "load" /\ r.epoch = 0 /\ r.sentEpoch = req[t].epoch
          /\ r.sent = box'[c]
      BY DEF New, Idle
    <2>6. Knows(r, epoch, vault, box')
      BY <2>2, <2>3, <2>4, <2>5, <1>0 DEF Knows
    <2> HIDE DEF r
    <2> QED
      BY <2>1, <2>3, <2>6, SentKept
  <1>9. ASSUME NEW t \in Request,
               \/ req[t].pc = "ensure" /\ EnsureInit(t)
               \/ EnsureChecksWarm(t) \/ FlightDo(t) \/ FlightRechecksWarm(t)
        PROVE  SentInv'
    <2>0. Knows(Idle, epoch, vault, box)
      BY <1>0, KnowsNew
    <2>1. CASE req[t].pc = "ensure" /\ EnsureInit(t)
      BY <2>0, <2>1, <1>2, SentQuiet DEF EnsureInit, Begin, kv
    <2>2. CASE EnsureChecksWarm(t)
      <3>1. Knows([req[t] EXCEPT !.pc = "join"], epoch, vault, box)
        BY <1>0 DEF Knows, Requests
      <3> QED
        BY <2>0, <2>2, <3>1, SentQuiet DEF EnsureChecksWarm, kv
    <2>3. CASE FlightDo(t)
      <3>1. \A k : /\ Knows([New("ensure", "recheck") EXCEPT !.key = k],
                            epoch, vault, box)
                   /\ Knows([New("ensure", "wait") EXCEPT !.key = k],
                            epoch, vault, box)
        BY <1>0 DEF Knows, New, Idle
      <3> QED
        BY <2>0, <2>3, <3>1, SentQuiet DEF FlightDo, kv
    <2>4. CASE FlightRechecksWarm(t)
      <3>1. \A p \in {"wake", "load"} :
              Knows(Resume(req[t], p), epoch, vault, box)
        BY <1>0, <1>3, KnowsNew
      <3> QED
        BY <2>4, <3>1, SentQuiet DEF FlightRechecksWarm, kv
    <2> QED
      BY <1>9, <2>1, <2>2, <2>3, <2>4
  <1>10. ASSUME NEW t \in Request, FlightWakes(t) PROVE SentInv'
    <2>0. Knows(Idle, epoch, vault, box)
      BY <1>0, KnowsNew
    <2>1. Knows([req[t] EXCEPT !.pc = "delete"], epoch, vault, box)
      BY <1>0 DEF Knows, Requests
    <2>2. \A u \in Request : Knows(req'[u], epoch, vault, box)
      BY <1>10, <2>0, <2>1, <1>0 DEF FlightWakes
    <2>3. UNCHANGED <<epoch, vault, box>>
      BY <1>10 DEF FlightWakes, kv
    <2> QED
      BY <2>2, <2>3 DEF SentInv
  <1>11. ASSUME NEW t \in Request, FetchLoads(t) PROVE SentInv'
    <2> DEFINE r == [ReadGen(ReadCreds(req[t])) EXCEPT !.pc = "fetch"]
    <2>1. r.pc = "fetch" /\ r.epoch = epoch /\ r.cred = vault
          /\ r.sent = req[t].sent /\ r.sentEpoch = req[t].sentEpoch
      BY <1>0 DEF ReadGen, ReadCreds, Requests
    <2>2. Knows(r, epoch, vault, box)
      BY <1>11, <1>0, <2>1 DEF FetchLoads, Knows
    <2>3. Knows(AfterFetch(req[t], FALSE), epoch, vault, box)
      BY <1>0, KnowsNew
    <2> HIDE DEF r
    <2>4. \/ Step(t, r)
          \/ Step(t, AfterFetch(req[t], FALSE))
      BY <1>11 DEF FetchLoads, r
    <2> QED
      BY <1>11, <2>2, <2>3, <2>4, SentQuiet DEF FetchLoads, kv
  <1>12. ASSUME NEW t \in Request, BoxAnswers(t) PROVE SentInv'
    <2> DEFINE r == [req[t] EXCEPT !.pc = "commit", !.ver = box[req[t].cred]]
    <2>1. /\ r.pc = "commit" /\ r.ver = box[req[t].cred]
          /\ r.epoch = req[t].epoch
          /\ r.sent = req[t].sent /\ r.sentEpoch = req[t].sentEpoch
      BY <1>0 DEF Requests
    <2>2. req[t].cred \in Creds
      BY <1>12 DEF BoxAnswers, TypeInv, Good, Talking
    \* The fetch was begun after the mutation, in the pairing in force: the
    \* box that answers is the one the mutation went to.
    <2>3. ASSUME req[t].sentEpoch = epoch PROVE req[t].sent <= r.ver
      <3>1. req[t].cred = vault
        BY <1>12, <1>0, <2>3 DEF BoxAnswers, Knows
      <3> QED
        BY <1>12, <1>0, <2>1, <2>2, <2>3, <3>1 DEF BoxAnswers, Knows
    <2>4. Knows(r, epoch, vault, box)
      BY <1>0, <2>1, <2>3 DEF Knows
    <2> HIDE DEF r
    <2>5. Step(t, r)
      BY <1>12 DEF BoxAnswers, r
    <2> QED
      BY <1>12, <2>4, <2>5, SentQuiet DEF BoxAnswers, kv
  <1>13. ASSUME NEW t \in Request,
                \/ FetchFails(t) \/ ParseFails(t) \/ InitDiscarded(t)
                \/ InitCommits(t)
         PROVE  SentInv'
    <2>1. \A ok \in BOOLEAN : Knows(AfterFetch(req[t], ok), epoch, vault, box)
      BY <1>0, KnowsNew
    <2> QED
      BY <1>13, <2>1, SentQuiet
      DEF FetchFails, ParseFails, InitDiscarded, InitCommits, kv
  <1>14. ASSUME NEW t \in Request,
                \/ PolicyIDLoads(t) \/ RereadRules(t)
                \/ req[t].pc = "list" /\ ListFeatures(t)
                \/ HydrateRules(t) \/ HydrateObs(t)
         PROVE  SentInv'
    <2>1. /\ Knows(Idle, epoch, vault, box)
          /\ Knows(AfterRules(req[t]), epoch, vault, box)
          /\ Knows(AfterObs(req[t]), epoch, vault, box)
          /\ Knows(Resume(req[t], "hydrateRules"), epoch, vault, box)
          /\ \A o : \A p \in {"load", "ensure"} : Knows(New(o, p), epoch, vault, box)
      BY <1>0, <1>3, KnowsNew
    <2>2. UNCHANGED <<epoch, vault, box>>
      BY <1>14 DEF PolicyIDLoads, RereadRules, ListFeatures, HydrateRules,
                   HydrateObs, kv
    <2>3. CASE PolicyIDLoads(t)
      BY <2>1, <2>2, <2>3, <1>1, <1>3, SentQuiet DEF PolicyIDLoads
    <2>4. CASE RereadRules(t)
      BY <2>1, <2>2, <2>4, SentQuiet DEF RereadRules
    <2>5. CASE req[t].pc = "list" /\ ListFeatures(t)
      BY <2>1, <2>2, <2>5, SentQuiet DEF ListFeatures, FeaturesPath, Begin
    <2>6. CASE HydrateRules(t) \/ HydrateObs(t)
      BY <2>1, <2>2, <2>6, SentQuiet DEF HydrateRules, HydrateObs
    <2> QED
      BY <1>14, <2>3, <2>4, <2>5, <2>6
  <1>15. CASE Unpair
    <2>1. req' = req /\ epoch' = epoch + 1 /\ box' = box
      BY <1>15 DEF Unpair
    <2>2. \A u \in Request : Knows(req[u], epoch + 1, vault', box)
      BY <1>0 DEF Knows
    <2> QED
      BY <2>1, <2>2 DEF SentInv
  <1>16. CASE Restart
    <2>1. /\ \A u \in Request : req'[u] = Idle
          /\ UNCHANGED <<epoch, vault, box>>
      BY <1>16 DEF Restart, kv
    <2>2. Knows(Idle, epoch, vault, box)
      BY <1>0 DEF Knows, Idle
    <2> QED
      BY <2>1, <2>2 DEF SentInv
  <1>17. CASE Tick \/ UNCHANGED vars
    <2>1. UNCHANGED <<req, epoch, vault, box>>
      BY <1>17 DEF Tick, vars, kv
    <2> QED
      BY <2>1 DEF SentInv
  <1> QED
    BY <1>4, <1>5, <1>6, <1>7, <1>8, <1>9, <1>10, <1>11, <1>12, <1>13, <1>14,
       <1>15, <1>16, <1>17 DEF Next, Continue

\* The requests of a mutation that reach the re-read do so by a commit.
LEMMA RereadByCommit ==
  ASSUME TypeInv, SentInv, [Next]_vars, NEW t \in Request,
         req[t].op \in {"mutate", "policy", "toggle"},
         req[t].pc \notin {"reread", "list"}, req'[t].pc \in {"reread", "list"}
  PROVE  InitCommits(t)
  <1>0. /\ req \in [Request -> Requests] /\ req[t] \in Requests
        /\ req[t].pc # "idle"
    BY DEF TypeInv, TypeOK, SentInv, Knows
  \* Only a step of the request itself moves it, except for its leader's wake.
  <1>1. ASSUME NEW u \in Request, NEW r, Step(u, r),
               r.pc \notin {"reread", "list"}
        PROVE  FALSE
    BY <1>1, <1>0 DEF Step
  <1>2. ASSUME NEW u \in Request, u # t, NEW r, Step(u, r)
        PROVE  FALSE
    BY <1>2, <1>0 DEF Step
  <1>3. ASSUME NEW u \in Request, Start(u) PROVE FALSE
    <2>1. CASE u = t
      BY <1>0, <1>3, <2>1 DEF Start, Pair, LanCall, EnsureInit, RefreshRules,
         Mutate, PolicyIDCmd, ListFeatures, ReadRules, ReadObs, ColdStart, Begin
    <2>2. CASE u # t
      <3>1. (\E r : Step(u, r)) \/ req' = req
        BY <1>3 DEF Start, Pair, LanCall, EnsureInit, RefreshRules, Mutate,
           PolicyIDCmd, ListFeatures, ReadRules, ReadObs, ColdStart, Begin
      <3> QED
        BY <3>1, <2>2, <1>2
    <2> QED
      BY <2>1, <2>2
  <1>4. ASSUME NEW u \in Request, Continue(u) PROVE InitCommits(t)
    <2>1. CASE FlightWakes(u)
      <3>1. req'[t].pc \in {"delete", "idle", req[t].pc}
        BY <2>1, <1>0 DEF FlightWakes, Idle, Requests
      <3> QED
        BY <3>1
    <2>2. CASE u # t /\ ~FlightWakes(u)
      <3>1. \E r : Step(u, r)
        BY <1>4, <2>2 DEF Continue, PairFails, PairDiscarded, PairCommits,
           PairVerified, LanReturns, EnsureInit, EnsureChecksWarm, FlightDo,
           FlightRechecksWarm, FlightDeletes, FetchLoads, BoxAnswers,
           FetchFails, ParseFails, InitDiscarded, InitCommits, PolicyIDLoads,
           MutateSent, MutateUnreadable, MutateFails, RereadRules,
           OverlayHostPolicy, ListFeatures, HydrateRules, HydrateObs, Begin
      <3> QED
        BY <3>1, <2>2, <1>2
    <2>3. CASE u = t /\ ~FlightWakes(t)
      <3>0. /\ Idle.pc = "idle"
            /\ \A p : Resume(req[t], p).pc = p
            /\ \A o, p : /\ New(o, p).pc = p
                         /\ ReadGen(New(o, p)).pc = p
                         /\ ReadCreds(New(o, p)).pc = p
        BY DEF Idle, New, Resume, ReadGen, ReadCreds
      <3>1. AfterFetch(req[t], FALSE).pc \notin {"reread", "list"}
        BY <3>0 DEF AfterFetch, AfterForced
      <3>2. /\ AfterRules(req[t]).pc \notin {"reread", "list"}
            /\ AfterObs(req[t]).pc \notin {"reread", "list"}
        BY <3>0 DEF AfterRules, AfterObs
      <3>3. CASE \/ PairFails(t) \/ PairDiscarded(t)
                 \/ \E ok \in BOOLEAN : PairVerified(t, ok)
                 \/ LanReturns(t) \/ FlightDeletes(t)
                 \/ MutateUnreadable(t) \/ MutateFails(t)
                 \/ OverlayHostPolicy(t)
        BY <3>3, <3>0, <1>1 DEF PairFails, PairDiscarded, PairVerified,
           LanReturns, FlightDeletes, MutateUnreadable, MutateFails,
           OverlayHostPolicy
      <3>4. ASSUME NEW c \in Creds, PairCommits(t, c) PROVE FALSE
        <4>1. [New("pair", "verify") EXCEPT !.gen = pairGeneration + 1,
                                            !.epoch = epoch + 1].pc = "verify"
          BY DEF New, Idle
        <4> QED
          BY <3>4, <4>1, <1>1 DEF PairCommits
      <3>5. CASE \/ req[t].pc = "ensure" /\ EnsureInit(t)
                 \/ FlightRechecksWarm(t) \/ PolicyIDLoads(t)
        BY <3>5, <3>0, <1>1
        DEF EnsureInit, FlightRechecksWarm, PolicyIDLoads, Begin
      <3>6. CASE EnsureChecksWarm(t) \/ BoxAnswers(t)
        <4>1. /\ [req[t] EXCEPT !.pc = "join"].pc = "join"
              /\ \A v : [req[t] EXCEPT !.pc = "commit", !.ver = v].pc = "commit"
          BY <1>0 DEF Requests
        <4> QED
          BY <3>6, <3>0, <4>1, <1>1 DEF EnsureChecksWarm, BoxAnswers
      <3>7. CASE FlightDo(t)
        <4>1. \A k : /\ [New("ensure", "recheck") EXCEPT !.key = k].pc = "recheck"
                     /\ [New("ensure", "wait") EXCEPT !.key = k].pc = "wait"
          BY DEF New, Idle
        <4> QED
          BY <3>7, <3>0, <4>1, <1>1 DEF FlightDo
      <3>8. CASE FetchLoads(t)
        <4>1. [ReadGen(ReadCreds(req[t])) EXCEPT !.pc = "fetch"].pc = "fetch"
          BY <1>0 DEF ReadGen, ReadCreds, Requests
        <4> QED
          BY <3>8, <3>1, <4>1, <1>1 DEF FetchLoads
      <3>9. CASE FetchFails(t) \/ ParseFails(t) \/ InitDiscarded(t)
        BY <3>9, <3>1, <1>1 DEF FetchFails, ParseFails, InitDiscarded
      <3>10. CASE MutateSent(t)
        <4> DEFINE r == [New(req[t].op, "load") EXCEPT
                           !.sent = box'[req[t].cred],
                           !.sentEpoch = req[t].epoch]
        <4>1. Step(t, r)
          BY <3>10 DEF MutateSent
        <4>2. r.pc = "load"
          BY DEF New, Idle
        <4> HIDE DEF r
        <4> QED
          BY <4>1, <4>2, <1>1
      <3>11. CASE RereadRules(t) \/ HydrateRules(t) \/ HydrateObs(t)
        BY <3>11, <3>0, <3>2, <1>1 DEF RereadRules, HydrateRules, HydrateObs
      <3>12. CASE req[t].pc = "list" /\ ListFeatures(t)
        BY <3>12
      <3> QED
        BY <1>4, <2>3, <3>3, <3>4, <3>5, <3>6, <3>7, <3>8, <3>9, <3>10, <3>11,
           <3>12 DEF Continue
    <2> QED
      BY <2>1, <2>2, <2>3
  <1>5. CASE Unpair \/ Tick \/ UNCHANGED vars
    BY <1>5 DEF Unpair, Tick, vars
  <1>6. CASE Restart
    BY <1>6 DEF Restart, Idle
  <1> QED
    BY <1>3, <1>4, <1>5, <1>6 DEF Next

\* A mutation that reports success within its pairing has seen a snapshot of
\* its box taken after the command, whatever ran in between: other mutations,
\* other refreshes, or an init flight whose answer is older.
THEOREM MutationSeesItselfHolds == Spec => MutationSeesItself
  <1> DEFINE Sees(t) == /\ req[t].op \in {"mutate", "policy", "toggle"}
                        /\ req[t].pc \notin {"reread", "list"}
                        /\ req'[t].pc \in {"reread", "list"}
                        /\ req[t].sentEpoch = epoch
                        => rules' # NoSnap /\ rules'.ver >= req[t].sent
  <1>1. ASSUME TypeInv, SentInv, [Next]_vars, NEW t \in Request
        PROVE  Sees(t)
    <2> SUFFICES ASSUME req[t].op \in {"mutate", "policy", "toggle"},
                        req[t].pc \notin {"reread", "list"},
                        req'[t].pc \in {"reread", "list"},
                        req[t].sentEpoch = epoch
                 PROVE  rules' # NoSnap /\ rules'.ver >= req[t].sent
      OBVIOUS
    <2>1. InitCommits(t)
      BY <1>1, RereadByCommit
    <2> DEFINE s == [cred |-> req[t].cred, epoch |-> req[t].epoch,
                     ver |-> req[t].ver, at |-> clock]
    <2>2. rules' = s /\ req[t].pc = "commit"
      BY <2>1 DEF InitCommits
    <2>3. req[t].cred \in Creds /\ req[t] \in Requests /\ clock \in Times
      BY <1>1, <2>2 DEF TypeInv, TypeOK, Good, Talking
    <2>4. s \in Snapshots
      BY <2>3 DEF Snapshots, Requests
    <2>5. req[t].sent <= req[t].ver /\ req[t].ver \in Nat /\ req[t].sent \in Nat
      BY <1>1, <2>2, <2>3, BoundsAssumption
      DEF SentInv, Knows, Requests, Versions
    <2>6. s.ver = req[t].ver
      OBVIOUS
    <2> HIDE DEF s
    <2> QED
      BY <2>2, <2>4, <2>5, <2>6, NoSnapAssumption
  <1>2. Init => SentInv
    <2>1. \A v, b : Knows(Idle, 0, v, b)
      BY DEF Knows, Idle
    <2> QED
      BY <2>1 DEF Init, SentInv
  <1>3. Spec => [](TypeInv /\ SentInv)
    BY <1>2, TypeInit, TypeStep, SentStep, PTL DEF Spec
  <1>4. TypeInv /\ SentInv /\ [Next]_vars =>
          [\A t \in Request :
             /\ req[t].op \in {"mutate", "policy", "toggle"}
             /\ req[t].pc \notin {"reread", "list"}
             /\ req'[t].pc \in {"reread", "list"}
             /\ req[t].sentEpoch = epoch
             => rules' # NoSnap /\ rules'.ver >= req[t].sent]_vars
    <2> SUFFICES ASSUME TypeInv, SentInv, [Next]_vars
                 PROVE  \A t \in Request : Sees(t)
      OBVIOUS
    <2> QED
      BY <1>1
  <1> QED
    BY <1>3, <1>4, PTL DEF Spec, MutationSeesItself

=============================================================================
