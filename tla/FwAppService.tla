---------------------------- MODULE FwAppService ----------------------------
(***************************************************************************)
(* The Firewalla control service of server/internal/fwapp: one pairing     *)
(* with a box (the credential vault), the three read models built from the *)
(* box's "init" answer (rules, observatory, features), their persisted     *)
(* copies, the LAN state shown to the user, and the HTTP handlers and      *)
(* background loops that run on them concurrently.                         *)
(*                                                                         *)
(* Every critical section of Service.mu is one action.  A call to the      *)
(* cloud or to the box is made with the lock released, so a request is a   *)
(* small program with a program counter, and whatever it read before a     *)
(* call may be stale after it.  Service.pairGeneration is the code's       *)
(* defence against that; the ghost variable epoch numbers the pairings for *)
(* good (pairGeneration restarts at 0 with the process), so that the       *)
(* properties can say which pairing a piece of data came from.             *)
(***************************************************************************)
EXTENDS Naturals

CONSTANTS
    Request,        \* goroutines that run service operations
    Creds,          \* credentials a cloud join can return, one per box
    NoCreds,        \* the vault is empty
    NoSnap,         \* a cache, or its persisted copy, is empty
    NoKey,          \* the request leads or joins no init flight
    TTL,            \* InitCacheTTL
    MaxAge,         \* InitPersistMaxAge
    BlankRules,     \* box configurations with neither rules nor exceptions
    BlankObs,       \* box configurations with no box, devices or alarms
    StoreFaults,    \* TRUE: a cache write can be lost (PutKV error, crash)
    MaxEpoch,       \* bound: credential changes
    MaxVersion,     \* bound: changes of a box's configuration
    MaxClock        \* bound: time

ASSUME CredsAssumption == NoCreds \notin Creds
ASSUME BoundsAssumption ==
    /\ MaxEpoch \in Nat /\ MaxVersion \in Nat /\ MaxClock \in Nat
    /\ TTL \in Nat /\ MaxAge \in Nat
ASSUME NoKeyAssumption == NoKey \notin 0..MaxEpoch
ASSUME FaultsAssumption == StoreFaults \in BOOLEAN

Epochs   == 0..MaxEpoch
Versions == 0..MaxVersion
Times    == 0..MaxClock

\* What one parsed init answer amounts to: whose it is and how new it is.
Snapshots == [cred: Creds, epoch: Epochs, ver: Versions, at: Times]
ASSUME NoSnapAssumption == NoSnap \notin Snapshots

VARIABLES
    vault,          \* persisted: credentials in the KV store
    kvRules,        \* persisted: fw_app_rules_cache_v1
    kvObs,          \* persisted: fw_app_obs_cache_v1
    pairGeneration, \* Service.pairGeneration
    rules,          \* Service.rules
    overlay,        \* epochs of the host patches laid over rules
    obs,            \* Service.obsCache
    features,       \* Service.features
    state,          \* Service.state
    lastPingOK,     \* Service.lastPingOK
    flight,         \* Service.initGroup.m, by the generation in the key
    cold,           \* ColdStart has not run yet in this process
    req,            \* the requests in progress
    box,            \* the boxes: version of the configuration of each
    clock,          \* time
    epoch,          \* ghost: number of credential changes ever
    stateEpoch      \* ghost: the pairing whose call or commit set state

kv     == <<vault, kvRules, kvObs>>
caches == <<rules, overlay, obs, features>>
status == <<state, lastPingOK, stateEpoch>>
vars   == <<kv, pairGeneration, caches, status, flight, cold, req, box,
            clock, epoch>>

Ops == {"none", "pair", "lan", "ensure", "features", "toggle", "refresh",
        "mutate", "byid", "policy", "read", "cold"}
PCs == {"idle", "cloud", "verify", "call", "send", "ensure", "warm", "join",
        "wait", "recheck", "load", "fetch", "commit", "wake", "delete",
        "reread", "creds", "list", "hydrateRules", "hydrateObs", "overlay"}
States == {"unpaired", "ready", "lan-ok", "lan-down", "error"}

\* A request: the operation, where it stands, what it read from the service
\* (gen, cred, and the ghost epoch of that read), the version of the box it
\* last saw or made, and the flight it is in.
Requests == [op: Ops, pc: PCs, gen: Epochs, cred: Creds \cup {NoCreds},
             epoch: Epochs, ver: Versions, sent: Versions,
             sentEpoch: Epochs, key: Epochs \cup {NoKey}]

Idle == [op |-> "none", pc |-> "idle", gen |-> 0, cred |-> NoCreds,
         epoch |-> 0, ver |-> 0, sent |-> 0, sentEpoch |-> 0, key |-> NoKey]

-----------------------------------------------------------------------------
(* Helpers *)

Step(t, r) == req' = [req EXCEPT ![t] = r]
Begin(t, r) == req[t].pc = "idle" /\ Step(t, r)

\* A request at the start of operation o, with nothing read yet.
New(o, p) == [Idle EXCEPT !.op = o, !.pc = p]

\* The request r, having just read the generation and the vault.
ReadGen(r)   == [r EXCEPT !.gen = pairGeneration, !.epoch = epoch]
ReadCreds(r) == [r EXCEPT !.cred = vault, !.epoch = epoch]

\* The request r when a call it made returns: only the locals still in scope.
Resume(r, p) == [Idle EXCEPT !.op = r.op, !.pc = p, !.key = r.key,
                             !.sentEpoch = r.sentEpoch]

\* The values a cache key of the KV store may hold after PutKV(new).
KVWrite(old, new) == IF StoreFaults THEN {old, new} ELSE {new}

\* Service.state and lastPingOK as every LAN call leaves them.
SetStatus(s, ok, e) == /\ state' = s
                       /\ lastPingOK' = ok
                       /\ stateEpoch' = e
LanOKMisnamed(e) == SetStatus("ok", TRUE, e)    \* bug: unknown state name
LanOK(e)   == SetStatus("lan-ok", TRUE, e)
LanDown(e) == SetStatus("lan-down", FALSE, e)

\* The state reported to the user: the vault decides whether there is one.
Status == IF vault = NoCreds THEN "unpaired"
          ELSE IF state # "unpaired" THEN state
          ELSE IF lastPingOK THEN "lan-ok" ELSE "ready"

initCacheWarm == obs # NoSnap /\ clock - obs.at < TTL

ClearCaches == /\ rules' = NoSnap
               /\ overlay' = {}
               /\ obs' = NoSnap
               /\ features' = NoSnap
               /\ kvRules' \in KVWrite(kvRules, NoSnap)
               /\ kvObs' \in KVWrite(kvObs, NoSnap)

\* Where a forced refresh returns to: the re-read of the rules cache, the rest
\* of SetFeature, or the overlay, which SetHostPolicy applies in any case.
AfterForced(r, ok) ==
    CASE ok /\ r.op \in {"refresh", "mutate", "policy"} -> Resume(r, "reread")
      [] ok /\ r.op = "toggle"                          -> Resume(r, "list")
      [] ~ok /\ r.op = "policy"                         -> Resume(r, "overlay")
      [] OTHER                                          -> Idle

\* Bug: the leader's clean-up is not deferred, so a failed fetch skips it.
AfterFetchNoDefer(r, ok) ==
    IF r.key # NoKey THEN IF ok THEN Resume(r, "wake") ELSE Idle
                     ELSE AfterForced(r, ok)

\* Where a request goes when fetchAndApplyInit returns to it: the leader of a
\* flight to its deferred clean-up.
AfterFetch(r, ok) == IF r.key # NoKey THEN Resume(r, "wake")
                                      ELSE AfterForced(r, ok)

\* Where it goes when RulesSnapshot or a hydrate returns to it.
AfterRules(r) == CASE r.op = "policy" -> Resume(r, "overlay")
                   [] r.op = "byid"   -> Resume(r, "creds")
                   [] r.op = "cold"   -> Resume(r, "hydrateObs")
                   [] OTHER           -> Idle
AfterObs(r)   == IF r.op = "cold" THEN Resume(r, "ensure") ELSE Idle

\* The check made whenever the lock is taken again after a call.
SameGenerationUnchecked(r) == TRUE                 \* bug: the check is missing
SameGeneration(r) == r.gen = pairGeneration

-----------------------------------------------------------------------------
(* Pairing *)

Init ==
    /\ vault = NoCreds /\ kvRules = NoSnap /\ kvObs = NoSnap
    /\ pairGeneration = 0
    /\ rules = NoSnap /\ overlay = {} /\ obs = NoSnap /\ features = NoSnap
    /\ state = "unpaired" /\ lastPingOK = FALSE /\ stateEpoch = 0
    /\ flight = [k \in Epochs |-> "none"]
    /\ cold = TRUE
    /\ req = [t \in Request |-> Idle]
    /\ box = [c \in Creds |-> 0]
    /\ clock = 0
    /\ epoch = 0

\* Pair reads the generation and calls the cloud.
Pair(t) ==
    /\ Begin(t, ReadGen(New("pair", "cloud")))
    /\ UNCHANGED <<kv, pairGeneration, caches, status, flight, cold, box,
                   clock, epoch>>

\* The cloud join failed: only a pairing nobody overtook reports it.
PairFails(t) ==
    /\ req[t].pc = "cloud"
    /\ Step(t, Idle)
    /\ IF SameGeneration(req[t])
       THEN SetStatus("error", lastPingOK, epoch)
       ELSE UNCHANGED status
    /\ UNCHANGED <<kv, pairGeneration, caches, flight, cold, box, clock,
                   epoch>>

\* The cloud join returned creds c, but the generation moved on, or the vault
\* could not be written.
PairDiscarded(t) ==
    /\ req[t].pc = "cloud"
    /\ ~SameGeneration(req[t]) \/ StoreFaults
    /\ Step(t, Idle)
    /\ UNCHANGED <<kv, pairGeneration, caches, status, flight, cold, box,
                   clock, epoch>>

\* The cloud join returned creds c and they become the pairing.
PairCommits(t, c) ==
    /\ req[t].pc = "cloud"
    /\ SameGeneration(req[t])
    /\ epoch < MaxEpoch
    /\ vault' = c
    /\ pairGeneration' = pairGeneration + 1
    /\ epoch' = epoch + 1
    /\ ClearCaches
    /\ SetStatus("ready", lastPingOK, epoch + 1)
    /\ Step(t, [New("pair", "verify") EXCEPT !.gen = pairGeneration + 1,
                                             !.epoch = epoch + 1])
    /\ UNCHANGED <<flight, cold, box, clock>>

\* PingInitReady returned: the verdict counts for the same generation only.
PairVerified(t, ok) ==
    /\ req[t].pc = "verify"
    /\ Step(t, Idle)
    /\ IF SameGeneration(req[t])
       THEN IF ok THEN LanOK(req[t].epoch) ELSE LanDown(req[t].epoch)
       ELSE UNCHANGED status
    /\ UNCHANGED <<kv, pairGeneration, caches, flight, cold, box, clock,
                   epoch>>

Unpair ==
    /\ epoch < MaxEpoch
    /\ vault' = NoCreds
    /\ pairGeneration' = pairGeneration + 1
    /\ epoch' = epoch + 1
    /\ ClearCaches
    /\ SetStatus("unpaired", FALSE, epoch + 1)
    /\ UNCHANGED <<flight, cold, req, box, clock>>

-----------------------------------------------------------------------------
(* Calls to the box that touch no cache *)

\* What a command does to the box it reached: a new configuration, or nothing.
BoxAnswered(c) ==
    \/ box[c] < MaxVersion /\ box' = [box EXCEPT ![c] = @ + 1]
    \/ UNCHANGED box

\* Ping, Wake, RenameHost, SetHostDNS, GetAlarms, IgnoreAlarm, RunSpeedtest
\* and SyncSpeedtestHistory: load the creds, call, write the status.
LanCall(t) ==
    /\ vault # NoCreds
    /\ Begin(t, ReadCreds(New("lan", "call")))
    /\ UNCHANGED <<kv, pairGeneration, caches, status, flight, cold, box,
                   clock, epoch>>

LanReturns(t) ==
    /\ req[t].pc = "call"
    /\ Step(t, Idle)
    /\ \/ LanOK(req[t].epoch) /\ BoxAnswered(req[t].cred)
       \/ LanDown(req[t].epoch) /\ BoxAnswered(req[t].cred)
       \/ UNCHANGED <<status, box>>     \* a speedtest error that is not local
    /\ UNCHANGED <<kv, pairGeneration, caches, flight, cold, clock, epoch>>

-----------------------------------------------------------------------------
(* Init: EnsureInit, the flight, fetchAndApplyInit *)

EnsureInit(t) ==
    /\ \/ /\ vault # NoCreds
          /\ Begin(t, ReadGen(New("ensure", "warm")))
       \/ /\ req[t].pc = "ensure"
          /\ Step(t, IF vault = NoCreds THEN Idle
                     ELSE ReadGen(New("ensure", "warm")))
    /\ UNCHANGED <<kv, pairGeneration, caches, status, flight, cold, box,
                   clock, epoch>>

EnsureChecksWarm(t) ==
    /\ req[t].pc = "warm"
    /\ Step(t, IF initCacheWarm THEN Idle ELSE [req[t] EXCEPT !.pc = "join"])
    /\ UNCHANGED <<kv, pairGeneration, caches, status, flight, cold, box,
                   clock, epoch>>

\* initFlight.Do under the key of the generation read by EnsureInit.
FlightDo(t) ==
    LET k == req[t].gen IN
    /\ req[t].pc = "join"
    /\ \/ /\ flight[k] = "none"
          /\ flight' = [flight EXCEPT ![k] = "run"]
          /\ Step(t, [New("ensure", "recheck") EXCEPT !.key = k])
       \/ /\ flight[k] = "run"
          /\ Step(t, [New("ensure", "wait") EXCEPT !.key = k])
          /\ UNCHANGED flight
       \/ /\ flight[k] = "done"
          /\ Step(t, Idle)
          /\ UNCHANGED flight
    /\ UNCHANGED <<kv, pairGeneration, caches, status, cold, box, clock,
                   epoch>>

FlightRechecksWarm(t) ==
    /\ req[t].pc = "recheck"
    /\ Step(t, Resume(req[t], IF initCacheWarm THEN "wake" ELSE "load"))
    /\ UNCHANGED <<kv, pairGeneration, caches, status, flight, cold, box,
                   clock, epoch>>

\* The leader's result is published: every waiter of the call returns.
FlightWakes(t) ==
    /\ req[t].pc = "wake"
    /\ flight' = [flight EXCEPT ![req[t].key] = "done"]
    /\ req' = [u \in Request |->
                IF u = t THEN [req[t] EXCEPT !.pc = "delete"]
                ELSE IF req[u].pc = "wait" /\ req[u].key = req[t].key
                     THEN Idle
                     ELSE req[u]]
    /\ UNCHANGED <<kv, pairGeneration, caches, status, cold, box, clock,
                   epoch>>

FlightDeletes(t) ==
    /\ req[t].pc = "delete"
    /\ flight' = [flight EXCEPT ![req[t].key] = "none"]
    /\ Step(t, Idle)
    /\ UNCHANGED <<kv, pairGeneration, caches, status, cold, box, clock,
                   epoch>>

\* The first critical section of fetchAndApplyInit.
FetchLoads(t) ==
    /\ req[t].pc = "load"
    /\ Step(t, IF vault = NoCreds THEN AfterFetch(req[t], FALSE)
               ELSE [ReadGen(ReadCreds(req[t])) EXCEPT !.pc = "fetch"])
    /\ UNCHANGED <<kv, pairGeneration, caches, status, flight, cold, box,
                   clock, epoch>>

\* The box takes its snapshot; the answer travels back.
BoxAnswers(t) ==
    /\ req[t].pc = "fetch"
    /\ Step(t, [req[t] EXCEPT !.pc = "commit", !.ver = box[req[t].cred]])
    /\ UNCHANGED <<kv, pairGeneration, caches, status, flight, cold, box,
                   clock, epoch>>

\* Bug: the error of the fetch is logged but not returned.
FetchErrorDropped(t) ==
    /\ req[t].pc = "fetch"
    /\ Step(t, AfterFetch(req[t], TRUE))
    /\ IF SameGeneration(req[t])
       THEN LanDown(req[t].epoch)
       ELSE UNCHANGED status
    /\ UNCHANGED <<kv, pairGeneration, caches, flight, cold, box, clock,
                   epoch>>

FetchFails(t) ==
    /\ req[t].pc = "fetch"
    /\ Step(t, AfterFetch(req[t], FALSE))
    /\ IF SameGeneration(req[t])
       THEN LanDown(req[t].epoch)
       ELSE UNCHANGED status
    /\ UNCHANGED <<kv, pairGeneration, caches, flight, cold, box, clock,
                   epoch>>

ParseFails(t) ==
    /\ req[t].pc = "commit"
    /\ Step(t, AfterFetch(req[t], FALSE))
    /\ UNCHANGED <<kv, pairGeneration, caches, status, flight, cold, box,
                   clock, epoch>>

\* Bug: presence and identity of the credentials, without the generation.
StillSameCreds(r) == vault # NoCreds /\ vault = r.cred

\* The check that guards the second critical section of fetchAndApplyInit.
StillPaired(r) == /\ vault # NoCreds
                  /\ SameGeneration(r)
                  /\ vault = r.cred

InitDiscarded(t) ==
    /\ req[t].pc = "commit"
    /\ ~StillPaired(req[t])
    /\ Step(t, AfterFetch(req[t], FALSE))
    /\ UNCHANGED <<kv, pairGeneration, caches, status, flight, cold, box,
                   clock, epoch>>

\* Memory and KV are written in one critical section.
InitCommits(t) ==
    LET r == req[t]
        s == [cred |-> r.cred, epoch |-> r.epoch, ver |-> r.ver,
              at |-> clock]
    IN  /\ r.pc = "commit"
        /\ StillPaired(r)
        /\ rules' = s
        /\ overlay' = {}
        /\ obs' = s
        /\ features' = s
        /\ LanOK(r.epoch)
        /\ kvRules' \in KVWrite(kvRules, s)
        /\ kvObs' \in KVWrite(kvObs, s)
        /\ Step(t, AfterFetch(r, TRUE))
        /\ UNCHANGED <<vault, pairGeneration, flight, cold, box, clock,
                       epoch>>

-----------------------------------------------------------------------------
(* Operations built on init *)

\* RefreshRules: refreshInitForced checks the vault, fetches outside the
\* flight, and re-reads the cache.
RefreshRules(t) ==
    /\ vault # NoCreds
    /\ Begin(t, New("refresh", "load"))
    /\ UNCHANGED <<kv, pairGeneration, caches, status, flight, cold, box,
                   clock, epoch>>

\* CreateRule and SetEmergency ("mutate"), SetHostPolicy ("policy") and
\* SetFeature ("toggle") load the creds and send.
Mutate(t, o) ==
    /\ vault # NoCreds
    /\ Begin(t, ReadCreds(New(o, "send")))
    /\ UNCHANGED <<kv, pairGeneration, caches, status, flight, cold, box,
                   clock, epoch>>

\* DisableRule, EnableRule and DeleteRule look the rule up in the snapshot
\* first, since screentime rules are read-only.
PolicyIDCmd(t) ==
    /\ Begin(t, New("byid", "reread"))
    /\ UNCHANGED <<kv, pairGeneration, caches, status, flight, cold, box,
                   clock, epoch>>

\* Then they refuse, if they found one, or load the creds and send.
PolicyIDLoads(t) ==
    /\ req[t].pc = "creds"
    /\ \/ rules # NoSnap /\ Step(t, Idle)
       \/ vault = NoCreds /\ Step(t, Idle)
       \/ vault # NoCreds /\ Step(t, ReadCreds(New("mutate", "send")))
    /\ UNCHANGED <<kv, pairGeneration, caches, status, flight, cold, box,
                   clock, epoch>>

\* The box answered; what follows is a forced refresh.
MutateSent(t) ==
    /\ req[t].pc = "send"
    /\ BoxAnswered(req[t].cred)
    /\ LanOK(req[t].epoch)
    /\ Step(t, [New(req[t].op, "load") EXCEPT
                  !.sent = box'[req[t].cred], !.sentEpoch = req[t].epoch])
    /\ UNCHANGED <<kv, pairGeneration, caches, flight, cold, clock, epoch>>

\* CreateRule cannot read the rule in the answer: it returns at once.
MutateUnreadable(t) ==
    /\ req[t].pc = "send"
    /\ req[t].op = "mutate"
    /\ BoxAnswered(req[t].cred)
    /\ LanOK(req[t].epoch)
    /\ Step(t, Idle)
    /\ UNCHANGED <<kv, pairGeneration, caches, flight, cold, clock, epoch>>

\* The command failed or its answer was lost, in which case the box may have
\* carried it out all the same.
MutateFails(t) ==
    /\ req[t].pc = "send"
    /\ BoxAnswered(req[t].cred)
    /\ LanDown(req[t].epoch)
    /\ Step(t, Idle)
    /\ UNCHANGED <<kv, pairGeneration, caches, flight, cold, clock, epoch>>

\* RulesSnapshot after a refresh: a hit, or on to the persisted copy.
RereadRules(t) ==
    /\ req[t].pc = "reread"
    /\ Step(t, IF rules # NoSnap THEN AfterRules(req[t])
               ELSE Resume(req[t], "hydrateRules"))
    /\ UNCHANGED <<kv, pairGeneration, caches, status, flight, cold, box,
                   clock, epoch>>

\* overlayHostPolicy: RulesCache.PatchHost takes neither mu nor a generation.
OverlayHostPolicy(t) ==
    /\ req[t].pc = "overlay"
    /\ overlay' = IF rules # NoSnap THEN overlay \cup {req[t].sentEpoch}
                                    ELSE overlay
    /\ Step(t, Idle)
    /\ UNCHANGED <<kv, pairGeneration, rules, obs, features, status, flight,
                   cold, box, clock, epoch>>

\* ListFeatures: a normal EnsureInit only if the features were ever loaded.
FeaturesPath == IF features # NoSnap THEN "ensure" ELSE "load"

ListFeatures(t) ==
    /\ \/ /\ vault # NoCreds
          /\ Begin(t, New("features", FeaturesPath))
       \/ /\ req[t].pc = "list"
          /\ Step(t, IF vault = NoCreds THEN Idle
                     ELSE New("features", FeaturesPath))
    /\ UNCHANGED <<kv, pairGeneration, caches, status, flight, cold, box,
                   clock, epoch>>

\* RulesSnapshot and ObservatorySnapshot after a cache miss.
ReadRules(t) ==
    /\ rules = NoSnap
    /\ Begin(t, New("read", "hydrateRules"))
    /\ UNCHANGED <<kv, pairGeneration, caches, status, flight, cold, box,
                   clock, epoch>>

ReadObs(t) ==
    /\ obs = NoSnap
    /\ Begin(t, New("read", "hydrateObs"))
    /\ UNCHANGED <<kv, pairGeneration, caches, status, flight, cold, box,
                   clock, epoch>>

\* Bug: a persisted snapshot is loaded without asking whether we are paired.
HydrateRulesUnpaired(t) ==
    /\ req[t].pc = "hydrateRules"
    /\ IF kvRules # NoSnap /\ kvRules.ver \notin BlankRules
       THEN rules' = kvRules /\ overlay' = {}
       ELSE UNCHANGED <<rules, overlay>>
    /\ Step(t, AfterRules(req[t]))
    /\ UNCHANGED <<kv, pairGeneration, obs, features, status, flight, cold,
                   box, clock, epoch>>

HydrateRules(t) ==
    /\ req[t].pc = "hydrateRules"
    /\ IF vault # NoCreds /\ kvRules # NoSnap /\ kvRules.ver \notin BlankRules
       THEN rules' = kvRules /\ overlay' = {}
       ELSE UNCHANGED <<rules, overlay>>
    /\ Step(t, AfterRules(req[t]))
    /\ UNCHANGED <<kv, pairGeneration, obs, features, status, flight, cold,
                   box, clock, epoch>>

\* What is loaded keeps the time it was fetched.
HydratedBumped(s) == [s EXCEPT !.at = clock]    \* bug: it counts as fresh
Hydrated(s) == s

\* A persisted observatory past MaxAge is dropped instead of loaded.
HydrateObs(t) ==
    /\ req[t].pc = "hydrateObs"
    /\ \/ /\ vault # NoCreds /\ kvObs # NoSnap /\ kvObs.ver \notin BlankObs
          /\ \/ /\ clock - kvObs.at <= MaxAge
                /\ obs' = Hydrated(kvObs)
                /\ UNCHANGED kvObs
             \/ /\ clock - kvObs.at > MaxAge
                /\ kvObs' \in KVWrite(kvObs, NoSnap)
                /\ UNCHANGED obs
       \/ /\ \/ vault = NoCreds
             \/ kvObs = NoSnap
             \/ kvObs # NoSnap /\ kvObs.ver \in BlankObs
          /\ UNCHANGED <<obs, kvObs>>
    /\ Step(t, AfterObs(req[t]))
    /\ UNCHANGED <<vault, kvRules, pairGeneration, rules, overlay, features,
                   status, flight, cold, box, clock, epoch>>

\* ColdStart, once per process: hydrate both, then EnsureInit.
ColdStart(t) ==
    /\ cold
    /\ cold' = FALSE
    /\ \/ /\ vault # NoCreds
          /\ Begin(t, New("cold", "hydrateRules"))
       \/ /\ vault = NoCreds
          /\ UNCHANGED req
    /\ UNCHANGED <<kv, pairGeneration, caches, status, flight, box, clock,
                   epoch>>

-----------------------------------------------------------------------------
(* The environment *)

\* The process dies and starts again: NewService on the same store.
Restart ==
    /\ pairGeneration' = 0
    /\ rules' = NoSnap /\ overlay' = {} /\ obs' = NoSnap /\ features' = NoSnap
    /\ state' = "unpaired" /\ lastPingOK' = FALSE /\ stateEpoch' = epoch
    /\ flight' = [k \in Epochs |-> "none"]
    /\ cold' = TRUE
    /\ req' = [t \in Request |-> Idle]
    /\ UNCHANGED <<kv, box, clock, epoch>>

Tick ==
    /\ clock < MaxClock
    /\ clock' = clock + 1
    /\ UNCHANGED <<kv, pairGeneration, caches, status, flight, cold, req,
                   box, epoch>>

\* The steps a request takes once it has begun.
Continue(t) ==
    \/ PairFails(t) \/ PairDiscarded(t) \/ (\E c \in Creds : PairCommits(t, c))
    \/ (\E ok \in BOOLEAN : PairVerified(t, ok))
    \/ LanReturns(t)
    \/ req[t].pc = "ensure" /\ EnsureInit(t)
    \/ EnsureChecksWarm(t) \/ FlightDo(t) \/ FlightRechecksWarm(t)
    \/ FlightWakes(t) \/ FlightDeletes(t)
    \/ FetchLoads(t) \/ BoxAnswers(t) \/ FetchFails(t) \/ ParseFails(t)
    \/ InitDiscarded(t) \/ InitCommits(t)
    \/ PolicyIDLoads(t)
    \/ MutateSent(t) \/ MutateUnreadable(t) \/ MutateFails(t)
    \/ RereadRules(t) \/ OverlayHostPolicy(t)
    \/ req[t].pc = "list" /\ ListFeatures(t)
    \/ HydrateRules(t) \/ HydrateObs(t)

Start(t) ==
    \/ Pair(t) \/ LanCall(t)
    \/ req[t].pc = "idle" /\ EnsureInit(t)
    \/ RefreshRules(t)
    \/ (\E o \in {"mutate", "policy", "toggle"} : Mutate(t, o))
    \/ PolicyIDCmd(t)
    \/ req[t].pc = "idle" /\ ListFeatures(t)
    \/ ReadRules(t) \/ ReadObs(t)
    \/ ColdStart(t)

Next == \/ \E t \in Request : Start(t) \/ Continue(t)
        \/ Unpair \/ Restart \/ Tick

Spec == Init /\ [][Next]_vars

\* Every call to the cloud or the box has a timeout, so a request that has
\* begun keeps taking steps.  Nothing obliges anyone to begin one.
Fair == \A t \in Request : WF_vars(Continue(t))

FairSpec == Spec /\ Fair

-----------------------------------------------------------------------------
(* Properties *)

\* The control service, its store, the requests and the box are well typed.
TypeOK ==
    /\ vault \in Creds \cup {NoCreds}
    /\ kvRules \in Snapshots \cup {NoSnap}
    /\ kvObs \in Snapshots \cup {NoSnap}
    /\ pairGeneration \in Epochs
    /\ rules \in Snapshots \cup {NoSnap}
    /\ overlay \in SUBSET Epochs
    /\ obs \in Snapshots \cup {NoSnap}
    /\ features \in Snapshots \cup {NoSnap}
    /\ state \in States
    /\ lastPingOK \in BOOLEAN
    /\ flight \in [Epochs -> {"none", "run", "done"}]
    /\ cold \in BOOLEAN
    /\ req \in [Request -> Requests]
    /\ box \in [Creds -> Versions]
    /\ clock \in Times
    /\ epoch \in Epochs
    /\ stateEpoch \in Epochs

\* A snapshot belongs to the pairing in force.
OfPairing(s) == /\ vault # NoCreds
                /\ s.cred = vault
                /\ s.epoch = epoch

\* Whatever is cached or persisted was fetched with the credentials of the
\* pairing in force, and nothing is cached or persisted while unpaired: the
\* late answer of an earlier pairing never lands (the generation check of
\* fetchAndApplyInit), and a re-pair or Unpair clears what was there.
CachesOfPairing ==
    \A s \in {rules, obs, features, kvRules, kvObs} :
        s # NoSnap => OfPairing(s)

\* The views shown together describe one and the same init answer: the three
\* caches and the two persisted copies never mix two answers, across commits,
\* hydrates that lost a race with a commit, expiry and restarts.
OneAnswer ==
    \A s, u \in {rules, obs, features, kvRules, kvObs} :
        s # NoSnap /\ u # NoSnap => s = u

\* "Unpair must clear both": what the server shows was fetched from the box
\* it is paired with, even after a cleared cache was left in the store.
ViewsOfPairing ==
    \A s \in {rules, obs, features} : s # NoSnap => OfPairing(s)

\* Even when cache writes are lost, an unpaired server holds no view in
\* memory: hydrate refuses leftovers and no late fetch resurrects a cache.
UnpairedMemoryEmpty ==
    vault = NoCreds => rules = NoSnap /\ obs = NoSnap /\ features = NoSnap

\* A pairing commits only if no other pairing or Unpair came in between its
\* start and its commit: a slow cloud join cannot undo the user's Unpair.
UnpairWins ==
    [][epoch' # epoch /\ vault' # NoCreds =>
         \E t \in Request : req[t].pc = "cloud" /\ req[t].epoch = epoch]_vars

\* A mutation that reports success has seen a snapshot taken after it: the
\* refresh that follows the command never settles for an older fetch.
MutationSeesItself ==
    [][\A t \in Request :
         /\ req[t].op \in {"mutate", "policy", "toggle"}
         /\ req[t].pc \notin {"reread", "list"}
         /\ req'[t].pc \in {"reread", "list"}
         /\ req[t].sentEpoch = epoch
         => rules' # NoSnap /\ rules'.ver >= req[t].sent]_vars

\* The program counters of a flight's leader.
Leading == {"recheck", "load", "fetch", "commit", "wake"}

\* Every waiter of an init flight has a leader that will wake it, and a key
\* is in the map exactly while its leader is there: nobody waits for a call
\* that has ended, and no key is left behind to block later callers.
FlightHasLeader ==
    /\ \A t \in Request : req[t].pc = "wait" => flight[req[t].key] = "run"
    /\ \A k \in Epochs :
         /\ flight[k] = "run" =>
              \E t \in Request : req[t].key = k /\ req[t].pc \in Leading
         /\ flight[k] = "done" =>
              \E t \in Request : req[t].key = k /\ req[t].pc = "delete"

\* Every request that begins ends, whatever the others do meanwhile.
RequestsEnd == \A t \in Request : []<>(req[t].pc = "idle")

\* RefreshRules "Always refreshes ... so Rules mutations see fresh box state":
\* within a pairing the rules cache never goes back to an older answer.
RulesNeverRegress ==
    [][rules # NoSnap /\ rules' # NoSnap /\ rules'.epoch = rules.epoch
         => rules'.ver >= rules.ver]_vars

\* LookupHostPolicy "returns cached init-backed host flags": the host rows of
\* the rules cache come from the paired box, or from a patch sent to it.
HostFlagsOfPairing == overlay \subseteq {epoch}

\* "lan-ok" is only shown for a pairing that a LAN call verified: Pair
\* "requires LAN ping/init to succeed".
LanOkOfPairing ==
    Status = "lan-ok" => stateEpoch = epoch
=============================================================================
