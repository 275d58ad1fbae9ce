--------------------------- MODULE SwitchPoller ---------------------------
(***************************************************************************)
(* The TP-Link module: the list of configured switches, one value in the   *)
(* key-value store that every operation loads, changes and saves under the *)
(* store's lock (server/internal/tplink/store.go), the pollers that scrape *)
(* the enabled ones (module.go), and the registry that starts and stops    *)
(* the module (server/internal/modules). Stop does not wait for a poll     *)
(* that is under way, so a stopped poller and its successor may overlap.   *)
(* The database is taken to be there and not to fail.                      *)
(***************************************************************************)
EXTENDS Naturals

CONSTANTS
    Switch,         \* the identifiers of switches, random and never reused
    Poller,         \* the instances of the module, one per start
    NoPoller,
    Conf,           \* what the user sets: address, password, uplink, enabled
    On,             \* the settings with which a switch is enabled
    Never, Deleted  \* of a switch that is not yet, or no longer, configured

ASSUME PollerAssumption ==
    /\ NoPoller \notin Poller
    /\ On \subseteq Conf /\ Never \notin Conf /\ Deleted \notin Conf
    /\ Never # Deleted

VARIABLES
    switches,       \* kv tplink_switches: the settings and status of each
    running,        \* Registry.running["tplink-sync"]
    enabled,        \* kv modules: what the registry last saved
    loop,           \* loop[p]: where poller p's goroutine is
    canceled,       \* canceled[p]: its context is
    todo,           \* todo[p]: the switches this poll has yet to scrape
    heard,          \* heard[p]: the ones that answered
    errs,           \* errs[p]: the errors of this poll, "auth" or "down"
    snap,           \* snap[p]: Module.snap, or NoSnap when not snapOK
    wanted          \* history: the settings the user's operations made

pollVars == <<switches, running, enabled, loop, canceled, todo, heard, errs,
              snap, wanted>>

NoSnap == {NoPoller}

PollInit ==
    /\ switches = [s \in {} |-> {}]
    /\ wanted = [s \in Switch |-> Never]
    /\ running = NoPoller /\ enabled = FALSE
    /\ loop = [p \in Poller |-> "unused"]
    /\ canceled = [p \in Poller |-> FALSE]
    /\ todo = [p \in Poller |-> {}] /\ heard = [p \in Poller |-> {}]
    /\ errs = [p \in Poller |-> {}] /\ snap = [p \in Poller |-> NoSnap]

moduleVars == <<running, enabled, loop, canceled, todo, heard, errs, snap>>

Row(c) == [conf |-> c, status |-> ""]

CreateSwitch(s, c) ==
    /\ wanted[s] = Never
    /\ switches' = [u \in DOMAIN switches \cup {s} |->
                         IF u = s THEN Row(c) ELSE switches[u]]
    /\ wanted' = [wanted EXCEPT ![s] = c]
    /\ UNCHANGED moduleVars

UpdateSwitch(s, c) ==
    /\ s \in DOMAIN switches
    /\ switches' = [switches EXCEPT ![s] = [conf |-> c, status |-> switches[s].status]]
    /\ wanted' = [wanted EXCEPT ![s] = c]
    /\ UNCHANGED moduleVars

DeleteSwitch(s) ==
    /\ s \in DOMAIN switches
    /\ switches' = [u \in DOMAIN switches \ {s} |-> switches[u]]
    /\ wanted' = [wanted EXCEPT ![s] = Deleted]
    /\ UNCHANGED moduleVars
-----------------------------------------------------------------------------
(* Registry.Set(on): startLocked, which returns if the module runs, or     *)
(* stopLocked, which cancels the poller's context; then the flag is saved. *)
StartAnyway(p) ==                   \* bug: a running module is started again
    /\ loop[p] = "unused"
    /\ running' = p /\ enabled' = TRUE
    /\ loop' = [loop EXCEPT ![p] = "ticked"]
    /\ UNCHANGED <<switches, canceled, todo, heard, errs, snap, wanted>>
StartModule(p) ==
    /\ loop[p] = "unused"
    /\ running' = IF running = NoPoller THEN p ELSE running
    /\ loop' = IF running = NoPoller THEN [loop EXCEPT ![p] = "ticked"] ELSE loop
    /\ enabled' = TRUE
    /\ UNCHANGED <<switches, canceled, todo, heard, errs, snap, wanted>>

StopModule ==
    /\ IF running = NoPoller THEN UNCHANGED canceled
       ELSE canceled' = [canceled EXCEPT ![running] = TRUE]
    /\ running' = NoPoller
    /\ enabled' = FALSE
    /\ UNCHANGED <<switches, loop, todo, heard, errs, snap, wanted>>

(* The process ends with its pollers; a new one starts the saved modules. *)
ServerBoots(p) ==
    /\ loop[p] = "unused"
    /\ running' = IF enabled THEN p ELSE NoPoller
    /\ loop' = [q \in Poller |-> IF q = p /\ enabled THEN "ticked"
                                 ELSE IF loop[q] = "unused" THEN "unused" ELSE "ended"]
    /\ canceled' = [q \in Poller |-> FALSE] /\ snap' = [q \in Poller |-> NoSnap]
    /\ todo' = [q \in Poller |-> {}] /\ heard' = todo' /\ errs' = todo'
    /\ UNCHANGED <<switches, enabled, wanted>>
-----------------------------------------------------------------------------
(* A tick wins over the end of the context when both are there. *)
PollTick(p) ==
    /\ loop[p] = "waiting"
    /\ loop' = [loop EXCEPT ![p] = "ticked"]
    /\ UNCHANGED <<switches, running, enabled, canceled, todo, heard, errs, snap, wanted>>

LoopEnds(p) ==
    /\ loop[p] = "waiting" /\ canceled[p]
    /\ loop' = [loop EXCEPT ![p] = "ended"]
    /\ UNCHANGED <<switches, running, enabled, canceled, todo, heard, errs, snap, wanted>>

ListsSwitches(p) ==
    LET on == {s \in DOMAIN switches : switches[s].conf \in On}
    IN  /\ loop[p] = "ticked"
        /\ IF on = {}
           THEN loop' = [loop EXCEPT ![p] = "waiting"] /\ snap' = [snap EXCEPT ![p] = {}]
           ELSE loop' = [loop EXCEPT ![p] = "polling"] /\ UNCHANGED snap
        /\ todo' = [todo EXCEPT ![p] = {[id |-> s, conf |-> switches[s].conf] : s \in on}]
        /\ UNCHANGED <<switches, running, enabled, canceled, heard, errs, wanted>>

(* What a scrape writes of the switch that was listed as x: its status,    *)
(* into the row as it now is, if there still is one.                       *)
SaveStatusListed(x, st) ==          \* bug: the row as it was listed
    switches' = [s \in DOMAIN switches \cup {x.id} |->
                     IF s = x.id THEN [conf |-> x.conf, status |-> st] ELSE switches[s]]
SaveStatus(x, st) ==
    IF x.id \in DOMAIN switches
    THEN switches' = [switches EXCEPT ![x.id] = [conf |-> switches[x.id].conf, status |-> st]]
    ELSE UNCHANGED switches

Answers(p, x) ==
    /\ x \in todo[p] /\ loop[p] = "polling"
    /\ SaveStatus(x, "ok")
    /\ heard' = [heard EXCEPT ![p] = @ \cup {x.id}]
    /\ todo' = [todo EXCEPT ![p] = @ \ {x}]
    /\ UNCHANGED <<running, enabled, loop, canceled, errs, snap, wanted>>

(* No password, or one that does not decrypt or is refused: auth. *)
Refuses(p, x, e) ==
    /\ x \in todo[p] /\ loop[p] = "polling"
    /\ SaveStatus(x, e)
    /\ errs' = [errs EXCEPT ![p] = @ \cup {e}]
    /\ todo' = [todo EXCEPT ![p] = @ \ {x}]
    /\ UNCHANGED <<running, enabled, loop, canceled, heard, snap, wanted>>

(* Any answer replaces the snapshot; none and a refusal clears it; none    *)
(* for other reasons keeps the last one, if it holds a switch.             *)
PollEnds(p) ==
    /\ loop[p] = "polling" /\ todo[p] = {}
    /\ snap' = [snap EXCEPT ![p] = IF heard[p] # {} THEN heard[p]
                                   ELSE IF "auth" \in errs[p] \/ @ = {} THEN NoSnap
                                   ELSE @]
    /\ heard' = [heard EXCEPT ![p] = {}] /\ errs' = [errs EXCEPT ![p] = {}]
    /\ loop' = [loop EXCEPT ![p] = "waiting"]
    /\ UNCHANGED <<switches, running, enabled, canceled, todo, wanted>>

PollNext ==
    \/ \E s \in Switch : \/ DeleteSwitch(s)
                          \/ \E c \in Conf : CreateSwitch(s, c) \/ UpdateSwitch(s, c)
    \/ StopModule
    \/ \E p \in Poller :
          \/ StartModule(p) \/ ServerBoots(p) \/ PollTick(p) \/ LoopEnds(p)
          \/ ListsSwitches(p) \/ PollEnds(p)
          \/ \E x \in todo[p] : Answers(p, x) \/ \E e \in {"auth", "down"} : Refuses(p, x, e)

PollSpec == PollInit /\ [][PollNext]_pollVars
-----------------------------------------------------------------------------
(* The stored list is what the user's operations made it: a poll listed    *)
(* before a change neither brings a deleted switch back nor restores the   *)
(* settings it was listed with, whatever it writes and however late.       *)
AsConfigured ==
    /\ DOMAIN switches = {s \in Switch : wanted[s] \in Conf}
    /\ \A s \in DOMAIN switches : switches[s].conf = wanted[s]

(* A poller that was neither started last nor is still under way does not  *)
(* poll: at most the running one has a context that is not canceled.       *)
OneModule ==
    /\ enabled <=> running # NoPoller
    /\ \A p \in Poller : loop[p] \notin {"unused", "ended"} /\ ~canceled[p] => p = running

(* Late polls are harmless: those that listed a switch before it was       *)
(* changed leave the stored list to the user, and those of a stopped       *)
(* module do not run beside its successor.                                 *)
PollsHarmless == AsConfigured /\ OneModule
=============================================================================
