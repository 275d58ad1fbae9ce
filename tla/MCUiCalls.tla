----------------------------- MODULE MCUiCalls ------------------------------
(***************************************************************************)
(* The pages of the web user interface that call the server. They share no *)
(* variable, so one run explores each alone: focus, chosen at the start,   *)
(* says which one moves.                                                   *)
(***************************************************************************)
EXTENDS UiPages, TLC

VARIABLE focus

MCVars == <<shellVars, rulesVars, membVars, detailVars, moduleVars, pairVars,
            switchVars, logVars, alarmVars, featureVars, focus>>

(* The modules once their reads were answered. *)
ModulesLoaded ==
    /\ mSrv = [mods |-> {Unifi}, sync |-> TRUE, names |-> 0, url |-> 2]
    /\ mo = [mods |-> {Unifi}, known |-> TRUE, sync |-> TRUE, page |-> FALSE, deps |-> <<FALSE, FALSE, FALSE>>,
             rows |-> 0, busy |-> FALSE, url |-> 2, dirty |-> FALSE, edits |-> 0]
    /\ mq = [t \in STask |-> SIdle]

(* A part that does not move starts in one state, and of the starts that    *)
(* differ in the names of rules or switches only, one is explored.          *)
MCInit ==
    /\ focus \in {"shell", "rules", "membership", "detail", "modules",
                  "pairing", "switches", "logs", "alarms", "features"}
    /\ ShellInit /\ (focus # "shell" => sv.session)
    /\ RulesInit /\ (focus # "rules" => \A r \in uBox : r.id = CHOOSE x \in RuleId : TRUE)
    /\ \A r \in uBox : ~r.readOnly => r.id = CHOOSE x \in RuleId : TRUE
    /\ MembInit
    /\ DetailInit
    /\ IF focus = "modules" THEN ModulesInit ELSE ModulesLoaded
    /\ PairingInit /\ (focus # "pairing" => pSrv)
    /\ SwitchesInit /\ wSrv.cfg = {CHOOSE x \in SwId : TRUE}
    /\ LogsInit
    /\ AlarmsInit /\ (focus # "alarms" => inbox.active = {})
    /\ FeaturesInit /\ (focus # "features" => fBox.on = {})

(* Only the given part may change. *)
Others(part) ==
    /\ part # "shell" => UNCHANGED shellVars
    /\ part # "rules" => UNCHANGED rulesVars
    /\ part # "membership" => UNCHANGED membVars
    /\ part # "detail" => UNCHANGED detailVars
    /\ part # "modules" => UNCHANGED moduleVars
    /\ part # "pairing" => UNCHANGED pairVars
    /\ part # "switches" => UNCHANGED switchVars
    /\ part # "logs" => UNCHANGED logVars
    /\ part # "alarms" => UNCHANGED alarmVars
    /\ part # "features" => UNCHANGED featureVars

MCNext ==
    /\ UNCHANGED focus
    /\ \/ focus = "shell" /\ ShellNext /\ Others(focus)
       \/ focus = "rules" /\ RulesNext /\ Others(focus)
       \/ focus = "membership" /\ MembNext /\ Others(focus)
       \/ focus = "detail" /\ DetailNext /\ Others(focus)
       \/ focus = "modules" /\ ModulesNext /\ Others(focus)
       \/ focus = "pairing" /\ PairingNext /\ Others(focus)
       \/ focus = "switches" /\ SwitchesNext /\ Others(focus)
       \/ focus = "logs" /\ LogsNext /\ Others(focus)
       \/ focus = "alarms" /\ AlarmsNext /\ Others(focus)
       \/ focus = "features" /\ FeaturesNext /\ Others(focus)

MCSpec == MCInit /\ [][MCNext]_MCVars

(* The parts that rest stay as they are: a state is told by the one that moves,  *)
(* the shell by all but the devices it shows, which nothing here reads.     *)
MCView == <<focus, CASE focus = "shell" -> <<sv, [ap EXCEPT !.devices = 0], fx, ld, rq>>
                 [] focus = "rules" -> rulesVars
                 [] focus = "membership" -> membVars
                 [] focus = "detail" -> detailVars
                 [] focus = "modules" -> moduleVars
                 [] focus = "pairing" -> pairVars
                 [] focus = "switches" -> switchVars
                 [] focus = "logs" -> logVars
                 [] focus = "alarms" -> alarmVars
                 [] focus = "features" -> featureVars>>

(* The slots of requests are interchangeable, one set for all parts. *)
Symmetry == Permutations(LTask)
=============================================================================
