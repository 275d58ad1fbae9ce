------------------------------- MODULE MCUiLive ------------------------------
(***************************************************************************)
(* The parts of the web user interface about which something is claimed to *)
(* happen eventually. They share no variable, so focus, chosen at the      *)
(* start, says which one moves.                                            *)
(* A part that does not move rests in a state in which its weak fairness   *)
(* asks for nothing; where it has no such state, the fairness is stated    *)
(* here, for the part that moves.                                          *)
(***************************************************************************)
EXTENDS UiShell, UiMembership, UiModules, UiPairing, UiSwitches, UiLogs, TLC

VARIABLE focus

MCVars == <<shellVars, membVars, moduleVars, pairVars, switchVars, logVars, focus>>

(* A shell on the sign-in screen asks for nothing. *)
SignedOut ==
    /\ sv = [ver |-> 1, session |-> FALSE, events |-> 0]
    /\ ap = [auth |-> "needed", range |-> FirstRange, lan |-> FALSE, refreshing |-> FALSE,
             history |-> [range |-> "none", ver |-> 0], devices |-> 0]
    /\ fx = [on |-> FALSE, range |-> FirstRange]
    /\ ld = [t \in LTask |-> LoadIdle]
    /\ rq = [check |-> "idle", login |-> "idle", refresh |-> "idle"]

(* Neither does a settings page that is closed. *)
ModulesLoaded ==
    /\ mSrv = [mods |-> {Unifi}, sync |-> TRUE, names |-> 0, url |-> 2]
    /\ mo = [mods |-> {Unifi}, known |-> TRUE, sync |-> TRUE, page |-> FALSE, deps |-> <<FALSE, FALSE, FALSE>>,
             rows |-> 0, busy |-> FALSE, url |-> 2, dirty |-> FALSE, edits |-> 0]
    /\ mq = [t \in STask |-> SIdle]

MCInit ==
    /\ focus \in {"shell", "membership", "modules", "pairing", "switches", "logs"}
    /\ IF focus = "shell" THEN ShellInit ELSE SignedOut
    /\ MembInit
    /\ IF focus = "modules" THEN ModulesInit /\ mq[CHOOSE t \in STask : TRUE].pc = "sent" ELSE ModulesLoaded
    /\ PairingInit /\ (focus # "pairing" => pSrv)
    /\ SwitchesInit /\ wSrv.cfg = {CHOOSE x \in SwId : TRUE}
    /\ LogsInit

(* Only the given part may change. *)
Others(part) ==
    /\ part # "shell" => UNCHANGED shellVars
    /\ part # "membership" => UNCHANGED membVars
    /\ part # "modules" => UNCHANGED moduleVars
    /\ part # "pairing" => UNCHANGED pairVars
    /\ part # "switches" => UNCHANGED switchVars
    /\ part # "logs" => UNCHANGED logVars

MCNext ==
    /\ UNCHANGED focus
    /\ \/ focus = "shell" /\ ShellNext /\ Others(focus)
       \/ focus = "membership" /\ MembNext /\ Others(focus)
       \/ focus = "modules" /\ ModulesNext /\ Others(focus)
       \/ focus = "pairing" /\ PairingNext /\ Others(focus)
       \/ focus = "switches" /\ SwitchesNext /\ Others(focus)
       \/ focus = "logs" /\ LogsNext /\ Others(focus)

(* Every call of the device list and of the modules ends, and the list is  *)
(* polled, while the part moves.                                           *)
MembFair ==
    /\ \A t \in MTask : /\ WF_membVars(focus = "membership" /\ MembReply(t))
                        /\ WF_membVars(focus = "membership" /\ setDevices(t))
    /\ WF_membVars(focus = "membership" /\ \E t \in MTask : loadDevices(t))
ModulesFair ==
    \A t \in STask : /\ WF_moduleVars(focus = "modules" /\ ServeModules(t))
                     /\ WF_moduleVars(focus = "modules" /\ ModulesAnswer(t))

MCFair == ShellFair /\ MembFair /\ ModulesFair /\ PairingFair /\ SwitchesFair /\ LogsFair

MCSpec == MCInit /\ [][MCNext]_MCVars /\ MCFair
-----------------------------------------------------------------------------
(* What the shell owes a visitor once changes stop: the newest history of  *)
(* the chosen range, the login page when the session is dead, and a page   *)
(* that is neither blank nor covered for ever.                             *)
ShellSettles == ViewConverges /\ DeadSessionFound /\ PageReleased

(* What the pages owe: groups, modules, pairing and switches come to be    *)
(* shown as the server has them, and live lines switched off end with the  *)
(* light off.                                                              *)
PagesSettle == MembershipsConverge /\ ModulesConverge /\ PairingShown /\ SwitchesShown /\ LiveSettles
=============================================================================
