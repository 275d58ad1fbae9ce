------------------------------- MODULE UiPages -------------------------------
(***************************************************************************)
(* The parts of the web user interface that call the server and apply the  *)
(* answers, together: the shell, the rules, groups and devices, the        *)
(* settings pages, the logs, the alarms and the features.  They share no   *)
(* variable; each one keeps its own specification whatever the others do.  *)
(***************************************************************************)
EXTENDS UiShell, UiRules, UiMembership, UiDeviceDetail, UiModules, UiPairing,
        UiSwitches, UiLogs, UiAlarms, UiFeatures

PagesSpec ==
    /\ ShellSpec /\ RulesSpec /\ MembSpec /\ DetailSpec /\ ModulesSpec /\ PairingSpec
    /\ SwitchesSpec /\ LogsSpec /\ AlarmsSpec /\ FeaturesSpec

-----------------------------------------------------------------------------
(* A page is locked exactly while a call of its own is under way, and that *)
(* is one call: no refused, lost or late answer, and no return to the      *)
(* page, leaves a lock behind or frees the lock of another call.           *)
LocksOwned ==
    /\ RulesBusyOwned /\ RulesOneWrite
    /\ RowLockHeld /\ DetailBusyOwned
    /\ NamesOneWrite /\ PairingLocked /\ PingSingle /\ SwitchOneWrite /\ FeatureLockOwned
    /\ RefreshOwned /\ IgnoreOwned

(* What a page shows, and what may still write to it, is of the range,     *)
(* session, scope, device, filter or opening that is chosen now, however   *)
(* late the answers for an earlier one come.                               *)
ShownOwn ==
    /\ LoadsOfEffect /\ RulesScopeShown /\ RulesListedOnce
    /\ DetailOwn /\ DetailExclusive /\ LinesAsChosen /\ PanelLoadingOwn

(* No page claims what was not so: groups a device never had, live lines   *)
(* no socket has proven, an alarm that the box confirmed to have ignored.  *)
ShownTrue == ShownWasTrue /\ LiveProven /\ IgnoredGone

(* What is sent is what the visitor meant: no password typed for another   *)
(* switch, no fake address, no pairing whose risk was not acknowledged.    *)
SentAsMeant == [](PasswordOwn /\ DetailRealAddress) /\ PairAcknowledged

(* No older answer takes back a policy the box confirmed, a URL typed and  *)
(* not saved, or a newer state of the features.                            *)
NotTakenBack == PolicyStays /\ TypedUrlKept /\ FeaturesInOrder
=============================================================================
