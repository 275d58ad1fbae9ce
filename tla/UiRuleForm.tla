---------------------------- MODULE UiRuleForm ----------------------------
(***************************************************************************)
(* The form of a new rule (AddRuleSheet in ui/src/tabs/RulesTab.tsx): one  *)
(* form and the screens that choose the kind of match, the target and the  *)
(* devices the rule is for.  A target is known by the kind of value it is. *)
(***************************************************************************)
EXTENDS Naturals

CONSTANT MaxSent     \* bound: rules sent from the form

VARIABLE rf          \* the fields of the form, its screen, and the last request

ruleFormVars == rf

MATCH_KINDS == {"dns", "country", "category", "app", "device", "soon"}
MATCH_READY == {"dns", "country", "category", "device"}
CREATE_ACTIONS == {"allow", "block", "timelimit"}

directionOf(a) == IF a = "allow" THEN "outbound" ELSE "bidirection"

(* Kinds of match with a screen of their own, and the value a kind starts  *)
(* with: a category is always chosen, an app only when the box sent some.  *)
HasScreen == {"country", "device"}
firstTarget(m) == IF m = "category" \/ (m = "app" /\ rf.apps) THEN m ELSE "none"

RuleFormInit ==
    \E apps \in BOOLEAN, custom \in {"", "mac"} :
      rf = [action |-> "allow", direction |-> "outbound", match |-> "dns", target |-> "none",
            on |-> "all", custom |-> custom, screen |-> "form", apps |-> apps,
            sent |-> 0, last |-> [match |-> "none", target |-> "none", on |-> "none"]]

(* Everything but the action is disabled for an action that cannot be      *)
(* created yet.                                                            *)
ready == rf.action # "timelimit"

(* Choosing another action also sets the direction that action starts with. *)
onAction(a) ==
    /\ rf.screen = "form" /\ a # rf.action
    /\ rf' = [rf EXCEPT !.action = a, !.direction = directionOf(a)]

setDirection(d) == rf.screen = "form" /\ ready /\ rf' = [rf EXCEPT !.direction = d]

setScreen(c) == rf.screen = "form" /\ ready /\ rf' = [rf EXCEPT !.screen = c]
backToForm   == rf.screen # "form" /\ rf' = [rf EXCEPT !.screen = "form"]

pickMatchKeeps(m) ==                                  \* bug: the old target survives
    /\ rf.screen = "match"
    /\ rf' = [rf EXCEPT !.match = m, !.screen = IF m \in HasScreen THEN m ELSE "form"]
pickMatch(m) ==
    /\ rf.screen = "match"
    /\ rf' = [rf EXCEPT !.match = m, !.target = firstTarget(m),
                        !.screen = IF m \in HasScreen THEN m ELSE "form"]

(* Typing a target, going back to the screen that chooses it, choosing.    *)
typeTarget(x) == /\ rf.screen = "form" /\ ready /\ rf.match = "dns"
                 /\ rf' = [rf EXCEPT !.target = x]
openTarget == /\ rf.screen = "form" /\ ready /\ rf.match \in HasScreen
              /\ rf' = [rf EXCEPT !.screen = rf.match]
chooseTarget == /\ rf.screen \in HasScreen
                /\ rf' = [rf EXCEPT !.target = rf.screen, !.screen = "form"]

pickOn(o) == rf.screen = "on" /\ rf' = [rf EXCEPT !.on = o, !.screen = "form"]
setCustomMac(x) == rf.screen = "form" /\ ready /\ rf.on = "custom" /\ rf' = [rf EXCEPT !.custom = x]

(* The devices a request is for: every device, a group, a device, or the   *)
(* address typed by hand.                                                  *)
scopeValue == IF rf.on = "custom" THEN rf.custom ELSE rf.on

canSubmitAny == rf.action \in {"allow", "block"} /\ rf.match \in MATCH_READY /\ rf.target # "none"
                                                      \* bug: an empty address is sent
canSubmit == /\ rf.action \in {"allow", "block"} /\ rf.match \in MATCH_READY
             /\ rf.target # "none" /\ scopeValue # ""

submitForm ==
    /\ rf.screen = "form" /\ canSubmit /\ rf.sent < MaxSent
    /\ rf' = [rf EXCEPT !.sent = @ + 1,
                        !.last = [match |-> rf.match, target |-> rf.target, on |-> scopeValue]]

RuleFormNext ==
    \/ \E a \in CREATE_ACTIONS : onAction(a)
    \/ \E d \in {"outbound", "inbound", "bidirection"} : setDirection(d)
    \/ \E c \in {"match", "on"} : setScreen(c)
    \/ \E m \in MATCH_KINDS : pickMatch(m)
    \/ \E x \in {"none", "dns"} : typeTarget(x)
    \/ \E o \in {"all", "tag", "device", "custom"} : pickOn(o)
    \/ \E x \in {"", "mac"} : setCustomMac(x)
    \/ backToForm \/ openTarget \/ chooseTarget \/ submitForm

RuleFormSpec == RuleFormInit /\ [][RuleFormNext]_ruleFormVars

(* What is sent as the target fits the kind of match it is sent for,       *)
(* whatever was chosen before on any screen (pickMatch,                    *)
(* RulesTab.tsx:1499): a country code never becomes a domain to block.     *)
RuleTargetFits == rf.last.target = rf.last.match

(* A rule for an address typed by hand is never sent without the address,  *)
(* whichever screens were visited and emptied (canSubmit, RulesTab.tsx:1439). *)
RuleScopeMeant == rf.last.on # ""

(* A rule is sent with a target of the kind it names and for the devices   *)
(* that were meant, whichever screens were visited before.                 *)
RuleAsMeant == RuleTargetFits /\ RuleScopeMeant
===========================================================================
