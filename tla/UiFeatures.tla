----------------------------- MODULE UiFeatures -----------------------------
(***************************************************************************)
(* The Features & DNS page (ui/src/tabs/FeaturesDNSSettings.tsx): one read *)
(* when it is opened, and switches that write a feature of the box and     *)
(* show what the box answers.                                              *)
(***************************************************************************)
EXTENDS Naturals

CONSTANTS
    Feature,
    FTask,         \* bound: requests in flight together
    MaxFVisits,    \* bound: visits to the page
    MaxFChanges    \* bound: changes of the features

VARIABLES
    fBox,          \* what the server has of the box: [ver, on]; ver is history, counting the changes
    fv,            \* FeaturesDNSSettingsPage
    fq             \* the requests

featureVars == <<fBox, fv, fq>>

FIdle == [pc |-> "idle", op |-> "none", inst |-> 0, put |-> "none", to |-> FALSE,
          ok |-> FALSE, said |-> FALSE, lan |-> FALSE, got |-> [ver |-> 0, on |-> {}]]
FFree(t) == fq[t].pc = "idle"
FRequest(op, inst, f, to) == [FIdle EXCEPT !.pc = "sent", !.op = op, !.inst = inst, !.put = f, !.to = to]
freshView(open, inst) ==
    [open |-> open, inst |-> inst, ver |-> 0, on |-> {}, writable |-> FALSE, lan |-> FALSE, loading |-> open, busy |-> FALSE]

-----------------------------------------------------------------------------
(* Another window, or the box itself, changes a feature. *)
BoxChanges ==
    /\ fBox.ver < MaxFChanges
    /\ \E f \in Feature :
          fBox' = [ver |-> fBox.ver + 1, on |-> IF f \in fBox.on THEN fBox.on \ {f} ELSE fBox.on \cup {f}]
    /\ UNCHANGED <<fv, fq>>

(* An answer has the features and the LAN's state, and they are writable   *)
(* while the LAN is up; a refusal may have that state, or be lost; a write *)
(* may have been carried out although it is refused.                       *)
ServeFeatures(t) ==
    /\ fq[t].pc = "sent"
    /\ \E done, ok, said, lan \in BOOLEAN :
          /\ ok => done /\ said
          /\ lan => said
          /\ LET wr == done /\ fq[t].op = "toggle" IN
             /\ wr => fBox.ver < MaxFChanges
             /\ fBox' = IF ~wr THEN fBox
                        ELSE [ver |-> fBox.ver + 1,
                              on |-> IF fq[t].to THEN fBox.on \cup {fq[t].put} ELSE fBox.on \ {fq[t].put}]
          /\ fq' = [fq EXCEPT ![t] = [fq[t] EXCEPT !.pc = "back", !.ok = ok, !.said = said, !.lan = lan,
                                                   !.got = IF ok THEN fBox' ELSE fq[t].got]]
    /\ UNCHANGED fv

-----------------------------------------------------------------------------
openFeatures(t) ==
    /\ ~fv.open /\ fv.inst < MaxFVisits /\ FFree(t)
    /\ fv' = freshView(TRUE, fv.inst + 1)
    /\ fq' = [fq EXCEPT ![t] = FRequest("load", fv.inst + 1, "none", FALSE)] /\ UNCHANGED fBox
closeFeatures == fv.open /\ fv' = freshView(FALSE, fv.inst) /\ UNCHANGED <<fBox, fq>>

(* What both answers do with the view: a refusal that says so replaces the *)
(* LAN's state and keeps the features; the flag of the call is released.   *)
normalizeFeaturesView(m, q) ==
    LET n == IF q.said THEN [m EXCEPT !.lan = q.lan] ELSE m
    IN IF q.ok THEN [n EXCEPT !.ver = q.got.ver, !.on = q.got.on, !.writable = q.lan] ELSE n
FAnswer(t, op, m) ==
    /\ fq[t].pc = "back" /\ fq[t].op = op
    /\ fv' = IF fv.open /\ fq[t].inst = fv.inst THEN m ELSE fv
    /\ fq' = [fq EXCEPT ![t] = FIdle] /\ UNCHANGED fBox
loadFeatures(t) == FAnswer(t, "load", [normalizeFeaturesView(fv, fq[t]) EXCEPT !.loading = FALSE])

mayToggleBusy(m) == m.open /\ m.lan /\ m.writable                        \* bug: busy is not asked
mayToggle(m) == m.open /\ ~m.busy /\ m.lan /\ m.writable
toggleFeature(t, f) ==
    /\ mayToggle(fv) /\ FFree(t)
    /\ fv' = [fv EXCEPT !.busy = TRUE]
    /\ fq' = [fq EXCEPT ![t] = FRequest("toggle", fv.inst, f, f \notin fv.on)] /\ UNCHANGED fBox
savedStuck(t) == FAnswer(t, "toggle", [normalizeFeaturesView(fv, fq[t]) EXCEPT !.busy = ~fq[t].ok]) \* bug: busy outlives a refusal
saved(t) == FAnswer(t, "toggle", [normalizeFeaturesView(fv, fq[t]) EXCEPT !.busy = FALSE])

-----------------------------------------------------------------------------
FeaturesInit ==
    /\ \E s \in SUBSET Feature : fBox = [ver |-> 0, on |-> s]
    /\ fv = freshView(FALSE, 0) /\ fq = [t \in FTask |-> FIdle]
FeaturesNext ==
    \/ BoxChanges \/ closeFeatures
    \/ \E t \in FTask :
          ServeFeatures(t) \/ openFeatures(t) \/ loadFeatures(t) \/ saved(t) \/ \E f \in Feature : toggleFeature(t, f)
FeaturesSpec == FeaturesInit /\ [][FeaturesNext]_featureVars

-----------------------------------------------------------------------------
(* The page's lock belongs to exactly one write of this visit: a refused,  *)
(* lost or late answer neither leaves it locked nor frees another's write. *)
FeatureLockOwned ==
    fv.open => (fv.busy <=> \E t \in FTask : fq[t].pc # "idle" /\ fq[t].op = "toggle" /\ fq[t].inst = fv.inst)

(* The switches never go back to an older state of the box: the read of    *)
(* the opening and the answers of the writes arrive in the order the box   *)
(* gave them.                                                              *)
FeaturesInOrder == [][fv'.inst = fv.inst /\ fv'.open => fv'.ver >= fv.ver]_featureVars
=============================================================================
