--------------------------- MODULE MetricsStore ---------------------------
(***************************************************************************)
(* The server's metrics (server/internal/store/store.go, persist.go): a    *)
(* snapshot of the agent becomes a history point, whose rates cover the    *)
(* time since the snapshot before it, and then the new base of the rates.  *)
(* A snapshot is its time; a point is its time and its base. Add holds the *)
(* store's lock over both its writes to the database, which are taken to   *)
(* succeed, and the server may stop between them.                          *)
(***************************************************************************)
EXTENDS Integers, Sequences

CONSTANTS
    None,
    MaxRing,        \* NewMemoryStore's max
    PruneEvery,     \* writes between two prunings, 64
    Retention,      \* retentionDays
    MaxSnap         \* bound on the time

ASSUME MetricsAssumption ==
    /\ None \notin Int
    /\ MaxRing \in Nat \ {0, 1} /\ PruneEvery \in Nat \ {0}
    /\ Retention \in Nat /\ MaxSnap \in Nat

VARIABLES
    time,           \* the time
    posted,         \* snapshots the agent has posted and the server not seen
    prev,           \* MemoryStore.prev
    ring, history,  \* MemoryStore.ring and history, oldest first
    adding,         \* the snapshot Add is working on
    stage,          \* and what Add does next
    rows,           \* table metrics: the base of the point of each time
    lastSnap,       \* kv last_snapshot
    writes,         \* Persist.writes
    added           \* history: the snapshots Add has finished with, in order

metricVars == <<time, posted, prev, ring, history, adding, stage, rows,
                lastSnap, writes, added>>

MetricsInit ==
    /\ time = 0 /\ posted = {} /\ prev = None
    /\ ring = <<>> /\ history = <<>> /\ adding = None /\ stage = "idle"
    /\ rows = [t \in {} |-> None]
    /\ lastSnap = None /\ writes = 0 /\ added = <<>>

(* tickMetrics: at most one snapshot a second. A post may be slow, and     *)
(* arrive after the next one, or never.                                    *)
PostSnapshot ==
    /\ time < MaxSnap
    /\ time' = time + 1
    /\ posted' \in {posted, posted \cup {time + 1}}
    /\ UNCHANGED <<prev, ring, history, adding, stage, rows, lastSnap, writes, added>>

Newest(s) == IF Len(s) > MaxRing THEN SubSeq(s, Len(s) - MaxRing + 1, Len(s)) ELSE s

(* DeriveRates: no rates unless time has passed since the base. *)
Rated(t, base) == base # None /\ base < t

(* Add takes the lock and, if there is a base, derives the point. *)
AddDerivesSaving(t) ==              \* bug: the base is saved before the point
    /\ t \in posted /\ stage = "idle"
    /\ posted' = posted \ {t}
    /\ adding' = t /\ lastSnap' = t
    /\ stage' = IF prev = None THEN "save" ELSE "insert"
    /\ UNCHANGED <<time, prev, ring, history, rows, writes, added>>
AddDerives(t) ==
    /\ t \in posted /\ stage = "idle"
    /\ posted' = posted \ {t}
    /\ adding' = t
    /\ IF prev = None
       THEN stage' = "save" /\ UNCHANGED history
       ELSE /\ stage' = "insert"
            /\ history' = Newest(Append(history, [ts |-> t, base |-> prev]))
    /\ UNCHANGED <<time, prev, ring, rows, lastSnap, writes, added>>

Prune(r) == [t \in {u \in DOMAIN r : u >= time - Retention} |-> r[t]]

InsertHistory ==
    /\ stage = "insert"
    /\ LET r == [t \in DOMAIN rows \cup {adding} |-> IF t = adding THEN prev ELSE rows[t]]
       IN  rows' = IF (writes + 1) % PruneEvery = 0 THEN Prune(r) ELSE r
    /\ writes' = writes + 1
    /\ stage' = "save"
    /\ UNCHANGED <<time, posted, prev, ring, history, adding, lastSnap, added>>

(* The rest of Add: the snapshot becomes the base, in memory and on disk. *)
SaveSnapshot ==
    /\ stage = "save"
    /\ ring' = Newest(Append(ring, adding))
    /\ prev' = adding /\ lastSnap' = adding
    /\ added' = Append(added, adding)
    /\ adding' = None /\ stage' = "idle"
    /\ UNCHANGED <<time, posted, history, rows, writes>>

(* OpenPersist prunes, and AttachPersist takes the last snapshot as base. *)
ServerRestarts ==
    /\ rows' = Prune(rows)
    /\ prev' = lastSnap
    /\ ring' = IF lastSnap = None THEN <<>> ELSE <<lastSnap>>
    /\ history' = <<>> /\ writes' = 0
    /\ adding' = None /\ stage' = "idle"
    /\ UNCHANGED <<time, posted, lastSnap, added>>

MetricsNext ==
    \/ PostSnapshot \/ InsertHistory \/ SaveSnapshot \/ ServerRestarts
    \/ \E t \in posted : AddDerives(t)

MetricsSpec == MetricsInit /\ [][MetricsNext]_metricVars
-----------------------------------------------------------------------------
(* A moment is covered when a stored point's rates extend over it. *)
Covered(m) == \E t \in DOMAIN rows : Rated(t, rows[t]) /\ rows[t] < m /\ m <= t

(* The charts have no hole: every moment between the first snapshot and    *)
(* any later one that is within the retention lies in the interval of some *)
(* stored point, whatever order the posts arrived in and wherever in Add   *)
(* the server was restarted.                                               *)
NoGap == \A i \in DOMAIN added : \A m \in (added[1] + 1)..added[i] :
             m >= time - Retention => Covered(m)
=============================================================================
