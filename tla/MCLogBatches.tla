--------------------------- MODULE MCLogBatches ---------------------------
(***************************************************************************)
(* The inputs on which TLC checks splitBatches, and what is checked of it. *)
(***************************************************************************)
EXTENDS LogBatches, FiniteSets

CONSTANTS
    Costs,          \* the costs a line may have: its length plus 32
    MaxLines        \* bound on the lines of one invocation

ASSUME InputAssumption == Costs \subseteq Nat \ {0} /\ MaxLines \in Nat

(* Collect hands splitBatches a sequence of lines: every sequence up to    *)
(* the bound is one state, and the next invocation starts anew.            *)
VARIABLE lines

BatchInit == lines = <<>>

Collects(c) ==
    /\ Len(lines) < MaxLines
    /\ lines' = Append(lines, [at |-> Len(lines) + 1, cost |-> c])

CollectsAnew ==
    /\ lines # <<>>
    /\ lines' = <<>>

BatchNext == CollectsAnew \/ \E c \in Costs : Collects(c)

BatchSpec == BatchInit /\ [][BatchNext]_lines

Out == splitBatches(lines)

Kept(bs) == UNION {{bs[b][i].at : i \in DOMAIN bs[b]} : b \in DOMAIN bs}
Verbatim(bs) == \A b \in DOMAIN bs : \A i \in DOMAIN bs[b] : bs[b][i] = lines[bs[b][i].at]
InOrder(bs) ==
    \A b, c \in DOMAIN bs : \A i \in DOMAIN bs[b], k \in DOMAIN bs[c] :
        b < c \/ (b = c /\ i < k) => bs[b][i].at < bs[c][k].at

(* Every collected line is either in exactly one batch, in its order, or   *)
(* counted as dropped: splitBatches loses and duplicates nothing.          *)
NothingVanishes ==
    LET out == Out
    IN  /\ Cardinality(Kept(out.batches)) + out.dropped = Len(lines)
        /\ Verbatim(out.batches) /\ InOrder(out.batches)

(* The agent never sends more than MaxBatches batches for one invocation   *)
(* and no batch is empty or longer than MaxLinesPerBatch.                  *)
BatchesCapped ==
    LET out == Out
    IN  /\ Len(out.batches) <= MaxBatches
        /\ \A i \in DOMAIN out.batches : Len(out.batches[i]) \in 1..MaxLinesPerBatch

Bytes(b) == LET sum[n \in 0..Len(b)] == IF n = 0 THEN 0 ELSE sum[n - 1] + b[n].cost
            IN  sum[Len(b)]

(* No batch exceeds MaxBytesPerBatch, unless it holds one line that alone  *)
(* is too long.                                                            *)
BytesCapped ==
    LET out == Out
    IN  \A i \in DOMAIN out.batches :
            Bytes(out.batches[i]) > MaxBytesPerBatch => Len(out.batches[i]) = 1

(* What splitBatches owes its callers: nothing lost or doubled without     *)
(* being counted, and batches within the limits of number, lines and       *)
(* bytes.                                                                  *)
BatchesSound == NothingVanishes /\ BatchesCapped /\ BytesCapped
=============================================================================
