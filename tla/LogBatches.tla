----------------------------- MODULE LogBatches -----------------------------
(***************************************************************************)
(* splitBatches of agent/internal/svclogs/collect.go: one pass that packs  *)
(* log lines into at most MaxBatches batches, bounded in lines and bytes,  *)
(* and counts what does not fit. A line is a record with a field cost.     *)
(***************************************************************************)
EXTENDS Naturals, Sequences, SequencesExt

CONSTANTS
    MaxLinesPerBatch, MaxBytesPerBatch, MaxBatches

ASSUME BatchAssumption ==
    /\ MaxLinesPerBatch \in Nat \ {0} /\ MaxBytesPerBatch \in Nat \ {0}
    /\ MaxBatches \in Nat \ {0}

Packing == [batches |-> <<>>, cur |-> <<>>, bytes |-> 0, dropped |-> 0]

Flush(p) == IF p.cur = <<>> THEN p
            ELSE [p EXCEPT !.batches = Append(@, p.cur), !.cur = <<>>, !.bytes = 0]
Put(p, ln) == [p EXCEPT !.cur = Append(@, ln), !.bytes = @ + ln.cost]
Drop(p) == [p EXCEPT !.dropped = @ + 1]

(* The current batch cannot take the line; the first of the two tests of   *)
(* the loop lets an empty batch take anything, the second does not.        *)
Full(p, ln) == \/ Len(p.cur) >= MaxLinesPerBatch
               \/ p.cur # <<>> /\ p.bytes + ln.cost > MaxBytesPerBatch
Over(p, ln) == \/ Len(p.cur) >= MaxLinesPerBatch
               \/ p.bytes + ln.cost > MaxBytesPerBatch

LastBatch(p) == Len(p.batches) + 1 >= MaxBatches

PackLineUncapped(p, ln) ==          \* bug: a full last batch is flushed too
    Put(IF Full(p, ln) THEN Flush(p) ELSE p, ln)
PackLineUncounted(p, ln) ==         \* bug: a full last batch loses the line
    IF Full(p, ln) /\ LastBatch(p) THEN p
    ELSE Put(IF Full(p, ln) THEN Flush(p) ELSE p, ln)
PackLineUnmetered(p, ln) ==         \* bug: only lines are counted
    IF Len(p.cur) < MaxLinesPerBatch THEN Put(p, ln)
    ELSE IF LastBatch(p) THEN Drop(p) ELSE Put(Flush(p), ln)
PackLine(p, ln) ==
    IF Full(p, ln) /\ LastBatch(p) THEN Drop(p)
    ELSE LET q == IF Full(p, ln) THEN Flush(p) ELSE p
         IN  IF Len(q.batches) >= MaxBatches THEN Drop(q)
             ELSE IF Over(q, ln) /\ LastBatch(q) THEN Drop(q)
             ELSE Put(IF Over(q, ln) THEN Flush(q) ELSE q, ln)

(* What is still open at the end is flushed, or dropped with its lines. *)
Finish(p) == IF Len(p.batches) < MaxBatches THEN Flush(p)
             ELSE [p EXCEPT !.dropped = @ + Len(p.cur)]

(* The loop: its state after each number of lines. *)
packed(ls) ==
    LET p[n \in 0..Len(ls)] == IF n = 0 THEN Packing ELSE PackLine(p[n - 1], ls[n])
    IN  p

splitBatches(ls) == Finish(packed(ls)[Len(ls)])
=============================================================================
