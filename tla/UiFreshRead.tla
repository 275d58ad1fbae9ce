----------------------------- MODULE UiFreshRead -----------------------------
(***************************************************************************)
(* What the page promises about the history it shows: a value appears only *)
(* as the result of a read that is still wanted, and it is one the server  *)
(* had at some moment between the start of that read and its display, for  *)
(* the chart range the read asked for.  Reads overlap and may be dropped.  *)
(***************************************************************************)
EXTENDS Naturals

CONSTANT Reader     \* the reads that can be in flight

VARIABLES
    now,            \* the version of the data at the server
    pend,           \* pend[r]: what reader r waits for
    shown           \* the history on the page

NoRead == [range |-> "none", since |-> 0]

FreshInit == /\ pend = [r \in Reader |-> NoRead]
             /\ shown.ver = 0

Change == now' = now + 1 /\ UNCHANGED <<pend, shown>>

(* Reads begin at the current version; others are dropped or go on. *)
BeginOrDrop == /\ DOMAIN pend' = Reader
               /\ \A r \in Reader : \/ pend'[r] = pend[r]
                                    \/ pend'[r] = NoRead
                                    \/ pend[r] = NoRead /\ pend'[r].since = now
               /\ UNCHANGED <<now, shown>>

Show == /\ \E r \in Reader : /\ pend[r] # NoRead
                             /\ shown'.range = pend[r].range
                             /\ shown'.ver \in pend[r].since .. now
        /\ UNCHANGED <<now, pend>>

FreshSpec == FreshInit /\ [][Change \/ BeginOrDrop \/ Show]_<<now, pend, shown>>
=============================================================================
