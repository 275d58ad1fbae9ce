-------------------------- MODULE MCFwAppService --------------------------
(***************************************************************************)
(* Small instances of FwAppService for TLC.                                *)
(***************************************************************************)
EXTENDS FwAppService, TLC

\* Requests are interchangeable, and so are boxes.
Symmetry == Permutations(Request) \cup Permutations(Creds)

\* No action reads the status variables, so they need not tell states apart
\* where no property is about them.
CoreView == <<kv, pairGeneration, caches, flight, cold, req, box, clock,
              epoch>>

\* Three credential changes without time, two within one tick, or one in two.
Horizon == epoch + clock <= 3
=============================================================================
