---------------------------- MODULE MCLogShipping ----------------------------
(* Small instances of LogShipping for TLC. *)
EXTENDS LogShipping, TLC

\* Runs of the follow are interchangeable.
Symmetry == Permutations(Run)

\* No action reads the history, nor what the lines of a batch are once it is
\* sent; ActiveRuns is about neither.
FollowView ==
    LET Id(m) == IF m = NoMsg THEN NoMsg ELSE m.id
    IN  <<size, cursor, conn, link, [i \in DOMAIN up |-> up[i].id], down,
          [k \in DOMAIN hand |-> Id(hand[k])], acks, got, syncPC, syncConn, Len(found),
          [i \in DOMAIN todo |-> todo[i].id], pend, follow, runPC, stop,
          [r \in Run |-> buf[r] = {}], seq, aclOff, hasACL>>
=============================================================================
