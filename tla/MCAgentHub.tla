----------------------------- MODULE MCAgentHub -----------------------------
(* The agent hub with small sets of connections, calls and versions.       *)
EXTENDS AgentHub, TLC

Symmetry == Permutations(Conn) \cup Permutations(Call)

(* Hellos and the passing of time touch the stored events, calls the       *)
(* waiter slots: the two are explored one without the other.               *)
HelloOrCall ==
    \/ \A r \in Call : callPC[r] = "new"
    \/ clock = 1 /\ lastVer = NoVersion /\ \A c \in Conn : hello[c].ver = NoVersion
=============================================================================
