------------------------------ MODULE MCParts ------------------------------
(***************************************************************************)
(* Parts of the system that share no variable, so that one run explores    *)
(* each alone: focus, chosen at the start, says which one moves.           *)
(* The sessions are explored twice, with requests and without OIDC, and    *)
(* with OIDC over a shorter time and without requests.                     *)
(***************************************************************************)
EXTENDS Sessions, Enrolment, RateLimit, MCLogBatches, EventSpool,
        MetricsStore, SwitchPoller, TLC

CONSTANT MaxOIDCTime    \* bound on the clock of the OIDC part

VARIABLE focus

MCVars == <<sessVars, enrVars, rateVars, lines, spoolVars, metricVars, pollVars, focus>>

MCInit ==
    /\ focus \in {"requests", "oidc", "enrol", "rate", "batches",
                   "events", "metrics", "switches"}
    /\ SessInit /\ EnrInit /\ RateInit /\ BatchInit
    /\ SpoolInit /\ MetricsInit /\ PollInit
    /\ focus # "oidc" => settings = "off"

(* Only the given part may change. *)
Others(part) ==
    /\ part # "sessions" => UNCHANGED sessVars
    /\ part # "enrol" => UNCHANGED enrVars
    /\ part # "rate" => UNCHANGED rateVars
    /\ part # "batches" => UNCHANGED lines
    /\ part # "events" => UNCHANGED spoolVars
    /\ part # "metrics" => UNCHANGED metricVars
    /\ part # "switches" => UNCHANGED pollVars

MCNext ==
    /\ UNCHANGED focus
    /\ \/ /\ focus = "requests" /\ SessNext
          /\ start' = start /\ settings' = settings /\ Others("sessions")
       \/ /\ focus = "oidc" /\ SessNext
          /\ req' = req /\ now' <= MaxOIDCTime /\ Others("sessions")
       \/ focus = "enrol" /\ EnrNext /\ Others(focus)
       \/ focus = "rate" /\ RateNext /\ Others(focus)
       \/ focus = "batches" /\ BatchNext /\ Others(focus)
       \/ focus = "events" /\ SpoolNext /\ Others(focus)
       \/ focus = "metrics" /\ MetricsNext /\ Others(focus)
       \/ focus = "switches" /\ PollNext /\ Others(focus)

MCSpec == MCInit /\ [][MCNext]_MCVars

Symmetry == UNION {Permutations(S) : S \in {Session, Request, Callback, Password}}
=============================================================================
