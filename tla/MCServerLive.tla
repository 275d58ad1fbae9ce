----------------------------- MODULE MCServerLive -----------------------------
(***************************************************************************)
(* Small instances of the control service, the agent hub and the agent's   *)
(* log shipping, for what must eventually happen in them. They share no    *)
(* variable, so focus, chosen at the start, says which one moves.          *)
(***************************************************************************)
EXTENDS LogShipping

CONSTANTS Request, Creds,   \* two requests to the control service, one box
          Conn, Call,       \* a connection of the hub, two calls on it
          None              \* no box, snapshot, flight, call, ...

(* The control service. *)
VARIABLES vault, kvRules, kvObs, pairGeneration, rules, overlay, obs, features, state,
          lastPingOK, flight, cold, req, box, fwClock, epoch, stateEpoch
fwVars == <<vault, kvRules, kvObs, pairGeneration, rules, overlay, obs, features,
            state, lastPingOK, flight, cold, req, box, fwClock, epoch, stateEpoch>>
Fw == INSTANCE FwAppService WITH
        NoCreds <- None, NoSnap <- None, NoKey <- None, BlankRules <- {}, BlankObs <- {},
        TTL <- 1, MaxAge <- 1, StoreFaults <- FALSE, MaxEpoch <- 1, MaxVersion <- 0,
        MaxClock <- 0, clock <- fwClock

(* The agent hub. *)
VARIABLES hubConn, online, sock, pc, replyTo, hello, asked, inbox, wait, chan, callPC,
          callKind, result, lastVer, offlineTS, rows, clock, lastUp
hubVars == <<hubConn, online, sock, pc, replyTo, hello, asked, inbox, wait, chan, callPC,
             callKind, result, lastVer, offlineTS, rows, clock, lastUp>>
Hub == INSTANCE AgentHub WITH
        Version <- {}, Package <- None, NoVersion <- None, NoConn <- None, NoCall <- None,
        GapMin <- 2, MaxClock <- 1, conn <- hubConn

VARIABLE focus

MCVars == <<fwVars, hubVars, vars, focus>>

MCInit ==
    /\ focus \in {"control", "hub", "shipping"}
    /\ Fw!Init /\ Hub!Init /\ Init
    /\ focus # "hub" => offlineTS = 0

MCNext ==
    /\ UNCHANGED focus
    /\ \/ focus = "control" /\ Fw!Next /\ UNCHANGED <<hubVars, vars>>
       \/ focus = "hub" /\ Hub!Next /\ UNCHANGED <<fwVars, vars>>
       \/ focus = "shipping" /\ Next /\ UNCHANGED <<fwVars, hubVars>>

(* The agent reconnects for ever, syncs every hour, its goroutines and the *)
(* server's run on, and a connection carries what is written to it.        *)
ShippingFair ==
    /\ WF_vars(focus = "shipping" /\ Connects)
    /\ WF_vars(focus = "shipping" /\ Server)
    /\ WF_vars(focus = "shipping" /\ AckReads)
    /\ WF_vars(focus = "shipping" /\ HourlySync)
    /\ WF_vars(focus = "shipping" /\ SyncStep)

(* A service without requests and a hub without calls ask for nothing. *)
MCSpec == MCInit /\ [][MCNext]_MCVars /\ Fw!Fair /\ Hub!Fair /\ ShippingFair

-----------------------------------------------------------------------------
(* Every request to the control service that begins ends.                  *)
RequestsEnd == Fw!RequestsEnd
(* Every fetch and every catalog request of the hub returns, although the  *)
(* agent may never answer.                                                 *)
CallsReturn == Hub!CallsReturn
=============================================================================
