---------------------------- MODULE EventSpool ----------------------------
(***************************************************************************)
(* The agent's lifecycle events: a file the agent appends to               *)
(* (agent/internal/agentevents), sent once per connection by               *)
(* flushAgentEvents and dropped from its front, by number, once the server *)
(* has acknowledged the batch. Writes to the file and to the server's      *)
(* table are taken to succeed.                                             *)
(***************************************************************************)
EXTENDS Naturals, Sequences

CONSTANTS
    Event,          \* the events
    Link,           \* the connections, each with one flush
    NoLink

ASSUME SpoolAssumption == NoLink \notin Link

VARIABLES
    file,           \* agent-events.jsonl
    link,           \* the open connection
    flush,          \* flush[l]: where the flush of connection l is
    batch,          \* batch[l]: the lines that flush read
    net,            \* net[l]: what is under way on connection l
    recorded,       \* the events in the server's table agent_events
    happened        \* history: the events there have been

spoolVars == <<file, link, flush, batch, net, recorded, happened>>

Lines(s) == {s[i] : i \in 1..Len(s)}

SpoolInit ==
    /\ file = <<>> /\ link = NoLink
    /\ flush = [l \in Link |-> "unused"]
    /\ batch = [l \in Link |-> <<>>]
    /\ net = [l \in Link |-> "idle"]
    /\ recorded = {} /\ happened = {}

AppendEvent(e) ==
    /\ e \notin happened
    /\ happened' = happened \cup {e}
    /\ file' = Append(file, e)
    /\ UNCHANGED <<link, flush, batch, net, recorded>>

(* Between two connections the agent waits a second or more, in which a    *)
(* flush that has its acknowledgement is taken to finish its Drop.         *)
Settled == \A l \in Link : flush[l] # "acked"

Dial(l) ==
    /\ link = NoLink /\ flush[l] = "unused"
    /\ Settled
    /\ link' = l
    /\ flush' = [flush EXCEPT ![l] = "begun"]
    /\ UNCHANGED <<file, batch, net, recorded, happened>>

Pending(l) ==
    /\ flush[l] = "begun"
    /\ flush' = [flush EXCEPT ![l] = IF file = <<>> THEN "done" ELSE "read"]
    /\ batch' = [batch EXCEPT ![l] = file]
    /\ UNCHANGED <<file, link, net, recorded, happened>>

(* The write fails on a connection that has been closed. *)
SendEvents(l) ==
    /\ flush[l] = "read"
    /\ \/ /\ link = l
          /\ flush' = [flush EXCEPT ![l] = "sent"]
          /\ net' = [net EXCEPT ![l] = "events"]
       \/ /\ link # l
          /\ flush' = [flush EXCEPT ![l] = "done"]
          /\ UNCHANGED net
    /\ UNCHANGED <<file, link, batch, recorded, happened>>

(* The hub inserts every line and then acknowledges the batch, be the      *)
(* connection still open or not.                                           *)
RecordEvents(l) ==
    /\ net[l] = "events"
    /\ recorded' = recorded \cup Lines(batch[l])
    /\ net' = [net EXCEPT ![l] = "ack"]
    /\ UNCHANGED <<file, link, flush, batch, happened>>

(* The server stops after n of the lines: no acknowledgement. *)
ServerStops(l, n) ==
    /\ net[l] = "events" /\ n \in 0..Len(batch[l])
    /\ recorded' = recorded \cup {batch[l][i] : i \in 1..n}
    /\ net' = [net EXCEPT ![l] = "idle"]
    /\ link' = NoLink
    /\ UNCHANGED <<file, flush, batch, happened>>

(* Only the reader of the open connection passes acknowledgements on. *)
EventsAck(l) ==
    /\ link = l /\ net[l] = "ack" /\ flush[l] = "sent"
    /\ net' = [net EXCEPT ![l] = "idle"]
    /\ flush' = [flush EXCEPT ![l] = "acked"]
    /\ UNCHANGED <<file, link, batch, recorded, happened>>

DropAll(l) ==                       \* bug: the file is removed with the batch
    /\ flush[l] = "acked"
    /\ file' = <<>>
    /\ flush' = [flush EXCEPT ![l] = "done"]
    /\ UNCHANGED <<link, batch, net, recorded, happened>>
DropEvents(l) ==
    /\ flush[l] = "acked"
    /\ file' = SubSeq(file, Len(batch[l]) + 1, Len(file))
    /\ flush' = [flush EXCEPT ![l] = "done"]
    /\ UNCHANGED <<link, batch, net, recorded, happened>>

AckTimeout(l) ==
    /\ flush[l] = "sent"
    /\ flush' = [flush EXCEPT ![l] = "done"]
    /\ UNCHANGED <<file, link, batch, net, recorded, happened>>

LinkBreaks ==
    /\ link # NoLink
    /\ link' = NoLink
    /\ UNCHANGED <<file, flush, batch, net, recorded, happened>>

AgentRestarts ==
    /\ link' = NoLink
    /\ flush' = [l \in Link |-> IF flush[l] = "unused" THEN "unused" ELSE "done"]
    /\ UNCHANGED <<file, batch, net, recorded, happened>>

SpoolNext ==
    \/ \E e \in Event : AppendEvent(e)
    \/ \E l \in Link : \/ Dial(l) \/ Pending(l) \/ SendEvents(l)
                       \/ RecordEvents(l) \/ EventsAck(l)
                       \/ DropEvents(l) \/ AckTimeout(l)
                       \/ \E n \in 0..Len(batch[l]) : ServerStops(l, n)
    \/ LinkBreaks \/ AgentRestarts

SpoolSpec == SpoolInit /\ [][SpoolNext]_spoolVars
-----------------------------------------------------------------------------
(* No event is lost: whatever breaks, restarts or is appended while a      *)
(* batch waits for its acknowledgement, Drop takes from the front of the   *)
(* file only what the server's table already holds.                        *)
EventKept == happened \subseteq Lines(file) \cup recorded
=============================================================================
