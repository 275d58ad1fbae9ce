--------------------------- MODULE AgentHubProofs ---------------------------
(***************************************************************************)
(* The hub is well typed, its presence flag is true to its connections,    *)
(* and no waiter slot is ever left behind, for any number of connections,  *)
(* calls and versions.                                                     *)
(***************************************************************************)
EXTENDS AgentHub, TLAPS

(* History times never lie ahead of the clock. *)
Dated == /\ lastUp <= clock
         /\ \A c \in Conn : hello[c].prev <= clock

(* The channel of a call that has not registered yet is still empty. *)
FreshChan == \A r \in Call : callPC[r] \in {"new", "checked"} => chan[r] = Empty

TypeInv == TypeOK /\ Dated
SlotInv == NoWedgedSlot /\ FreshChan
-----------------------------------------------------------------------------
(* The rows a hello plans are well-formed events. *)
LEMMA PlanType ==
    ASSUME NEW last \in Version \cup {NoVersion}, NEW off \in 0..MaxClock,
           NEW ver \in Version \cup {NoVersion}, NEW now \in Times
    PROVE  DecideHelloEvents(last, off, ver, now) \in Seq(Events)
<1> DEFINE changed == last # NoVersion /\ ver # NoVersion /\ ver # last
           up == <<[kind |-> "updated", from |-> last, to |-> ver]>>
           dn == <<[kind |-> "offline", from |-> NoVersion, to |-> NoVersion]>>
           rs == <<[kind |-> "restarted", from |-> NoVersion, to |-> NoVersion]>>
           upd == IF changed THEN up ELSE <<>>
<1>1. up \in Seq(Events) /\ dn \in Seq(Events) /\ rs \in Seq(Events)
      /\ <<>> \in Seq(Events)
  BY DEF Events
<1>2. upd \in Seq(Events)
  BY <1>1
<1>3. dn \o (CASE last = NoVersion -> <<>> [] changed -> upd [] OTHER -> rs) \in Seq(Events)
  <2>1. CASE last = NoVersion
    BY <1>1, <2>1
  <2>2. CASE last # NoVersion /\ changed
    BY <1>1, <1>2, <2>2
  <2>3. CASE last # NoVersion /\ ~changed
    BY <1>1, <2>3
  <2> QED  BY <2>1, <2>2, <2>3
<1> QED  BY <1>2, <1>3 DEF DecideHelloEvents

(* The updates of a hello record keep it well typed and leave prev alone. *)
LEMMA HelloSaid ==
    ASSUME NEW h \in Hellos, NEW v \in Version, NEW b \in BOOLEAN
    PROVE  /\ [h EXCEPT !.ver = v, !.self = b] \in Hellos
           /\ [h EXCEPT !.ver = v, !.self = b].prev = h.prev
  BY DEF Hellos

LEMMA HelloLast ==
    ASSUME NEW h \in Hellos, NEW v \in Version \cup {NoVersion}
    PROVE  [h EXCEPT !.last = v] \in Hellos /\ [h EXCEPT !.last = v].prev = h.prev
  BY DEF Hellos

LEMMA HelloPlanned ==
    ASSUME NEW h \in Hellos, NEW g \in 0..MaxClock, NEW q \in Seq(Events)
    PROVE  /\ [h EXCEPT !.gap = g, !.plan = q] \in Hellos
           /\ [h EXCEPT !.gap = g, !.plan = q].prev = h.prev
  BY DEF Hellos

LEMMA HelloPlan ==
    ASSUME NEW h \in Hellos, NEW q \in Seq(Events)
    PROVE  [h EXCEPT !.plan = q] \in Hellos /\ [h EXCEPT !.plan = q].prev = h.prev
  BY DEF Hellos

LEMMA NoHelloType ==
    /\ NoHello \in Hellos /\ NoHello.prev = 1
    /\ \A t \in Times : [NoHello EXCEPT !.prev = t] \in Hellos
                        /\ [NoHello EXCEPT !.prev = t].prev = t
<1>1. NoHello \in Hellos /\ NoHello.prev = 1
  BY HubAssumption DEF NoHello, Hellos, Times
<1> QED  BY <1>1 DEF Hellos
-----------------------------------------------------------------------------
(* Type correctness. *)
LEMMA TypeInit == Init => TypeInv
<1> SUFFICES ASSUME Init PROVE TypeInv
  OBVIOUS
<1> USE HubAssumption DEF Init
<1>1. hello \in [Conn -> Hellos] /\ \A c \in Conn : hello[c].prev <= clock
  BY NoHelloType
<1>2. clock \in Times /\ lastUp \in Times /\ offlineTS \in 0..MaxClock
  BY DEF Times
<1>3. rows \in Seq(Rows)
  OBVIOUS
<1>4. /\ pc \in [Conn -> Serving \cup Closing \cup {"new", "closed"}]
      /\ replyTo \in [Conn -> Kind] /\ wait \in [Kind -> Call \cup {NoCall}]
      /\ callKind \in [Call -> Kind]
  BY DEF Kind
<1>5. /\ chan \in [Call -> Statuses \cup {Empty}]
      /\ callPC \in [Call -> {"new", "checked", "returned"} \cup InFlight]
      /\ result \in [Call -> Statuses \cup {Empty, "busy", "timeout"}]
  OBVIOUS
<1>6. /\ conn \in Conn \cup {NoConn} /\ online \in BOOLEAN /\ sock \in [Conn -> BOOLEAN]
      /\ asked \in [Conn -> SUBSET (Kind \cup {"update"})] /\ inbox \in [Conn -> SUBSET Kind]
      /\ lastVer \in Version \cup {NoVersion}
  OBVIOUS
<1>7. TypeOK
  BY <1>1, <1>2, <1>3, <1>4, <1>5, <1>6 DEF TypeOK
<1>8. Dated
  BY <1>1 DEF Dated
<1> QED
  BY <1>7, <1>8 DEF TypeInv

LEMMA TypeStep == TypeInv /\ [Next]_vars => TypeInv'
<1> SUFFICES ASSUME TypeOK, Dated, [Next]_vars PROVE TypeOK' /\ Dated'
  BY DEF TypeInv
<1> USE HubAssumption DEF TypeOK, hub, handlers, wire, waiters, stored, calls
<1>1. ASSUME NEW c \in Conn, ServeWS(c) PROVE TypeOK' /\ Dated'
  <2> DEFINE t == IF conn = NoConn THEN lastUp ELSE clock
  <2>1. t \in Times /\ t <= clock
    BY DEF Dated, Times
  <2>2. hello' = [hello EXCEPT ![c] = [NoHello EXCEPT !.prev = t]]
    BY <1>1 DEF ServeWS, SetHello
  <2>3. [NoHello EXCEPT !.prev = t] \in Hellos /\ [NoHello EXCEPT !.prev = t].prev = t
    BY <2>1, NoHelloType
  <2> HIDE DEF t
  <2>4. hello' \in [Conn -> Hellos] /\ \A x \in Conn : hello'[x].prev <= clock
    BY <2>1, <2>2, <2>3 DEF Dated
  <2> QED  BY <1>1, <2>4 DEF ServeWS, Dated, Goto, Serving, Closing, HelloPC
<1>2. ASSUME NEW c \in Conn, Breaks(c) PROVE TypeOK' /\ Dated'
  BY <1>2 DEF Breaks, Dated
<1>3. ASSUME NEW c \in Conn, Teardown(c) PROVE TypeOK' /\ Dated'
  <2>1. CASE conn = c
    <3>1. TypeOK'
      BY <1>3, <2>1 DEF Teardown, Goto, Serving, Closing, HelloPC
    <3>2. Dated'
      BY <1>3, <2>1 DEF Teardown, Dated, Times
    <3> QED  BY <3>1, <3>2
  <2>2. CASE conn # c
    BY <1>3, <2>2 DEF Teardown, Dated, Goto, Serving, Closing, HelloPC
  <2> QED  BY <2>1, <2>2
<1>4. ASSUME NEW c \in Conn, StampOffline(c) PROVE TypeOK' /\ Dated'
  BY <1>4 DEF StampOffline, Dated, Goto, Serving, Closing, HelloPC, Times
<1>5. ASSUME NEW c \in Conn, FailFetch(c) PROVE TypeOK' /\ Dated'
  BY <1>5 DEF FailFetch, Dated, Goto, Serving, Closing, HelloPC, Complete, Kind, Statuses
<1>6. ASSUME NEW c \in Conn, FailCatalog(c) PROVE TypeOK' /\ Dated'
  BY <1>6 DEF FailCatalog, Dated, Goto, Serving, Closing, HelloPC, Complete, Kind, Statuses
<1>7. ASSUME NEW c \in Conn, CompletesReply(c) PROVE TypeOK' /\ Dated'
  BY <1>7 DEF CompletesReply, Dated, Goto, Serving, Closing, HelloPC, Complete, Kind, Statuses
<1>8. ASSUME NEW c \in Conn, ReadsReply(c) PROVE TypeOK' /\ Dated'
  BY <1>8 DEF ReadsReply, Dated, Goto, Serving, Closing, HelloPC
<1>9. ASSUME NEW c \in Conn, AgentReplies(c) PROVE TypeOK' /\ Dated'
  BY <1>9 DEF AgentReplies, Dated, Kind
<1>10. ASSUME NEW c \in Conn, AgentUpdates(c) PROVE TypeOK' /\ Dated'
  BY <1>10 DEF AgentUpdates, Dated, Kind
<1>11. ASSUME NEW c \in Conn, AgentSyncs(c) PROVE TypeOK' /\ Dated'
  BY <1>11 DEF AgentSyncs, Dated, Kind
<1>12. ASSUME NEW c \in Conn, NEW v \in Version, NEW b \in BOOLEAN, OnHello(c, v, b) PROVE TypeOK' /\ Dated'
  <2>1. [hello[c] EXCEPT !.ver = v, !.self = b] \in Hellos /\ [hello[c] EXCEPT !.ver = v, !.self = b].prev = hello[c].prev
    BY HelloSaid
  <2>2. hello' = [hello EXCEPT ![c] = [hello[c] EXCEPT !.ver = v, !.self = b]]
    BY <1>12 DEF OnHello, SetHello
  <2>3. hello' \in [Conn -> Hellos] /\ \A x \in Conn : hello'[x].prev <= clock
    BY <2>1, <2>2 DEF Dated
  <2> QED  BY <1>12, <2>3 DEF OnHello, Dated, Goto, Serving, Closing, HelloPC
<1>13. ASSUME NEW c \in Conn, HelloReadsVersion(c) PROVE TypeOK' /\ Dated'
  <2>1. [hello[c] EXCEPT !.last = lastVer] \in Hellos /\ [hello[c] EXCEPT !.last = lastVer].prev = hello[c].prev
    BY HelloLast
  <2>2. hello' = [hello EXCEPT ![c] = [hello[c] EXCEPT !.last = lastVer]]
    BY <1>13 DEF HelloReadsVersion, SetHello
  <2>3. hello' \in [Conn -> Hellos] /\ \A x \in Conn : hello'[x].prev <= clock
    BY <2>1, <2>2 DEF Dated
  <2> QED  BY <1>13, <2>3 DEF HelloReadsVersion, Dated, Goto, Serving, Closing, HelloPC
<1>14. ASSUME NEW c \in Conn, HelloDecides(c) PROVE TypeOK' /\ Dated'
  <2> DEFINE plan == DecideHelloEvents(hello[c].last, offlineTS, hello[c].ver, clock)
  <2>4. plan \in Seq(Events)
    BY PlanType DEF Hellos
  <2>5. clock - hello[c].prev \in 0..MaxClock
    BY DEF Hellos, Times, Dated
  <2> HIDE DEF plan
  <2>1. [hello[c] EXCEPT !.gap = clock - hello[c].prev, !.plan = plan] \in Hellos /\ [hello[c] EXCEPT !.gap = clock - hello[c].prev, !.plan = plan].prev = hello[c].prev
    BY HelloPlanned, <2>4, <2>5
  <2>2. hello' = [hello EXCEPT ![c] = [hello[c] EXCEPT !.gap = clock - hello[c].prev, !.plan = plan]]
    BY <1>14 DEF HelloDecides, SetHello, plan
  <2>3. hello' \in [Conn -> Hellos] /\ \A x \in Conn : hello'[x].prev <= clock
    BY <2>1, <2>2 DEF Dated
  <2> QED  BY <1>14, <2>3 DEF HelloDecides, Dated, Goto, Serving, Closing, HelloPC
<1>15. ASSUME NEW c \in Conn, HelloSetsVersion(c) PROVE TypeOK' /\ Dated'
  BY <1>15 DEF HelloSetsVersion, Dated, Goto, Serving, Closing, HelloPC, Hellos
<1>16. ASSUME NEW c \in Conn, HelloClearsOffline(c) PROVE TypeOK' /\ Dated'
  BY <1>16 DEF HelloClearsOffline, Dated, Goto, Serving, Closing, HelloPC
<1>17. ASSUME NEW c \in Conn, HelloInserts(c) PROVE TypeOK' /\ Dated'
  <2>1. CASE hello[c].plan = <<>>
    BY <1>17, <2>1 DEF HelloInserts, Dated, Goto, Serving, Closing, HelloPC
  <2>2. CASE hello[c].plan # <<>>
    <3> DEFINE h == [hello[c] EXCEPT !.plan = Tail(hello[c].plan)]
               row == [ev |-> Head(hello[c].plan), seen |-> lastVer, gap |-> hello[c].gap]
    <3>1. Head(hello[c].plan) \in Events /\ Tail(hello[c].plan) \in Seq(Events)
      BY <2>2 DEF Hellos
    <3>2. row \in Rows
      BY <3>1 DEF Rows, Hellos
    <3>3. h \in Hellos /\ h.prev = hello[c].prev
      BY <3>1, HelloPlan
    <3>4. hello' = [hello EXCEPT ![c] = h] /\ rows' = Append(rows, row)
      BY <1>17, <2>2 DEF HelloInserts, SetHello
    <3> HIDE DEF h, row
    <3>5. hello' \in [Conn -> Hellos] /\ \A x \in Conn : hello'[x].prev <= clock
      BY <3>3, <3>4 DEF Dated
    <3>6. rows' \in Seq(Rows)
      BY <3>2, <3>4
    <3> QED  BY <1>17, <2>2, <3>5, <3>6 DEF HelloInserts, Dated, Goto, Serving, Closing, HelloPC
  <2> QED  BY <2>1, <2>2
<1>18. ASSUME NEW c \in Conn, MaybeAutoUpdate(c) PROVE TypeOK' /\ Dated'
  BY <1>18 DEF MaybeAutoUpdate, Dated, Goto, Serving, Closing, HelloPC, Kind
<1>19. ASSUME NEW r \in Call, RequestWrites(r) PROVE TypeOK' /\ Dated'
  <2>1. asked' \in [Conn -> SUBSET (Kind \cup {"update"})]
    BY <1>19 DEF RequestWrites
  <2>2. callPC' \in [Call -> {"new", "checked", "returned"} \cup InFlight]
        /\ result' \in [Call -> Statuses \cup {Empty, "busy", "timeout"}]
        /\ UNCHANGED callKind
    BY <1>19 DEF RequestWrites, Moves, Returns, InFlight, Statuses
  <2> QED  BY <1>19, <2>1, <2>2 DEF RequestWrites, Dated
<1>20. ASSUME NEW r \in Call, RequestRegisters(r) PROVE TypeOK' /\ Dated'
  <2>1. callKind[r] \in Kind /\ wait' \in [Kind -> Call \cup {NoCall}]
    BY <1>20 DEF RequestRegisters
  <2>2. callPC' \in [Call -> {"new", "checked", "returned"} \cup InFlight]
    <3>1. \/ callPC' = [callPC EXCEPT ![r] = "returned"]
          \/ callPC' = [callPC EXCEPT ![r] = "registered"]
      BY <1>20 DEF RequestRegisters, Moves, Returns
    <3> QED  BY <3>1 DEF InFlight
  <2>3. result' \in [Call -> Statuses \cup {Empty, "busy", "timeout"}]
        /\ UNCHANGED callKind
    BY <1>20 DEF RequestRegisters, Moves, Returns
  <2> QED  BY <1>20, <2>1, <2>2, <2>3 DEF RequestRegisters, Dated
<1>21. ASSUME NEW r \in Call, RequestAnswered(r) PROVE TypeOK' /\ Dated'
  BY <1>21 DEF RequestAnswered, Dated, Moves, Returns, InFlight, Statuses, Kind
<1>22. ASSUME NEW r \in Call, RequestTimesOut(r) PROVE TypeOK' /\ Dated'
  BY <1>22 DEF RequestTimesOut, Dated, Moves, Returns, InFlight, Statuses, Kind
<1>23. ASSUME NEW r \in Call, RequestLeaves(r) PROVE TypeOK' /\ Dated'
  BY <1>23 DEF RequestLeaves, Dated, Moves, Returns, InFlight, Statuses, Kind
<1>24. ASSUME NEW r \in Call, NEW k \in Kind, RequestBegins(r, k) PROVE TypeOK' /\ Dated'
  BY <1>24 DEF RequestBegins, Dated, InFlight, Statuses, Kind
<1>25. CASE Tick
  BY <1>25 DEF Tick, Times, Dated, Hellos
<1>26. CASE UNCHANGED vars
  BY <1>26 DEF vars, Dated
<1> QED
  BY <1>1, <1>2, <1>3, <1>4, <1>5, <1>6, <1>7, <1>8, <1>9, <1>10, <1>11,
     <1>12, <1>13, <1>14, <1>15, <1>16, <1>17, <1>18, <1>19, <1>20,
     <1>21, <1>22, <1>23, <1>24, <1>25, <1>26 DEF Next, HandlerStep, CallStep

(* Every reachable state of the hub (agenthub.Hub and the store it writes) *)
(* is well typed, whatever the connections, calls and hellos.              *)
THEOREM TypeCorrect == Spec => []TypeOK
<1>1. TypeInv => TypeOK
  BY DEF TypeInv
<1> QED  BY <1>1, TypeInit, TypeStep, PTL DEF Spec
-----------------------------------------------------------------------------
(* Presence: only the current connection's own clean-up clears the hub. *)
LEMMA PresenceStep == TypeOK /\ PresenceTrue /\ [Next]_vars => PresenceTrue'
<1> SUFFICES ASSUME TypeOK, PresenceTrue, [Next]_vars PROVE PresenceTrue'
  OBVIOUS
<1> USE HubAssumption DEF PresenceTrue, TypeOK, hub, handlers, wire, waiters, stored, calls
<1>1. ASSUME NEW c \in Conn, ServeWS(c) PROVE PresenceTrue'
  BY <1>1 DEF ServeWS, At, Goto, Serving, Closing, HelloPC
<1>2. ASSUME NEW c \in Conn, Teardown(c) PROVE PresenceTrue'
  BY <1>2 DEF Teardown, At, Goto, Serving, Closing, HelloPC
<1>3. ASSUME NEW c \in Conn, StampOffline(c) PROVE PresenceTrue'
  BY <1>3 DEF StampOffline, At, Goto, Serving, Closing, HelloPC
<1>4. ASSUME NEW c \in Conn, FailFetch(c) PROVE PresenceTrue'
  BY <1>4 DEF FailFetch, At, Goto, Serving, Closing, HelloPC
<1>5. ASSUME NEW c \in Conn, FailCatalog(c) PROVE PresenceTrue'
  BY <1>5 DEF FailCatalog, At, Goto, Serving, Closing, HelloPC
<1>6. ASSUME NEW c \in Conn, CompletesReply(c) PROVE PresenceTrue'
  BY <1>6 DEF CompletesReply, At, Goto, Serving, Closing, HelloPC
<1>7. ASSUME NEW c \in Conn, ReadsReply(c) PROVE PresenceTrue'
  BY <1>7 DEF ReadsReply, At, Goto, Serving, Closing, HelloPC
<1>8. ASSUME NEW c \in Conn, HelloReadsVersion(c) PROVE PresenceTrue'
  BY <1>8 DEF HelloReadsVersion, At, Goto, Serving, Closing, HelloPC
<1>9. ASSUME NEW c \in Conn, HelloDecides(c) PROVE PresenceTrue'
  BY <1>9 DEF HelloDecides, At, Goto, Serving, Closing, HelloPC
<1>10. ASSUME NEW c \in Conn, HelloSetsVersion(c) PROVE PresenceTrue'
  BY <1>10 DEF HelloSetsVersion, At, Goto, Serving, Closing, HelloPC
<1>11. ASSUME NEW c \in Conn, HelloClearsOffline(c) PROVE PresenceTrue'
  BY <1>11 DEF HelloClearsOffline, At, Goto, Serving, Closing, HelloPC
<1>12. ASSUME NEW c \in Conn, HelloInserts(c) PROVE PresenceTrue'
  BY <1>12 DEF HelloInserts, At, Goto, Serving, Closing, HelloPC
<1>13. ASSUME NEW c \in Conn, MaybeAutoUpdate(c) PROVE PresenceTrue'
  BY <1>13 DEF MaybeAutoUpdate, At, Goto, Serving, Closing, HelloPC
<1>14. ASSUME NEW c \in Conn, Breaks(c) PROVE PresenceTrue'
  BY <1>14 DEF Breaks
<1>15. ASSUME NEW c \in Conn, AgentReplies(c) PROVE PresenceTrue'
  BY <1>15 DEF AgentReplies
<1>16. ASSUME NEW c \in Conn, AgentUpdates(c) PROVE PresenceTrue'
  BY <1>16 DEF AgentUpdates
<1>17. ASSUME NEW c \in Conn, AgentSyncs(c) PROVE PresenceTrue'
  BY <1>17 DEF AgentSyncs
<1>18. ASSUME NEW c \in Conn, NEW v \in Version, NEW b \in BOOLEAN, OnHello(c, v, b) PROVE PresenceTrue'
  BY <1>18 DEF OnHello, At, Goto, Serving, Closing, HelloPC
<1>19. ASSUME NEW r \in Call, RequestRegisters(r) PROVE PresenceTrue'
  BY <1>19 DEF RequestRegisters
<1>20. ASSUME NEW r \in Call, RequestWrites(r) PROVE PresenceTrue'
  BY <1>20 DEF RequestWrites
<1>21. ASSUME NEW r \in Call, RequestAnswered(r) PROVE PresenceTrue'
  BY <1>21 DEF RequestAnswered
<1>22. ASSUME NEW r \in Call, RequestTimesOut(r) PROVE PresenceTrue'
  BY <1>22 DEF RequestTimesOut
<1>23. ASSUME NEW r \in Call, RequestLeaves(r) PROVE PresenceTrue'
  BY <1>23 DEF RequestLeaves
<1>24. ASSUME NEW r \in Call, NEW k \in Kind, RequestBegins(r, k) PROVE PresenceTrue'
  BY <1>24 DEF RequestBegins
<1>25. CASE Tick
  BY <1>25 DEF Tick
<1>26. CASE UNCHANGED vars
  BY <1>26 DEF vars
<1> QED
  BY <1>1, <1>2, <1>3, <1>4, <1>5, <1>6, <1>7, <1>8, <1>9, <1>10, <1>11,
     <1>12, <1>13, <1>14, <1>15, <1>16, <1>17, <1>18, <1>19, <1>20,
     <1>21, <1>22, <1>23, <1>24, <1>25, <1>26 DEF Next, HandlerStep, CallStep

(* A usable connection is the current one and shown online, and the        *)
(* current one is still served: ServeWS and its deferred clean-up.         *)
THEOREM PresenceTrueHolds == Spec => []PresenceTrue
<1>1. Init => PresenceTrue
  BY HubAssumption DEF Init, PresenceTrue
<1> QED  BY <1>1, PresenceStep, TypeCorrect, PTL DEF Spec
-----------------------------------------------------------------------------
(* Waiter slots. *)

(* Answering an exchange empties its slot and disturbs no other. *)
LEMMA CompleteKeeps ==
    ASSUME TypeOK, SlotInv, NEW k \in Kind, NEW x \in Statuses, Complete(k, x),
           UNCHANGED calls
    PROVE  SlotInv'
<1> USE HubAssumption DEF TypeOK, SlotInv, NoWedgedSlot, FreshChan, calls
<1>1. CASE wait[k] = NoCall
  BY <1>1 DEF Complete
<1>2. CASE wait[k] # NoCall
  BY <1>2 DEF Complete, InFlight
<1> QED  BY <1>1, <1>2

LEMMA SlotStep == TypeOK /\ SlotInv /\ [Next]_vars => SlotInv'
<1> SUFFICES ASSUME TypeOK, SlotInv, [Next]_vars PROVE SlotInv'
  OBVIOUS
<1> USE HubAssumption DEF hub, handlers, wire, waiters, stored, calls
<1>1. ASSUME NEW c \in Conn, FailFetch(c) PROVE SlotInv'
  BY <1>1, CompleteKeeps DEF FailFetch, Kind, Statuses, TypeOK
<1>2. ASSUME NEW c \in Conn, FailCatalog(c) PROVE SlotInv'
  BY <1>2, CompleteKeeps DEF FailCatalog, Kind, Statuses, TypeOK
<1>3. ASSUME NEW c \in Conn, CompletesReply(c) PROVE SlotInv'
  BY <1>3, CompleteKeeps DEF CompletesReply, Kind, Statuses, TypeOK
<1>4. ASSUME NEW c \in Conn, ServeWS(c) PROVE SlotInv'
  BY <1>4 DEF ServeWS, SlotInv, NoWedgedSlot, FreshChan
<1>5. ASSUME NEW c \in Conn, Teardown(c) PROVE SlotInv'
  BY <1>5 DEF Teardown, SlotInv, NoWedgedSlot, FreshChan
<1>6. ASSUME NEW c \in Conn, StampOffline(c) PROVE SlotInv'
  BY <1>6 DEF StampOffline, SlotInv, NoWedgedSlot, FreshChan
<1>7. ASSUME NEW c \in Conn, ReadsReply(c) PROVE SlotInv'
  BY <1>7 DEF ReadsReply, SlotInv, NoWedgedSlot, FreshChan
<1>8. ASSUME NEW c \in Conn, HelloReadsVersion(c) PROVE SlotInv'
  BY <1>8 DEF HelloReadsVersion, SlotInv, NoWedgedSlot, FreshChan
<1>9. ASSUME NEW c \in Conn, HelloDecides(c) PROVE SlotInv'
  BY <1>9 DEF HelloDecides, SlotInv, NoWedgedSlot, FreshChan
<1>10. ASSUME NEW c \in Conn, HelloSetsVersion(c) PROVE SlotInv'
  BY <1>10 DEF HelloSetsVersion, SlotInv, NoWedgedSlot, FreshChan
<1>11. ASSUME NEW c \in Conn, HelloClearsOffline(c) PROVE SlotInv'
  BY <1>11 DEF HelloClearsOffline, SlotInv, NoWedgedSlot, FreshChan
<1>12. ASSUME NEW c \in Conn, HelloInserts(c) PROVE SlotInv'
  BY <1>12 DEF HelloInserts, SlotInv, NoWedgedSlot, FreshChan
<1>13. ASSUME NEW c \in Conn, MaybeAutoUpdate(c) PROVE SlotInv'
  BY <1>13 DEF MaybeAutoUpdate, SlotInv, NoWedgedSlot, FreshChan
<1>14. ASSUME NEW c \in Conn, Breaks(c) PROVE SlotInv'
  BY <1>14 DEF Breaks, SlotInv, NoWedgedSlot, FreshChan
<1>15. ASSUME NEW c \in Conn, AgentReplies(c) PROVE SlotInv'
  BY <1>15 DEF AgentReplies, SlotInv, NoWedgedSlot, FreshChan
<1>16. ASSUME NEW c \in Conn, AgentUpdates(c) PROVE SlotInv'
  BY <1>16 DEF AgentUpdates, SlotInv, NoWedgedSlot, FreshChan
<1>17. ASSUME NEW c \in Conn, AgentSyncs(c) PROVE SlotInv'
  BY <1>17 DEF AgentSyncs, SlotInv, NoWedgedSlot, FreshChan
<1>18. ASSUME NEW c \in Conn, NEW v \in Version, NEW b \in BOOLEAN, OnHello(c, v, b) PROVE SlotInv'
  BY <1>18 DEF OnHello, SlotInv, NoWedgedSlot, FreshChan
<1>19. ASSUME NEW r \in Call, RequestRegisters(r) PROVE SlotInv'
  BY <1>19 DEF RequestRegisters, SlotInv, NoWedgedSlot, FreshChan, TypeOK, Moves, Returns, InFlight
<1>20. ASSUME NEW r \in Call, RequestWrites(r) PROVE SlotInv'
  BY <1>20 DEF RequestWrites, SlotInv, NoWedgedSlot, FreshChan, TypeOK, Moves, Returns, InFlight
<1>21. ASSUME NEW r \in Call, RequestAnswered(r) PROVE SlotInv'
  BY <1>21 DEF RequestAnswered, SlotInv, NoWedgedSlot, FreshChan, TypeOK, Moves, Returns, InFlight
<1>22. ASSUME NEW r \in Call, RequestTimesOut(r) PROVE SlotInv'
  BY <1>22 DEF RequestTimesOut, SlotInv, NoWedgedSlot, FreshChan, TypeOK, Moves, Returns, InFlight
<1>23. ASSUME NEW r \in Call, RequestLeaves(r) PROVE SlotInv'
  BY <1>23 DEF RequestLeaves, SlotInv, NoWedgedSlot, FreshChan, TypeOK, Moves, Returns, InFlight
<1>24. ASSUME NEW r \in Call, NEW k \in Kind, RequestBegins(r, k) PROVE SlotInv'
  BY <1>24 DEF RequestBegins, SlotInv, NoWedgedSlot, FreshChan, TypeOK, InFlight
<1>25. CASE Tick
  BY <1>25 DEF Tick, SlotInv, NoWedgedSlot, FreshChan
<1>26. CASE UNCHANGED vars
  BY <1>26 DEF vars, SlotInv, NoWedgedSlot, FreshChan
<1> QED
  BY <1>1, <1>2, <1>3, <1>4, <1>5, <1>6, <1>7, <1>8, <1>9, <1>10, <1>11,
     <1>12, <1>13, <1>14, <1>15, <1>16, <1>17, <1>18, <1>19, <1>20,
     <1>21, <1>22, <1>23, <1>24, <1>25, <1>26 DEF Next, HandlerStep, CallStep

(* An occupied slot belongs to a call in progress that was not answered:   *)
(* neither a timeout nor a late or repeated reply wedges RequestFetch or   *)
(* RequestCatalogPush, and no reply finds its channel full.                *)
THEOREM NoWedgedSlotHolds == Spec => []NoWedgedSlot
<1>1. Init => SlotInv
  BY DEF Init, SlotInv, NoWedgedSlot, FreshChan, Kind
<1>2. SlotInv => NoWedgedSlot
  BY DEF SlotInv
<1> QED  BY <1>1, <1>2, SlotStep, TypeCorrect, PTL DEF Spec
=============================================================================
