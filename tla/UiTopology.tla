----------------------------- MODULE UiTopology -----------------------------
(***************************************************************************)
(* The topology page (ui/src/tabs/TopologyTab.tsx): which of its pages is  *)
(* shown - the overview, a switch, an access point, a port, the box, a     *)
(* port of the box - and what the controls of each do.  Polls replace the  *)
(* list of switches underneath, and App's navigation may focus a switch.   *)
(*                                                                         *)
(* And two readings of the switches a poll reports, by their parent_mac:   *)
(* the tree the page draws (TopoTree) and the switch port each device is   *)
(* listed at (ui/src/lib/switch-port.ts: indexDevicePorts).  The parents   *)
(* come from several sources and may be missing, unknown or circular.      *)
(***************************************************************************)
EXTENDS Naturals, FiniteSets, Sequences

CONSTANTS
    TopoMac,    \* the switches and access points
    ApMac,      \* those that are access points
    TopoPort,   \* their ports
    GoldJack,   \* the ports of the box
    TopoClient(_), \* the clients the catalog gives a port page: a set of MACs
    NoClients,  \* those whose module reports no clients
    UplinkPort, \* the port that leads upstream
    BoxMac      \* the MACs of the box

VARIABLES
    ts,         \* the state of the component, and where the open port came from
    tl          \* ready: a poll has answered; listed: the switches it gave

topoVars == <<ts, tl>>

NoTopoSw == "nosw"
NoPort == 0

ASSUME TopoAssumption ==
    /\ NoTopoSw \notin TopoMac /\ ApMac \subseteq TopoMac
    /\ NoPort \notin TopoPort \cup GoldJack

FreshTopo(f) ==
    [mac |-> f, port |-> NoPort, portFromSwitch |-> FALSE, box |-> FALSE, gold |-> NoPort,
     goldFromBox |-> FALSE, mode |-> "tree", connections |-> FALSE, focus |-> f,
     via |-> "overview", goldVia |-> "overview", handed |-> {}]

TopoInit == ts = FreshTopo(NoTopoSw) /\ tl = [ready |-> FALSE, listed |-> {}]

-----------------------------------------------------------------------------
(* The page the component returns: the first that applies. *)
selectedSwitch(s) == IF s.mac \in tl.listed THEN s.mac ELSE NoTopoSw
pageShown(s) ==
    IF ~tl.ready THEN "waiting"
    ELSE IF selectedSwitch(s) # NoTopoSw /\ s.port # NoPort THEN "port"
    ELSE IF selectedSwitch(s) \in ApMac THEN "ap"
    ELSE IF selectedSwitch(s) # NoTopoSw THEN "switch"
    ELSE IF s.gold # NoPort THEN "gold"
    ELSE IF s.box THEN "box"
    ELSE "overview"

(* The crumb leads back, and is hidden while App's crumb shows the focus. *)
hideCrumb(s) == s.focus # NoTopoSw /\ pageShown(s) \in {"port", "ap", "switch"}

(* onBack of the page shown. *)
backPortKept(s) == [s EXCEPT !.mac = IF s.portFromSwitch THEN @ ELSE NoTopoSw]   \* bug: the port stays selected
backPort(s) == [s EXCEPT !.port = NoPort, !.mac = IF s.portFromSwitch THEN @ ELSE NoTopoSw]
backGold(s) == [s EXCEPT !.gold = NoPort, !.box = s.goldFromBox /\ @]
onBackOf(s) ==
    CASE pageShown(s) = "port" -> backPort(s)
      [] pageShown(s) \in {"switch", "ap"} -> [s EXCEPT !.mac = NoTopoSw]
      [] pageShown(s) = "gold" -> backGold(s)
      [] pageShown(s) = "box" -> [s EXCEPT !.box = FALSE]
      [] OTHER -> s

Back ==
    /\ pageShown(ts) \notin {"waiting", "overview"} /\ ~hideCrumb(ts)
    /\ ts' = onBackOf(ts) /\ UNCHANGED tl

-----------------------------------------------------------------------------
(* The poll and App's navigation. *)
topoPoll(listed) == tl' = [ready |-> TRUE, listed |-> listed] /\ UNCHANGED ts
focusEffect(f) ==
    /\ ts' = IF f = NoTopoSw THEN [ts EXCEPT !.focus = f]
             ELSE [ts EXCEPT !.focus = f, !.mac = f, !.port = NoPort, !.box = FALSE, !.gold = NoPort]
    /\ UNCHANGED tl
remount(f) == ts' = FreshTopo(f) /\ UNCHANGED tl

-----------------------------------------------------------------------------
(* The overview: the tree or VRACK, with the jacks of the box. *)
OnOverview == pageShown(ts) = "overview"
onSelect(m, p) ==
    /\ OnOverview /\ m \in tl.listed
    /\ ts' = [ts EXCEPT !.portFromSwitch = FALSE, !.mac = m, !.port = p, !.via = "overview"]
    /\ UNCHANGED tl
onSelectBox == OnOverview /\ ts' = [ts EXCEPT !.box = TRUE] /\ UNCHANGED tl
onSelectGold(n) ==
    OnOverview /\ ts' = [ts EXCEPT !.goldFromBox = FALSE, !.gold = n, !.goldVia = "overview"] /\ UNCHANGED tl
setMode == OnOverview /\ ts' = [ts EXCEPT !.mode = IF @ = "tree" THEN "vrack" ELSE "tree"] /\ UNCHANGED tl
toggleConnections ==
    OnOverview /\ ts.mode = "vrack" /\ ts' = [ts EXCEPT !.connections = ~@] /\ UNCHANGED tl

(* A switch: its ports open from here.  An access point's do not. *)
openPortUnmarked(p) ==   \* bug: portFromSwitch is not set
    pageShown(ts) = "switch" /\ ts' = [ts EXCEPT !.port = p, !.via = "switch"] /\ UNCHANGED tl
openPort(p) ==
    /\ pageShown(ts) = "switch"
    /\ ts' = [ts EXCEPT !.portFromSwitch = TRUE, !.port = p, !.via = "switch"]
    /\ UNCHANGED tl

(* A port: its neighbours open, itself closes.  Closed onto the switch, it *)
(* was opened from there.                                                  *)
onPickPort(p) ==
    /\ pageShown(ts) = "port"
    /\ ts' = [ts EXCEPT !.port = IF p = @ THEN NoPort ELSE p]
    /\ UNCHANGED tl

(* The clients of a port without the box and the switch itself, handed to  *)
(* the device table.                                                       *)
portClients(m, p) == TopoClient(<<m, p>>) \ (BoxMac \cup {m})
clientsShown ==
    CASE pageShown(ts) = "port" -> portClients(ts.mac, ts.port)
      [] OTHER -> TopoClient(<<ts.mac, NoPort>>)
openSwitchClients ==
    /\ pageShown(ts) \in {"port", "switch", "ap"} /\ ts.mac \notin NoClients
    /\ pageShown(ts) = "port" => ts.port # UplinkPort
    /\ ts' = [FreshTopo(NoTopoSw) EXCEPT !.handed = clientsShown] /\ UNCHANGED tl

(* The box and its ports. *)
openGoldOfBox(n) ==
    /\ pageShown(ts) = "box"
    /\ ts' = [ts EXCEPT !.goldFromBox = TRUE, !.gold = n, !.goldVia = "box"]
    /\ UNCHANGED tl
onPickGold(n) == pageShown(ts) = "gold" /\ ts' = [ts EXCEPT !.gold = n] /\ UNCHANGED tl

-----------------------------------------------------------------------------
TopoNext ==
    \/ \E L \in SUBSET TopoMac : topoPoll(L)
    \/ \E f \in TopoMac \cup {NoTopoSw} : focusEffect(f) \/ remount(f)
    \/ \E m \in TopoMac, p \in TopoPort \cup {NoPort} : onSelect(m, p)
    \/ onSelectBox \/ setMode \/ toggleConnections
    \/ \E n \in GoldJack : onSelectGold(n) \/ openGoldOfBox(n) \/ onPickGold(n)
    \/ \E p \in TopoPort : openPort(p) \/ onPickPort(p)
    \/ openSwitchClients
    \/ Back

TopoSpec == TopoInit /\ [][TopoNext]_topoVars

-----------------------------------------------------------------------------
(* Going back from a port leads to where the port was opened: to its       *)
(* switch if it was opened there, past it if it was opened in the          *)
(* overview; and likewise for the ports of the box - whatever polls, picks *)
(* and focus happened in between (TopologyTab: portFromSwitch,             *)
(* goldFromBox).                                                           *)
BackWhereOpened ==
    [][ts' = onBackOf(ts) /\ ts' # ts /\ tl' = tl =>
        /\ pageShown(ts) = "port" =>
             IF ts.via = "switch" THEN ts'.mac = ts.mac /\ ts'.port = NoPort ELSE selectedSwitch(ts') = NoTopoSw
        /\ pageShown(ts) = "gold" /\ ts.goldVia = "overview" => ~ts'.box
        /\ pageShown(ts) = "gold" /\ ts.goldVia = "box" => ts'.box]_topoVars

(* However the pages were piled up, four times Back is enough to reach the *)
(* overview: no page keeps the visitor (TopologyTab: onBack of each page). *)
BackReachesOverview ==
    tl.ready => pageShown(onBackOf(onBackOf(onBackOf(onBackOf(ts))))) = "overview"

(* Back leads from a port to where it was opened, and reaches the overview *)
(* of the topology from every page (TopologyTab: onBack of each page).     *)
PagesLeadBack == BackWhereOpened /\ []BackReachesOverview

-----------------------------------------------------------------------------
(* The tree of switches *)

CONSTANTS
    SwMac,       \* the switches, a sequence: the order of the catalog
    SwSource(_), \* the module that reports a switch
    MaxClaims    \* bound: claims on the device

VARIABLE tree     \* listed, parent, the nodes of the server's tree, the claims

Macs == {SwMac[i] : i \in DOMAIN SwMac}
NoParent == "noparent"

ASSUME TreeAssumption == SwMac \in Seq(Macs) /\ NoParent \notin Macs

Forms == {"port", "uplink", "node"}   \* a jack, the uplink jack, the switch as a whole
Claims == Macs \X Forms

TreeInit ==
    tree = [listed |-> {}, parent |-> [m \in Macs |-> NoParent], nodes |-> {}, claims |-> {}]

(* A poll reports one thing differently. *)
pollLists(m) ==
    tree' = [tree EXCEPT !.listed = IF m \in @ THEN @ \ {m} ELSE @ \cup {m}, !.claims = {c \in @ : c[1] # m}]
pollParent(m, p) == p # tree.parent[m] /\ tree' = [tree EXCEPT !.parent[m] = p]
pollNode(m) == tree' = [tree EXCEPT !.nodes = IF m \in @ THEN @ \ {m} ELSE @ \cup {m}]
pollClaim(c) ==
    /\ c[1] \in tree.listed
    /\ \/ c \in tree.claims /\ tree' = [tree EXCEPT !.claims = @ \ {c}]
       \/ c \notin tree.claims /\ Cardinality(tree.claims) < MaxClaims /\ tree' = [tree EXCEPT !.claims = @ \cup {c}]

TreeNext ==
    \/ \E m \in Macs : pollLists(m) \/ pollNode(m) \/ \E p \in Macs \cup {NoParent} : pollParent(m, p)
    \/ \E c \in Claims : pollClaim(c)

TreeSpec == TreeInit /\ [][TreeNext]_tree

-----------------------------------------------------------------------------
(* The rows: first those of the server's tree, then the ones under a row,  *)
(* until none is left to nest, then the rest.                              *)
walkTopo == tree.nodes \cap tree.listed
nestOnce(rows) == rows \cup {m \in tree.listed : tree.parent[m] \in rows}
nestedRows ==
    LET rows[n \in 0..Len(SwMac)] == IF n = 0 THEN walkTopo ELSE nestOnce(rows[n - 1])
    IN  rows[Len(SwMac)]
nestOrphans == nestedRows \cup (tree.listed \ nestedRows)

childMap(rows, p) == {m \in rows : tree.parent[m] = p}
topoRootsBare(rows) == {m \in rows : tree.parent[m] = NoParent}   \* bug: an unknown parent hides the switch
topoRoots(rows) == {m \in rows : tree.parent[m] \notin rows}

(* TopoBranch and KidsBlock: the roots, their children, and so on; level n  *)
(* holds what is drawn n levels deep.                                      *)
TopoTree ==
    LET rows == nestOrphans
        level[n \in 0..Len(SwMac)] ==
            IF n = 0 THEN topoRoots(rows) ELSE UNION {childMap(rows, m) : m \in level[n - 1]}
    IN  level

-----------------------------------------------------------------------------
(* parentDepth: steps up until a parent is missing or was seen. *)
ups(m) ==
    LET up[n \in 0..Len(SwMac)] ==
            IF n = 0 THEN m ELSE IF up[n - 1] \in tree.listed THEN tree.parent[up[n - 1]] ELSE NoParent
    IN up
parentDepthFlat(m) == 0   \* bug: the place of the switch in the tree is ignored
parentDepth(m) ==
    LET up == ups(m)
    IN Cardinality({n \in 1..Len(SwMac) :
            up[n] # NoParent /\ \A i, k \in 0..n - 1 : up[i] = up[k] => i = k})

sourceRank(m) == CASE SwSource(m) = "tplink" -> 2 [] SwSource(m) = "unifi" -> 1 [] OTHER -> 0

better(a, b) ==
    LET da == parentDepth(a[1])  db == parentDepth(b[1])
        ra == sourceRank(a[1])   rb == sourceRank(b[1])
    IN IF da # db THEN da > db
       ELSE IF ra # rb THEN ra > rb
       ELSE IF (a[2] = "node") # (b[2] = "node") THEN a[2] # "node"
       ELSE a[2] # "uplink" /\ b[2] = "uplink"

considerLast(best, c) == <<c>>   \* bug: the last claim wins
consider(best, c) == IF best = <<>> THEN <<c>> ELSE IF better(c, best[1]) THEN <<c>> ELSE best

(* The claims as they are met: by switch, jacks before the switch. *)
meet(best, m, form) == IF <<m, form>> \in tree.claims THEN consider(best, <<m, form>>) ELSE best
indexDevicePorts ==
    LET best[n \in 0..Len(SwMac)] ==
            IF n = 0 THEN <<>>
            ELSE meet(meet(meet(best[n - 1], SwMac[n], "uplink"), SwMac[n], "port"), SwMac[n], "node")
    IN  best[Len(SwMac)]

-----------------------------------------------------------------------------
Above(m) == {ups(m)[n] : n \in 1..Len(SwMac)} \cap tree.listed
OnCycle(m) == m \in Above(m)
Straight(m) == ~\E a \in {m} \cup Above(m) : OnCycle(a)   \* its chain of parents ends

(* Every switch of the poll is drawn exactly once, whatever the parents    *)
(* say, unless its chain of parents runs into a circle; and the recursion  *)
(* ends (TopologyTab: walkTopo, nestOrphans, childMap, TopoTree).          *)
TreeDrawsOnce ==
    LET drawn == TopoTree
        levels == DOMAIN drawn
    IN /\ \A i, k \in levels : i # k => drawn[i] \cap drawn[k] = {}
       /\ UNION {drawn[n] : n \in levels} = {m \in tree.listed : Straight(m)}

(* A device is listed at the switch it hangs on, although the switches     *)
(* above see it too, when each says where its uplink goes: the deepest     *)
(* claim wins whatever the order of the catalog and the sources            *)
(* (switch-port.ts: parentDepth, better, consider).                        *)
PlacedAtLeaf ==
    \A m \in tree.listed :
        (/\ \E c \in tree.claims : c[1] = m
         /\ Straight(m)
         /\ \A c \in tree.claims : c[1] \in {m} \cup Above(m))
        => indexDevicePorts[1][1] = m

(* Where the source is unsure, the jack is preferred to the switch as a    *)
(* whole and an access jack to the uplink, and no claim is lost: a device  *)
(* is listed exactly when some switch claims it (switch-port.ts: better).  *)
JackPreferred ==
    /\ (indexDevicePorts = <<>>) <=> (tree.claims = {})
    /\ tree.claims # {} =>
        LET won == indexDevicePorts[1]
        IN won[2] # "port" => <<won[1], "port">> \notin tree.claims

(* The tree draws every switch once, and a device is listed at the switch  *)
(* it hangs on, at a jack when one is known, whatever the parents and      *)
(* claims say.                                                             *)
TreeSound == TreeDrawsOnce /\ PlacedAtLeaf /\ JackPreferred
=============================================================================
