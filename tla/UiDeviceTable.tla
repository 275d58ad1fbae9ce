---------------------------- MODULE UiDeviceTable ----------------------------
(***************************************************************************)
(* What the device table shows (ui/src/tabs/DevicesTab.tsx and the         *)
(* device-group, device-col-filter, device-search, device-active and       *)
(* navigation-view-state libraries): the scope App's navigation gives it   *)
(* (a group, a LAN, the clients of a port), the search field, the groups   *)
(* of rows that can be collapsed, and what is remembered while another     *)
(* place replaces the table.  The navigation key names the place: another  *)
(* scope mounts another instance, with the view states of its own key.     *)
(***************************************************************************)
EXTENDS Naturals, FiniteSets, Sequences

CONSTANTS
    TDevice,   \* the devices of the list: records, see MCUiViews
    TLabel(_, _), \* labelTag(id, kind): the name of a tag
    MaxFields, \* bound: fields of the query
    MaxViews   \* bound: changes of a view between two choices of a tab

VARIABLES
    tb,        \* the table on display
    tCache     \* App: the view states kept while a detail is open

tableVars == <<tb, tCache>>

None == "none"
NoScopeFrame == [kind |-> None]
NoLoc == [switchName |-> None]
Key(by, k) == [by |-> by, key |-> k]

-----------------------------------------------------------------------------
(* Rows *)

catalogHasActiveStamp == \E d \in TDevice : d.active # None

filterDevicesByActive(s) ==
    IF s.inactive \/ ~catalogHasActiveStamp THEN TDevice ELSE {d \in TDevice : d.active = "yes"}

Elems(q) == {q[i] : i \in DOMAIN q}

(* What the list of devices is: lists of tags start at 1 and no id is the  *)
(* key of the rest; the box numbers users and groups in one sequence (so   *)
(* rules_parse.go:49 looks names up by the number alone); the devices that *)
(* switch-port.ts:50 puts on one port of one switch are among the clients  *)
(* of that port.                                                           *)
ASSUME TableAssumption ==
    /\ \A d \in TDevice :
         /\ \A q \in {d.users, d.groups} : q # <<>> => 1 \in DOMAIN q
         /\ d.lan # "_" /\ "_" \notin Elems(d.users) \cup Elems(d.groups)
    /\ \A d, e \in TDevice : Elems(d.users) \cap Elems(e.groups) = {}
    /\ \A d, e \in {x \in TDevice : x.loc # NoLoc} :
         d.loc.switchMac = e.loc.switchMac /\ d.loc.portId = e.loc.portId => e.mac \in d.loc.clients

(* The frame of the navigation stack that narrows the table. *)
inScope(d, f) ==
    CASE f.kind = "group" -> f.id \in Elems(d.groups)
      [] f.kind = "user"  -> f.id \in Elems(d.users)
      [] f.kind = "lan"   -> d.lan = f.id
      [] f.kind = "ports" -> d.mac \in f.macs
      [] OTHER -> TRUE

scoped(s) == {d \in filterDevicesByActive(s) : inScope(d, s.scope)}

labels(d, kind) == {TLabel(i, kind) : i \in Elems(IF kind = "user" THEN d.users ELSE d.groups)}
vendorShown(d) == IF d.vendor = None THEN "Unknown" ELSE d.vendor

(* What a field of the query is compared with. *)
fieldValuesRaw(d, k) == IF k = "manufacturer" THEN {d.vendor} ELSE {d.mac}   \* bug: no Unknown
fieldValues(d, k) ==
    CASE k = "device"  -> {d.name}
      [] k \in {"user", "group"} -> labels(d, k)
      [] k = "status"  -> {IF d.online THEN "Online" ELSE "Offline"}
      [] k = "dapstatus" -> {d.dap}
      [] k = "network" -> {d.lan}
      [] k = "switch"  -> IF d.loc = NoLoc THEN {} ELSE {d.loc.switchName}
      [] k = "port"    -> IF d.loc = NoLoc THEN {} ELSE {d.loc.portId} \cup IF d.loc.uplink THEN {"Uplink"} ELSE {}
      [] k = "ip"      -> {d.ip} \cup d.ipv6
      [] k = "mac"     -> {d.mac}
      [] k = "manufacturer" -> {vendorShown(d)}

deviceMatchesSearch(d, fields) == \A f \in fields : f.value \in fieldValues(d, f.key)

setSearchField(fields, k, v) == {f \in fields : f.key # k} \cup {[key |-> k, value |-> v]}
clearSearchFields(fields, ks) == {f \in fields : f.key \notin ks}

rows(s) == {d \in scoped(s) : deviceMatchesSearch(d, s.query)}

(* The values a column offers, over the devices in scope. *)
COLUMNS == {"name", "group", "dap", "ip", "ipv6", "network", "port", "mac", "vendor"}
colFilterKeys(c) ==
    CASE c = "name" -> {"device"} [] c = "group" -> {"user", "group"} [] c = "dap" -> {"dapstatus"}
      [] c \in {"ip", "ipv6"} -> {"ip"} [] c = "network" -> {"network"}
      [] c = "port" -> {"switch", "port"} [] c = "mac" -> {"mac"} [] c = "vendor" -> {"manufacturer"}

offered(c, d) ==
    LET o(k, v) == IF v = None THEN {} ELSE {[key |-> k, value |-> v]} IN
    CASE c = "name"    -> o("device", d.name)
      [] c = "group"   -> (UNION {o("user", v) : v \in labels(d, "user")})
                          \cup (UNION {o("group", v) : v \in labels(d, "group")})
      [] c = "dap"     -> o("dapstatus", d.dap)
      [] c = "ip"      -> o("ip", d.ip)
      [] c = "ipv6"    -> UNION {o("ip", v) : v \in d.ipv6}
      [] c = "network" -> o("network", d.lan)
      [] c = "port"    -> IF d.loc = NoLoc THEN {}
                          ELSE o("switch", d.loc.switchName)
                               \cup o("port", IF d.loc.uplink THEN "Uplink" ELSE d.loc.portId)
      [] c = "mac"     -> o("mac", d.mac)
      [] c = "vendor"  -> o("manufacturer", vendorShown(d))

colFilterOptions(c, s) == UNION {offered(c, d) : d \in scoped(s)}

-----------------------------------------------------------------------------
(* Groups of rows *)

(* A device is listed under its first user, else its first group. *)
primaryMembership(d) ==
    IF d.users # <<>> THEN [kind |-> "user", id |-> d.users[1]]
    ELSE IF d.groups # <<>> THEN [kind |-> "group", id |-> d.groups[1]] ELSE NoScopeFrame

bucketFor(d, by) ==
    CASE by = "port"   -> IF d.loc = NoLoc THEN <<"_">> ELSE <<d.loc.switchMac, d.loc.portId>>
      [] by = "lan"    -> IF d.lan = None THEN <<"_">> ELSE <<d.lan>>
      [] by = "tag"    -> IF primaryMembership(d) = NoScopeFrame THEN <<"_">> ELSE <<primaryMembership(d).id>>
      [] by = "online" -> IF d.online THEN <<"online">> ELSE <<"offline">>
      [] OTHER -> <<"all">>

bucket(s, k) == {d \in rows(s) : bucketFor(d, s.groupBy) = k}
buckets(s) == {bucketFor(d, s.groupBy) : d \in rows(s)}

(* The link Filter in the header of a group; clicked again it clears. *)
onFilterNoKind(s, d) ==                                     \* bug: the kind of the tag is lost
    CASE s.groupBy = "port" /\ d.loc # NoLoc -> [kind |-> "ports", macs |-> d.loc.clients]
      [] s.groupBy = "lan" /\ d.lan # None -> [kind |-> "lan", id |-> d.lan]
      [] s.groupBy = "tag" /\ primaryMembership(d) # NoScopeFrame ->
           IF s.scope.kind = "group" /\ s.scope.id = primaryMembership(d).id
           THEN NoScopeFrame ELSE [kind |-> "group", id |-> primaryMembership(d).id]
      [] OTHER -> s.scope
onFilter(s, d) ==
    CASE s.groupBy = "port" /\ d.loc # NoLoc -> [kind |-> "ports", macs |-> d.loc.clients]
      [] s.groupBy = "lan" /\ d.lan # None -> [kind |-> "lan", id |-> d.lan]
      [] s.groupBy = "tag" /\ primaryMembership(d) # NoScopeFrame ->
           IF s.scope.kind \in {"group", "user"} /\ s.scope.id = primaryMembership(d).id
           THEN NoScopeFrame ELSE primaryMembership(d)
      [] OTHER -> s.scope

-----------------------------------------------------------------------------
(* Actions.  A view state is cached when it is set, not when it starts.    *)

EmptyView == [groupBy |-> {}, collapsed |-> {}]   \* at most one value each
TableClosed == [open |-> FALSE, scope |-> NoScopeFrame, query |-> {}, inactive |-> FALSE,
                groupBy |-> None, collapsed |-> {}, views |-> 0]

Kept(c, initial) == IF c = {} THEN initial ELSE CHOOSE v \in c : TRUE

(* The table mounts in a place with the view states cached for it; without *)
(* one it groups by port when the scope is a whole switch.                 *)
switchFrames == {[kind |-> "ports", macs |-> d.loc.switchClients] : d \in {x \in TDevice : x.loc # NoLoc}}
useNavigationViewState(s, f) ==
    LET c == tCache[f] IN
    [s EXCEPT !.open = TRUE, !.scope = f,
              !.groupBy = Kept(c.groupBy, IF f \in switchFrames THEN "port" ELSE None),
              !.collapsed = Kept(c.collapsed, {})]

setScope(f) == tb.open /\ f # tb.scope /\ tb' = useNavigationViewState(tb, f) /\ UNCHANGED tCache

setView(g, c, kept) ==
    /\ tb.open /\ tb.views < MaxViews
    /\ tb' = [tb EXCEPT !.groupBy = g, !.collapsed = c, !.views = @ + 1]
    /\ tCache' = [tCache EXCEPT ![tb.scope] = kept]

(* The effect on groupBy empties the set of collapsed groups. *)
collapsedKept(g, c) == c                                    \* bug: no effect
collapsedAfter(g, c) == IF g = tb.groupBy THEN c ELSE {}

setGroupBy(g) ==
    LET c == collapsedAfter(g, tb.collapsed) IN
    setView(g, c, [groupBy |-> {g},
                   collapsed |-> IF c = tb.collapsed THEN tCache[tb.scope].collapsed ELSE {c}])

(* The header that toggles has a label, which the group of all has not. *)
toggleCollapsed(k) ==
    /\ tb.groupBy # None
    /\ LET same == {x \in tb.collapsed : x.key = k}
           c == IF same # {} THEN tb.collapsed \ same ELSE tb.collapsed \cup {Key(tb.groupBy, k)}
       IN setView(tb.groupBy, c, [tCache[tb.scope] EXCEPT !.collapsed = {c}])

(* The cells of a row that narrow the table. *)
renderCell(d) ==
    LET m == primaryMembership(d) IN
      (IF m = NoScopeFrame THEN {}
       ELSE {IF tb.scope.kind \in {"group", "user"} /\ tb.scope.id = m.id THEN NoScopeFrame ELSE m})
      \cup (IF d.lan = None THEN {} ELSE {[kind |-> "lan", id |-> d.lan]})
      \cup (IF d.loc = NoLoc THEN {} ELSE {[kind |-> "ports", macs |-> c] : c \in {d.loc.clients, d.loc.switchClients}})

clickCell(d) == \E f \in renderCell(d) : setScope(f)
clickFilter(d) == setScope(onFilter(tb, d))
clearScope == setScope(NoScopeFrame)

TTable(s) == tb.open /\ tb' = s /\ UNCHANGED tCache

onQuery(q) == Cardinality(q) <= MaxFields /\ TTable([tb EXCEPT !.query = q])
setShowInactive == TTable([tb EXCEPT !.inactive = ~@])

(* A device replaces the table; the way back mounts it where it was. *)
openDeviceRow == TTable([tb EXCEPT !.open = FALSE])
closeDetail == ~tb.open /\ tb' = useNavigationViewState(tb, tb.scope) /\ UNCHANGED tCache

(* Choosing another tab forgets the view states and the query; the clients *)
(* of a switch open the table from the topology.                           *)
AllFrames == {NoScopeFrame} \cup switchFrames
             \cup {[kind |-> "ports", macs |-> d.loc.clients] : d \in {x \in TDevice : x.loc # NoLoc}}
             \cup {[kind |-> "lan", id |-> d.lan] : d \in {x \in TDevice : x.lan # None}}
             \cup UNION {[kind : {"group"}, id : Elems(d.groups)] \cup [kind : {"user"}, id : Elems(d.users)] : d \in TDevice}
selectOtherTab(f) ==
    /\ tb' = [TableClosed EXCEPT !.inactive = tb.inactive, !.scope = f]
    /\ tCache' = [x \in AllFrames |-> EmptyView]

TableInit == tb = TableClosed /\ tCache = [x \in AllFrames |-> EmptyView]

TableNext ==
    \/ \E g \in {None, "port", "lan", "tag", "online"} : setGroupBy(g)
    \/ \E k \in buckets(tb) : toggleCollapsed(k)
    \/ \E d \in rows(tb) : clickFilter(d) \/ clickCell(d)
    \/ \E c \in COLUMNS : \E o \in colFilterOptions(c, tb) :
          onQuery(setSearchField(tb.query, o.key, o.value))
    \/ \E c \in COLUMNS : /\ \E f \in tb.query : f.key \in colFilterKeys(c)
                          /\ onQuery(clearSearchFields(tb.query, colFilterKeys(c)))
    \/ \E f \in {NoScopeFrame} \cup switchFrames : selectOtherTab(f)
    \/ clearScope \/ setShowInactive \/ openDeviceRow \/ closeDetail

TableSpec == TableInit /\ [][TableNext]_tableVars

-----------------------------------------------------------------------------
(* A group of rows is collapsed only if it was collapsed under the         *)
(* grouping on display: the group of the rest has the same key in every    *)
(* grouping, and the view states outlive the table (DevicesTab.tsx:346).   *)
CollapsedOwn == tb.groupBy # None => \A e \in tb.collapsed : e.by = tb.groupBy

(* The link Filter of a group never hides a device of that group. *)
FilterKeepsGroup ==
    tb.open => \A d \in rows(tb) :
        bucket(tb, bucketFor(d, tb.groupBy))
            \subseteq rows([tb EXCEPT !.scope = onFilter(tb, d)])

(* Every value a column offers finds a device when it is the only field:   *)
(* the columns and the search agree on what a device is called.  What a    *)
(* column offers does not depend on the query: tables without one are      *)
(* enough.                                                                 *)
ColumnOptionFinds ==
    tb.open /\ tb.query = {} => \A c \in COLUMNS : \A o \in colFilterOptions(c, tb) :
        \E d \in scoped(tb) : deviceMatchesSearch(d, {o})

(* The table's groups, filters and columns agree: a group is collapsed     *)
(* only under its own grouping, the Filter of a group keeps its devices,   *)
(* and every value a column offers finds one.                              *)
TableAgrees == CollapsedOwn /\ FilterKeepsGroup /\ ColumnOptionFinds
=============================================================================
