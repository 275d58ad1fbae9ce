----------------------------- MODULE MCUiViews ------------------------------
(***************************************************************************)
(* What the web user interface shows without waiting for an answer: the    *)
(* navigation among its pages, the table of devices, the form of a rule,   *)
(* the audit, anonymity mode, and the topology pages with their drawings.  *)
(* They share no variable, so one run explores each alone: focus, chosen at *)
(* the start, says which one moves.                                        *)
(***************************************************************************)
EXTENDS UiNavigation, UiDeviceTable, UiRuleForm, UiAudit, UiAnonymity,
        UiTopology, UiRack, TLC

VARIABLE focus

MCVars == <<navVars, tableVars, ruleFormVars, auditVars, anonVars, topoVars,
            tree, rk, focus>>

(* A part that does not move starts in one state. *)
MCInit ==
    /\ focus \in {"navigation", "table", "ruleForm", "audit", "anonymity",
                  "topology", "tree", "rack"}
    /\ NavInit
    /\ TableInit
    /\ RuleFormInit /\ (focus # "ruleForm" => rf.apps /\ rf.custom = "")
    /\ AuditInit /\ (focus # "audit" => found.offline \cup found.other = {})
    /\ AnonInit
    /\ TopoInit
    /\ TreeInit
    /\ rackInit

(* Only the given part may change. *)
Others(part) ==
    /\ part # "navigation" => UNCHANGED navVars
    /\ part # "table" => UNCHANGED tableVars
    /\ part # "ruleForm" => UNCHANGED ruleFormVars
    /\ part # "audit" => UNCHANGED auditVars
    /\ part # "anonymity" => UNCHANGED anonVars
    /\ part # "topology" => UNCHANGED topoVars
    /\ part # "tree" => UNCHANGED tree
    /\ part # "rack" => UNCHANGED rk

MCNext ==
    /\ UNCHANGED focus
    /\ \/ focus = "navigation" /\ NavNext /\ Others(focus)
       \/ focus = "table" /\ TableNext /\ Others(focus)
       \/ focus = "ruleForm" /\ RuleFormNext /\ Others(focus)
       \/ focus = "audit" /\ AuditNext /\ Others(focus)
       \/ focus = "anonymity" /\ AnonNext /\ Others(focus)
       \/ focus = "topology" /\ TopoNext /\ Others(focus)
       \/ focus = "tree" /\ TreeNext /\ Others(focus)
       \/ focus = "rack" /\ RackNext /\ Others(focus)

MCSpec == MCInit /\ [][MCNext]_MCVars

-----------------------------------------------------------------------------
(* Three devices of the list: two on one network and one switch, and one   *)
(* of which little is known (UiDeviceTable).                               *)
MCLabel(i, k) == IF k = "user" THEN "u1" ELSE IF i = "2" THEN "g2" ELSE "g3"
P1 == [switchMac |-> "sm", switchName |-> "s", portId |-> "1", uplink |-> FALSE, clients |-> {"a"}, switchClients |-> {"a", "b"}]
P2 == [switchMac |-> "sm", switchName |-> "s", portId |-> "2", uplink |-> TRUE, clients |-> {"b"}, switchClients |-> {"a", "b"}]
MCDev == {
    [mac |-> "a", name |-> "A", active |-> "yes", users |-> <<"1">>, groups |-> <<"2">>, lan |-> "l1", loc |-> P1,
     online |-> TRUE, dap |-> "learning", vendor |-> "v", ip |-> "i1", ipv6 |-> {}],
    [mac |-> "b", name |-> "A", active |-> "none", users |-> <<>>, groups |-> <<"2", "3">>, lan |-> "l1", loc |-> P2,
     online |-> FALSE, dap |-> "none", vendor |-> "none", ip |-> "none", ipv6 |-> {"j"}],
    [mac |-> "c", name |-> "A", active |-> "yes", users |-> <<>>, groups |-> <<>>, lan |-> "none", loc |-> NoLoc,
     online |-> TRUE, dap |-> "none", vendor |-> "v", ip |-> "none", ipv6 |-> {}] }

(* The query and the view states of the table do not read each other: with *)
(* a query, one change of view is enough.                                  *)
TableHorizon == tb.query = {} \/ tb.views < MaxViews

(* Two devices of one network, and the addresses of the box (UiAnonymity). *)
MCReal == [
    a |-> [name |-> "n1", unifi |-> "u1", type |-> "phone", os |-> "", poe |-> FALSE, ip |-> Addr("priv", 1, 1)],
    b |-> [name |-> "n2", unifi |-> "u2", type |-> "", os |-> "phone", poe |-> TRUE, ip |-> Addr("priv", 1, 2)]]
MCLans == <<Addr("priv", 1, All), Addr("pub", 3, 4)>>
MCWan == Addr("pub", 3, 4)

(* The clients of a port, and the switches of three modules (UiTopology).  *)
MCClient(q) == IF q[2] = 0 THEN {"c1", "c2"} ELSE IF q[2] = 1 THEN {"c1", "bx"} ELSE {"s1"}
MCSw == <<"m1", "m2", "m3">>
MCSource(m) == IF m = "m1" THEN "tplink" ELSE IF m = "m2" THEN "unifi" ELSE "firewalla"

(* Products of the catalog, stubs of unknown ones, and a rack of them      *)
(* (UiRack).                                                               *)
NoSfp == [cols |-> 1, byRows |-> FALSE, ports |-> <<>>, rail |-> "center", gap |-> -1]
Fibre(cols, ids, gap) == [NoSfp EXCEPT !.cols = cols, !.byRows = cols = Len(ids), !.ports = ids, !.gap = gap]
Row(ids, rail, gap) == [ports |-> ids, rail |-> rail, columns |-> FALSE, odds |-> "low", bank |-> 0, gap |-> gap, lead |-> -1]
UpTo(n) == [i \in 1..n |-> i]
Product == [ru |-> 1, form |-> "rack", width |-> 9120, height |-> 398, align |-> "center", ear |-> 0, window |-> 0,
            screen |-> FALSE, badge |-> FALSE, trailer |-> FALSE, rj |-> <<>>, sfp |-> NoSfp]
Catalog == [
    gold_se |-> [Product EXCEPT !.window = 2644, !.badge = TRUE, !.rj = <<Row(UpTo(4), "center", -1)>>],
    switch_x |-> [Product EXCEPT !.width = 6235, !.badge = TRUE, !.rj = <<Row(UpTo(8), "low", 120)>>,
                                 !.sfp = [Fibre(4, <<9, 10, 11, 12>>, 220) EXCEPT !.rail = "low"]],
    sg1016pe |-> [Product EXCEPT !.width = 8313, !.badge = TRUE,
                     !.rj = <<[Row(UpTo(16), "low", 80) EXCEPT !.columns = TRUE, !.odds = "high", !.bank = 8]>>],
    aggregation |-> [Product EXCEPT !.screen = TRUE, !.trailer = TRUE, !.sfp = Fibre(4, UpTo(8), -1)],
    flex5 |-> [Product EXCEPT !.form = "shelf", !.width = 2212, !.height = 528, !.badge = TRUE,
                   !.rj = <<Row(UpTo(4), "center", 20), [Row(<<5>>, "center", 20) EXCEPT !.lead = 100]>>],
    flex8 |-> [Product EXCEPT !.form = "shelf", !.width = 4022, !.height = 528, !.badge = TRUE, !.trailer = TRUE,
                   !.rj = <<Row(UpTo(8), "center", 20), [Row(<<9>>, "center", 20) EXCEPT !.lead = 160]>>,
                   !.sfp = Fibre(1, <<10>>, 40)],
    hd24 |-> [Product EXCEPT !.screen = TRUE, !.trailer = TRUE, !.rj = <<[Row(UpTo(24), "low", -1) EXCEPT !.bank = 8]>>,
                  !.sfp = Fibre(2, <<25, 26, 27, 28>>, -1)],
    max16 |-> [Product EXCEPT !.width = 6144, !.align = "left", !.screen = TRUE,
                   !.rj = <<[Row(UpTo(16), "center", 30) EXCEPT !.bank = 8]>>, !.sfp = Fibre(2, <<17, 18>>, -1)]]
Stubs == [sim24 |-> <<24, 4>>, stub25 |-> <<25, 5>>, stub80 |-> <<80, 6>>]
Plates == [k \in DOMAIN Catalog \cup DOMAIN Stubs |->
    IF k \in DOMAIN Catalog THEN resolveFaceplate(Catalog[k]) ELSE resolveGenericShelf(Stubs[k][1], Stubs[k][2], TRUE)]
Unit(m, k) == [mac |-> m, plate |-> k, kind |-> "switch", ports |-> 1..28, marked |-> {}, uplink_port |-> 0, lags |-> {},
             parent |-> "none", parent_port |-> 0, nic |-> 0]
Reported == {
  [Unit("box", "gold_se") EXCEPT !.kind = "box", !.ports = 1..4],
  [Unit("x", "switch_x") EXCEPT !.uplink_port = 12, !.nic = 1, !.lags = {{9, 10}}],
  [Unit("h", "hd24") EXCEPT !.marked = {26}, !.lags = {{25, 26}, {1, 2, 3}}, !.parent = "x", !.parent_port = 10],
  [Unit("p", "sg1016pe") EXCEPT !.uplink_port = 16, !.parent = "h", !.parent_port = 2],
  [Unit("f", "flex8") EXCEPT !.marked = {9}, !.parent = "h", !.parent_port = 3],
  [Unit("v", "flex5") EXCEPT !.uplink_port = 5, !.parent = "p", !.parent_port = 4],
  [Unit("g", "aggregation") EXCEPT !.marked = {1, 2}, !.parent = "x", !.parent_port = 8],
  [Unit("m", "max16") EXCEPT !.uplink_port = 17, !.parent = "m", !.parent_port = 1],
  [Unit("s24", "sim24") EXCEPT !.uplink_port = 1, !.parent = "x", !.parent_port = 3],
  Unit("s25", "stub25"), Unit("s80", "stub80"),
  [Unit("a1", "none") EXCEPT !.kind = "ap", !.parent = "h", !.parent_port = 3],
  [Unit("a2", "none") EXCEPT !.kind = "ap", !.nic = 2] }
Faced(u, l) == u @@ [shelf |-> l.shelf, width |-> l.width, height |-> l.height, jacks |-> {j.id : j \in l.jacks}]
NoFace == [shelf |-> FALSE, width |-> 0, height |-> 0, jacks |-> {}]
MCUnits == {IF u.kind = "ap" THEN Faced(u, NoFace) ELSE Faced(u, Plates[u.plate]) : u \in Reported}

=============================================================================
