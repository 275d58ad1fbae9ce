----------------------------- MODULE UiAnonymity -----------------------------
(***************************************************************************)
(* Anonymity mode (ui/src/lib/anonymity.ts): what the pages show in place  *)
(* of names and addresses.  A walker per kind of data says how each field  *)
(* is replaced.  Names are given out once per page load, in the order the  *)
(* pages first ask for them, from a pool per kind with a running number    *)
(* when it is exhausted; addresses are replaced by a hash, inside the      *)
(* replaced subnet of their LAN when that is known.                        *)
(*                                                                         *)
(* An address is a block (private or public), a subnet and a host; the     *)
(* CIDR of a subnet has host All.  hash stands for fnv with the salt.      *)
(***************************************************************************)
EXTENDS Naturals, Sequences, FiniteSets

CONSTANTS
    Entity,        \* devices
    Real,          \* Real[e]: [name, unifi, type, os, poe, ip] of a device
    Lans,          \* the CIDRs of the interfaces, in their order
    WanIp,         \* the address of the WAN interface, and the box's public_ip
    HashValue,     \* values of the hash, as far as a subnet or host uses them
    MaxNames       \* bound: names given out in one page load

VARIABLES
    hash,          \* the hash of a text (an address or a CIDR)
    networkKnown,  \* App: network was loaded
    memo,          \* nameMemos of the salt: assigned, taken
    seen           \* history: which name was shown for which request

anonVars == <<hash, networkKnown, memo, seen>>

-----------------------------------------------------------------------------
(* Names *)

PhoneWords == <<"iphone">>
DeviceWords == PhoneWords \o <<"imac">>
GroupWords == <<"family", "iphone">>
SwitchWords == <<"core">>
NAME_POOLS == [phone |-> PhoneWords, device |-> DeviceWords, group |-> GroupWords, switch |-> SwitchWords]
NameKind == DOMAIN NAME_POOLS

clientNameKind(type, os) == IF "phone" \in {type, os} THEN "phone" ELSE "device"

(* The hardware of a switch adds words to its pool, not to the memo's key. *)
switchNamePool(e) == IF Real[e].poe THEN SwitchWords \o <<"poe">> ELSE SwitchWords
NameFrom(kind, tag, real, pool) == [how |-> "name", kind |-> kind, tag |-> tag, real |-> real, pool |-> pool]
Name(kind, tag, real) == NameFrom(kind, tag, real, NAME_POOLS[kind])

(* A name is a word and a number; the plain word has number 1. *)
takenDropped(m, kind, name) == [m EXCEPT !.taken[kind] = IF name[2] > 1 THEN @ ELSE @ \cup {name}] \* bug: numbers are not taken
taken(m, kind, name) == [m EXCEPT !.taken[kind] = @ \cup {name}]
free(m, kind, names, start) ==
    LET n == Len(names)
        at(step) == <<names[1 + ((start + step) % n)], 1>>
        open == {step \in 0..n - 1 : at(step) \notin m.taken[kind]}
        extras == {k \in 2..2 + Cardinality(m.taken[kind]) : <<names[1 + start], k>> \notin m.taken[kind]}
        least(S) == CHOOSE i \in S : \A j \in S : i <= j
    IN  IF open # {} THEN at(least(open)) ELSE <<names[1 + start], least(extras)>>
fakeName(q) ==
    LET key == <<q.kind, q.tag, q.real>> IN
    IF key \in DOMAIN memo.assigned
    THEN seen' = seen \cup {<<key, memo.assigned[key]>>} /\ UNCHANGED memo
    ELSE \E start \in 0..Len(q.pool) - 1 :                       \* the hash of the key
           /\ Cardinality(DOMAIN memo.assigned) < MaxNames
           /\ LET name == free(memo, q.kind, q.pool, start) IN
                /\ memo' = [taken(memo, q.kind, name) EXCEPT !.assigned = [x \in DOMAIN @ \cup {key} |->
                                                                         IF x = key THEN name ELSE @[x]]]
                /\ seen' = seen \cup {<<key, name>>}

-----------------------------------------------------------------------------
(* Addresses *)

All == 0
Addr(blk, net, host) == [blk |-> blk, net |-> net, host |-> host]
IsAddr(a) == a = Addr(a.blk, a.net, a.host)
ASSUME AnonAssumption == (\A e \in Entity : IsAddr(Real[e].ip)) /\ \A i \in 1..Len(Lans) : IsAddr(Lans[i])

ipInCIDR(a, c) == a.blk = c.blk /\ a.net = c.net /\ c.host \in {All, a.host}

(* Private stays private; the public range is the one for documentation. *)
fakeNet(blk, key) == Addr(blk, hash[key], All)
fakeCIDR(c) == IF c.host = All THEN fakeNet(c.blk, <<"cidr", c>>) ELSE Addr(c.blk, hash[<<"cidr", c>>], hash[<<"cidr", c>>])
remapHashed(a, f) == [f EXCEPT !.host = hash[<<"ip", a>>]]                \* bug: the host is hashed as well
remapV4(a, f) == [f EXCEPT !.host = a.host]
lanCidrsFromNetwork == IF networkKnown THEN {Lans[i] : i \in 1..Len(Lans)} ELSE {}
(* A hash of the address alone: no LAN is known to hold it. *)
Single(a) == Addr(a.blk, hash[<<"ip", a>>], hash[<<"ip", a>>])
fakeIP(a, cidrs) ==
    LET in == {c \in cidrs : ipInCIDR(a, c)}
        c == CHOOSE c \in in : \A d \in in : \E i \in 1..Len(Lans) : Lans[i] = c /\ \A j \in 1..i - 1 : Lans[j] # d
    IN  IF in = {} THEN Single(a)
        ELSE IF c.host = All THEN remapV4(a, fakeCIDR(c)) ELSE fakeCIDR(c)

Ip(a) == [how |-> "ip", shown |-> fakeIP(a, lanCidrsFromNetwork)]
IpAlone(a) == [how |-> "ip", shown |-> fakeIP(a, {})]
Cidr(c) == [how |-> "cidr", shown |-> fakeCIDR(c)]

-----------------------------------------------------------------------------
(* Free text: addresses and dotted names are replaced, other words stay. *)
rewriteText(toks) == [how |-> "text", left |-> {t \in toks : t[1] = "word"}]
Hidden == [how |-> "text", left |-> {}]

-----------------------------------------------------------------------------
(* The walkers: how the fields that name device e are replaced *)

anonymizeDevices(e) == {Name(clientNameKind(Real[e].type, Real[e].os), "", Real[e].name), Ip(Real[e].ip)}
fakeFlow(e) == {Name(clientNameKind(Real[e].type, ""), "", Real[e].name), rewriteText({<<"ip", Real[e].ip>>})}
anonymizeDashboard(e) == fakeFlow(e)
anonymizeWireless(e) == {Name(clientNameKind("", Real[e].os), "", Real[e].name), Ip(Real[e].ip)}
anonymizeAlarms(e) == {Name("device", "", Real[e].name), Ip(Real[e].ip), Hidden}
fakeNameSyncRow(e) == {Name("device", "", Real[e].name), Name("device", "unifi", Real[e].unifi), Ip(Real[e].ip)}
anonymizeAudit(e) == {Name("device", "", Real[e].name), Ip(Real[e].ip)} \cup fakeNameSyncRow(e)
anonymizeControlEvents(e) == {Name("device", "", Real[e].name), rewriteText({<<"ip", Real[e].ip>>, <<"word", "error">>})}
anonymizeTags(e) == {Name("group", "", Real[e].name)}       \* a group named after its device
anonymizeLogLines(e) == {rewriteText({<<"ip", Real[e].ip>>, <<"word", Real[e].name>>})}
anonymizePolicies(e) == {rewriteText({<<"ip", Real[e].ip>>, <<"word", "rule">>})}
anonymizeFwAppRules(e) == {rewriteText({<<"ip", Real[e].ip>>, <<"word", "notes">>})}
anonymizeVPN(e) == {Name("group", "", Real[e].unifi), IpAlone(Real[e].ip), Hidden}
fakeSwitch(e) == {NameFrom("switch", "", Real[e].name, switchNamePool(e)), Ip(Real[e].ip)}
fakeTree(e) == {Name("switch", "", Real[e].name), Ip(Real[e].ip)}
anonymizeTopo(e) == fakeSwitch(e) \cup fakeTree(e)
anonymizeNetwork == {Cidr(c) : c \in lanCidrsFromNetwork} \cup {Ip(WanIp)}

View == {"devices", "dashboard", "wireless", "alarms", "audit", "history", "tags", "logs", "policies", "rules", "vpn", "topo"}
Walk(view, e) ==
    CASE view = "devices"   -> anonymizeDevices(e)   [] view = "dashboard" -> anonymizeDashboard(e)
      [] view = "wireless"  -> anonymizeWireless(e)  [] view = "alarms"    -> anonymizeAlarms(e)
      [] view = "audit"     -> anonymizeAudit(e)     [] view = "history"   -> anonymizeControlEvents(e)
      [] view = "tags"      -> anonymizeTags(e)      [] view = "logs"      -> anonymizeLogLines(e)
      [] view = "policies"  -> anonymizePolicies(e)  [] view = "rules"     -> anonymizeFwAppRules(e)
      [] view = "vpn"       -> anonymizeVPN(e)       [] view = "topo"      -> anonymizeTopo(e)

(* A page asks for the names of a row. *)
render(view, e) == \E q \in Walk(view, e) : q.how = "name" /\ fakeName(q) /\ UNCHANGED <<hash, networkKnown>>

networkLoaded == ~networkKnown /\ networkKnown' = TRUE /\ UNCHANGED <<hash, memo, seen>>

NoMemo == [assigned |-> [q \in {} |-> 0], taken |-> [k \in NameKind |-> {}]]
(* The salt outlives the page, the names given out do not. *)
reloadPage == memo' = NoMemo /\ seen' = {} /\ networkKnown' = FALSE /\ UNCHANGED hash

HashKey == {<<"cidr", Lans[i]>> : i \in 1..Len(Lans)} \cup {<<"ip", Real[e].ip>> : e \in Entity} \cup {<<"ip", WanIp>>}
AnonInit == /\ hash \in [HashKey -> HashValue] /\ networkKnown = FALSE /\ memo = NoMemo /\ seen = {}
AnonNext == (\E view \in View, e \in Entity : render(view, e)) \/ networkLoaded \/ reloadPage
AnonSpec == AnonInit /\ [][AnonNext]_anonVars

-----------------------------------------------------------------------------
(* Within a kind a name stands for one original and an original keeps its  *)
(* name until the page is loaded again, in whatever order the pages ask    *)
(* and however far the pool is exhausted (fakeName, nameMemos).            *)
NamesApart ==
    \A x, y \in seen : x[1][1] = y[1][1] => (x[1] = y[1] <=> x[2] = y[2])

(* Once the networks are known, every page shows a device inside the shown *)
(* subnet of its LAN, and two devices of a LAN stay two addresses (fakeIP, *)
(* remapV4, lanCidrsFromNetwork; the page of the VPNs gives no networks).  *)
LanKept ==
    networkKnown => \A e \in Entity, i \in 1..Len(Lans) :
        ipInCIDR(Real[e].ip, Lans[i]) /\ Lans[i].host = All =>
            /\ \A view \in View \ {"vpn"} : \A q \in Walk(view, e) : q.how = "ip" =>
                   \E n \in anonymizeNetwork : n = Cidr(Lans[i]) /\ ipInCIDR(q.shown, n.shown)
            /\ \A d \in Entity : ipInCIDR(Real[d].ip, Lans[i]) /\ Real[d].ip # Real[e].ip =>
                   fakeIP(Real[d].ip, lanCidrsFromNetwork) # fakeIP(Real[e].ip, lanCidrsFromNetwork)

(* Under anonymity names stay apart and addresses stay in the shown subnet *)
(* of their LAN.                                                           *)
AliasesSound == NamesApart /\ LanKept
=============================================================================
