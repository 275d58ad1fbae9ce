------------------------------- MODULE UiRack -------------------------------
(***************************************************************************)
(* VRACK, the drawing of the topology page.  How it draws the front of a   *)
(* unit (ui/src/vrack/engine.ts): where the jacks of a catalogued product  *)
(* go, and the stub drawn for a switch the catalog does not know.  And the *)
(* rack (ui/src/vrack/VRack.tsx): the units of the latest poll stacked as  *)
(* rack units, shelves and access points, the cables between their jacks,  *)
(* and what lights up under the pointer.  A poll adds, drops or moves      *)
(* units under an open drawing.  Lengths are whole tenths of a pixel; a    *)
(* scale that is a fraction keeps numerator and denominator.               *)
(***************************************************************************)
EXTENDS Integers, Sequences, SequencesExt, FiniteSets, FiniteSetsExt

CONSTANTS
    RUnit,       \* the units a poll may report, each with the size of its
                 \* faceplate and the ids of its jacks: see MCUiViews
    Plate,       \* Plate[k]: the faceplate of product k, from the engine
    MaxUnits,    \* bound: units on the rack
    HoverPort    \* bound: the jacks the pointer visits

VARIABLE rk      \* the units in the order of the page; where they are drawn,
                 \* the height of the drawing and its cables, worked out anew
                 \* for every poll; connections, hover

-----------------------------------------------------------------------------
(* The front of a unit *)

(* catalog/kit.yaml at 48 px per inch, and the constants of the engine *)
rackW == 9120
unitH == 840
screenSide == 441
rj45W == 302
sfpCage == 253
keystoneW == 278

(* No unit is wider than the rack: the engine cuts racks and stubs to its  *)
(* width and the shelf products of the catalog are narrower.  Its ports    *)
(* are numbers, finitely many, and 0 stands for no port.                   *)
ASSUME RackAssumption ==
    \A u \in RUnit :
        /\ u.kind = "ap" \/ (u.width \in 0..rackW /\ u.height \in Nat)
        /\ 0 \notin u.jacks /\ u.uplink_port \in Nat
        /\ \A g \in u.lags \cup {u.marked, u.ports} : IsFiniteSet(g) /\ g \subseteq Nat

Least(a, b) == IF a < b THEN a ELSE b
Most(a, b) == IF a > b THEN a ELSE b
HalfUp(n) == (n + 1) \div 2
SumTo(f, n) == LET sum[k \in 0..n] == IF k = 0 THEN 0 ELSE sum[k - 1] + f[k] IN sum[n]

Jack(id, rail, x, y, w, h) == [id |-> id, rail |-> rail, x |-> x, y |-> y, w |-> w, h |-> h]

guideSize(height) == Least(screenSide, height - 100)
guideY(height) == (height - guideSize(height)) \div 2
rjHeight(height) == Least(screenSide \div 2, (height * 55) \div 100)
sfpHeight(height) == Least((guideSize(height) - 20) \div 2, (height * 40) \div 100)

railY(rail, h, height) ==
    CASE rail = "center" -> (height - h) \div 2
      [] rail = "high"   -> guideY(height)
      [] OTHER           -> guideY(height) + guideSize(height) - h

-----------------------------------------------------------------------------
(* The stub of an unmatched switch: c copper and f fibre ports, in the     *)
(* order of their ids.                                                     *)

shelfOrigin(maker) == 40 + IF maker THEN 180 ELSE 0
shelfHeight(c) == IF c > 24 THEN unitH ELSE 528
shelfSlot == rj45W + 30
copperCols(c) == IF c > 24 THEN Most(24, c - 24) ELSE c
stackedFibre(f) == f > 4
fibreCols(f) == IF stackedFibre(f) THEN HalfUp(f) ELSE f

(* Copper: one row, or from 25 ports on the first 24 below the others. *)
copperAt(i, c, x0) ==
    LET high == c > 24 /\ i > 24
        rail == IF c <= 24 THEN "center" ELSE IF high THEN "high" ELSE "low"
    IN Jack(i, rail, x0 + (IF high THEN i - 25 ELSE i - 1) * shelfSlot + 15, 0, rj45W, rjHeight(shelfHeight(c)))

(* Fibre: beside the copper, two rows of it from five ports on. *)
fibreAt(i, c, f, x0) ==
    LET col == IF stackedFibre(f) THEN (i - 1) \div 2 ELSE i - 1
        rail == IF ~stackedFibre(f) THEN "center" ELSE IF i % 2 = 1 THEN "high" ELSE "low"
    IN [Jack(c + i, rail, x0 + copperCols(c) * shelfSlot + 80 + col * (sfpCage + 30), 0, sfpCage, sfpHeight(shelfHeight(c)))
            EXCEPT !.y = IF rail = "low" THEN 1 ELSE 0]

shelfEnd(c, f, x0) ==
    x0 + copperCols(c) * shelfSlot
       + (IF f = 0 THEN 0 ELSE 80 + fibreCols(f) * sfpCage + (fibreCols(f) - 1) * 30) + 40

(* The scale that makes the stub fit the rack, at least 0.35. *)
shelfFitNone(c, f, x0) == <<1, 1>>   \* bug: never scaled down
shelfFit(c, f, x0) ==
    LET span == Most(shelfEnd(c, f, x0) - x0 - 40, 10)
        room == rackW - x0 - 40
    IN IF Most(shelfEnd(c, f, x0), x0 + 520) <= rackW THEN <<1, 1>>
       ELSE IF room * 100 < span * 35 THEN <<35, 100>> ELSE <<room, span>>

scaled(v, fit) == (v * fit[1]) \div fit[2]

settle(j, fibre, x0, height, fit) ==
    LET h == scaled(j.h, fit)
    IN [j EXCEPT !.x = x0 + scaled(j.x - x0, fit), !.w = scaled(j.w, fit), !.h = h,
                 !.y = IF fibre /\ j.rail # "center" THEN guideY(height) + j.y * (h + scaled(20, fit))
                       ELSE railY(j.rail, h, height)]

(* The mark of the maker: in the middle of what the jacks leave on their   *)
(* left, smaller when that is little.                                      *)
squareMark(x, size, height) == Jack(0, "center", x, (height - size) \div 2, size, size)
shelfMark(mark, jacks, left, padding, shrinks, height) ==
    LET room == Min({j.x : j \in jacks}) - padding - left
    IN IF jacks = {} THEN mark
       ELSE IF room >= mark.w THEN [mark EXCEPT !.x = left + (room - mark.w) \div 2]
       ELSE IF shrinks /\ room > 40 THEN squareMark(left, room, height)
       ELSE mark

resolveGenericShelf(c, f, maker) ==
    LET x0 == shelfOrigin(maker)  height == shelfHeight(c)  fit == shelfFit(c, f, x0)
        jacks == {settle(copperAt(i, c, x0), FALSE, x0, height, fit) : i \in 1..c}
                 \cup {settle(fibreAt(i, c, f, x0), TRUE, x0, height, fit) : i \in 1..f}
    IN [width |-> Least(Most(shelfEnd(c, f, x0), x0 + 520), rackW),
        height |-> height,
        shelf |-> TRUE,
        jacks |-> jacks,
        blanks |-> IF maker THEN {shelfMark(squareMark(40, 140, height), jacks, 40, 40, FALSE, height)} ELSE {}]

-----------------------------------------------------------------------------
(* A catalogued product p: its body, what is left of the jacks, its rows   *)
(* of copper p.rj and its fibre block p.sfp.                               *)

isShelf(p) == p.form = "shelf"
plateH(p) == IF isShelf(p) THEN Most(280, p.height) ELSE unitH * p.ru
chassisW(p) == IF isShelf(p) THEN p.width ELSE Least(rackW, p.width)
plateW(p) == IF isShelf(p) THEN chassisW(p) ELSE rackW
chassisX(p) ==
    IF isShelf(p) THEN 0
    ELSE IF chassisW(p) < plateW(p) - 5 /\ p.align = "left" THEN p.ear
    ELSE IF chassisW(p) < plateW(p) - 5 /\ p.align = "right" THEN plateW(p) - chassisW(p) - p.ear
    ELSE (plateW(p) - chassisW(p)) \div 2

pad(p) == IF isShelf(p) THEN 40 ELSE 60
packGap(p) == IF isShelf(p) THEN 30 ELSE 40
badgeSize(p) == IF isShelf(p) THEN Least(140, plateH(p) - 80) ELSE 220
windowW(p) == Least(chassisW(p), p.window)
windowX(p) == chassisX(p) + (chassisW(p) - windowW(p)) \div 2
leftEdge(p) == IF p.window > 0 THEN windowX(p) ELSE chassisX(p)

firstX(p) ==
    leftEdge(p) + pad(p)
    + IF p.badge /\ ~isShelf(p) THEN badgeSize(p) + pad(p)
      ELSE IF p.screen THEN Least(screenSide, guideSize(plateH(p))) + 2 * pad(p)
      ELSE 0

trailerW(p) == IF p.trailer THEN sfpCage ELSE 0
sfpWidth(p) == IF p.sfp.ports = <<>> THEN 0 ELSE p.sfp.cols * sfpCage + (p.sfp.cols - 1) * 30
bayRight(p) == IF p.window > 0 THEN windowX(p) + windowW(p) ELSE chassisX(p) + chassisW(p)
sfpLead(p) == IF p.sfp.gap >= 0 THEN p.sfp.gap ELSE pad(p)
sfpRight(p) == bayRight(p) - pad(p) - trailerW(p) - sfpWidth(p)
copperEnd(p) == IF sfpWidth(p) > 0 THEN sfpRight(p) - sfpLead(p) ELSE sfpRight(p)

(* Banks: the k-th port of row r lies in bank bankOf; a column holds two    *)
(* ports when the row is laid out in columns.                              *)
bankLen(r) == IF r.bank > 0 THEN r.bank ELSE Len(r.ports)
bankOf(r, k) == (k - 1) \div bankLen(r)
banks(r) == (Len(r.ports) + bankLen(r) - 1) \div bankLen(r)
slotOf(r, k) ==
    IF r.columns THEN bankOf(r, k) * HalfUp(bankLen(r)) + ((k - 1) % bankLen(r)) \div 2 ELSE k - 1
slots(r) == IF r.columns THEN slotOf(r, Len(r.ports)) + 1 ELSE Len(r.ports)

rj45ColumnRail(id, odds) == IF (id % 2 = 1) = (odds = "high") THEN "high" ELSE "low"
railOf(r, k) == IF r.columns THEN rj45ColumnRail(r.ports[k], r.odds) ELSE r.rail

(* Behind a window: the rows as one group in its middle. *)
windowJacks(p) ==
    LET ids == FlattenSeq([i \in DOMAIN p.rj |-> p.rj[i].ports])
        mark == IF p.badge THEN badgeSize(p) + pad(p) ELSE 0
        step == rj45W + packGap(p)
        x0 == windowX(p) + Most(pad(p), (windowW(p) - mark - Len(ids) * step) \div 2) + mark
        h == rjHeight(plateH(p))
    IN {Jack(ids[k], p.rj[1].rail, x0 + (k - 1) * step + packGap(p) \div 2, railY(p.rj[1].rail, h, plateH(p)), rj45W, h)
            : k \in DOMAIN ids}

(* Without a screen: the rows packed beside the fibre, scaled down together *)
(* when they are wider than the bay.                                       *)
rowLead(p, i) == IF p.rj[i].lead >= 0 THEN p.rj[i].lead ELSE IF i = 1 THEN 0 ELSE IF isShelf(p) THEN 140 ELSE 100
rowGap(p, i) == IF p.rj[i].gap >= 0 THEN p.rj[i].gap ELSE packGap(p)
rowWidth(p, i) == rowLead(p, i) + slots(p.rj[i]) * (rj45W + rowGap(p, i)) + (banks(p.rj[i]) - 1) * 60
copperNat(p) == SumTo([i \in DOMAIN p.rj |-> rowWidth(p, i)], Len(p.rj))
groupNat(p) == copperNat(p) + (IF sfpWidth(p) > 0 THEN sfpLead(p) + sfpWidth(p) ELSE 0)
usableW(p) == Most(0, bayRight(p) - pad(p) - trailerW(p) - firstX(p))
packFit(p) == IF groupNat(p) > usableW(p) THEN <<usableW(p), groupNat(p)>> ELSE <<1, 1>>
packX(p) ==
    IF isShelf(p) THEN firstX(p) + Most(0, (usableW(p) - scaled(groupNat(p), packFit(p))) \div 2)
    ELSE IF packFit(p) = <<1, 1>> THEN Most(firstX(p), copperEnd(p) - copperNat(p))
    ELSE firstX(p)

packJacks(p) ==
    LET fit == packFit(p)
        w == scaled(rj45W, fit)
        h == scaled(rjHeight(plateH(p)), fit)
        before(i) == SumTo([q \in DOMAIN p.rj |-> rowWidth(p, q)], i - 1) + rowLead(p, i)
        at(i, k) == before(i) + slotOf(p.rj[i], k) * (rj45W + rowGap(p, i)) + bankOf(p.rj[i], k) * 60 + rowGap(p, i) \div 2
    IN UNION {{Jack(p.rj[i].ports[k], railOf(p.rj[i], k), packX(p) + scaled(at(i, k), fit),
                    railY(railOf(p.rj[i], k), h, plateH(p)), w, h) : k \in DOMAIN p.rj[i].ports} : i \in DOMAIN p.rj}

(* With a screen: each block fills the bay from the screen to the fibre, a  *)
(* jack in the middle of its slot and narrower when the slot is.           *)
portGap(r) == Most(0, r.gap)
fillStart(p, i) == IF i = 1 THEN firstX(p) ELSE copperEnd(p)
fillSlot(p, i) ==
    LET r == p.rj[i]
        within == IF r.columns THEN 0 ELSE Most(0, Len(r.ports) - banks(r))
    IN (copperEnd(p) - fillStart(p, i) - (banks(r) - 1) * 60 - within * portGap(r)) \div slots(r)

fillJacks(p) ==
    LET w(i) == Least(rj45W, fillSlot(p, i))
        h(i) == Least(rjHeight(plateH(p)), (rjHeight(plateH(p)) * fillSlot(p, i)) \div rj45W)
        at(i, k) == fillStart(p, i) + slotOf(p.rj[i], k) * fillSlot(p, i) + bankOf(p.rj[i], k) * 60
                    + (IF p.rj[i].columns THEN 0 ELSE (k - 1 - bankOf(p.rj[i], k)) * portGap(p.rj[i]))
    IN UNION {{Jack(p.rj[i].ports[k], railOf(p.rj[i], k), at(i, k) + (fillSlot(p, i) - w(i)) \div 2,
                    railY(railOf(p.rj[i], k), h(i), plateH(p)), w(i), h(i)) : k \in DOMAIN p.rj[i].ports} : i \in DOMAIN p.rj}

(* The fibre block: columns of cages, or rows of them. *)
sfpX(p) ==
    IF isShelf(p) /\ ~p.screen /\ p.window = 0
    THEN packX(p) + scaled(copperNat(p) + sfpLead(p), packFit(p)) ELSE sfpRight(p)
sfpJacks(p) ==
    LET n == Len(p.sfp.ports)
        tall == (n + p.sfp.cols - 1) \div p.sfp.cols
        fit == IF isShelf(p) THEN packFit(p) ELSE <<1, 1>>
        w == scaled(sfpCage, fit)
        h == scaled(sfpHeight(plateH(p)), fit)
        col(i) == IF p.sfp.byRows THEN (i - 1) % p.sfp.cols ELSE (i - 1) \div tall
        row(i) == IF p.sfp.byRows THEN (i - 1) \div p.sfp.cols ELSE (i - 1) % tall
        rail(i) == IF tall = 1 THEN p.sfp.rail ELSE IF row(i) = 0 THEN "high" ELSE "low"
    IN {Jack(p.sfp.ports[i], rail(i), sfpX(p) + col(i) * (w + 30),
             IF tall = 1 THEN railY(rail(i), h, plateH(p))
             ELSE guideY(plateH(p)) + row(i) * (sfpHeight(plateH(p)) + 20), w, h) : i \in 1..n}

(* Blank faces, no ports, spread over the wings beside a window. *)
wing(p, side) ==
    IF side = "left" THEN <<chassisX(p) + pad(p), windowX(p) - chassisX(p) - 2 * pad(p)>>
    ELSE <<windowX(p) + windowW(p) + pad(p), chassisX(p) + chassisW(p) - windowX(p) - windowW(p) - 2 * pad(p)>>
keystones(p) ==
    IF p.window = 0 THEN {}
    ELSE {Jack(0, "center", wing(p, s)[1] + (i - 1) * (wing(p, s)[2] \div 8) + (wing(p, s)[2] \div 8 - keystoneW) \div 2,
               railY("center", keystoneW, plateH(p)), keystoneW, keystoneW) : s \in {"left", "right"}, i \in 1..8}

(* The screen or the mark, left of the copper. *)
marks(p, jacks) ==
    LET x == leftEdge(p) + pad(p)
        mark == squareMark(IF p.window > 0 THEN Min({j.x : j \in jacks}) - packGap(p) \div 2 - pad(p) - badgeSize(p) ELSE x,
                           badgeSize(p), plateH(p))
    IN (IF p.screen THEN {squareMark(x, Least(screenSide, guideSize(plateH(p))), plateH(p))} ELSE {})
       \cup IF ~p.badge THEN {}
            ELSE IF isShelf(p) THEN {shelfMark(mark, jacks, chassisX(p) + pad(p), pad(p), TRUE, plateH(p))}
            ELSE {mark}

resolveFaceplate(p) ==
    LET jacks == (IF p.window > 0 THEN windowJacks(p) ELSE IF p.screen THEN fillJacks(p) ELSE packJacks(p)) \cup sfpJacks(p)
    IN [width |-> plateW(p), height |-> plateH(p), shelf |-> isShelf(p),
        jacks |-> jacks, blanks |-> keystones(p) \cup marks(p, jacks)]

-----------------------------------------------------------------------------
Overlap(a, b) ==
    /\ a.x < b.x + b.w /\ b.x < a.x + a.w
    /\ a.y < b.y + b.h /\ b.y < a.y + a.h
Within(a, width, height) == a.x >= 0 /\ a.y >= 0 /\ a.x + a.w <= width /\ a.y + a.h <= height
PlateSound(l) ==
    LET drawn == l.jacks \cup l.blanks
    IN /\ \A a \in drawn : Within(a, l.width, l.height)
       /\ \A a, b \in drawn : a # b => ~Overlap(a, b)

-----------------------------------------------------------------------------
(* The rack *)

NoHover == [kind |-> "none"]
rackInit == rk = [units |-> <<>>, spots |-> {}, height |-> 0, links |-> {}, connections |-> FALSE, hover |-> NoHover]

-----------------------------------------------------------------------------
(* Where the units go: racks one below the other, then shelves in rows as  *)
(* wide as the rack, then the access points in rows.                       *)

apDisc == 720
racks(us) == {i \in DOMAIN us : us[i].kind # "ap" /\ ~us[i].shelf}
shelves(us) == {i \in DOMAIN us : us[i].kind # "ap" /\ us[i].shelf}
discs(us) == {i \in DOMAIN us : us[i].kind = "ap"}

wide(u) == IF u.kind = "ap" THEN apDisc ELSE u.width
tall(u) == IF u.kind = "ap" THEN apDisc ELSE u.height
Spot(u, x, y) == [mac |-> u.mac, x |-> x, y |-> y, w |-> wide(u), h |-> tall(u)]

(* Where the next rack goes, after the racks among the first n units. *)
placeRacks(us) ==
    LET y[n \in 0..Len(us)] ==
            IF n = 0 THEN 0 ELSE IF n \in racks(us) THEN y[n - 1] + us[n].height + 40 ELSE y[n - 1]
    IN  y

(* A row: where its last unit is, where the next one would go, its tallest. *)
(* A unit that no longer fits begins a row below the tallest of the last.  *)
rowStepOne(row, u, gap) ==   \* bug: the row is never ended
    [x |-> row.next, y |-> row.y, next |-> row.next + wide(u) + gap, tallest |-> Most(row.tallest, tall(u))]
rowStep(row, u, gap) ==
    LET wrap == row.next > 0 /\ row.next + wide(u) > rackW
        x == IF wrap THEN 0 ELSE row.next
    IN [x |-> x, y |-> IF wrap THEN row.y + row.tallest + gap ELSE row.y,
        next |-> x + wide(u) + gap, tallest |-> Most(IF wrap THEN 0 ELSE row.tallest, tall(u))]

(* The rows of some of the units, after those among the first n. *)
placeRows(us, some, top, gap) ==
    LET row[n \in 0..Len(us)] ==
            IF n = 0 THEN [x |-> 0, y |-> top, next |-> 0, tallest |-> 0]
            ELSE IF n \in some THEN rowStep(row[n - 1], us[n], gap) ELSE row[n - 1]
    IN  row

(* below: where the racks ended; row: the last row of the shelves. *)
shelfTop(us, below) == below + IF racks(us) # {} /\ shelves(us) # {} THEN 120 ELSE 0
wirelessTop(us, below, row) ==
    CASE shelves(us) # {} -> row.y + row.tallest + 200
      [] shelves(us) = {} /\ racks(us) # {} -> below - 40 + 200
      [] OTHER -> 0

placed(us) ==
    LET y == placeRacks(us)
        shelf == placeRows(us, shelves(us), shelfTop(us, y[Len(us)]), 40)
        disc == placeRows(us, discs(us), wirelessTop(us, y[Len(us)], shelf[Len(us)]) + 180, 160)
    IN [i \in DOMAIN us |->
            IF i \in racks(us) THEN Spot(us[i], 0, y[i - 1])
            ELSE IF i \in shelves(us) THEN Spot(us[i], shelf[i].x, shelf[i].y)
            ELSE Spot(us[i], disc[i].x, disc[i].y)]

nativeH(S) == IF S = {} THEN 0 ELSE Max({s.y + s.h : s \in S})

-----------------------------------------------------------------------------
(* The cables. *)

SortedIds(S) == [i \in 1..Cardinality(S) |-> CHOOSE p \in S : Cardinality({q \in S : q < p}) = i - 1]

expandLagOf(u, port) ==
    IF \E g \in u.lags : port \in g THEN SortedIds(CHOOSE g \in u.lags : port \in g) ELSE <<port>>

(* The ports a unit is cabled upstream with: the marked ones and their LAGs. *)
uplinkPorts(u) ==
    LET marked == u.marked \cup (u.ports \cap {u.uplink_port})
    IN IF marked # {} THEN SortedIds(UNION {ToSet(expandLagOf(u, p)) : p \in marked})
       ELSE IF u.uplink_port # 0 THEN expandLagOf(u, u.uplink_port) ELSE <<>>

(* As many ports of the parent as the child has cables. *)
parentPortsOne(parent, port, need) == IF port = 0 THEN <<>> ELSE [i \in 1..need |-> port]   \* bug: the LAG is not followed
parentPortsFor(parent, port, need) ==
    IF port = 0 THEN <<>>
    ELSE LET lag == expandLagOf(parent, port) IN [i \in 1..need |-> lag[Least(i, Len(lag))]]

jackIds(u) == u.jacks
Cable(p, pp, c, cp, i) == [parent |-> p.mac, pp |-> pp, child |-> c.mac, cp |-> cp, i |-> i]

pushPaired(parent, pps, child, cps) ==
    {Cable(parent, pps[i], child, cps[i], i) :
        i \in {k \in DOMAIN pps : pps[k] \in jackIds(parent) /\ cps[k] \in jackIds(child)}}
pushApLinks(parent, pps, disc) ==
    {Cable(parent, pps[i], disc, 0, i) : i \in {k \in DOMAIN pps : pps[k] \in jackIds(parent)}}

linksOf(us, u) ==
    LET wired == {v \in ToSet(us) : v.kind # "ap"}
        up == {v \in wired : v.mac = u.parent}
        gold == {v \in wired : v.kind = "box"}
        cps == uplinkPorts(u)
    IN IF u.kind = "box" \/ (u.kind = "switch" /\ cps = <<>>) THEN {}
       ELSE IF u.kind = "switch" /\ up # {}
       THEN UNION {pushPaired(p, parentPortsFor(p, u.parent_port, Len(cps)), u, cps) : p \in up}
       ELSE IF u.kind = "switch" /\ u.nic > 0
       THEN UNION {pushPaired(p, [i \in DOMAIN cps |-> u.nic], u, cps) : p \in gold}
       ELSE IF u.kind = "ap" /\ up # {}
       THEN UNION {pushApLinks(p, IF u.parent_port = 0 THEN <<>> ELSE expandLagOf(p, u.parent_port), u) : p \in up}
       ELSE IF u.kind = "ap" /\ u.nic > 0 THEN UNION {pushApLinks(p, <<u.nic>>, u) : p \in gold}
       ELSE {}
buildLinks(us) == UNION {linksOf(us, u) : u \in ToSet(us)}

(* What the pointer lights: the cables it names and the jacks at both ends. *)
matchParent(l, h) == h.kind = "port" /\ <<h.mac, h.port>> = <<l.parent, l.pp>>   \* bug: the cable is found from one end only
match(l, h) ==
    CASE h.kind = "link" -> l = h.link
      [] h.kind = "ap"   -> l.child = h.mac /\ l.cp = 0
      [] h.kind = "port" -> <<h.mac, h.port>> \in {<<l.parent, l.pp>>, <<l.child, l.cp>>}
      [] OTHER -> FALSE
litPorts(links, h) ==
    UNION {{<<l.parent, l.pp>>, <<l.child, l.cp>>} : l \in {k \in links : match(k, h)}}
    \cup (IF h.kind = "port" THEN {<<h.mac, h.port>>} ELSE IF h.kind = "ap" THEN {<<h.mac, 0>>} ELSE {})

-----------------------------------------------------------------------------
(* The poll and the pointer. *)

pollAdds(us) == {Append(us, u) : u \in {v \in RUnit : Len(us) < MaxUnits /\ v.mac \notin {w.mac : w \in ToSet(us)}}}
pollDrops(us) == {[k \in 1..Len(us) - 1 |-> us[IF k < i THEN k ELSE k + 1]] : i \in DOMAIN us}
pollMoves(us) == {[us EXCEPT ![i] = us[i + 1], ![i + 1] = us[i]] : i \in 1..Len(us) - 1}

(* Every list the poll brings is placed and cabled anew. *)
draw(us) ==
    LET spots == ToSet(placed(us))
    IN rk' = [rk EXCEPT !.units = us, !.spots = spots, !.height = nativeH(spots),
                        !.links = IF rk.connections THEN buildLinks(us) ELSE {}]

setConnections ==
    rk' = [rk EXCEPT !.connections = ~@, !.links = IF rk.connections THEN {} ELSE buildLinks(rk.units),
                     !.hover = IF rk.connections THEN NoHover ELSE @]
setHover(h) == rk.connections /\ rk' = [rk EXCEPT !.hover = h]
Hovers ==
    {[kind |-> "link", link |-> l] : l \in rk.links}
    \cup {[kind |-> "ap", mac |-> u.mac] : u \in {v \in ToSet(rk.units) : v.kind = "ap"}}
    \cup {[kind |-> "port", mac |-> u.mac, port |-> p] : u \in {v \in ToSet(rk.units) : v.kind # "ap"}, p \in HoverPort}

RackNext ==
    \/ \E us \in pollAdds(rk.units) \cup pollDrops(rk.units) \cup pollMoves(rk.units) : draw(us)
    \/ setConnections
    \/ \E h \in Hovers : setHover(h)
    \/ rk.hover # NoHover /\ setHover(NoHover)

RackSpec == rackInit /\ [][RackNext]_rk

-----------------------------------------------------------------------------
(* The jacks of a faceplate lie inside it and apart, whatever the number   *)
(* of ports and the scale (engine.ts: resolveFaceplate,                    *)
(* resolveGenericShelf).  Cables change no faceplate, and every unit is at *)
(* some time the last: those states are enough.                            *)
JacksApart ==
    (rk.units # <<>> /\ ~rk.connections)
        => LET u == rk.units[Len(rk.units)] IN u.kind # "ap" => PlateSound(Plate[u.plate])

(* No unit is drawn over another one or outside the drawing, whatever the  *)
(* rows of shelves and access points (VRack.tsx: units, aps, nativeH).     *)
UnitsApart ==
    /\ Cardinality(rk.spots) = Len(rk.units)
    /\ \A a \in rk.spots : Within(a, rackW, rk.height)
    /\ \A a, b \in rk.spots : a # b => ~Overlap(a, b)

(* A bonded uplink is drawn cable by cable: each port of the child has one *)
(* cable, and they end on different ports of the parent when its LAG is as *)
(* wide (VRack.tsx: parentPortsFor, pushPaired).                           *)
BondsDrawn ==
    rk.connections => \A u, p \in ToSet(rk.units) :
        LET mine == {l \in rk.links : l.child = u.mac}
            cps == ToSet(uplinkPorts(u))
            lag == ToSet(expandLagOf(p, u.parent_port))
        IN (u.kind = "switch" /\ u.parent = p.mac /\ u.parent_port \in jackIds(p) /\ p.kind # "ap"
              /\ cps \subseteq jackIds(u) /\ lag \subseteq jackIds(p))
           => /\ \A c \in cps : Cardinality({l \in mine : l.cp = c}) = 1
              /\ \A l \in mine : l.pp \in lag
              /\ Cardinality(lag) >= Cardinality(cps) => Cardinality({l.pp : l \in mine}) = Cardinality(cps)

(* Either end of a cable lights the other one (VRack.tsx: match). *)
HoverBothEnds ==
    \A l \in rk.links :
        LET down == IF l.cp = 0 THEN [kind |-> "ap", mac |-> l.child] ELSE [kind |-> "port", mac |-> l.child, port |-> l.cp]
        IN /\ <<l.child, l.cp>> \in litPorts(rk.links, [kind |-> "port", mac |-> l.parent, port |-> l.pp])
           /\ <<l.parent, l.pp>> \in litPorts(rk.links, down)

(* The rack draws jacks and units apart and inside their frames, a bonded  *)
(* uplink cable by cable, and lights both ends of a cable.                 *)
RackSound == JacksApart /\ UnitsApart /\ BondsDrawn /\ HoverBothEnds
=============================================================================
