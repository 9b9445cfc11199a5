----------------------------- MODULE KindlePage -----------------------------
(***************************************************************************)
(* The page the collector draws for an e-ink reader: which of the eleven   *)
(* places have a reading, how wide the widest thing each of them can print *)
(* is, and where every block goes, worked out on each render from what is  *)
(* on the page (KindleFlow.h).  The same layout goes to the panel, which   *)
(* draws it with FBInk, and, shortened for what a browser adds, to the     *)
(* browser page.                                                           *)
(*                                                                         *)
(* A reading is the shape of its printed text: how many figures before the *)
(* point, how many after it, a minus.  Sizes are design pixels of a page   *)
(* of 600 x 800 (or 800 x 600), widths are thousandths of the type size.   *)
(***************************************************************************)
EXTENDS Integers, Sequences, FiniteSets

CONSTANTS
    Setups,      \* [skin, places]: the settings and the places at the start
    Figures,     \* the texts a reading may change to
    Switches,    \* the settings an edit may turn over
    MaxEdits,    \* edits of the settings
    MaxReadings  \* readings that arrive, or are not to be had for one render

VARIABLES
    skin,   \* KindleConfig, as far as the layout reads it
    places, \* zone -> [metric, trend, text]: KindleZones with its readings
    page,   \* the layout of the last render
    gone    \* [edits, readings] so far

pageVars == <<skin, places, page, gone>>

Nothing == [metric |-> "none", trend |-> FALSE, text |-> [have |-> FALSE]]
Least(a, b) == IF a < b THEN a ELSE b
Most(a, b) == IF a > b THEN a ELSE b
LeastOf(S) == CHOOSE x \in S : \A y \in S : x <= y

\* The largest number of lo..hi that is fit, lo - 1 when none is: the loops
\* that take a size down until it fits.
Largest(lo, hi, Fit(_)) ==
    LET down[v \in (lo - 1) .. Most(lo - 1, hi)] ==
            IF v < lo THEN lo - 1 ELSE IF Fit(v) THEN v ELSE down[v - 1]
    IN  down[Most(lo - 1, hi)]

-----------------------------------------------------------------------------
(* How wide a text comes out.                                              *)

FigSize == 620
Degrees == {"temperature", "dew_point"}
Percents == {"humidity", "humidity_amb", "soil_moisture", "battery_percent"}
Worded == [pressure |-> 1620, co2 |-> 1500, lux |-> 1000]

\* kdFlowMinDigits: the fewest figures a metric is sized for.
MinDigits(metric) ==
    IF metric \in Degrees THEN 2
    ELSE IF metric \in Percents \cup {"aqi", "battery_days"} THEN 3
    ELSE IF metric \in {"pressure", "co2", "eco2", "tvoc"} THEN 4
    ELSE IF metric = "lux" THEN 5
    ELSE IF metric \in {"rain", "wind", "flow_rate"} THEN 2 ELSE 0

\* kdFigAdvance of a minus, figures and decimals.
FigAdvance(minus, ints, decs) ==
    (IF minus THEN 330 ELSE 0) + (ints + decs) * FigSize + IF decs > 0 THEN 260 ELSE 0

\* kdFlowFieldAdvance: the text with its unit and its arrow, each at its size.
FieldAdvance(metric, figs, unit, arrow) ==
    figs + (IF ~unit THEN 0
            ELSE IF metric \in Degrees THEN (330 * 34) \div 100
            ELSE IF metric \in Percents THEN (800 * 42) \div 100
            ELSE IF metric \in DOMAIN Worded THEN ((250 + Worded[metric]) * 42) \div 100
            ELSE 0)
         + IF arrow THEN 350 ELSE 0

\* Fault: sized for the figures the reading has now.
FigsNeededNow(metric, text) == Most(1, text.ints)

\* How many figures a place is sized for, in kdFlowWorstAdvance.
FigsNeeded(metric, text) == Most(1, Most(text.ints, MinDigits(metric)))

WorstAdvance(metric, text, unit, arrow, assumeSign) ==
    FieldAdvance(metric,
        FigAdvance(assumeSign /\ (text.minus \/ metric \in Degrees),
                   FigsNeeded(metric, text), text.decs), unit, arrow)

PairAdvance(metric, text, unit, arrow) ==
    FieldAdvance(metric, FigAdvance(text.minus \/ metric \in Degrees, 2, text.decs),
                 unit, arrow)

PrintedAdvance(metric, text, unit, arrow) ==
    FieldAdvance(metric, FigAdvance(text.minus, text.ints, text.decs), unit, arrow)

\* kdFlowFirstInAdvance: an indoor temperature keeps no room for a minus.
FirstInAdvance(metric, text, unit, arrow) ==
    IF metric # "temperature" THEN WorstAdvance(metric, text, unit, arrow, TRUE)
    ELSE Most(WorstAdvance(metric, text, unit, arrow, FALSE),
              PrintedAdvance(metric, text, unit, arrow))

-----------------------------------------------------------------------------
(* What is on the page.                                                    *)

GridZones == <<"g1", "g2", "g3", "g4", "g5", "g6">>
IndoorZones == <<"in1", "in2", "in3">>

\* kdResolveZones and kdZonesUsed: a place nobody configured, or one without a
\* reading, is skipped.
Visible(at, zones) == SelectSeq(zones, LAMBDA z : z \in DOMAIN at /\ at[z].text.have)

\* kdStandaloneDecide: whether the forecast band is left out.
Standalone(s) ==
    \/ s.layout = "standalone"
    \/ s.layout = "auto" /\ (s.apMode \/ s.forecast \in {"never", "stale"})

Arrow(s, p) == p.trend /\ s.tendency /\ p.metric = "pressure"

\* kdFlowFor: the input of the layout.  On the wall page a grid reading's
\* worded unit is in its caption (kdWallUnits), and so is its arrow.
Wanted(s, at) ==
    LET wall == s.wall /\ ~s.land
        Headed(z, Advance(_, _, _, _)) ==
            IF Visible(at, <<z>>) = <<>> THEN 0
            ELSE Advance(at[z].metric, at[z].text, TRUE, Arrow(s, at[z]))
        grid == IF s.grid THEN Visible(at, GridZones) ELSE <<>>
        inside == IF s.inside THEN Visible(at, IndoorZones) ELSE <<>>
        Place(z) == WorstAdvance(at[z].metric, at[z].text,
                        ~(wall /\ at[z].metric \in DOMAIN Worded),
                        Arrow(s, at[z]) /\ ~wall, TRUE)
    IN  [chart |-> s.chart /\ ~wall, week |-> s.week /\ ~wall, clock |-> s.clock,
         forecast |-> ~Standalone(s), sub |-> s.sub, land |-> s.land, wall |-> wall,
         html |-> s.html, inColOk |-> s.inColOk, outPct |-> s.outPct, inPct |-> s.inPct,
         hero |-> Headed("hero", PrintedAdvance),
         big |-> IF s.big THEN Headed("big", PrintedAdvance) ELSE 0,
         bigFit |-> IF s.big THEN Headed("big", PairAdvance) ELSE 0,
         grid |-> [i \in DOMAIN grid |-> Place(grid[i])],
         in |-> [i \in DOMAIN inside |->
                    LET p == at[inside[i]] IN
                    IF i = 1 THEN FirstInAdvance(p.metric, p.text, TRUE, Arrow(s, p))
                    ELSE WorstAdvance(p.metric, p.text, TRUE, Arrow(s, p), TRUE)]]

-----------------------------------------------------------------------------
(* Sizes that grow together, and what must fit across.                     *)

TopY == 20
FootY == 764
WeekH == 88
ForecastH == 124
ChartAbove == 26
ChartBelow == 24
ChartMin == 220
TopMin == 262
GrowMax == 1180
CellPad == 6
RowGap == 6
CaptionW == 66

Scaled(v, permille) == (v * permille + 500) \div 1000
Air(g) == Most(0, g - 1000)

\* kdFlowType
Type(g) ==
    [grow |-> g, lab |-> IF g >= 1090 THEN 15 ELSE 14, hero |-> Scaled(88, g),
     big |-> Scaled(52, Least(g, 1090)), headGap |-> Scaled(8, g),
     slash |-> Scaled(22, g), sub |-> Scaled(17, Least(g, 1120))]

\* kdFlowClockSizes, as far as anything is placed by it.
ClockH(g) == (96 * g) \div 1000 + 1

\* kdFlowHeadFit: the headline gives way to the value beside it, down to 40;
\* then that one, down to 28; a value wider than it was sized for makes the two
\* give way in turn.
HeadFit(w, t, colW) ==
    IF w.hero = 0 THEN t
    ELSE
    LET room == colW - IF w.big > 0 THEN t.headGap + t.slash ELSE 0
        Fits(h, b, adv) == (h * w.hero) \div 1000 + (b * adv) \div 1000 <= room
        sized == IF w.big = 0 THEN 0 ELSE IF w.bigFit > 0 THEN w.bigFit ELSE w.big
        hero == IF t.hero <= 40 THEN t.hero
                ELSE Largest(41, t.hero, LAMBDA h : Fits(h, t.big, sized))
        big == IF w.big = 0 \/ t.big <= 28 THEN t.big
               ELSE Largest(29, t.big, LAMBDA b : Fits(hero, b, sized))
        widest == IF w.big = 0 THEN 0 ELSE Most(w.big, sized)
        inTurn[h \in 0 .. hero, b \in 0 .. big, turn \in BOOLEAN] ==
            IF Fits(h, b, widest) THEN <<h, b>>
            ELSE IF w.big > 0 /\ b > 28 /\ (~turn \/ h <= 40) THEN inTurn[h, b - 1, ~turn]
            ELSE IF h > 40 THEN inTurn[h - 1, b, ~turn]
            ELSE <<h, b>>
        fit == inTurn[hero, big, FALSE]
    IN  [t EXCEPT !.hero = fit[1], !.big = fit[2]]

-----------------------------------------------------------------------------
(* The grid of outdoor readings: every way of breaking it into rows, and   *)
(* the one that sets the figures largest.                                  *)

\* kdFlowSplit: the cells of row k when n are broken into r rows.
RowCells(n, r, k) == n \div r + IF k <= n % r THEN 1 ELSE 0
CellsBefore(n, r, k) == (k - 1) * (n \div r) + Least(k - 1, n % r)

\* Fault: the caption over each value is forgotten.
RowRoomBare(areaH, r, lab) == areaH \div r - RowGap

\* What a row of the grid leaves to its values, under their captions.
RowRoom(areaH, r, lab) == areaH \div r - lab - 4 - RowGap

\* kdFlowGrid; `only` is the number of rows to use, 0 for the best.
Grid(w, top, bot, t, colW, only) ==
    LET n == Len(w.grid)
        areaH == bot - top
        fewest == (n + 2) \div 3
        High(r) == RowRoom(areaH, r, t.lab)
        Cells(r) == {x \in (1 .. r) \X (1 .. n) : x[2] <= RowCells(n, r, x[1])}
        Across(r) == {(((colW \div RowCells(n, r, x[1])) - CellPad) * 1000)
                        \div w.grid[CellsBefore(n, r, x[1]) + x[2]] : x \in Cells(r)}
        Fit(r) ==
            LET v == LeastOf(Across(r) \cup {High(r), t.hero})
            IN  IF r = fewest /\ only = 0
                THEN Most(v, Least(IF RowCells(n, r, 1) >= 3 THEN 27 ELSE 34, High(r)))
                ELSE v
        tries == IF only > 0 THEN {only} ELSE fewest .. n
        rows == CHOOSE r \in tries :
                    \A q \in tries : Fit(q) < Fit(r) \/ (Fit(q) = Fit(r) /\ q <= r)
        val == Most((Most(Fit(rows), -1) * w.outPct) \div 100, 10)
        rowH == areaH \div rows
    IN  IF n = 0 THEN [rows |-> 0, first |-> 0, val |-> 0, rowH |-> 0, y |-> top]
        ELSE [rows |-> rows, first |-> RowCells(n, rows, 1), val |-> val, rowH |-> rowH,
              y |-> top + Most(0, (rowH - (t.lab + 4 + val)) \div 2)]

\* kdFlowOutdoor: the headline, the line under it and the grid.
OutdoorIn(w, bot, t, heroY, colW) ==
    LET subY == heroY + t.hero + 2 + (Air(t.grow) * 14) \div (GrowMax - 1000)
        top == IF w.sub THEN subY + t.sub + 13 + (Air(t.grow) * 6) \div (GrowMax - 1000)
               ELSE subY
    IN  [type |-> t, heroY |-> heroY, subY |-> subY, bot |-> bot,
         grid |-> Grid(w, top, bot, t, colW, 0)]

Outdoor(w, bot, type, heroY, colW) ==
    OutdoorIn(w, bot, HeadFit(w, type, colW), heroY, colW)

-----------------------------------------------------------------------------
(* The indoor row: one field, two on a line, or a column of two beside the *)
(* first.                                                                  *)

\* kdFlowInNeed: what the fields of one line take across.
LineNeed(w, s1) ==
    LET Of(i) == IF i = 1 THEN (s1 * w.in[1]) \div 1000 + CellPad
                 ELSE Most((((s1 * 6) \div 10) * w.in[i]) \div 1000 + CellPad, CaptionW)
        sum[i \in 0 .. Len(w.in)] == IF i = 0 THEN 0 ELSE sum[i - 1] + Of(i)
    IN  sum[Len(w.in)]

NoIndoor == [kind |-> "none", first |-> 0, others |-> 0, y |-> <<>>, labY |-> 0]

\* The two others one above the other beside the first of size t: the largest
\* that fits down to half of it, or less than that when none does.
Beside(w, t, W, room, lab) ==
    LET w1 == (t * w.in[1]) \div 1000 + CellPad
        a2 == Most(w.in[2], w.in[3])
        most == LeastOf({(t * 6) \div 10, (room - 6) \div 2 - lab - 4,
                         ((W - w1 - CellPad + 1) * 1000 - 1) \div a2})
    IN  IF w1 + CaptionW > W THEN 0
        ELSE Largest(t \div 2, most, LAMBDA s :
                /\ w1 + Most((s * a2) \div 1000 + CellPad, CaptionW) <= W
                /\ 2 * (lab + 4 + s) + 6 <= room)

\* The first reading c1 high with the two others beside it, or on one line.
IndoorColumn(w, c1, W, labY, room, lab) ==
    LET s1 == Most(20, (c1 * w.inPct) \div 100)
        s == (Beside(w, c1, W, room, lab) * s1) \div c1
        stackH == 2 * (lab + 4 + s) + 6
        base == labY + lab + 6 + stackH + Most(0, (room - stackH) \div 2)
    IN  [kind |-> "column", first |-> s1, others |-> s, labY |-> labY,
         y |-> <<base - s1, base - stackH + lab + 4, base - s>>]

IndoorLine(w, s1, labY, top, areaH) ==
    LET s == (s1 * 6) \div 10
        y == top + Most(0, (areaH - s1) \div 2)
    IN  [kind |-> "line", first |-> s1, others |-> s, labY |-> labY,
         y |-> [i \in 1 .. Len(w.in) |-> IF i = 1 THEN y ELSE y + s1 - s]]

LineSize(w, W, areaH, cap) ==
    LET m == Len(w.in)
        others[i \in 1 .. m] == IF i = 1 THEN 0 ELSE others[i - 1] + w.in[i]
        wide == IF m = 1 THEN ((W - CellPad) * 1000) \div w.in[1]
                ELSE ((W - CellPad * m) * 1000) \div (w.in[1] + (others[m] * 6) \div 10)
        want == Most(LeastOf({wide, areaH, cap}), Least(52, areaH))
    IN  IF m = 1 \/ want <= 30 THEN want
        ELSE Largest(31, want, LAMBDA s : LineNeed(w, s) <= W)

\* kdFlowIndoor: the column when the first reading can be 20 or more in one.
IndoorIn(w, W, labY, bot, lab, cap) ==
    LET areaH == bot - (labY + lab + 18)
        room == bot - (labY + lab + 6)
        sizes == {s \in 20 .. Least(cap, areaH) : Beside(w, s, W, room, lab) >= s \div 2}
        c1 == CHOOSE s \in sizes : \A q \in sizes : q <= s
    IN  IF Len(w.in) = 3 /\ ~w.land /\ w.inColOk /\ sizes # {}
        THEN IndoorColumn(w, c1, W, labY, room, lab)
        ELSE IndoorLine(w, Most(20, (LineSize(w, W, areaH, cap) * w.inPct) \div 100),
                        labY, labY + lab + 18, areaH)

Indoor(w, bot, t, inRuleY, inW) ==
    IF w.in = <<>> THEN NoIndoor
    ELSE IndoorIn(w, inW - 12, inRuleY + 10 + (Air(t.grow) * 4) \div (GrowMax - 1000),
                  bot, t.lab, Scaled(88, t.grow))

\* kdFlowIndoorV: the wall page has the indoor readings one under the other.
IndoorDown(w, top, bot, lab, hero, inW) ==
    LET W == inW - CellPad
        m == Len(w.in)
        head == lab + 8
        per == 10 + lab + 4
        right == {w.in[i] : i \in 2 .. m}
        Need(s) == head + s + (m - 1) * (per + (s * 7) \div 10)
        want == LeastOf({hero, (W * 1000) \div w.in[1]}
                        \cup {(((W * 1000) \div a) * 10) \div 7 : a \in right})
        fit == IF want <= 20 THEN want
               ELSE Largest(21, want, LAMBDA s : Need(s) <= bot - top)
        s1 == Most(20, (fit * w.inPct) \div 100)
        labY == top + Most(0, (bot - top - Need(s1)) \div 2)
        y1 == labY + head
        y2 == y1 + s1 + per
    IN  IF m = 0 THEN NoIndoor
        ELSE [kind |-> "down", first |-> s1, others |-> (s1 * 7) \div 10, labY |-> labY,
              y |-> <<y1, y2, y2 + (s1 * 7) \div 10 + per>>]

-----------------------------------------------------------------------------
(* The upright page: the fixed sections stacked from the bottom, the       *)
(* readings first and then the chart in what is left.                      *)

\* kdFlowTop: the top block, T high.
TopGrow(T) ==
    Most(1000, Least(GrowMax, 1000 + ((GrowMax - 1000) * (T - TopMin)) \div 124))
OutW(w) == IF ~w.clock /\ w.in = <<>> THEN 564 ELSE 270

Top(w, T, colW, inW) ==
    LET grow == TopGrow(T)
        clockH == ClockH(Least(grow, 1146))
        inTop == IF w.clock THEN 26 + clockH + 1
                 ELSE TopY - 10 - (Air(grow) * 4) \div (GrowMax - 1000)
        out == Outdoor(w, TopY + T - 8, Type(grow), 38, colW)
    IN  [out |-> out, in |-> Indoor(w, TopY + T - 8, out.type, inTop, inW),
         bot |-> TopY + T, clockY |-> 26, clockH |-> clockH]

\* kdFlowSameType: all of the top block's figures are the same size.
SameType(f, o) ==
    /\ f.clockH = o.clockH
    /\ f.out.type.lab = o.out.type.lab
    /\ f.out.type.hero = o.out.type.hero /\ f.out.type.big = o.out.type.big
    /\ f.out.grid.val = o.out.grid.val /\ f.out.grid.rows = o.out.grid.rows
    /\ f.in.first = o.in.first /\ (f.in.kind = "column") = (o.in.kind = "column")

\* kdFlowTopSettle: the lowest the block can be with every figure in it as
\* large as at T.
Settled(high, T) ==
    LET up[h \in TopMin .. T] ==
            IF h = T \/ SameType(high[h], high[T]) THEN h ELSE up[h + 1]
    IN  high[up[TopMin]]

UprightOn(w, top, below, weekY) ==
    LET chartY == top.bot + ChartAbove
    IN  [shape |-> "upright", top |-> top, headRuleY |-> 0, midTop |-> TopY,
         chartY |-> IF w.chart THEN chartY ELSE top.bot,
         chartH |-> IF w.chart THEN below - ChartBelow - chartY ELSE 0,
         bandY |-> IF w.chart THEN below ELSE top.bot,
         weekY |-> weekY, footY |-> FootY]

Upright(w) ==
    LET weekY == IF w.week THEN FootY - WeekH ELSE FootY
        below == weekY - IF w.forecast THEN ForecastH ELSE 0
        avail == below - TopY - IF w.chart THEN ChartAbove + ChartBelow ELSE 0
        high == [h \in TopMin .. Most(TopMin, avail) |-> Top(w, h, OutW(w), 264)]
    IN  UprightOn(w, IF w.chart THEN Settled(high, Most(TopMin, avail - ChartMin))
                     ELSE high[avail], below, weekY)

-----------------------------------------------------------------------------
(* The landscape page: the clock and the week on top, the readings beside  *)
(* the chart.  The headline's size is searched for, from the largest down. *)

\* kdFlowLand: the readings' column as large as the grid can still be read in.
Readable(w, o, bot) ==
    IF w.grid # <<>>
    THEN o.grid.val >= ((IF o.grid.first >= 3 THEN 27 ELSE 34) * w.outPct) \div 100
    ELSE o.subY + (IF w.sub THEN o.type.sub ELSE 0) <= bot

Grows == {640 + 20 * k : k \in 0 .. 27}
LandOut(w, at, bot) ==
    LET good == {g \in Grows : Readable(w, at[g], bot)}
        Larger(g, h) == \/ at[h].grid.val < at[g].grid.val
                        \/ at[h].grid.val = at[g].grid.val /\ g <= h
    IN  IF good # {} THEN at[CHOOSE g \in good : \A h \in good : h <= g]
        ELSE IF w.grid = <<>> THEN at[640]
        ELSE at[CHOOSE g \in Grows : \A h \in Grows : Larger(g, h)]

LandOn(w, out, midTop, midBot, inRuleY, colW, footY) ==
    [shape |-> "land",
     top |-> [out |-> out, in |-> Indoor(w, midBot - 8, out.type, inRuleY, colW),
              bot |-> midBot, clockY |-> TopY + 4, clockH |-> ClockH(840)],
     headRuleY |-> 0, midTop |-> midTop,
     chartY |-> IF w.chart THEN midTop + 20 ELSE midBot,
     chartH |-> IF w.chart THEN midBot - ChartBelow - 4 - (midTop + 20) ELSE 0,
     bandY |-> midBot, weekY |-> footY, footY |-> footY]

Land(w, footY) ==
    LET rowH == IF w.clock THEN ClockH(840) + 7 ELSE 77 + 4
        midTop == IF w.clock \/ w.week THEN TopY + rowH + 8 ELSE TopY
        midBot == IF w.forecast THEN footY - ForecastH ELSE footY
        colW == IF w.chart THEN 300 ELSE 782 - 18
        inRuleY == IF w.in = <<>> THEN midBot ELSE midBot - 102
        at == [g \in Grows |-> Outdoor(w, inRuleY - 8, Type(g), midTop + 18, colW)]
    IN  LandOn(w, LandOut(w, at, inRuleY - 8), midTop, midBot, inRuleY, colW, footY)

-----------------------------------------------------------------------------
(* The wall page: the headline across the page, the grid and the indoor    *)
(* readings in two columns, the clock beside the forecast.                 *)

Wall(w) ==
    LET type == [grow |-> 1000, lab |-> 22, hero |-> 160, big |-> 96,
                 headGap |-> 28, slash |-> 54, sub |-> 22]
        t == HeadFit(w, type, 564)
        heroY == TopY + 22 + 8
        subY == heroY + 160 + 4
        headRuleY == IF w.sub THEN subY + 22 + 12 ELSE subY + 4
        bandY == IF w.clock \/ w.forecast THEN FootY - 200 ELSE FootY
        midTop == headRuleY + 14
        midBot == bandY - 12
        n == Len(w.grid)
        both == n > 0 /\ w.in # <<>>
        grid == Grid(w, midTop, midBot, t, IF both THEN 352 ELSE 564,
                     IF n <= 2 THEN n ELSE (n + 1) \div 2)
        clockH == ClockH(IF w.clock /\ w.forecast THEN 1300 ELSE 1500)
    IN  [shape |-> "wall",
         top |-> [out |-> [type |-> t, heroY |-> heroY + 160 - t.hero, subY |-> subY,
                           bot |-> midBot, grid |-> grid],
                  in |-> IndoorDown(w, midTop, midBot, 22, t.hero,
                                    IF n > 0 THEN 582 - 394 ELSE 564),
                  bot |-> bandY, clockY |-> bandY + Most(0, (200 - clockH) \div 2),
                  clockH |-> clockH],
         headRuleY |-> headRuleY, midTop |-> midTop, chartY |-> bandY, chartH |-> 0,
         bandY |-> bandY, weekY |-> FootY, footY |-> FootY]

\* kdFlowHtmlExtra: what a browser spends over the panel on the same sections.
HtmlExtra(w) ==
    6 + 14 + (IF w.forecast THEN 14 ELSE 0)
    + IF w.land THEN 0 ELSE (IF w.chart THEN 9 ELSE 0) + IF w.week THEN 7 ELSE 0

\* kdFlowComputeHtml: the landscape page with its footer higher (in Layout); a
\* page without a chart with its top block laid out again, shorter - the wall
\* page too, whose columns are kept as kdFlowWall left them.
ForBrowser(w, f) ==
    LET n == Len(w.grid)
        both == n > 0 /\ w.in # <<>>
        colW == IF ~w.wall THEN OutW(w) ELSE IF both THEN 352 ELSE 564
        inW == IF ~w.wall THEN 264 ELSE IF n > 0 THEN 582 - 394 ELSE 564
        top == Top(w, f.top.bot - TopY - HtmlExtra(w), colW, inW)
    IN  IF w.land THEN f
        ELSE IF w.chart THEN [f EXCEPT !.chartH = @ - HtmlExtra(w)]
        ELSE [f EXCEPT !.top = [top EXCEPT !.clockY = IF w.wall THEN f.top.clockY ELSE @]]

\* kdFlowCompute and kdFlowFor
Computed(w) ==
    IF w.land THEN Land(w, 564 - (IF w.html THEN HtmlExtra(w) ELSE 0))
    ELSE IF w.wall THEN Wall(w) ELSE Upright(w)
LayoutOf(w) == IF w.html THEN ForBrowser(w, Computed(w)) ELSE Computed(w)
Layout(s, at) == LayoutOf(Wanted(s, at))

-----------------------------------------------------------------------------
(* The page over time.  A reading that is not to be had - its node went     *)
(* silent, or the ring of readings was locked for the 5 ms latestOf waits - *)
(* is not on the page for that render.                                      *)

PageInit ==
    \E s \in Setups :
        /\ skin = s.skin /\ places = s.places
        /\ page = Layout(s.skin, s.places)
        /\ gone = [edits |-> 0, readings |-> 0]

\* The settings page turns a switch, or a mode goes to another value.
Edits(k, v) ==
    /\ gone.edits < MaxEdits
    /\ skin[k] # v
    /\ skin' = [skin EXCEPT ![k] = v]
    /\ gone' = [gone EXCEPT !.edits = @ + 1]
    /\ UNCHANGED places

\* The next render finds another reading at a place, or none.
Reads(z, text) ==
    /\ gone.readings < MaxReadings
    /\ z \in DOMAIN places /\ places[z].text # text
    /\ text.have => text.decs = places[z].decs
    /\ places' = [places EXCEPT ![z].text = text]
    /\ gone' = [gone EXCEPT !.readings = @ + 1]
    /\ UNCHANGED skin

PageNext ==
    /\ \/ \E x \in Switches : Edits(x[1], x[2])
       \/ \E z \in DOMAIN places, text \in Figures : Reads(z, text)
    /\ page' = Layout(skin', places')

PageSpec == PageInit /\ [][PageNext]_pageVars

-----------------------------------------------------------------------------
(* What the page owes its reader.                                          *)

\* One under the other, each with the caption of the next between them.
Stacked(ys, sizes, lab) ==
    \A i \in 1 .. Len(sizes) - 1 : ys[i] + sizes[i] + lab + 4 <= ys[i + 1]

\* Nothing is drawn over its neighbour: the headline, the line under it, the
\* grid and the indoor readings end before what is under them, the chart keeps
\* a height, and the bands end above the footer - on the panel and in the
\* browser, whichever places have a reading (KindleDashboard.cpp:2861, and what
\* the header of test_kindle_flow.cpp calls a page that is wrong).
BlocksApart ==
    LET w == Wanted(skin, places)
        out == page.top.out
        in == page.top.in
        t == out.type
        m == Len(w.in)
        sizes == [i \in 1 .. m |-> IF i = 1 THEN in.first ELSE in.others]
    IN  /\ out.heroY + t.hero < out.subY
        /\ w.grid # <<>> =>
              /\ out.grid.y >= IF w.sub THEN out.subY + t.sub ELSE out.subY
              /\ out.grid.y >= page.headRuleY
              /\ out.grid.y + (out.grid.rows - 1) * out.grid.rowH
                    + t.lab + 4 + out.grid.val <= page.top.bot - 8
        /\ m > 0 =>
              /\ in.labY >= page.midTop
              /\ \A i \in 1 .. m : in.y[i] + sizes[i] <= page.top.bot - 8
              /\ page.shape = "wall" => Stacked(in.y, sizes, t.lab)
              /\ in.kind = "column" => Stacked(Tail(in.y), Tail(sizes), t.lab)
        /\ page.shape = "upright" /\ w.clock /\ m > 0 =>
              page.top.clockY + page.top.clockH <= in.labY
        /\ w.chart => /\ page.chartH >= 150
                      /\ page.chartY + page.chartH + ChartBelow <= page.bandY
        /\ page.top.bot <= page.bandY
        /\ page.bandY + (IF w.forecast /\ page.shape # "wall" THEN ForecastH ELSE 0)
              <= page.weekY

\* The text of a place is no wider than what the place is sized for.
Usual(z, p) ==
    LET x == p.text IN
    /\ x.ints <= IF z = "big" THEN 2 ELSE MinDigits(p.metric)
    /\ x.minus => p.metric \in Degrees
    /\ z \in {"in1", "in2", "in3"} /\ p.metric = "temperature" /\ x.minus => x.ints = 1

\* A reading that moves within the figures its metric is sized for moves
\* nothing on the page: not from 9.8 to 10.1, not across 1000 hPa, not below
\* zero (KindleFlow.h:110-117).  Only the headline is sized by what it prints.
Steady ==
    (/\ skin' = skin
     /\ \A z \in DOMAIN places :
           places'[z] # places[z] =>
               /\ z # "hero"
               /\ places[z].text.have /\ places'[z].text.have
               /\ Usual(z, places[z]) /\ Usual(z, places'[z]))
    => page' = page

\* A reading that stays within its figures moves nothing (KindleFlow.h:110-117).
StandsStill == [][Steady]_pageVars
=============================================================================
