--------------------------- MODULE KindleSettings ---------------------------
(***************************************************************************)
(* What the Kindle page shows and how: the readings in its eleven places    *)
(* (src/src/web/KindleSlots.h) with their file (KindleSlotStore.cpp), the    *)
(* look in config.bin as the settings page and the settings file write it   *)
(* (KindleConfigJson.cpp, KindleSkin.h), and the series that are kept for    *)
(* the page's lines (KindleDashboard.cpp, kindleTrackTrends).               *)
(*                                                                         *)
(* Handlers run one at a time on the web server's task; what comes between   *)
(* the steps of a save is a power cut. Names are short enough for their     *)
(* buffers.                                                                *)
(***************************************************************************)
EXTENDS Integers, Sequences, FiniteSets

CONSTANTS
    Homes,        \* devices: [look, card]
    Layouts,      \* what the page's editor posts: [out, in, zones]
    Looks,        \* what the settings page posts: fields and their values
    MaxEdits, MaxTroubles    \* bounds

VARIABLES
    look,     \* config.kindle
    bin,      \* the same in config.bin
    card,     \* [fat, main, new]: the places' file and the one being written
    places,   \* s_zones
    tracked,  \* the series trendRing keeps
    saving,   \* a save under way: [at, layout]
    settled,  \* FALSE: config.kindle was changed and the series not chosen again
    owed,     \* ghost: the layouts the card may hold
    count     \* edits and troubles so far

placesVars == <<look, bin, card, places, tracked, saving, settled, owed, count>>

Zones == <<"hero", "big", "g1", "g2", "g3", "g4", "g5", "g6", "in1", "in2", "in3">>
Keys  == {Zones[i] : i \in DOMAIN Zones}
Auto  == 255                         \* KSLOT_DECIMALS_AUTO
Inks  == 4
Flag  == [bold |-> 1, unit |-> 2, age |-> 4, trend |-> 8, line |-> 128]
Is(flags, f) == (flags \div f) % 2 = 1
MaxSeries == 4
Edit    == count.edits < MaxEdits /\ count' = [count EXCEPT !.edits = @ + 1]
Trouble == count.troubles < MaxTroubles /\ count' = [count EXCEPT !.troubles = @ + 1]

-----------------------------------------------------------------------------
(* The places.                                                             *)

Unused == [id |-> "", metric |-> "", label |-> "", decimals |-> 0, flags |-> 0, ink |-> 0]
Used(s) == s.id # "" /\ s.metric # ""
Clear == [out |-> "", in |-> "", z |-> [k \in Keys |-> Unused]]

\* kdZonesClamp(): half filled is empty; decimals and ink within their range.
Clamped(s) ==
    IF ~Used(s) THEN Unused
    ELSE [s EXCEPT !.decimals = IF @ # Auto /\ @ > 3 THEN 3 ELSE @,
                   !.ink = IF @ >= Inks THEN 0 ELSE @]
ZonesClamp(p) == [p EXCEPT !.z = [k \in Keys |-> Clamped(@[k])]]

\* kdZonesDefault(): the page as it was before places could be chosen.
Set(id, metric, flags) ==
    [id |-> id, metric |-> metric, label |-> "", decimals |-> Auto, flags |-> flags, ink |-> 0]
Default(out, in) ==
    [Clear EXCEPT !.z =
        [@ EXCEPT !["hero"] = Set(out, "temperature", Flag.bold + Flag.unit + Flag.age),
                  !["big"]  = Set(out, "humidity", Flag.unit),
                  !["g1"]   = Set(out, "pressure", Flag.unit + Flag.trend),
                  !["g2"]   = Set(out, "dew_point", Flag.unit),
                  !["in1"]  = Set(in, "temperature", Flag.unit + Flag.age),
                  !["in2"]  = Set(in, "humidity", Flag.unit),
                  !["in3"]  = Set(in, "aqi", Flag.unit)]]

\* A place as JSON says it, the fields it leaves out at their defaults; what
\* does not fit a byte loses its upper bits.
Said(o, f, default) == IF f \in DOMAIN o THEN o[f] ELSE default
ReadZone(o) ==
    [id |-> Said(o, "sensor", ""), metric |-> Said(o, "metric", ""), label |-> Said(o, "label", ""),
     decimals |-> Said(o, "decimals", Auto) % 256, flags |-> Said(o, "flags", Flag.unit) % 256,
     ink |-> Said(o, "ink", 0) % 256]

\* Keys of places this build does not have are passed over.
ReadZones(out, in, zones) ==
    ZonesClamp([out |-> out, in |-> in,
                z |-> [k \in Keys |-> IF k \in DOMAIN zones THEN ReadZone(zones[k]) ELSE Unused]])

\* Fault: a number that is nothing is left out, as an empty text is.
WrittenZoneSparse(s) ==
    [f \in {"sensor", "metric", "flags"} \cup (IF s.label # "" THEN {"label"} ELSE {})
           \cup (IF s.decimals \notin {0, Auto} THEN {"decimals"} ELSE {})
           \cup (IF s.ink # 0 THEN {"ink"} ELSE {}) |->
        IF f = "sensor" THEN s.id ELSE s[f]]

\* kdSlotsSave(): what is at its default is left out.
WrittenZone(s) ==
    [f \in {"sensor", "metric", "flags"} \cup (IF s.label # "" THEN {"label"} ELSE {})
           \cup (IF s.decimals # Auto THEN {"decimals"} ELSE {})
           \cup (IF s.ink # 0 THEN {"ink"} ELSE {}) |->
        IF f = "sensor" THEN s.id ELSE s[f]]

Nothing == [kind |-> "nothing"]
Bad     == [kind |-> "bad"]          \* too large, or not JSON
Written(p) ==
    [kind |-> "zones", out |-> p.out, in |-> p.in,
     zones |-> [k \in {q \in Keys : Used(ZonesClamp(p).z[q])} |-> WrittenZone(ZonesClamp(p).z[k])]]

\* adoptLegacyArray(): the old list fills the places in order.
RECURSIVE Adopted(_, _, _)
Adopted(p, slots, n) ==
    IF slots = <<>> \/ n > Len(Zones) THEN p
    ELSE IF Used(ReadZone(Head(slots)))
         THEN Adopted([p EXCEPT !.z[Zones[n]] = ReadZone(Head(slots))], Tail(slots), n + 1)
         ELSE Adopted(p, Tail(slots), n)

-----------------------------------------------------------------------------
(* The places' file.                                                       *)

\* Fault: what a save left behind is thrown away, always.
RecoveredNever(c) == [c EXCEPT !.new = Nothing]

\* An interrupted rename is finished first.
Recovered(c) ==
    IF c.new = Nothing THEN c
    ELSE IF c.main = Nothing THEN [c EXCEPT !.main = c.new, !.new = Nothing]
    ELSE [c EXCEPT !.new = Nothing]

\* What a file that was read says; a file that cannot be read is put aside, and
\* like no file it means the default layout, which is made for the sensors.
Factory == [out |-> "", in |-> "", z |-> <<>>]
Says(f) ==
    CASE f.kind \in {"nothing", "bad"} -> Factory
      [] f.kind = "zones" -> ReadZones(f.out, f.in, f.zones)
      [] f.kind = "slots" -> ZonesClamp(Adopted(Clear, f.slots, 1))
      [] OTHER -> Clear
Quarantined(c) == IF c.main = Bad THEN [c EXCEPT !.main = Nothing] ELSE c
OnCard == Says(Recovered(card).main)

Outdoor(k) == IF k.outdoor = "" THEN "outdoor" ELSE k.outdoor
Indoor(k)  == IF k.indoor = "" THEN "indoor" ELSE k.indoor
Laid(p, k) == IF p = Factory THEN Default(Outdoor(k), Indoor(k)) ELSE p

-----------------------------------------------------------------------------
(* The look. Angles are in degrees outside, in quarter turns inside.        *)

Landscape(rot) == rot \in {1, 3}
PageRot(k) == IF k.pageRot \in 1..4 THEN k.pageRot - 1 ELSE k.rotation
PageRotDeg(k) == IF k.pageRot \in 1..4 THEN (k.pageRot - 1) * 90 ELSE -1
RotFromDeg(d, old) == IF d \in {0, 90, 180, 270} THEN d \div 90 ELSE old

\* Fault: the page's own rotation is counted like the panel's.
PageRotFromDegShort(d, old) == IF d = -1 THEN 0 ELSE RotFromDeg(d, old)

\* 0 is "as the panel", so the page's own turns are counted from 1.
PageRotFromDeg(d, old) == IF d = -1 THEN 0 ELSE IF d \in {0, 90, 180, 270} THEN d \div 90 + 1 ELSE old

Never   == 255                       \* KCLOCK_SYNC_OFF
SyncMax == 60
SyncDays(k) == IF k.sync = Never THEN 0 ELSE IF k.sync = 0 \/ k.sync > SyncMax THEN 1 ELSE k.sync
SyncFromDays(d, old) == IF d = 0 THEN Never ELSE IF d \in 1..SyncMax THEN d ELSE old

WeekStyle(k)    == k.week % 4
WeekForecast(k) == (k.week \div 16) % 2
Weight(k)       == k.rules % 4
RuleInk(k)      == (k.rules \div 4) % 4
RuleStyle(k)    == (k.rules \div 16) % 4
RulesPack(w, ink, s) ==
    (IF w \in 0..2 THEN w ELSE 0) + 4 * (IF ink \in 0..3 THEN ink ELSE 0) + 16 * (IF s \in 0..2 THEN s ELSE 0)
SizePct(step)     == IF step \in 0..4 THEN 100 - 10 * step ELSE 100
SizeFromPct(pct)  == IF pct > 100 \/ pct < 60 THEN 0 ELSE (100 - pct + 5) \div 10
SizePack(out, in) == (IF out \in 0..4 THEN out ELSE 0) + 16 * (IF in \in 0..4 THEN in ELSE 0)

\* kdSkinClamp().
SkinClamp(k) ==
    [k EXCEPT !.page = IF @ > 1 THEN 0 ELSE @, !.web = IF @ > 1 THEN 0 ELSE @,
              !.chartA = IF @ > Len(Zones) THEN 0 ELSE @,
              !.chartB = IF @ > Len(Zones) /\ @ # 255 THEN 0 ELSE @,
              !.rotation = IF @ > 3 THEN 0 ELSE @, !.pageRot = IF @ > 4 THEN 0 ELSE @,
              !.clockOff = IF @ > 1 THEN 1 ELSE @, !.sync = IF @ > SyncMax /\ @ # Never THEN 0 ELSE @,
              !.week = (@ % 4) + 16 * ((@ \div 16) % 2),
              !.rules = RulesPack(@ % 4, (@ \div 4) % 4, (@ \div 16) % 4),
              !.size = SizePack(@ % 16, @ \div 16), !.show = @ % 256]

\* The fields that go in and out as they are; numbers stay within their width.
Table == {"outdoor", "indoor", "show", "page", "web", "chartA", "chartB", "refresh", "follow"}
SetField(f, v) ==
    IF f \in {"outdoor", "indoor"} THEN v
    ELSE IF v < 0 THEN 0
    ELSE LET most == IF f \in {"show", "refresh"} THEN 65535 ELSE 255 IN IF v > most THEN most ELSE v
FromTable(k, in) == [f \in DOMAIN k |-> IF f \in Table \cap DOMAIN in THEN SetField(f, in[f]) ELSE k[f]]

\* kdConfigFromForm(): what a form leaves out stays.
FromForm(k, in) ==
    LET t == FromTable(k, in) IN
    [t EXCEPT !.clockOff = IF "clock" \in DOMAIN in THEN IF in.clock # 0 THEN 0 ELSE 1 ELSE @,
              !.rotation = RotFromDeg(Said(in, "rotation", 360), @),
              !.pageRot = PageRotFromDeg(Said(in, "page_rotation", 360), @),
              !.sync = SyncFromDays(Said(in, "clock_sync", -1), @),
              !.week = 4 * (@ \div 4) + (Said(in, "week_style", @) % 4)
                       + (IF "week_forecast" \notin DOMAIN in THEN 0
                          ELSE 16 * ((IF in.week_forecast # 0 THEN 1 ELSE 0) - ((@ \div 16) % 2))),
              !.rules = RulesPack(Said(in, "rule_weight", @ % 4), Said(in, "rule_ink", (@ \div 4) % 4),
                                  Said(in, "rule_style", (@ \div 16) % 4)),
              !.size = SizePack(IF "out_size" \in DOMAIN in THEN SizeFromPct(in.out_size) ELSE @ % 16,
                                IF "in_size" \in DOMAIN in THEN SizeFromPct(in.in_size) ELSE @ \div 16)]

\* kdConfigToApi(): what the settings page is filled with, in effect.
Refresh(k) == IF k.refresh = 0 THEN 300 ELSE k.refresh
Follow(k)  == IF k.follow = 255 THEN 1 ELSE k.follow
ToApi(k) ==
    [outdoor |-> Outdoor(k), indoor |-> Indoor(k), show |-> k.show, page |-> k.page, web |-> k.web,
     chartA |-> k.chartA, chartB |-> k.chartB, refresh |-> Refresh(k), follow |-> Follow(k),
     clock |-> IF k.clockOff # 0 THEN 0 ELSE 1, rotation |-> k.rotation * 90, page_rotation |-> PageRotDeg(k),
     clock_sync |-> SyncDays(k), week_style |-> WeekStyle(k), week_forecast |-> WeekForecast(k),
     rule_weight |-> Weight(k), rule_ink |-> RuleInk(k), rule_style |-> RuleStyle(k),
     out_size |-> SizePct(k.size % 16), in_size |-> SizePct(k.size \div 16)]

\* kdConfigToFile() and kdConfigFromFile(): the settings file.
ToFile(k) ==
    [f \in Table \cup {"rotation", "pageRotation", "clockOff", "clockSync", "week", "rules", "size"} |->
        CASE f = "rotation" -> k.rotation * 90 [] f = "pageRotation" -> PageRotDeg(k)
          [] f = "clockSync" -> SyncDays(k) [] OTHER -> k[f]]
FromFile(k, in) ==
    SkinClamp([FromTable(k, in) EXCEPT
        !.rotation = RotFromDeg(Said(in, "rotation", 360), @),
        !.pageRot = PageRotFromDeg(Said(in, "pageRotation", 360), @),
        !.clockOff = Said(in, "clockOff", @) % 256, !.sync = SyncFromDays(Said(in, "clockSync", -1), @),
        !.week = Said(in, "week", @) % 256, !.rules = Said(in, "rules", @) % 256,
        !.size = Said(in, "size", @) % 256])

-----------------------------------------------------------------------------
(* The series behind the page's lines.                                     *)

\* kdChartPick(): the chart's two lines; a place that holds nothing gives way
\* to the sensor's temperature.
On(k, line) == line = 1 \/ k.chartB # 255
Pick(k, p, line) ==
    LET v == IF line = 1 THEN k.chartA ELSE k.chartB
        own == v \in 1..Len(Zones) /\ Used(p.z[Zones[v]]) IN
    IF own THEN <<p.z[Zones[v]].id, p.z[Zones[v]].metric>>
    ELSE <<IF line = 1 THEN Outdoor(k) ELSE Indoor(k), "temperature">>
Picks(k, p) == [i \in 1..(IF On(k, 2) THEN 2 ELSE 1) |-> Pick(k, p, i)]

ShowChart(k) == Is(k.show, 32)       \* KSHOW_CHART

\* Fault: only the panel is asked which page it shows.
DeskChartPanel(k) == ShowChart(k) /\ (k.page # 1 \/ Landscape(k.rotation))

\* The chart can be shown on one of the two pages.
DeskChart(k) ==
    ShowChart(k) /\ (k.page # 1 \/ k.web # 1 \/ Landscape(k.rotation) \/ Landscape(PageRot(k)))

\* kdWant(): each series once, as many as the ring has room for.
RECURSIVE Wanted(_, _)
Wanted(w, list) ==
    IF list = <<>> \/ Len(w) = MaxSeries THEN w
    ELSE IF Head(list)[1] = "" \/ \E i \in DOMAIN w : w[i] = Head(list) THEN Wanted(w, Tail(list))
    ELSE Wanted(Append(w, Head(list)), Tail(list))

Named(p, k) == <<p.z[k].id, p.z[k].metric>>
Lined(s) == Used(s) /\ (Is(s.flags, Flag.line) \/ (Is(s.flags, Flag.trend) /\ s.metric = "pressure"))
TrackTrends(k, p) ==
    LET zones == SelectSeq(Zones, LAMBDA z : Lined(p.z[z]))
        c == SkinClamp(k) IN
    Wanted(<<>>, (IF DeskChart(c) THEN Picks(c, p) ELSE <<>>)
                 \o <<<<Outdoor(k), "temperature">>>>
                 \o (IF Used(p.z["hero"]) THEN <<Named(p, "hero")>> ELSE <<>>)
                 \o [i \in DOMAIN zones |-> Named(p, zones[i])]
                 \o (IF DeskChart(c) THEN <<>> ELSE Picks(c, p))
                 \o <<<<Outdoor(k), "pressure">>, <<Outdoor(k), "humidity">>>>)

-----------------------------------------------------------------------------
(* The steps.                                                              *)

Idle == [at |-> "no", layout |-> Clear]

\* setup(): the look from config.bin, the places from their file, and the
\* series before the first reading. A file there is no memory for stays, and
\* the default layout is drawn.
Boot(readable) ==
    LET c == Recovered(card)
        p == Laid(IF readable THEN Says(c.main) ELSE Factory, bin) IN
    /\ look' = bin /\ places' = p /\ tracked' = TrackTrends(bin, p)
    /\ card' = IF readable THEN Quarantined(c) ELSE c
    /\ owed' = {Says(c.main)} /\ saving' = Idle /\ settled' = TRUE
    /\ UNCHANGED bin
PowerCut == Trouble /\ \E readable \in BOOLEAN : Boot(readable)

\* handleKindleSlotsPost(): a layout of its own, saved before it is drawn.
PostPlaces ==
    /\ saving.at = "no" /\ Edit
    /\ \E l \in Layouts :
         LET p == ReadZones(l.out, l.in, l.zones) IN
         /\ saving' = [at |-> "write", layout |-> p]
         /\ owed' = owed \cup {p}
    /\ card' = [card EXCEPT !.new = Bad]
    /\ UNCHANGED <<look, bin, places, tracked, settled>>

\* A short write leaves the file that was there.
Write ==
    /\ saving.at = "write"
    /\ \/ /\ card' = [card EXCEPT !.new = Written(saving.layout)]
          /\ saving' = [saving EXCEPT !.at = "rename"]
          /\ UNCHANGED <<owed, count>>
       \/ /\ Trouble
          /\ card' = [card EXCEPT !.new = Nothing]
          /\ saving' = Idle /\ owed' = {Says(card.main)}
    /\ UNCHANGED <<look, bin, places, tracked, settled>>

\* The page is drawn with the layout once its file is in place.
Saved ==
    /\ card' = [card EXCEPT !.main = card.new, !.new = Nothing]
    /\ places' = saving.layout /\ tracked' = TrackTrends(look, saving.layout)
    /\ settled' = TRUE /\ owed' = {saving.layout} /\ saving' = Idle
    /\ UNCHANGED <<look, bin, count>>

\* On a FAT card a rename does not replace: the old file is removed first.
Rename ==
    /\ saving.at = "rename"
    /\ IF card.fat /\ card.main # Nothing
       THEN /\ card' = [card EXCEPT !.main = Nothing]
            /\ saving' = [saving EXCEPT !.at = "moved"]
            /\ UNCHANGED <<look, bin, places, tracked, settled, owed, count>>
       ELSE Saved

\* Where the second rename fails too, both files are gone.
Moved ==
    /\ saving.at = "moved"
    /\ \/ Saved
       \/ /\ Trouble
          /\ card' = [card EXCEPT !.new = Nothing]
          /\ saving' = Idle /\ owed' = {Factory}
          /\ UNCHANGED <<look, bin, places, tracked, settled>>

\* handleKindleConfigPost(): the look is in use at once; where config.bin
\* cannot be written, the answer is an error and the series stay as they were.
PostLook ==
    /\ saving.at = "no" /\ \E f \in Looks : look' = SkinClamp(FromForm(look, f))
    /\ \/ Edit /\ bin' = look' /\ tracked' = TrackTrends(look', places) /\ settled' = TRUE
       \/ Trouble /\ settled' = FALSE /\ UNCHANGED <<bin, tracked>>
    /\ UNCHANGED <<card, places, saving, owed>>

\* /import_settings: the look of another device's settings file, saved; the
\* series are chosen at the restart that follows.
Import ==
    /\ saving.at = "no" /\ Edit
    /\ \E h \in Homes : look' = FromFile(look, ToFile(h.look))
    /\ bin' = look' /\ settled' = FALSE
    /\ UNCHANGED <<card, places, tracked, saving, owed>>

PlacesInit ==
    /\ \E h \in Homes : look = h.look /\ bin = h.look /\ card = h.card
    /\ places = Laid(Says(card.main), look) /\ tracked = TrackTrends(look, places)
    /\ saving = Idle /\ settled = TRUE /\ owed = {OnCard}
    /\ count = [edits |-> 0, troubles |-> 0]

PlacesNext ==
    \/ PowerCut \/ PostPlaces \/ Write \/ Rename \/ Moved \/ PostLook \/ Import

-----------------------------------------------------------------------------
(* Properties.                                                             *)

\* The next boot finds the layout that was answered as saved, as the page
\* draws it; a save that was broken off leaves the old one or the new one.
LayoutSurvives == OnCard \in owed

\* Every line of a desk chart, on the panel or in the browser, has its series.
LinesTracked ==
    settled /\ ShowChart(look) /\ (look.page # 1 \/ Landscape(look.rotation)
                                   \/ look.web # 1 \/ Landscape(PageRot(look)))
    => \A i \in DOMAIN Picks(look, places) :
           \E n \in DOMAIN tracked : tracked[n] = Picks(look, places)[i]

\* The settings page saved as it was filled in, and the settings file read back
\* on another device, give the look there is.
Effect(k) == ToApi(SkinClamp(k))
SavesUnchanged ==
    /\ Effect(FromForm(look, Effect(look))) = Effect(look)
    /\ \A h \in Homes : Effect(FromFile(h.look, ToFile(look))) = Effect(look)
=============================================================================
