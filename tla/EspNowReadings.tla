--------------------------- MODULE EspNowReadings ---------------------------
(***************************************************************************)
(* What a radio node's readings become: bytes of the pool it keeps in its  *)
(* RTC memory (src/node_espnow/src/Backlog.h), samples of a DATA2 frame,   *)
(* dated readings on the collector (src/src/espnow/EspNowIngest.cpp) and   *)
(* the days its battery has left (src/src/power/BatteryModel.h). Whether a *)
(* frame arrives once, and what its ACK does, is EspNowLink's subject; the *)
(* other messages are filled in and checked here once (Exchange).          *)
(*                                                                         *)
(* A reading other than the battery's has the time it was taken for its    *)
(* value, so that the collector's date can be held against it.             *)
(***************************************************************************)
EXTENDS Integers, Sequences, FiniteSets, FiniteSetsExt

CONSTANTS
    Plans,       \* what a node has and what it meets
    PoolBytes,   \* NODE_BACKLOG_BYTES
    FrameBytes,  \* the buffer the frame is built in
    OldestAge,   \* the age a sample can carry: 65535 s
    DayLen,      \* 86400 s
    HistoryCap,  \* BatteryHistory::CAP
    MinPoints,   \* BATT_MIN_POINTS
    DocSizes,    \* lengths and offsets of documents that are tried
    ImgSizes,    \* and of images
    OldSamples   \* what a node of the first protocol measures: <<C, %RH, Pa, mV>>

VARIABLES
    plan,        \* the node of this behaviour
    now,         \* the time; the collector's clock is right
    clock,       \* TRUE: the node has the time
    pool,        \* s_backlog, oldest first: [at, v]; at 0: taken without a clock
    landed,      \* what this wake's frame became: its samples as they were stored, and what
                 \* the collector made of the battery's history itself
    batt,        \* the node's BatteryHistory: [last, mv], mv newest first
    lastMv,
    told,        \* every daily voltage the history was offered in time
    wire,        \* the last message that was filled in
    left         \* wakes and lost frames still to come

readingVars == <<plan, now, clock, pool, landed, batt, lastMv, told, wire, left>>

-----------------------------------------------------------------------------
(* The frames of the radio protocol (src/src/espnow/EspNowProto.h): how    *)
(* they are filled in and what espnowValidate() asks of one before anybody *)
(* reads it. A frame is a record with its length in bytes and the fields   *)
(* the check looks at; magic, version and the ids are those of the node.   *)

Absent == 99999999        \* NaN, and the sentinels that stand for it on the air
NoFrame == [type |-> "none", len |-> -1]

Frame250   == 250         \* ESPNOW_MAX_FRAME
Samples15  == 15          \* ESPNOW_MAX_SAMPLES
Chunk200   == 200         \* EN_CFG_CHUNK_MAX and EN_FW_CHUNK_MAX
Document   == 1024        \* EN_CFG_MAX_TOTAL
ImageMax   == 1310720     \* EN_FW_MAX_SIZE
Values13   == 13          \* EN_DATA2_MAX_VALUES

\* The messages of one length.
Length == [ack |-> 14, discover |-> 22, welcome |-> 65, cfg_get |-> 8, cfg_ack |-> 79, fw_get |-> 12, fw_done |-> 12]

DataLen(count)  == 12 + 12 * count
Data2Len(sizes) == 12 + MapThenSumSet(LAMBDA i : 3 + 6 * sizes[i], DOMAIN sizes)

-----------------------------------------------------------------------------
(* The fields of the fixed sample, here in thousandths of a degree or a    *)
(* percent and in tenths of a Pa or mV.                                    *)

Rounded(v, unit) == IF v >= 0 THEN (v + unit \div 2) \div unit ELSE -((-v + unit \div 2) \div unit)

Packed(v, low, high, unit) == IF v = Absent \/ v < low \/ v > high THEN Absent ELSE Rounded(v, unit)
Unpacked(p, unit)          == IF p = Absent THEN Absent ELSE p * unit

PackTemp(c)   == Packed(c, -320000, 320000, 10)
PackRh(rh)    == Packed(rh, 0, 100000, 10)
PackPress(pa) == Packed(pa, 150000, 2000000, 10)
PackMv(mv)    == Packed(mv, 0, 650000, 10)

EnvSample(c, rh, pa, mv) == [t |-> PackTemp(c), rh |-> PackRh(rh), press |-> PackPress(pa), mv |-> PackMv(mv)]

\* espnowExpandSample(): the readings of a sample; what is absent is left out.
Expanded(s) ==
    {r \in {<<"temperature", Unpacked(s.t, 10)>>, <<"humidity", Unpacked(s.rh, 10)>>,
            <<"pressure", Unpacked(s.press, 10)>>, <<"battery_voltage", Unpacked(s.mv, 10)>>} : r[2] /= Absent}

-----------------------------------------------------------------------------
(* Filling a frame in; NoFrame where the function answers -1.              *)

Fixed(type) == [type |-> type, len |-> Length[type]]

EncodeData(samples) ==
    IF Len(samples) \notin 1..Samples15 THEN NoFrame
    ELSE [type |-> "data", len |-> DataLen(Len(samples)), count |-> Len(samples), s |-> samples]

FillCfgGet(offset) == [type |-> "cfg_get", len |-> Length.cfg_get, offset |-> offset]

\* Fault: a slice is always as long as the frame allows.
FillCfgChunkFull(total, offset) ==
    [type |-> "cfg", len |-> 11 + Chunk200, total |-> total, offset |-> offset, data |-> Chunk200]

\* The slice of a document of total bytes that starts at offset. A document
\* of no bytes is one empty slice.
FillCfgChunk(total, offset) ==
    IF total > Document \/ (IF total = 0 THEN offset /= 0 ELSE offset >= total) THEN NoFrame
    ELSE LET n == Min({total - offset, Chunk200}) IN
         [type |-> "cfg", len |-> 11 + n, total |-> total, offset |-> offset, data |-> n]

\* The field and the reason are cut so that the zero after them fits.
FillCfgAck(status, field, reason) ==
    [type |-> "cfg_ack", len |-> Length.cfg_ack, status |-> status, field |-> Min({field, 23}), reason |-> Min({reason, 47})]

FillFwGet(offset) == [type |-> "fw_get", len |-> Length.fw_get, offset |-> offset]

FillFwChunk(size, offset, n) ==
    IF n > Chunk200 \/ size > ImageMax \/ (IF size = 0 THEN offset /= 0 \/ n /= 0 ELSE offset + n > size)
    THEN NoFrame
    ELSE [type |-> "fw", len |-> 21 + n, size |-> size, offset |-> offset, data |-> n]

FillFwDone(status) == [type |-> "fw_done", len |-> Length.fw_done, status |-> status]

\* espnowData2Append(): the sizes of a DATA2 frame's samples with one more, or
\* as they were when it does not fit.
Append2(sizes, n, cap) ==
    IF n > Values13 \/ Len(sizes) = 255 \/ Data2Len(Append(sizes, n)) > Min({cap, Frame250}) THEN sizes
    ELSE Append(sizes, n)

\* A DATA2 frame of samples of these sizes.
FillData2(wanted, cap) ==
    LET Done[i \in 0..Len(wanted)] == IF i = 0 THEN <<>> ELSE Append2(Done[i - 1], wanted[i], cap)
        sizes == Done[Len(wanted)] IN
    [type |-> "data2", len |-> Data2Len(sizes), count |-> Len(sizes), sizes |-> sizes]

-----------------------------------------------------------------------------
(* What the receiver asks of a frame.                                      *)

\* espnowData2Walk(): the samples end where the frame does.
Data2Walk(m) ==
    /\ m.len \in (12 + 3)..Frame250
    /\ m.count >= 1 /\ m.count = Len(m.sizes)
    /\ \A i \in DOMAIN m.sizes : m.sizes[i] <= Values13
    /\ Data2Len(m.sizes) = m.len

CfgChunkOk(m) ==
    /\ m.data <= Chunk200 /\ m.len = 11 + m.data /\ m.total <= Document
    /\ IF m.total = 0 THEN m.offset = 0 /\ m.data = 0 ELSE m.data > 0 /\ m.offset + m.data <= m.total

espnowValidate(m) ==
    CASE m.type = "data"    -> m.count \in 1..Samples15 /\ m.len = DataLen(m.count)
      [] m.type = "data2"   -> Data2Walk(m)
      [] m.type = "cfg_get" -> m.len = Length.cfg_get /\ m.offset < Document
      [] m.type = "cfg"     -> CfgChunkOk(m)
      [] m.type = "cfg_ack" -> m.len = Length.cfg_ack /\ m.status <= 1 /\ m.field < 24 /\ m.reason < 48
      [] m.type = "fw_get"  -> m.len = Length.fw_get /\ m.offset < ImageMax
      [] m.type = "fw"      -> /\ m.data <= Chunk200 /\ m.len = 21 + m.data /\ m.size <= ImageMax
                               /\ IF m.size = 0 THEN m.offset = 0 /\ m.data = 0 ELSE m.offset + m.data <= m.size
      [] m.type = "fw_done" -> m.len = Length.fw_done /\ m.status \in 1..6
      [] OTHER              -> m.type \in {"ack", "discover", "welcome"} /\ m.len = Length[m.type]

Cutoff  == 3400      \* BATT_CUTOFF_MV
MaxDays == 365       \* BATT_MAX_DAYS

-----------------------------------------------------------------------------
(* The pool and the frame.                                                 *)

Used(p)  == MapThenSumSet(LAMBDA i : 5 + 6 * Len(p[i].v), DOMAIN p)

\* push(): the oldest readings make room for a new one.
Pushed(p, e) ==
    LET Room(j) == Used(SubSeq(p, j + 1, Len(p))) + 5 + 6 * Len(e.v) <= PoolBytes /\ Len(p) - j < 255
        drop    == Cardinality({j \in 0..Len(p) : ~Room(j)})
    IN Append(SubSeq(p, drop + 1, Len(p)), e)

\* Fault: the age is cut to its 16 bits.
ageOfWraps(base, at) == IF base = 0 \/ at = 0 \/ base <= at THEN 0 ELSE (base - at) % (OldestAge + 1)

\* ageOf(): no clock on either side, and a clock that went back, give no age.
ageOf(base, at) == IF base = 0 \/ at = 0 \/ base <= at THEN 0 ELSE Min({base - at, OldestAge})

Sizes(samples) == [i \in DOMAIN samples |-> Len(samples[i].v)]

\* How many of the buffered readings fit a frame beside the live one.
Taken(p, live) ==
    LET Fits(k) == Data2Len(Append(Sizes(SubSeq(p, 1, k)), Len(live))) <= Min({FrameBytes, Frame250})
    IN Cardinality({k \in 1..Len(p) : Fits(k)})

\* buildFrame(): the oldest first, the live reading last with age 0.
Built(p, live, base) ==
    LET k == Taken(p, live) IN
    [epoch |-> base,
     s |-> Append([i \in 1..k |-> [age |-> ageOf(base, p[i].at), v |-> p[i].v]], [age |-> 0, v |-> live])]

\* collectLive(): the sensors' readings that are numbers, then the battery.
Live(sensors, mv, t) ==
    [i \in 1..(Len(sensors) + IF mv = 0 THEN 0 ELSE 1) |->
        IF i <= Len(sensors) THEN [metric |-> sensors[i][1], index |-> sensors[i][2], value |-> t]
        ELSE [metric |-> "battery", index |-> 0, value |-> mv]]

-----------------------------------------------------------------------------
(* The battery's history.                                                  *)

Empty  == [last |-> 0, mv |-> <<>>]
Day(t) == t \div DayLen

\* Fault: the days without a reading are closed up.
AddedClosed(h, t, mv) ==
    IF Len(h.mv) > 0 /\ Day(t) = h.last THEN [h EXCEPT !.mv[1] = IF mv < h.mv[1] \/ h.mv[1] = 0 THEN mv ELSE h.mv[1]]
    ELSE IF Len(h.mv) > 0 /\ Day(t) < h.last THEN h
    ELSE [last |-> Day(t), mv |-> SubSeq(<<mv>> \o h.mv, 1, Min({HistoryCap, Len(h.mv) + 1}))]

\* batteryHistoryAdd(): a day's lowest voltage; days without one stay empty,
\* an earlier day is ignored, and after a hole of the whole window it starts
\* again.
Added(h, t, mv) ==
    LET gap == Day(t) - h.last IN
    CASE Len(h.mv) = 0 \/ gap >= HistoryCap -> [last |-> Day(t), mv |-> <<mv>>]
      [] gap < 0 -> h
      [] gap = 0 -> [h EXCEPT !.mv[1] = IF mv < @ \/ @ = 0 THEN mv ELSE @]
      [] OTHER   -> LET all == <<mv>> \o [i \in 1..(gap - 1) |-> 0] \o h.mv
                    IN [last |-> Day(t), mv |-> SubSeq(all, 1, Min({HistoryCap, Len(all)}))]

\* batteryPercent(): along the discharge curve.
Curve == << <<4200, 100>>, <<4060, 90>>, <<3980, 80>>, <<3920, 70>>, <<3870, 60>>, <<3820, 50>>,
            <<3790, 40>>, <<3750, 30>>, <<3700, 20>>, <<3600, 10>>, <<Cutoff, 0>> >>

batteryPercent(mv) ==
    CASE mv >= Curve[1][1]           -> 100
      [] mv <= Curve[Len(Curve)][1]  -> 0
      [] OTHER ->
           LET i  == CHOOSE j \in 1..(Len(Curve) - 1) : mv > Curve[j + 1][1] /\ mv <= Curve[j][1]
               lo == Curve[i + 1]
               dv == Curve[i][1] - lo[1]
           IN lo[2] + ((mv - lo[1]) * (Curve[i][2] - lo[2]) + dv \div 2) \div dv

\* batteryDaysLeft(): least squares over the daily minima; -1 when the days
\* are too few or the line does not fall by half a millivolt a day.
batteryDaysLeft(h, mv) ==
    LET days   == {i \in DOMAIN h.mv : h.mv[i] /= 0}
        X(i)   == Len(h.mv) - i
        Sum2(F(_)) == MapThenSumSet(F, days)
        n      == Cardinality(days)
        sx     == Sum2(X)
        den    == n * Sum2(LAMBDA i : X(i) * X(i)) - sx * sx
        num    == n * Sum2(LAMBDA i : X(i) * h.mv[i]) - sx * Sum2(LAMBDA i : h.mv[i])
    IN CASE n < MinPoints \/ den <= 0 \/ num >= 0 \/ 2 * (-num) < den -> -1
         [] mv <= Cutoff -> 0
         [] OTHER        -> Min({((mv - Cutoff) * den) \div (-num), MaxDays})

-----------------------------------------------------------------------------
(* The collector.                                                          *)

Date(base, age) == IF base > age THEN base - age ELSE base

\* data2Named(): a probe beyond those of the reported configuration has no name.
Named(v) == {v[k] : k \in {j \in DOMAIN v : v[j].metric = "probe" => v[j].index < plan.reported}}

\* The samples of a frame, oldest first; the readings of the newest go to the
\* live values, the others to the history queue.
Landing(f, base) ==
    [i \in DOMAIN f.s |-> [at |-> Date(base, f.s[i].age), newest |-> i = Len(f.s), readings |-> Named(f.s[i].v)]]
NothingLanded == [samples |-> <<>>, own |-> <<>>]

\* The battery voltages of a frame: one a sample, and of the first samples only.
Voltages(f, base) ==
    LET Batt(s) == SelectSeq(s.v, LAMBDA r : r.metric = "battery")
        with    == SelectSeq(f.s, LAMBDA s : Batt(s) /= <<>>)
        few     == SubSeq(with, 1, Min({Len(with), Samples15}))
    IN [i \in DOMAIN few |-> [mv |-> Head(Batt(few[i])).value, at |-> Date(base, few[i].age)]]

\* espnowBatteryMetrics(): what the collector makes of the history itself.
Derived(h, mv, at) ==
    LET days == batteryDaysLeft(h, mv)
        R(metric, value) == [metric |-> metric, value |-> value, at |-> at, newest |-> TRUE]
    IN CASE mv = 0   -> <<>>
         [] days < 0 -> <<R("percent", batteryPercent(mv))>>
         [] OTHER    -> <<R("percent", batteryPercent(mv)), R("days", days)>>

\* acceptSamples() and the tick. The check every frame passes first refuses
\* none of these: FilledIsValid.
Arrived(f, ours) ==
    LET base  == IF f.epoch /= 0 THEN f.epoch ELSE ours
        volts == Voltages(f, base)
        After[i \in 0..Len(volts)] == IF i = 0 THEN batt ELSE Added(After[i - 1], volts[i].at, volts[i].mv)
    IN /\ wire'   = FillData2(Sizes(f.s), FrameBytes)
       /\ batt'   = After[Len(volts)]
       /\ lastMv' = IF volts = <<>> THEN lastMv ELSE volts[Len(volts)].mv
       /\ landed' = [samples |-> Landing(f, base), own |-> Derived(batt', lastMv', base)]
       /\ told'   = told \cup {[day |-> Day(volts[i].at), mv |-> volts[i].mv] :
                                  i \in {k \in DOMAIN volts : After[k - 1].mv = <<>> \/ Day(volts[k].at) >= After[k - 1].last}}

-----------------------------------------------------------------------------
(* The node's wake.                                                        *)

\* wake(): read, build the frame, send it. What the ACK confirmed leaves the
\* pool; without one the live reading joins it.
Wake(sleep, mv, outcome) ==
    LET t    == now + sleep
        v    == Live(plan.sensors, mv, t)
        base == IF clock THEN t ELSE 0
    IN /\ left.wakes > 0 /\ (outcome = "acked" \/ left.lost > 0)
       /\ now'   = t
       /\ left'  = [wakes |-> left.wakes - 1, lost |-> left.lost - IF outcome = "acked" THEN 0 ELSE 1]
       /\ pool'  = IF outcome = "acked" THEN SubSeq(pool, Taken(pool, v) + 1, Len(pool))
                   ELSE Pushed(pool, [at |-> base, v |-> v])
       /\ clock' = (clock \/ outcome = "acked")
       /\ UNCHANGED plan

\* A frame that arrives, with or without its ACK getting back.
Heard(sleep, mv, outcome) ==
    LET t == now + sleep
        f == Built(pool, Live(plan.sensors, mv, t), IF clock THEN t ELSE 0)
    IN Wake(sleep, mv, outcome) /\ Arrived(f, t)

Unheard(sleep, mv) == Wake(sleep, mv, "lost") /\ landed' = NothingLanded /\ UNCHANGED <<batt, lastMv, told, wire>>

\* One of the other messages, filled in by its sender; "data" is that of a
\* node of the first protocol.
Exchange ==
    /\ left.wakes = plan.wakes
    /\ \/ wire' \in {Fixed(type) : type \in {"ack", "discover", "welcome"}}
       \/ \E total, offset \in DocSizes : wire' = FillCfgChunk(total, offset)
       \/ \E offset \in DocSizes : offset < Document /\ wire' = FillCfgGet(offset)
       \/ \E status \in 0..1, field, reason \in DocSizes : wire' = FillCfgAck(status, field, reason)
       \/ \E size, offset \in ImgSizes, n \in DocSizes : wire' = FillFwChunk(size, offset, n)
       \/ \E offset \in ImgSizes : offset < ImageMax /\ wire' = FillFwGet(offset)
       \/ \E status \in 1..6 : wire' = FillFwDone(status)
       \/ \E n \in {0, 1, Samples15, Samples15 + 1}, o \in OldSamples :
             wire' = EncodeData([i \in 1..n |-> [meant |-> o, sent |-> EnvSample(o[1], o[2], o[3], o[4])]])
    /\ UNCHANGED <<plan, now, clock, pool, landed, batt, lastMv, told, left>>

ReadingsNext ==
    \/ \E sleep \in plan.sleeps, mv \in plan.volts :
          \/ \E outcome \in {"acked", "unacked"} : Heard(sleep, mv, outcome)
          \/ Unheard(sleep, mv)
    \/ Exchange

ReadingsInit ==
    /\ plan \in Plans
    /\ now = plan.start /\ clock = plan.clock
    /\ pool = <<>> /\ landed = NothingLanded
    /\ batt = Empty /\ lastMv = 0 /\ told = {}
    /\ wire = NoFrame
    /\ left = [wakes |-> plan.wakes, lost |-> plan.lost]

-----------------------------------------------------------------------------
(* Properties.                                                             *)

Measured(sample) == {r \in sample.readings : r.metric \in {"temp", "probe"}}

\* What a node sends, whole frames of it, is stored with the time it was taken
\* whatever it waited in the pool: never an earlier time; the very time unless
\* the node had no clock or the age does not fit its 16 bits; and only the live
\* sample, which is last, becomes the current values.
StampedAsTaken ==
    LET all == landed.samples IN
    \A i \in DOMAIN all : \A r \in Measured(all[i]) :
        /\ all[i].at >= r.value
        /\ all[i].newest => all[i].at = r.value /\ all[i].at = now
        /\ ~all[i].newest /\ plan.clock =>
              /\ now - r.value <= OldestAge => all[i].at = r.value
              /\ \A j \in DOMAIN all : i < j => all[i].at <= all[j].at

\* The lowest voltage of every day the history covers.
Lowest(day) == Min({r.mv : r \in {q \in told : q.day = day}})
Covered     == {d \in (batt.last - HistoryCap + 1)..batt.last : \E r \in told : r.day = d}

\* A battery that falls by the same every day, by the day it was measured and
\* however many days the node was away, is given exactly the days that line
\* takes to the cutoff.
EstimateExact ==
    Cardinality(Covered) >= MinPoints /\ lastMv > Cutoff =>
        \A fall \in 1..(Lowest(Min(Covered)) - Lowest(batt.last)) :
            (\A d \in Covered : Lowest(d) = Lowest(batt.last) + fall * (batt.last - d))
                => batteryDaysLeft(batt, lastMv) = Min({(lastMv - Cutoff) \div fall, MaxDays})

Field == <<"temperature", "humidity", "pressure", "battery_voltage">>

\* Everything a sender can fill in passes the receiver's check, and the
\* readings of a fixed sample come out within half a step of what went in.
FilledIsValid ==
    wire.len >= 0 =>
        /\ espnowValidate(wire) /\ wire.len <= Frame250
        /\ wire.type = "data" =>
              \A i \in DOMAIN wire.s : \A r \in Expanded(wire.s[i].sent) :
                  \E k \in 1..4 : r[1] = Field[k] /\ r[2] - wire.s[i].meant[k] \in -5..5
=============================================================================
