----------------------------- MODULE MCCollector -----------------------------
(***************************************************************************)
(* Small instances of parts of the collector and its nodes that share        *)
(* nothing: the initial state picks one of Parts and the variables of the    *)
(* others stand still.                                                       *)
(***************************************************************************)
EXTENDS Naturals, Integers, Sequences, FiniteSets, TLC

CONSTANTS Parts, Lives, LogBatch, MaxFlows, MaxBoots, MaxEdits, MaxTroubles, Reqs, Kinds, Pieces,
          Series, Hours, HourLen, Backfill, Duration, Toasts, Days, MaxReadings, MaxMishaps,
          HealthHours, HealthHour, SensorJumps, SensorsUntil,
          Packages, Factory, Readers, Uploads, MaxUploads, MaxOffers, MaxMisses, MaxCuts,
          Nodes, PortalChanges, PageChanges, Legacy, MaxSaves, MaxLosses, RevMod,
          Setups, Buffer, MaxEdges,
          Plans, PoolBytes, FrameBytes, OldestAge, DayLen, HistoryCap, MinPoints, DocSizes, ImgSizes, OldSamples

VARIABLES part,
          life, flash, rtc, ram, cyc, past,       \* BootLoop
          disk, cfg, saver, lock, told,           \* Settings
          reqs, update, platform, troubles,       \* WebUploads
          clock, trend, snap, rule, seen,         \* Readings
          platform_, mgr, mutex, web, upTime, polled, counted,  \* Sensors
          card, pkg, table, sending, reader, asked, answer, gone, \* KindlePkg
          node, shelf, base, may, docTable, spent,       \* NodeDocs
          setup, wired, entry, dust, port, drv, pulse, loop, lastRead, luck, \* NodeSensors
          outfit, theTime, inTime, pool, landed, batt, lastMv, voltsTold, wire, left  \* EspNowReadings

Booting == INSTANCE BootLoop
Setting == INSTANCE Settings
Sending == INSTANCE WebUploads
Reading == INSTANCE Readings
Package == INSTANCE KindlePkg WITH MaxTroubles <- MaxMisses
Documents == INSTANCE NodeDocs WITH MaxTroubles <- MaxLosses, table <- docTable
Measuring == INSTANCE NodeSensors WITH last <- lastRead
Arriving == INSTANCE EspNowReadings WITH plan <- outfit, now <- theTime, clock <- inTime, told <- voltsTold

\* Sensors that want the same address, the same port, or one bus on two pairs of
\* pins; one that is read often, one that answers in data ready only.
Wire(kind, bus, addr, pins, every, data, gives) ==
    [kind |-> kind, bus |-> bus, addr |-> addr, pins |-> pins, every |-> every, data |-> data, gives |-> gives]
Once(kind, bus, addr, pins) == Wire(kind, bus, addr, pins, 9, 9, {TRUE})
Sensing == INSTANCE Sensors WITH
    Platforms <- {<<Once("i2c", 0, 1, "x"), Once("i2c", 0, 1, "x"), Once("uart", 0, 0, "u"), Once("uart", 0, 0, "u")>>,
                  <<Once("i2c", 0, 1, "y"), Once("i2c", 0, 2, "x"), Once("i2c", 1, 2, "x"), Once("i2c", 0, 2, "y")>>,
                  <<Wire("i2c", 0, 1, "y", 1, 1, BOOLEAN)>>,
                  <<Wire("uart", 0, 1, "y", 1, 3, BOOLEAN), Wire("remote", 0, 0, "x", 9, 9, {TRUE})>>,
                  <<>>},
    NewPlatforms <- {<<>>}, MaxSensors <- 3, Controllers <- {0}

\* What the constants are: the hours of a ring, and the configurations of nodes
\* (nodecfg::NodeConfig), whose secrets are those of their transport.
ASSUME HealthAssumption ==
    HealthHours \in Nat \ {0} /\ HealthHour \in Nat \ {0} /\ SensorJumps \subseteq Nat
ConfigFields == {"espnow", "hw", "rev", "local", "fields", "sensors", "secret"}
ASSUME DocumentsAssumption ==
    \A n \in Nodes :
        /\ DOMAIN n = ConfigFields /\ n.espnow \in BOOLEAN /\ n.local \in BOOLEAN
        /\ DOMAIN n.secret = Documents!SecretsOf(n.espnow)

\* The configurations of node sensors: two of one wiring have the same sensors in
\* the same places (sameSetup() compares them), "none" is no wiring.
Fitted(s) == [i \in DOMAIN s.sensors |-> s.sensors[i].type]
ASSUME SetupsAssumption ==
    /\ Buffer \in Nat
    /\ \A s \in Setups :
        /\ s.radio \in BOOLEAN /\ s.interval \in Nat /\ s.block \in Nat /\ s.wiring # "none"
        /\ DOMAIN s.troubles = {"miss", "plug", "reboot"} /\ \A t \in DOMAIN s.troubles : s.troubles[t] \in Nat
        /\ \A i \in DOMAIN s.sensors : s.sensors[i].warmup \in Nat /\ s.sensors[i].every \in Nat \ {0}
        /\ \A t \in Setups : s.wiring = t.wiring => Fitted(s) = Fitted(t)

\* What the radio nodes have and meet: sensors, battery voltages, times between wakes.
ASSUME PlansAssumption ==
    /\ OldestAge \in Nat
    /\ \A p \in Plans :
        /\ p.sensors \in Seq(STRING \X Nat) /\ p.volts \subseteq Nat /\ p.sleeps \subseteq Nat
        /\ p.start \in Nat \ {0} /\ p.clock \in BOOLEAN

boot     == <<life, flash, rtc, ram, cyc, past>>
settings == <<disk, cfg, saver, lock, told>>
uploads  == <<reqs, update, platform, troubles>>
readings == <<clock, trend, snap, rule, seen>>
sensors  == <<platform_, mgr, mutex, web, upTime, polled, counted>>
package  == <<card, pkg, table, sending, reader, asked, answer, gone>>
documents == <<node, shelf, base, may, docTable, spent>>
measured == <<setup, wired, entry, dust, port, drv, pulse, loop, lastRead, luck>>
received == <<outfit, theTime, inTime, pool, landed, batt, lastMv, voltsTold, wire, left>>
vars     == <<part, boot, settings, uploads, readings, sensors, package, documents, measured, received>>

Still == 0
Init ==
    /\ part \in Parts
    /\ IF part = "boot" THEN Booting!BootInit
       ELSE /\ life = Still /\ flash = [run |-> "none"] /\ rtc = Still
            /\ ram = [phase |-> "none"] /\ cyc = Still /\ past = [proven |-> FALSE]
    /\ IF part = "settings" THEN Setting!SettingsInit 
       ELSE disk = Still /\ cfg = Still /\ saver = Still /\ lock = Still /\ told = Still
    /\ IF part = "uploads" THEN Sending!UploadInit 
       ELSE reqs = Still /\ update = Still /\ platform = Still /\ troubles = Still
    /\ IF part = "readings" THEN Reading!ReadInit 
       ELSE clock = Still /\ trend = Still /\ snap = Still /\ rule = Still /\ seen = Still
    /\ IF part = "sensors" THEN Sensing!SensorsInit
       ELSE /\ platform_ = Still /\ mgr = Still /\ mutex = Still /\ web = Still
            /\ upTime = Still /\ polled = Still /\ counted = Still
    /\ IF part = "package" THEN Package!KpkgInit
       ELSE /\ card = Still /\ pkg = Still /\ table = Still /\ sending = Still /\ reader = Still
            /\ asked = Still /\ answer = Still /\ gone = Still
    /\ IF part = "documents" THEN Documents!DocsInit
       ELSE node = Still /\ shelf = Still /\ base = Still /\ may = Still /\ docTable = Still /\ spent = Still
    /\ IF part = "node" THEN Measuring!NodeInit
       ELSE /\ setup = Still /\ wired = Still /\ entry = Still /\ dust = Still /\ port = Still /\ drv = Still
            /\ pulse = Still /\ loop = Still /\ lastRead = Still /\ luck = Still
    /\ IF part = "radio" THEN Arriving!ReadingsInit
       ELSE /\ outfit = Still /\ theTime = Still /\ inTime = Still /\ pool = Still /\ landed = Still /\ batt = Still
            /\ lastMv = Still /\ voltsTold = Still /\ wire = Still /\ left = Still

\* Each part moves alone.
Next ==
    \/ part = "boot" /\ Booting!BootNext
       /\ UNCHANGED <<part, settings, uploads, readings, sensors, package, documents, measured, received>>
    \/ part = "settings" /\ Setting!SettingsNext
       /\ UNCHANGED <<part, boot, uploads, readings, sensors, package, documents, measured, received>>
    \/ part = "uploads" /\ Sending!UploadNext
       /\ UNCHANGED <<part, boot, settings, readings, sensors, package, documents, measured, received>>
    \/ part = "readings" /\ Reading!ReadNext
       /\ UNCHANGED <<part, boot, settings, uploads, sensors, package, documents, measured, received>>
    \/ part = "sensors" /\ Sensing!SensorsNext
       /\ UNCHANGED <<part, boot, settings, uploads, readings, package, documents, measured, received>>
    \/ part = "package" /\ Package!KpkgNext
       /\ UNCHANGED <<part, boot, settings, uploads, readings, sensors, documents, measured, received>>
    \/ part = "documents" /\ Documents!DocsNext
       /\ UNCHANGED <<part, boot, settings, uploads, readings, sensors, package, measured, received>>
    \/ part = "node" /\ Measuring!NodeNext
       /\ UNCHANGED <<part, boot, settings, uploads, readings, sensors, package, documents, received>>
    \/ part = "radio" /\ Arriving!ReadingsNext
       /\ UNCHANGED <<part, boot, settings, uploads, readings, sensors, package, documents, measured>>

Spec == Init /\ [][Next]_vars

\* The fairness of the two parts that promise an end: the device's, and that a
\* reader goes on with what it has begun.
Goes(A) == part = "package" /\ A
FairSpec ==
    /\ Spec /\ Booting!BootFairness
    /\ \A r \in Readers : /\ WF_package(Goes(Package!Fetches(r))) /\ WF_package(Goes(Package!Asks(r)))
                         /\ WF_package(Goes(Package!Piece(r))) /\ WF_package(Goes(Package!Installs(r)))

-----------------------------------------------------------------------------
(* The devices.                                                            *)

AllTroubles == {"crash", "power", "busy", "full", "restart", "update", "confirm", "rollback",
                "press", "sleep", "mount", "webFlush"}
Budget(f) == [t \in AllTroubles |-> IF t \in DOMAIN f THEN f[t] ELSE 0]
Device(mode, online, guard, fault, manual, f) ==
    [mode |-> mode, online |-> online, guard |-> guard, fault |-> fault, manual |-> manual, budget |-> Budget(f)]

Updating == [update |-> 1, crash |-> 1, confirm |-> 1, rollback |-> 1, restart |-> 1, mount |-> 1]
MCLives ==
    {Device("continuous", FALSE, TRUE, f, m, Updating) : f \in {"setup", "early", "late", "never"}, m \in BOOLEAN}
    \cup {Device("hybrid", FALSE, TRUE, "early", FALSE, [update |-> 1, sleep |-> 2, restart |-> 1, power |-> 1]),
          Device("legacy", TRUE, TRUE, "late", FALSE, [update |-> 1, press |-> 1, webFlush |-> 1, crash |-> 1]),
          Device("legacy", TRUE, TRUE, "late", FALSE, [press |-> 2, full |-> 1, webFlush |-> 1, restart |-> 1, crash |-> 1]),
          Device("legacy", FALSE, TRUE, "never", FALSE, [sleep |-> 4, full |-> 2, power |-> 1])}

MCReqs == {1, 2, 3}
Three(a, b, c) == <<a, b, c>>
MCKinds ==
    {Three("file", "platform", "file"), Three("image", "image", "badImage"), Three("image", "badImage", "import"),
     Three("file", "import", "platform"), Three("platform", "platform", "image")}

\* Readings that come late or from the future, and the rule's times.
MCDays == {[lags |-> {0, 5, -9}, jumps |-> {3, 14}, mets |-> {FALSE}],
           [lags |-> {0, 1}, jumps |-> {1, 2, -2}, mets |-> BOOLEAN]}

\* Packages: two of one version and length, one that does not parse, one with a
\* file missing.
Tar(md5, ver, size, entries, parses) ==
    [md5 |-> md5, ver |-> ver, size |-> size, entries |-> entries, ends |-> TRUE, parses |-> parses]
Whole == <<"dir", "update_dash", "start", "stop", "menu", "VERSION", "file">>
MCPackages == {Tar("a", "v1", 2, Whole, TRUE), Tar("b", "v1", 2, Whole, TRUE),
               Tar("c", "v2", 1, Whole, FALSE), Tar("d", "v2", 1, SubSeq(Whole, 1, 5), TRUE)}
MCFactory == Tar("f", "v0", 1, Whole, TRUE)

-----------------------------------------------------------------------------
(* The documents of a node: its sensors, and what is typed on either page.  *)

NoChange == [x \in {} |-> 0]
Typed(fields, secret) == [fields |-> fields, secret |-> secret, moves |-> FALSE, sensors |-> <<>>, clear |-> {}]
Moved(list) == [Typed(NoChange, NoChange) EXCEPT !.moves = TRUE, !.sensors = list]
Put(i, x) == [from |-> i, put |-> x]
Common == [name |-> 1, interval_s |-> 60, altitude_m |-> 0, board |-> 1]
Wifi(list) ==
    [espnow |-> FALSE, hw |-> "esp8266", rev |-> 0, local |-> FALSE,
     fields |-> Common @@ [sda |-> 4, scl |-> 5, ssid |-> 1, host |-> 1],
     sensors |-> list, secret |-> [pass |-> "old", token |-> ""]]
Radio(list) ==
    [espnow |-> TRUE, hw |-> "esp32c3", rev |-> 0, local |-> FALSE,
     fields |-> Common @@ [sda |-> 6, scl |-> 7, sleep |-> 1, batt |-> 0, window |-> 20],
     sensors |-> list, secret |-> [lmk |-> "old"]]
Flow == Put(0, [type |-> "pulse", interval_s |-> 0, pin |-> 14, mode |-> "flow", scale |-> 5])
MCNodes == {Wifi(<<"bmx280", "ds18b20">>), Radio(<<"ds18b20">>)}

\* Nothing of it is checked: the bus and the probe on one pin.
MCLegacy == {[fields |-> [sda |-> 14], pins |-> [ds18b20 |-> 14], secret |-> [token |-> "old"]]}

MCPortalChanges ==
    {Typed([name |-> 2], NoChange), Typed([ssid |-> 2], [pass |-> "new"]), Typed([ssid |-> 2], NoChange),
     [Typed(NoChange, NoChange) EXCEPT !.clear = {"token", "lmk"}], Typed(NoChange, [token |-> "new"]), Moved(<<Flow>>)}
MCPageChanges ==
    {Typed([name |-> 3], NoChange), Typed([interval_s |-> 5], NoChange), Typed(NoChange, [token |-> "page"]),
     Typed(NoChange, [pass |-> "short"]), Typed([ssid |-> 2], [pass |-> "page"]), Typed([sda |-> 2], NoChange),
     Moved(<<Put(1, NoChange), Flow>>), Moved(<<Put(1, [interval_s |-> 30])>>), Moved(<<Put(1, [count |-> 2])>>)}

-----------------------------------------------------------------------------
(* The sensors of a node: wirings, intervals, warm-ups, block of readings.   *)

S(type, every, warmup) == [type |-> type, every |-> every, warmup |-> warmup]
Wired(wiring, radio, interval, list, block, miss, plug, reboot) ==
    [wiring |-> wiring, radio |-> radio, interval |-> interval, sensors |-> list, block |-> block,
     troubles |-> [miss |-> miss, plug |-> plug, reboot |-> reboot]]
MCSetups ==
    {Wired("a", FALSE, 8, <<S("sds011", 1, 2), S("pulse", 1, 0), S("ds18b20", 1, 0)>>, 1, 1, 0, 1),
     Wired("b", FALSE, 2, <<S("sds011", 7, 6)>>, 1, 1, 1, 1),
     Wired("c", FALSE, 3, <<S("sds011", 1, 2)>>, 2, 1, 1, 0),
     Wired("d", FALSE, 8, <<S("sds011", 1, 2)>>, 9, 0, 0, 0),
     Wired("e", TRUE, 8, <<S("sds011", 1, 3), S("pulse", 1, 0)>>, 1, 0, 0, 1),
     Wired("e", TRUE, 3, <<S("sds011", 2, 2), S("pulse", 1, 0)>>, 1, 0, 0, 1),
     Wired("f", FALSE, 3, <<S("pulse", 1, 0), S("ds18b20", 1, 0)>>, 1, 0, 0, 1)}

-----------------------------------------------------------------------------
(* Readings by radio: nodes with and without a clock, a battery, a table of   *)
(* sensors.                                                                *)

Plan(list, volts, sleeps, wakes, lost, hasTime, reported) ==
    [sensors |-> list, volts |-> volts, sleeps |-> sleeps, wakes |-> wakes, lost |-> lost,
     clock |-> hasTime, start |-> 20, reported |-> reported]
MCPlans == {Plan(<<>>, {3900, 3800, 3700, 3600}, {2, 4}, 4, 1, TRUE, 0),
            Plan(<<<<"temp", 0>>, <<"probe", 1>>>>, {0}, {1, 5}, 5, 4, TRUE, 1),
            Plan(<<<<"temp", 0>>>>, {0, 3900}, {1}, 4, 3, FALSE, 1)}
MCOldSamples == {<<-320000, 0, 149999, 38745>>, <<-5675, 48255, 150000, 650000>>,
                 <<5, 100001, 1013254, 99999999>>, <<320001, 99999, 2000001, 38744>>}

-----------------------------------------------------------------------------
(* The properties, each stated in its module.                              *)

\* BootLoop: a new image that fails is undone; drawn water is logged.
BadUpdateUndone == Booting!BadUpdateUndone
RowsKept == part = "boot" => Booting!RowsKept

\* Settings: what a handler answered "saved" is what the next boot loads.
AnsweredSurvives == part = "settings" => Setting!AnsweredSurvives

\* WebUploads: what was answered "ok" is stored.
OkMeansStored == part = "uploads" => Sending!OkMeansStored

\* Readings: an hour of the trends holds its own readings; a rule with a
\* duration fires when its condition held that long.
HoursExact == part = "readings" => Reading!HoursExact
HeldItsDuration == part = "readings" => Reading!HeldItsDuration

\* Sensors: the hours of a sensor's health; the reload of a stored platform.
HealthExact == part = "sensors" => Sensing!HealthExact
PlatformApplied == part = "sensors" => Sensing!PlatformApplied

\* NodeDocs: secrets nobody changed stay; a node runs what its page said.
SecretsKept == part = "documents" => Documents!SecretsKept
RunsWhatWasSaid == part = "documents" => Documents!RunsWhatWasSaid

\* NodeSensors: dust is read warm, pulses are told once.
DustIsWarm == part = "node" => Measuring!DustIsWarm
PulsesOnce == part = "node" => Measuring!PulsesOnce

\* EspNowReadings: stamped when they were taken; a battery's estimate is that of
\* its history; what is filled in is valid.
StampedAsTaken == part = "radio" => Arriving!StampedAsTaken
EstimateExact == part = "radio" => Arriving!EstimateExact
FilledIsValid == part = "radio" => Arriving!FilledIsValid

\* KindlePkg: nothing runs unasked; a failed upload costs nothing; in the end a
\* reader has what is offered or has refused it.
NeverUnasked == part = "package" => Package!NeverUnasked
FailedKeepsOld == part = "package" => Package!FailedKeepsOld
EveryReaderSettles == <>[](part = "package" => Package!Settled)
=============================================================================
