------------------------------ MODULE Sensors ------------------------------
(***************************************************************************)
(* The collector's own sensors (sensors/SensorManager.cpp, I2CBus.cpp, the   *)
(* claims and init() of the plugins): the boot that loads the platform file,  *)
(* the fast and the slow sensor task that read what was loaded under          *)
(* configMutex, "read now" and "reload" of the web task, and the health of    *)
(* the last hours.                                                         *)
(*                                                                         *)
(* An entry of the file is [kind, bus, addr, pins, every, data, gives]: kind    *)
(* "i2c" needs a bus, its pins and an address, "uart" the one serial port,      *)
(* "remote" nothing. It is polled each `every`; one that sleeps gives data each *)
(* `data`; `gives` are the outcomes its reads may have. A disabled entry is not  *)
(* in the sequence, and a reading goes to sensorQueue (module Pipeline).        *)
(***************************************************************************)
EXTENDS Naturals, Sequences, FiniteSets

CONSTANTS
    Platforms,     \* files: sequences of entries, or <<>> for one that does not parse
    NewPlatforms,  \* those the sensor page may store
    MaxSensors,    \* SensorManager::MAX_SENSORS
    Controllers,   \* I2C buses the chip has
    HealthHours,   \* hours the health remembers (24)
    HealthHour,    \* an hour
    SensorJumps,   \* by how much the clock goes on
    SensorsUntil   \* the clock at which the model stops

VARIABLES
    platform_,   \* the platform file
    mgr,         \* what is loaded: [list, port, addrs, buses]
    mutex,       \* who holds configMutex: free, the fast or slow task, the web task
    web,         \* the web task: idle, file stored, in the reload, or its answer
    upTime,      \* millis()
    polled,      \* the tasks that polled at this time: each waits before the next
    counted      \* ghost: per place and hour since its first read, its reads

sensorVars == <<platform_, mgr, mutex, web, upTime, polled, counted>>

Never == 0
NewHealth == [reads |-> [h \in 1..HealthHours |-> 0], errors |-> [h \in 1..HealthHours |-> 0],
              cur |-> 1, start |-> Never, first |-> Never, lastError |-> Never]

-----------------------------------------------------------------------------
(* Loading.                                                                *)

Blocking(e) == e.kind = "uart"

\* I2CBus::acquire(): the first claim of a bus sets its pins, others must agree.
BusFree(m, e) == e.bus \in Controllers /\ (m.buses[e.bus] = "none" \/ m.buses[e.bus] = e.pins)
WithBus(m, e) == [m EXCEPT !.buses[e.bus] = e.pins]

\* _claimI2cAddress(), _claimSerial1().
AddressFree(m, e) == ~\E c \in m.addrs : c.bus = e.bus /\ c.addr = e.addr
WithAddress(m, e, who) == [m EXCEPT !.addrs = @ \cup {[who |-> who, bus |-> e.bus, addr |-> e.addr]}]

\* init() of a plugin: what it claims, whether it may go on, whether the device
\* answers. The owner is known by its place in the file.
Claimed(m, e, who) ==
    IF e.kind = "i2c" /\ BusFree(m, e)
    THEN IF AddressFree(m, e) THEN WithAddress(WithBus(m, e), e, who) ELSE WithBus(m, e)
    ELSE IF e.kind = "uart" /\ m.port = 0 THEN [m EXCEPT !.port = who] ELSE m
MayStart(m, e) ==
    /\ e.kind = "i2c" => BusFree(m, e) /\ AddressFree(m, e)
    /\ e.kind = "uart" => m.port = 0

\* Fault: a plugin whose init() failed keeps what it claimed.
Unclaimed(m, who) == m

\* _releaseSerial1(), _releaseI2cClaims(): the bus keeps its pins.
Released(m, who) ==
    [m EXCEPT !.port = IF @ = who THEN 0 ELSE @, !.addrs = {c \in @ : c.who # who}]

\* One entry of the file: skipped, started or refused.
Tried(m, e, who, answers) ==
    IF Len(m.list) >= MaxSensors THEN m
    ELSE IF MayStart(m, e) /\ answers
         THEN [Claimed(m, e, who) EXCEPT !.list = Append(@, [e |-> e, who |-> who])]
         ELSE Released(Claimed(m, e, who), who)

\* _destroyAll(): nothing is loaded and nothing is claimed.
Empty == [list |-> <<>>, port |-> 0, addrs |-> {}, buses |-> [b \in Controllers |-> "none"]]

\* loadAndInit() of a file of which the devices in `present` answer: what was
\* started has read nothing yet.
Loaded(f, present) ==
    LET after[n \in 0..Len(f)] == IF n = 0 THEN Empty ELSE Tried(after[n - 1], f[n], n, n \in present)
        m == after[Len(f)]
        started(s) == [e |-> s.e, who |-> s.who, last |-> Never, failing |-> FALSE, health |-> NewHealth]
    IN  [list |-> [p \in DOMAIN m.list |-> started(m.list[p])], port |-> m.port, addrs |-> m.addrs, buses |-> m.buses]

\* Nothing is counted of what was just loaded.
Uncounted(m) == [p \in DOMAIN m.list |-> <<>>]

-----------------------------------------------------------------------------
(* Reading.                                                                *)

\* Fault: a silence of several hours is one hour.
RolledOnce(h) ==
    IF upTime - h.start < HealthHour THEN h
    ELSE LET c == (h.cur % HealthHours) + 1 IN
         [h EXCEPT !.cur = c, !.reads[c] = 0, !.errors[c] = 0, !.start = @ + HealthHour]

\* The cells of the hours that have passed since the current one began.
Rolled(h) ==
    LET n == (upTime - h.start) \div HealthHour
        past == {((h.cur + i - 1) % HealthHours) + 1 : i \in 1..n}
    IN [h EXCEPT !.cur = ((@ + n - 1) % HealthHours) + 1, !.start = @ + n * HealthHour,
                 !.reads = [c \in DOMAIN @ |-> IF c \in past THEN 0 ELSE @[c]],
                 !.errors = [c \in DOMAIN @ |-> IF c \in past THEN 0 ELSE @[c]]]

Begun(h) == [h EXCEPT !.start = IF @ = Never THEN upTime ELSE @, !.first = IF @ = Never THEN upTime ELSE @]

\* A sensor that sleeps between its readings is in order for two of them.
Asleep(s, h) == s.e.kind # "i2c" /\ upTime - (IF s.last # Never THEN s.last ELSE h.first) <= 2 * s.e.data
CountsError(s, h) ==
    /\ ~Asleep(s, h)
    /\ s.e.kind = "i2c" \/ upTime - h.lastError >= s.e.data

Good(s, h) == [s EXCEPT !.last = upTime, !.failing = FALSE, !.health = [h EXCEPT !.reads[h.cur] = @ + 1]]
Bad(s, h) ==
    IF CountsError(s, h)
    THEN [s EXCEPT !.failing = TRUE, !.health = [h EXCEPT !.errors[h.cur] = @ + 1, !.lastError = upTime]]
    ELSE [s EXCEPT !.health = h]

\* The first read, too, comes a whole interval after the boot.
Due(s) == upTime - s.last >= s.e.every

\* toJson(): what GET /api/sensors shows of the hours, the latest first.
Shown(h) == [back \in 0..(HealthHours - 1) |-> h.reads[((h.cur + HealthHours - back - 1) % HealthHours) + 1]]

Mine(task) == {p \in DOMAIN mgr.list : Blocking(mgr.list[p].e) = (task = "slow")}

\* tickFiltered() takes configMutex for the whole pass, or does nothing.
PassBegins ==
    /\ mutex = "free"
    /\ \E task \in {"fast", "slow"} \ polled : Mine(task) # {} /\ mutex' = task /\ polled' = polled \cup {task}
    /\ UNCHANGED <<platform_, mgr, web, upTime, counted>>

\* Every place that is due is read, but where "read now" kept the bus from it.
PassReads ==
    /\ mutex \in {"fast", "slow"} /\ mutex' = "free"
    /\ LET due == {p \in Mine(mutex) : Due(mgr.list[p])} IN
       \E read \in (IF mutex = "fast" THEN {due, {}} ELSE {due}) :
       \E gave \in {f \in [read -> BOOLEAN] : \A p \in read : f[p] \in mgr.list[p].e.gives} :
         /\ mgr' = [mgr EXCEPT !.list = [p \in DOMAIN @ |->
                      IF p \notin read THEN @[p]
                      ELSE LET h == Rolled(Begun(@[p].health)) IN IF gave[p] THEN Good(@[p], h) ELSE Bad(@[p], h)]]
         /\ counted' = [p \in DOMAIN counted |->
                IF p \in read /\ gave[p]
                THEN Append(counted[p], (upTime - Begun(mgr.list[p].health).first) \div HealthHour) ELSE counted[p]]
    /\ UNCHANGED <<platform_, web, upTime, polled>>

\* Time, but not while a pass is under way.
TimePasses ==
    /\ mutex \in {"free", "web"} /\ \E d \in SensorJumps : upTime' = upTime + d /\ upTime' <= SensorsUntil
    /\ polled' = {}
    /\ UNCHANGED <<platform_, mgr, mutex, web, counted>>

-----------------------------------------------------------------------------
(* The web task.                                                           *)

\* GET /api/sensors/read_now takes no configMutex. A read that fails is an error.
ReadNow ==
    /\ web = "idle" 
    /\ \E p \in Mine("fast") : FALSE \in mgr.list[p].e.gives /\ mgr' = [mgr EXCEPT !.list[p].failing = TRUE]
    /\ UNCHANGED <<platform_, mutex, web, upTime, polled, counted>>

\* The sensor page stores a new file, then asks for the reload.
StorePlatform ==
    /\ web = "idle" /\ platform_' \in NewPlatforms \ {platform_} /\ web' = "stored"
    /\ UNCHANGED <<mgr, mutex, upTime, polled, counted>>

\* POST /api/config/platform takes configMutex ...
ReloadBegins ==
    /\ web = "stored"
    /\ IF mutex = "free" THEN mutex' = "web" /\ web' = "reload" ELSE mutex' = mutex /\ web' = "busy"
    /\ UNCHANGED <<platform_, mgr, upTime, polled, counted>>

\* ... and reloadConfig() takes it again: it is not recursive, so after eight
\* seconds the sensors are as they were.
ReloadEnds ==
    /\ web = "reload"
    /\ IF mutex # "free" THEN web' = "failed" /\ UNCHANGED <<mgr, counted>>
       ELSE \E present \in SUBSET (1..Len(platform_)) :
            /\ mgr' = Loaded(platform_, present) /\ web' = "done"
            /\ counted' = Uncounted(mgr')
    /\ mutex' = "free"
    /\ UNCHANGED <<platform_, upTime, polled>>

-----------------------------------------------------------------------------

\* _initPlatform() loads the file at boot, before any task runs.
SensorsInit ==
    /\ platform_ \in Platforms
    /\ \E present \in SUBSET (1..Len(platform_)) : mgr = Loaded(platform_, present)
    /\ mutex = "free" /\ web = "idle" /\ upTime = 1 /\ polled = {}
    /\ counted = Uncounted(mgr)

SensorsNext ==
    \/ PassBegins \/ PassReads \/ TimePasses \/ ReadNow \/ StorePlatform \/ ReloadBegins \/ ReloadEnds

-----------------------------------------------------------------------------

\* Every claim belongs to a sensor that runs, and no two that run share a port,
\* an address or a bus on different pins: what was refused or did not answer
\* blocks nobody after it (_releaseSerial1(), _releaseI2cClaims()).
ClaimsAreOwned ==
    LET runs == {mgr.list[p] : p \in DOMAIN mgr.list} IN
    /\ \A c \in mgr.addrs : \E s \in runs : s.who = c.who /\ s.e.bus = c.bus /\ s.e.addr = c.addr
    /\ mgr.port # 0 => \E s \in runs : s.who = mgr.port /\ s.e.kind = "uart"
    /\ \A s, t \in runs : s # t /\ s.e.kind = t.e.kind =>
          /\ s.e.kind # "uart"
          /\ s.e.kind = "i2c" /\ s.e.bus = t.e.bus => s.e.addr # t.e.addr /\ s.e.pins = t.e.pins

\* The reads shown for each of the last hours are the reads made in that hour,
\* however long the sensor was not polled (tickFiltered(), toJson()).
HealthExact ==
    \A p \in DOMAIN mgr.list :
        LET h == mgr.list[p].health
            now == (h.start - h.first) \div HealthHour
        IN \A back \in 0..(HealthHours - 1) :
              now >= back => Shown(h)[back] = Cardinality({i \in DOMAIN counted[p] : counted[p][i] = now - back})

\* docs/ARCHITECTURE.md: the reload applies the sensors of the file.
PlatformApplied == web # "failed"
=============================================================================
