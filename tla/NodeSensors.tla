---------------------------- MODULE NodeSensors ----------------------------
(***************************************************************************)
(* The sensors of a node that stays awake (node_common/NodeSensors.cpp):   *)
(* bringing them up and retrying the missing ones, the dust sensor that    *)
(* sleeps between readings and is woken a warm-up ahead, the pulse counter *)
(* fed by an interrupt, and the loop around them, which stands still while *)
(* the node connects and posts.  One unit of time is 5 s: the age a frame  *)
(* may have, the spare time of a wake-up, and what the serial port's       *)
(* buffer holds of a sensor that sends one frame a second.                 *)
(***************************************************************************)
EXTENDS Naturals, Sequences, FiniteSets

CONSTANTS
    Setups,      \* the configurations: [wiring, interval, sensors, radio, block, troubles],
                 \* a sensor is [type, every, warmup]
    Buffer,      \* units of frames the port holds
    MaxEdges     \* pulses

VARIABLES
    setup,    \* the configuration
    wired,    \* what answers: the entries that are connected
    entry,    \* the entries that are up, and the wiring they were brought up with
    dust,     \* the dust sensor itself
    port,     \* frames received and not read: how long the fan had run at each
    drv,      \* the driver's s_sds* variables
    pulse,    \* edges counted since the counter was set up, s_pulses, s_pulseTotal
    loop,     \* where the main loop is, the time to the next send and its number
    last,     \* the last read of the dust sensor
    luck      \* troubles left: missed commands, cables, restarts

nodeVars == <<setup, wired, entry, dust, port, drv, pulse, loop, last, luck>>

None   == 99
Far    == 14         \* an age too high to matter: more than any wait below
Lead   == 1          \* SDS_WAKE_LEAD_MS
Excess == 6          \* 30 s past the warm-up and the lead a read is given up

Aged(n) == IF n < Far THEN n + 1 ELSE n

List       == setup.sensors
Dust       == {i \in DOMAIN List : List[i].type = "sds011"}
Warmup     == IF Dust = {} THEN 0 ELSE List[CHOOSE i \in Dust : TRUE].warmup
Every      == IF Dust = {} THEN 1 ELSE List[CHOOSE i \in Dust : TRUE].every
sdsSleeps  == Every * setup.interval > 2 * Warmup
sensorDue(tick) == tick % Every = 0

-----------------------------------------------------------------------------
(* The dust sensor.                                                        *)

\* asked is not the driver's: the warm-up that was configured when it was reached.
Down == [up |-> FALSE, awake |-> FALSE, woke |-> Far, cmd |-> Far, frame |-> Far, pm |-> None,
         warmed |-> FALSE, asked |-> 0, pending |-> FALSE]

\* Fault: a warm-up once reached counts for the next wake-up.
ToldStaysWarm(d, work) ==
    [d EXCEPT !.cmd = 0, !.awake = work, !.woke = IF work /\ ~d.awake THEN 0 ELSE @, !.pm = IF work THEN @ ELSE None]

\* sdsSetWorking(): only a command that wakes it starts the warm-up again.
Told(d, work) ==
    LET wakes == work /\ ~d.awake IN
    [d EXCEPT !.cmd = 0, !.awake = work, !.woke = IF wakes THEN 0 ELSE @,
              !.warmed = @ /\ ~wakes, !.pm = IF work THEN @ ELSE None]

Trouble(kind) == luck[kind] > 0 /\ luck' = [luck EXCEPT ![kind] = @ - 1]

\* A sensor that sleeps may miss a command.
Hears(work) ==
    \/ dust' = [dust EXCEPT !.works = work, !.ran = IF work /\ ~dust.works THEN 0 ELSE @] /\ luck' = luck
    \/ Trouble("miss") /\ dust' = dust

\* drainSds(): everything received is taken, at this moment's time.
Drained(d) ==
    IF port = <<>> THEN d
    ELSE LET reached == d.awake /\ d.woke >= Warmup IN
         [d EXCEPT !.pm = port[Len(port)], !.frame = 0, !.warmed = @ \/ reached,
                   !.asked = IF reached /\ ~d.warmed THEN Warmup ELSE @]

sdsWarm(d)   == d.awake /\ d.warmed /\ d.pm # None /\ d.frame = 0
sdsGiveUp(d) == d.woke > Warmup + Lead + Excess

\* readEntry() of a warm sensor.
Taken(d) == [d EXCEPT !.pm = None, !.pending = FALSE]

-----------------------------------------------------------------------------
(* nodeSensorsBegin(), nodeSensorsEnd().                                   *)

\* Fault: any change of the configuration brings everything up anew.
sameSetupWhole(new) == entry.wiring = new.wiring /\ setup = new

\* sameSetup(): the wiring only; not how often, nor what a pulse means.
sameSetup(new) == entry.wiring = new.wiring

NoPulses == [edges |-> 0, isr |-> 0, total |-> 0]

Ups(new) == {i \in DOMAIN new.sensors : new.sensors[i].type \in {"sds011", "pulse"} \/ i \in wired}

\* The entries that are up stay as they are; the others are tried.
Begin(new) ==
    LET kept  == IF sameSetup(new) THEN entry.ok ELSE {}
        ok    == kept \cup Ups(new)
        fresh == ok \ kept
        starts(type) == \E i \in fresh : new.sensors[i].type = type
    IN  /\ entry' = [ok |-> ok, wiring |-> new.wiring]
        /\ pulse' = [(IF sameSetup(new) THEN pulse ELSE NoPulses)
                        EXCEPT !.edges = IF entry.wiring = new.wiring THEN pulse.edges ELSE 0]
        /\ IF starts("sds011")
           THEN /\ drv' = Told([Down EXCEPT !.up = TRUE], TRUE)
                /\ port' = <<>> /\ Hears(TRUE)
           ELSE /\ drv' = IF sameSetup(new) THEN drv ELSE Down
                /\ UNCHANGED <<port, dust, luck>>

Ready == entry.ok # {}
NotReady == [at |-> "setup", left |-> 0, tick |-> 0, held |-> 0, idled |-> TRUE, retry |-> 0]
Never == [due |-> FALSE, got |-> FALSE, value |-> None, asked |-> 0, first |-> TRUE, waited |-> 0]

NodeInit ==
    /\ setup \in Setups
    /\ wired \in {{}, DOMAIN List}
    /\ entry = [ok |-> {}, wiring |-> "none"]
    /\ dust \in {[works |-> w, ran |-> 0, there |-> TRUE] : w \in BOOLEAN}
    /\ port = <<>> /\ drv = Down
    /\ pulse = NoPulses
    /\ loop = NotReady /\ last = Never
    /\ luck = setup.troubles

\* setup(): a WiFi node waits for its connection before it reads.
Setup ==
    /\ loop.at = "setup"
    /\ Begin(setup)
    /\ loop' = [NotReady EXCEPT !.at = IF setup.radio THEN "send" ELSE "busy"]
    /\ UNCHANGED <<setup, wired, last>>

-----------------------------------------------------------------------------
(* nodeSensorsRead(), nodeSensorsIdle() and the loop.                      *)

Live == drv.up /\ Dust \subseteq entry.ok /\ Dust # {}

\* The dust sensor's part of a read.
ReadDust ==
    LET d   == Drained(drv)
        got == sdsWarm(d)
        e   == IF got THEN Taken(d) ELSE [d EXCEPT !.pending = ~sdsGiveUp(d)]
        due == sensorDue(loop.tick)
    IN  IF ~(Live /\ (due \/ drv.pending)) THEN UNCHANGED <<drv, dust, port, luck, last>>
        ELSE /\ port' = <<>>
             /\ last' = [due |-> due, got |-> got, value |-> IF got THEN d.pm ELSE None, asked |-> d.asked,
                         first |-> last.first /\ ~got,
                         waited |-> IF drv.awake THEN drv.woke ELSE 0]
             /\ IF ~e.pending /\ sdsSleeps /\ e.awake
                THEN drv' = Told(e, FALSE) /\ Hears(FALSE)
                ELSE drv' = e /\ UNCHANGED <<dust, luck>>

\* The pulses' part, which is due at every send.
ReadPulses ==
    pulse' = IF \E i \in entry.ok : i \in DOMAIN List /\ List[i].type = "pulse"
             THEN [pulse EXCEPT !.total = @ + pulse.isr, !.isr = 0] ELSE pulse

RetryCycles == 2      \* SENSOR_RETRY_CYCLES, 10 in the code
Missing == ~setup.radio /\ entry.ok # DOMAIN List

\* The missing sensors are looked for before a read, every cycle while none
\* answers and every few cycles otherwise.
Retry ==
    /\ loop.at = "send" /\ Missing
    /\ IF Ready /\ loop.retry + 1 < RetryCycles
       THEN loop' = [loop EXCEPT !.at = "read", !.retry = @ + 1] /\ UNCHANGED <<entry, pulse, drv, port, dust, luck>>
       ELSE Begin(setup) /\ loop' = [loop EXCEPT !.at = "read", !.retry = 0]
    /\ UNCHANGED <<setup, wired, last>>

Read ==
    /\ loop.at = "read" \/ (loop.at = "send" /\ ~Missing)
    /\ ReadDust /\ ReadPulses
    /\ loop' = [loop EXCEPT !.at = "busy", !.held = 0, !.left = setup.interval, !.tick = (@ + 1) % Every]
    /\ UNCHANGED <<setup, wired, entry>>

\* The post is over.  A send that is overdue follows at once.
Posted ==
    /\ loop.at = "busy"
    /\ loop' = [loop EXCEPT !.at = IF loop.left = 0 THEN "send" ELSE "idle", !.held = 0, !.idled = FALSE]
    /\ UNCHANGED <<setup, wired, entry, dust, port, drv, pulse, last, luck>>

\* Fault: only the next send is looked at.
dueSoonNext == loop.left <= Warmup + Lead /\ sensorDue(loop.tick)

\* Is any send due within the warm-up one that reads the sensor?
dueSoon == \E k \in 0..(Warmup + Lead) :
    loop.left + k * setup.interval <= Warmup + Lead /\ sensorDue(loop.tick + k)

\* The loop goes round until the next send is due.
Idle ==
    /\ loop.at = "idle" /\ ~loop.idled
    /\ LET d      == IF drv.awake THEN Drained(drv) ELSE drv
           wanted == ~sdsSleeps \/ d.pending \/ dueSoon
           asks   == wanted /\ (~d.awake \/ (d.frame > 1 /\ d.cmd > 1))
       IN  IF ~Live THEN UNCHANGED <<drv, port, dust, luck>>
           ELSE /\ port' = IF drv.awake THEN <<>> ELSE port
                /\ CASE asks -> drv' = Told(d, TRUE) /\ Hears(TRUE)
                     [] ~wanted /\ d.awake -> drv' = Told(d, FALSE) /\ Hears(FALSE)
                     [] OTHER -> drv' = d /\ UNCHANGED <<dust, luck>>
    /\ loop' = [loop EXCEPT !.idled = TRUE, !.at = IF loop.left = 0 THEN "send" ELSE @]
    /\ UNCHANGED <<setup, wired, entry, pulse, last>>

-----------------------------------------------------------------------------
(* Time and the world.                                                     *)

\* Five seconds: the fan runs, frames come while there is room for them.
\* The loop goes round many times in them unless something holds it.
TimePasses ==
    /\ \/ loop.at = "idle" /\ loop.idled
       \/ loop.at = "busy" /\ loop.held < setup.block
    /\ LET ran   == Aged(dust.ran)
           sends == dust.works /\ dust.there /\ drv.up /\ Len(port) < Buffer
       IN  /\ dust' = IF dust.works THEN [dust EXCEPT !.ran = ran] ELSE dust
           /\ port' = IF sends THEN Append(port, ran) ELSE port
    /\ drv' = [drv EXCEPT !.woke = Aged(@), !.cmd = Aged(@), !.frame = Aged(@)]
    /\ loop' = [loop EXCEPT !.left = IF @ = 0 THEN 0 ELSE @ - 1, !.held = IF loop.at = "busy" THEN @ + 1 ELSE @,
                            !.idled = FALSE]
    /\ UNCHANGED <<setup, wired, entry, pulse, last, luck>>

\* pulseIsr(), past the debounce.
Edge ==
    /\ \E i \in entry.ok : i \in DOMAIN List /\ List[i].type = "pulse"
    /\ pulse.edges < MaxEdges
    /\ pulse' = [pulse EXCEPT !.edges = @ + 1, !.isr = @ + 1]
    /\ UNCHANGED <<setup, wired, entry, dust, port, drv, loop, last, luck>>

\* A cable comes off or is put in; the dust sensor loses its power with it.
Plug ==
    /\ Trouble("plug") /\ loop.at = "idle"
    /\ \/ wired' \in {{}, DOMAIN List} \ {wired} /\ dust' = dust
       \/ dust' = [there |-> ~dust.there, works |-> ~dust.there, ran |-> 0] /\ wired' = wired
    /\ UNCHANGED <<setup, entry, port, drv, pulse, loop, last>>

\* The node starts again; the dust sensor stays as it is.
Reboot ==
    /\ Trouble("reboot")
    /\ entry' = [ok |-> {}, wiring |-> "none"]
    /\ port' = <<>> /\ drv' = Down /\ pulse' = NoPulses
    /\ loop' = NotReady /\ last' = Never
    /\ UNCHANGED <<setup, wired, dust>>

\* The configurations a radio node may be given as it runs: what holds its loop
\* up, and what goes wrong around it, is not theirs to change.
MayBecome(new) ==
    setup.radio /\ new.radio /\ new.block = setup.block /\ new.troubles = setup.troubles

\* A radio node applies the collector's configuration as it runs.
Reconfigure ==
    /\ loop.at = "busy"
    /\ \E new \in {n \in Setups \ {setup} : MayBecome(n)}, tick \in {0, 1} :
          LET past == setup.interval - loop.left IN
          /\ setup' = new
          /\ Begin(new)
          /\ loop' = [loop EXCEPT !.left = IF new.interval > past THEN new.interval - past ELSE 0, !.tick = tick]
    /\ last' = Never
    /\ UNCHANGED wired

NodeNext ==
    Setup \/ Retry \/ Read \/ Posted \/ Idle \/ TimePasses \/ Edge \/ Plug \/ Reboot \/ Reconfigure

-----------------------------------------------------------------------------
(* Properties.                                                             *)

\* The sensor did what it was told.
Obeyed == luck.miss = setup.troubles.miss /\ luck.plug = setup.troubles.plug

\* Nothing holds the loop longer than the port's buffer lasts or until the next
\* send, under this configuration and any it may be given.
Calm ==
    /\ setup.block <= Buffer /\ setup.block < setup.interval
    /\ \A n \in Setups : MayBecome(n) => setup.block < n.interval

\* A dust value that is sent was measured when the fan had run the warm-up that
\* was configured when it came to its end, through sleeps, retries, restarts and
\* changes of the configuration.
DustIsWarm == last.got /\ Obeyed /\ Calm => last.value >= last.asked

\* The same of a loop that is held up, as the driver's comment has it: a frame
\* read late is taken for one that has just come.
DustAlwaysWarm == last.got /\ Obeyed => last.value >= last.asked

\* When nothing goes wrong a sensor that sleeps has warmed up by the time it
\* is read: after the first value no due read comes back empty.
ReadOnTime ==
    last.due /\ ~last.first /\ setup.block <= Lead /\ Obeyed => last.got

\* A due read is given up only after its whole wait, as the comment of
\* sdsGiveUp() has it: but the wait is counted from the last wake-up, however
\* long the sensor has been asleep again.
GivenUpLate == last.due /\ ~last.got /\ ~drv.pending => last.waited > Warmup + Lead + Excess

\* Every pulse is in the total or waits to be, once, whatever is retried or
\* changed around the counter.
PulsesOnce == pulse.edges = pulse.isr + pulse.total
=============================================================================
