# Specifications of the ESP32 logger

TLA+ models of the parts of this firmware whose correctness lies in the order
of events: readings that travel from battery nodes to the collector and on into
files and servers, configurations that two sides edit, firmware that is
replaced while the power may go, and tasks that meet in between. Each model is
translated from the source; paths below are relative to `src/` (the collector's
firmware is `src/src`, the two node firmwares are `src/node` and
`src/node_espnow`).

## 1. The system

A *collector* (ESP32, `src/ESP_Logger.ino` and `src/src/`) reads local sensors,
takes readings from *nodes*, stores, shows and exports them. A *WiFi node*
(ESP8266, `src/node/`) posts batches over HTTP; an *ESP-NOW node*
(`src/node_espnow/`) sends radio frames and sleeps. A browser edits the
configuration of all of them, a *Kindle* shows a page, and a tool on a PC
deploys firmware and pages.

| Part | State | Operations | Interacts with | Hard because | Correct when |
|---|---|---|---|---|---|
| Remote ingest table (`sensors/RemoteIngest`) | mailbox slots per (node, metric), one shared history queue | put, putHistorical, drain | ingest handler, ESP-NOW, sensor task; a spinlock per call | several writers between two calls of one batch | nothing shed that was promised room; order kept |
| HTTP ingest (`web/IngestHandler`) | a batch in progress | two passes, the count in the answer | node, table, configuration store | partial consumption, no clock yet, abandoned requests | what is counted as consumed was stored or given up for a stated reason |
| WiFi node, readings (`node/src/main.cpp`, `Backlog.h`) | ring of readings in RAM | sample, post, drop what the answer covers, restart | ingest | lost answers, time-outs, restarts | forgets only what arrived; the backlog drains |
| WiFi node, configuration (`NodeSync.h`, `NodeStore`, `ConfigPortal`) | config, backup, trial and report on flash | take, try, keep, roll back, portal save | ingest answers | power cuts between writes, untested networks | never on a network with no way back |
| Node configurations (`nodes/NodeCfgRules`, `NodeCfgStore`, `nodecfg/`) | desired document in a file, revision and status in RAM, secrets | web edit, report, refusal, handover | ingest, radio callback, pages | revisions wrap; reports get lost; mutex time-outs | a revision names one configuration; both sides converge; no secret is lost or shown |
| ESP-NOW receiver and node (`espnow/`, `node_espnow/`) | node table, receive ring, peers; backlog, sequence number, slot | pair, report, ACK, rescan, save the table, add, forget | table, configuration, firmware windows; callback, tick and web handlers | lost and repeated frames and ACKs, restarts of either side, wraps | a reading leaves the backlog when it landed, and lands once |
| Firmware of nodes (`nodes/NodeFw*`, `FwFetch`, `FwTrial`, `FwOffer`) | image and targets on the card, status per node, slots and trial | offer, slices, switch, trial, report | radio, POST answers, pages | cuts and losses anywhere | done means it runs; a bad image is left; every node gets a verdict |
| Collector firmware and boot (`OtaManager`, `ESP_Logger.ino`) | image states, RTC memory, run log | boot, trial of 90 s, rollback, sleep, restart | everything | resets of every kind | a bad update is undone; drawn water is logged |
| Pipeline (`pipeline/`, `tasks/`) | queues of 20, 32, 32; task handles | forward, aggregate, drop, start, shut down | all tasks | full queues, shutdown order, forced deletion | every good reading is counted once or counted lost |
| Datalog (`storage/`, `StorageTask`) | columns, window, batch, files | append, rotate, trim, flush, change columns | storage task, web task | flush handshake, lock time-outs, failing writes | rows match their header; a flush covers what was asked |
| Trends, alerts (`TrendRing`, `AlertEngine`) | 24 rings of hours; rules with firing state | add, save, restore; evaluate, reload | processing task, web | late and future readings, try-locks | an hour holds its own readings; a rule fires after its duration |
| Export manager (`export/`) | latest-value table, schedule, spool file and offset | ingest, tick, send, spool, drain | servers, file system, reset | two places for one reading, an offset outside its file | nothing falls between; spools drain |
| Heater (`modules/HeaterModule`) | pin, latch, LEDC channel | tick, stop, start, load, shutdown | control task, web task, `loop()` | no lock around the control step | off when latched, disabled, blind or gone |
| Settings files (`ConfigManager`, `ModuleRegistry`, `AtomicWrite`) | structure in RAM, two files, temporaries | save, load, import, reset | web handlers, `loop()` | power cuts, failing writes, FAT renames | what was answered "saved" is what boots |
| Web uploads (`WebServer`) | file or image per request, shared lock and result | chunks, end, disconnect | file system, OTA partition | requests interleave per chunk, pieces are dropped | a file or an image that was answered "ok" is stored |
| Sensors (`SensorManager`, `I2CBus`) | platform's sensors, claims, health | boot, poll, read now, reload | two tasks, web | mutexes of two tasks, claims | health counts what happened; a reload applies |
| Node sensors (`node_common/NodeSensors`) | warm-ups, pulses | tick, wake, read, apply | node loop | blocking posts, missed commands | dust is measured warm |
| Kindle (`web/Kindle*`, `kindle/update_dash.sh`, `ForecastModule`) | layout, places, package, days | draw, save, upload, pull, fetch | web, export task, reader | midnight, cuts, many readers | no overlap; the day named is the day shown; no reader runs what nobody offered |
| Upload tool (`tools/deploy_core.py`) | selected steps, child programs, stop flag | run, stop, ask | device over HTTP and serial | STOP between any two steps | a stop ends the run |
| Exporters, heap budget, logs, rate limits, pages, build tools | | | | | not modelled, section 7 |

`PROJECT.json` lists these parts with their files and state of modelling, and
under `hazards` each place where this code can go wrong in a way that is hard
to test, with the properties that watch it.

## 2. Modules

| Module | Models | Composed of |
|---|---|---|
| `RemoteIngest` | the table and queue; one operator per critical section under `_mux` | |
| `StoreForward` | nodes' rings, the requests, the handler's walk, ESP-NOW's competing writes, the sensor task | extends `RemoteIngest`, implements `Custody` |
| `Custody` | abstract: a reading is held, stored, or openly given up | |
| `NodeCfgRules` | revision arithmetic on the circle, status rules | |
| `NodeCfgStore` | the collector's entry (RAM) and file (flash) for one node | extends `NodeCfgRules` |
| `NodeSync` | the node: configuration, backup, trial, report; power cuts as prefixes of a handler's flash writes | extends `NodeCfgRules` |
| `ConfigSync` | the two with requests and answers between them | extends `NodeSync`, instantiates `NodeCfgStore` |
| `NodeDocs` | a configuration as a document: what is read over what, what is refused, which secrets travel | extends `NodeCfgRules` |
| `EspNowLink` | a node's wakes and backlog, frames and ACKs in the air, the receive ring, the tick, the node table, its file, pairing and the handlers that add and forget | |
| `EspNowConfig` | callback, tick and web handlers over the store, the node's exchange, the handover | extends `NodeCfgRules` |
| `EspNowReadings` | the pool's bytes, the frames, the dates of readings, the battery's days | |
| `NodeFwStore`, `NodeFwRadio` | the collector's half, and the ESP-NOW node | the second extends the first |
| `NodeFirmware` | the WiFi node, and a rollout end to end | extends `NodeFwRadio` |
| `Datalog` | columns, header, writer | |
| `StorageTask` | window, batch, flush handshake, settings saved meanwhile | extends `Datalog` |
| `Pipeline` | the tasks before it, start and shutdown | extends `StorageTask` |
| `BootLoop`, `Settings`, `WebUploads`, `Readings`, `Sensors`, `KindlePkg`, `NodeSensors` | the collector between resets; its settings files; bodies in pieces; trends and alerts; its sensors; the package of its e-ink readers; the sensors of a node | composed by `MCCollector`, with `NodeDocs` and `EspNowReadings` |
| `ExportManager` | the table, the walk, the send, the spool, the reset | |
| `Heater` | control task, web task and shutdown, step by step | extended by `MCAround` |
| `Deploy`, `KindlePage`, `KindleSettings`, `Forecast` | what their names say | composed by `MCAround` |
| `MC*` | small instances for TLC | |
| `*Proofs` | theorems, section 5; `CollectorProofs` extends `MCCollector` | |

`MCCollector` and `MCAround` put parts side by side that share no state: the
initial state picks one part, and the others stand still. This is as good as a
run per part, and each part keeps a module of its own.

### How state and actions correspond to the code

**StoreForward.** `ring[n]` is `s_backlog`; `node[n]` is where `loop()` stands
(`Wake`, `Post`, `ReadReply`, `Timeout` are `collectReading()`,
`flushBacklog()`/`postBatch()` and its outcomes). `request` and `reply` are the
network, `job` is the local state of `handleIngestPayload()`: the live pass,
then the prefix walk, one reading per step, so that `EspNow` (`landReading()`
in `loop()`) and `SensorTick` interleave. A node may give up while its batch is
still being walked. `pairs`, `box` and `hist` are `_e[]` and `_h[]` of
RemoteIngest. `taken`, `current`, `recorded`, `lost`, `unread` are history.

**ConfigSync.** `node` is the node's RAM, `flash` its files; a handler is one
step, and a power cut in it leaves a prefix of its writes (`MaxCuts` per run).
`entry` and `file` are the collector's; every store operation may find the
mutex busy and then leaves no trace. Requests and answers carry exactly the
fields the properties tell apart: applied revision, report, refusal, desired
configuration. Settings are records of a network, what needs a restart and what
does not.

**EspNowLink.** `node[n]` is what a wake keeps in RTC memory and where it
stands; `table` is `s_nodes[]`, slot by slot, `ring` the frames the receive
callback parked for the tick, `air` what is under way. The callback (`Receive`)
acknowledges a frame when it is in the ring; the tick (`TickFrame`) asks the
replay guard, later. A save of the table is two steps, and so are adding and
forgetting a node, because the radio's peers are changed after the table. One
reading per node is followed (`"t"`); all others are `"o"`.

**EspNowConfig.** The callback answers from copies, the tick renews them and
stores what the callback parked, the handlers edit the store; a frame is lost
or late, and the node makes one exchange per wake, slice by slice.

**NodeFirmware.** The store's three files are written one after the other; the
radio's two windows are filled by the tick and read by the callback; the node
writes slices into the slot it does not run from, switches, and counts the
wakes of its trial. The WiFi node has no second slot.

**Pipeline.** A pass of the storage task is cut wherever another task can come
between: settings, queue, revision with window, header, row, write, mirror, the
answer to a flush. `TaskManager::init()` and `shutdown()` are steps of their
own, with the time-out after which a task is deleted by force. Readings are good
or bad (`QUALITY_ERROR`, or no number): a bad one passes `ProcessingTask` and
the queue, and `LiveAggregator::feed()` drops it without a count (`Feeds`).

**BootLoop, Settings, WebUploads, Readings, Sensors.** The memory of the
collector is flash, RTC memory and RAM; a reset of each kind keeps what it
keeps. Saving settings is two files, each written to a temporary file and
renamed; on FAT the target is removed first. Callbacks of several uploads come
in any order, and a piece of an import may be dropped with no flag (`Collect`). Readings come late, from the future, and while a rule is locked.
A sensor's health is 24 buckets of hours that are cleared when the clock passes
them.

**Heater.** Each task has a program counter; a step is what happens between two
points where another task can matter: the lock, the read of `_reconfigure`, the
decision and the LEDC write. `ledc`, `on` and `driven` are the hardware.
`pinMode()` may or may not release the LEDC channel, as the two Arduino cores
differ. The 2 s rate limit is `TooSoon` or `Due`.

**ExportManager.** `latest`, `seq`, `sentSeq`, `due` are the table and schedule
(`_nextDueMs` is reduced to whether it has passed), `spool` and `spoolOff` the
file and the offset in RAM and RTC memory, which always agree while the program
runs. `task` is where `tick()` stands. Every blocking call ends a step: the
send (`live`, `replay`), the append (`spool`), the read (`drain`), and then the
offset (`mark`), the removal (`trim`) and the offset again (`reset`), so that a
reset can fall between any two. The history follows one reading and one
exporter, chosen at the start and never constrained, which is as good as
following all and much smaller.

**NodeDocs, NodeSensors.** A document is the record of fields, sensors and
secrets that it holds; a configuration that a node starts with is the one its
firmware seeds, or an older file moved onto it. An exchange is one step,
answered or not. The dust sensor is its fan (`dust`), its port with frames
waiting, and what the driver believes of it (`drv`); the sensor may miss a
command, and `pulse` is the counter of an interrupt.

**Around.** `Deploy` has the worker, the STOP button, the thread that cancels
and the program a step started as separate actors. `KindlePage` is arithmetic:
the layout functions of `KindleFlow.h`, over every set of places of a list.
`Forecast` keeps time in steps of three hours over several days.

## 3. Runs

| Run | Question | Bounds |
|---|---|---|
| `store_forward_race` | Does the room read once per batch hold up against a second writer, and does anything vanish? `OvershootBounded`, `NothingVanishes` | a WiFi node with a remote sensor and an ESP-NOW node without one, two metrics for two slots, queue 2, ring 2, two frames; answers may be unreadable |
| `store_forward_drain` | Does a backlog longer than the queue get through, in order, across restarts of either side? `NoOvertaking`, `KeepsPromise` (refinement of `Custody`), `BacklogDrains` | ring 3, queue 2, batches of 2, one restart, trimmed batches |
| `config` | Do edits on both sides, losses, cuts and accidents keep revisions meaningful, and do both sides end together? `OneConfigPerRev`, `WayBack`, `MCConverges` | three instances; up to two web edits, two page edits, three losses, a busy store, an accident, a power cut |
| `espnow_link` | Where may a reading sent by radio be lost or stored twice, and does a node always find back? `ReadingInCustody`, `StoredOnce`, `Drains` | twelve scenarios of one or two nodes, two ids, six sequence numbers, ring 2, backlog 2 |
| `espnow_config` | Callback, tick and handlers over one store: do both sides end with one configuration, and does a handover end? `Agree`, `HandoverEnds` | fifteen scenarios, documents of two slices |
| `node_fw` | Does "done" mean the image ran, and is no node left on a bad one? `DoneMeansRan`, `ComesBack` | twenty-three rollouts, images of three slices, windows of two, good, deaf, crashing, corrupt and too large images |
| `pipeline_log` | Is every good reading in the log, under the header it was combined by, or counted lost? `RowsMatchHeader`, `FlushCovers`, `ReadingAccounted` | eight scenarios of two or three readings, queues of one, batches and files of two rows, one or two troubles of a kind |
| `collector` | Boot, settings, uploads, trends and alerts, sensors, package, documents and dust sensor of a node, readings of a radio node: does what was answered, logged or typed survive, and is what is shown what was measured? `RowsKept`, `BadUpdateUndone`, `AnsweredSurvives`, `OkMeansStored`, `HoursExact`, `HeldItsDuration`, `HealthExact`, `NeverUnasked`, `EveryReaderSettles`, `SecretsKept`, `RunsWhatWasSaid`, `DustIsWarm`, `StampedAsTaken`, `EstimateExact` | nine parts; a device of each mode with one trouble or two of a kind, three edits, three clients, days of a few hours with one mishap (a restart, an edit, a failing write, a lock that is taken, a clock set back; several together are left to the theorems), two uploads of four packages, one reader and a power cut, two forms saved over nodes of either link, seven wirings of a node, radio nodes with and without a clock, pools of 70 bytes and frames of 60, ages up to 7, four days of a battery |
| `around` | Deploy tool, Kindle, forecast, heater: does a stop end a run, is what is shown what was fetched and chosen, is the output off while latched, and does a dead probe cool? `StopEnds`, `BlocksApart`, `StripTellsItsDay`, `LayoutSurvives`, `OffWhileLatched`, `DeadProbeCools` | five parts, each by itself; the heater with two pins, one rejected by the profile, three temperatures around the limits, and an attach that may fail |
| `export_spool` | Does anything fall between table, batch and spool, and do spools drain? `NothingForgotten`, `Delivers` | two exporters, two keys for one slot, a spool for one record, every answer and file system failure, one reset of any kind |
| `pipeline_errors` | *violated*: `ErrorsLogged` | the instance of `pipeline_log` |
| `platform_reload` | *violated*: `PlatformApplied` | the sensors' part of `collector` |

**Why the bounds suffice.** Queues of one or two and rings of two or three are
filled, overflow and drain; batches are smaller and larger than the room; two
slots with two metrics of two nodes make a pair that finds no slot. The
revision circle has 16 values and starts two before its wrap; half of it is
farther than the edits of a run can move. A trial is rolled back after 2 failed
cycles (5 in the code) and discovery starts after 1 (3 in the code): their
order, which matters, is kept. `PostsPerCycle` is 1 (4 in the code) and
`FlushPosts` 0 or 1 (8): section 6 says what more of them do. Six sequence
numbers wrap within the wakes of a scenario, and a silence of three crosses
half of them. A firmware image of three slices and a window of two need two
fills of the window. The heater has a temperature below, between and at the
limits. For the exporters, `MaxRetries` is 1 (3 in the code), a run of 2
unanswered sends and 2 failed reads (3 and 3 in the code); a spool with room
for one record fills up at once, and its file still grows past it, as the guard
looks before it appends. Troubles come one or two of a kind and scenario by
scenario, so that their spaces add up instead of multiplying; what two
different troubles do together is covered where the code's paths for them meet.

**Deadlock** is not an error in the runs with `CHECK_DEADLOCK FALSE`: the
bounds on time, edits or events are used up, or the device sleeps.

**Stated, and held when checked, but in no regular run**, to keep the runs
short: `QueuesBounded`, `RoomPromised`, `DatedWhenTaken`, `CurrentShown`,
`MailboxRecent` (StoreForward); `LocalWins` (ConfigSync); `GuardCostsOne`,
`CopyRefused`, `OneSlotPerRadio`, `TableSaved` (EspNowLink);
`OneConfigPerRadioRev`, `EditsWin` (EspNowConfig); `ReadyHoldsNext`,
`SlicesOfOne`, `RefusedOnce`, `FailedMeansTried`, `NotAgain`, `Verdicts`,
`WayBack` (node firmware); `KeptOnce`, `OwedKept`, `NoReplay`, `SpoolBounded`
(ExportManager); `RejectedUntouched`, `OnlyAttachedOn`, `OffWhenGone`,
`DisabledCools` (Heater); `CountsIts`, `StartsWhole`, `RetentionKept`,
`ShutdownEnds`, `FlushAnswered` (Pipeline); `PartitionFreed` (WebUploads);
`ClaimsAreOwned` (Sensors); `IndexNamesWhole`, `NewPagesNewFirmware`,
`SuccessIsDone` (Deploy); `OthersKept` (NodeDocs); `ReadOnTime`, `PulsesOnce`
(NodeSensors); `StandsStill` (KindlePage); `FailedKeepsOld` (KindlePkg);
`FilledIsValid` (EspNowReadings); `LinesTracked`, `SavesUnchanged`
(KindleSettings); and each module's type invariant. Those that are proved are
named in section 5.

## 4. Fairness

- *StoreForward*: the node's loop, the async handler, the sensor task and the
  arrival of the clock go on (weak): they are tasks that never wait for each
  other without a time-out. The network is strongly fair: a request offered
  again and again is begun at some time, and of the answers that took
  something not every one is lost; what loses a packet does not look at it.
  `BacklogDrains` also assumes that from some point on requests are neither
  refused nor given up before they are answered.
- *ConfigSync*: both sides keep running (weak); a cycle begins again and again
  and may fail, but not for ever, where the collector can be reached (strong).
  Losses are bounded.
- *EspNowLink, EspNowConfig, node firmware*: a node wakes by its timer, waits
  with a time-out, and the collector's tick and handlers go on (weak). The
  tick keeps up with the ring, as `loop()` runs it every few milliseconds and
  a node sends once a minute. `Drains` also needs that somebody opens the
  pairing window when a node lost its slot: nothing else lets it back in.
  Losses and other troubles are bounded by the scenario.
- *Heater*: the control task ticks, and the web task ends what it began (weak).
- *ExportManager*: the export task goes on and intervals pass (weak). `Delivers`
  assumes that the trouble ends: no failure is fair or unfair, it just stops.
- *Pipeline*: every task that is not stuck is scheduled (weak).
- *BootLoop*: the device boots, `setup()` ends, uptime grows; an image with a
  fault meets it (weak).
- *Deploy, KindlePkg*: worker, child programs and the cancelling thread go on;
  one reader keeps asking (weak).

## 5. What is proved

TLAPS checks every theorem of the modules named `*Proofs` from the definitions
alone; `PROJECT.json` lists the results, and the lemmas they rest on are named
in the modules. Assumed are only the constants' own `ASSUME`s, each justified
where it stands, and the hypotheses named below. A run checks the same formula
on a small instance.

**StoreForward** (`StoreForwardProofs`), in two parts. *The room.* What the
handler counts down is room it read before other writers came. `OvershootBounded`
is not inductive by itself: `RoomPromised` has to say, all along the walk, that
the room still promised is there but for what ESP-NOW took since. With
`SlotsClaimed` (slots are claimed from the front) and `TakenInPast` this is
`Inv`. *Custody.* `CustodyInv` follows a batch: what the collector has, had and
gave up only grows; a waiting node keeps its ring; its batch is in one place at
a time (request, walk or answer); so each answer speaks of the front of the
very ring it will be applied to. From it follow `NothingVanishes`,
`NoOvertaking`, and `KeepsPromise`: initial states map to initial states of
`Custody`, and each action to a store, a give-up or a stutter.

**Revisions** (`NodeCfgRules`). The arithmetic both sides use on the
circle of revisions: the next revision is past those it was made from, and an
edit is news to a node that holds an older one, while the revisions are less
than half a circle apart, which is what the code's comparison relies on.

**EspNowLink** (`EspNowLinkProofs`). `LinkInv` says for each node: an ACK in
the air is of the frame it looks like (`AcksOK`); the followed reading is in
one place of the node (`OneReading`) and, once the collector has it, only where
the frame under way carries it from (`LeftBehind`); if it waits in two frames
they are a frame and its copy, side by side, and a landed one leaves only a
copy that the replay guard knows (`Twin`). `ReadingInCustody` and `StoredOnce`
follow. The proof found a case the property had missed: section 6.

**ExportManager** (`ExportProofs`). `IInv` says that an offset is inside its
file unless it outlived another one (`OffsetsInFile`), that what is being sent
live is still in the table above the number a 429 goes back to (`LiveBatch`),
that what is replayed is the spool from the offset on (`ReplayBatch`), and that
the offset moves, and the file goes, only after an outcome (`Closing`).
`NothingForgotten` follows for any exporters, keys and room, with resets
between any two file operations.

**Heater** (`HeaterProofs`). The output is off while latched and when the task
is gone, only an attached pin is driven, a rejected one never. The invariant
needs who has the lock and the PWM in the middle of a reconfiguration
(`Owners`, `PinsOwned`), and that no write is on its way while the latch is set
(`Quiet`): without it `OffWhileLatched` holds and is not inductive.

**The collector's parts** (`CollectorProofs`), each over its own module and
then for `MCCollector!Spec`, in which the part that was picked moves alone
(`PartsMoveAlone`). *Settings*, without a hypothesis: a file about to replace
another already holds every answered edit and every edit whose saver has passed
it, because who writes holds the lock and RAM has all of them; so
`AnsweredSurvives`, whichever files a cut leaves. *Uploads*, for any number of
pieces: every request is sound with respect to the partition and at most one
holds it (`UploadInv`); so `OkMeansStored`, for files and images. Nothing of the
kind holds for an import (`ImportStored`, section 6). *Trends*, for hours and rings that
are not empty: each slot of the ring, and of the snapshot a restart takes it
from, is the set of readings folded into its hour (`RingExact`); so
`HoursExact`. *Rules*: the times of a run of met conditions begin where the
rule says they do (`Since`); so `HeldItsDuration`. *Package*, for packages that
are not empty: what is on offer, in RAM and in the file a restart reads, was
asked for, and a reader that tries a package tries one that was; so
`NeverUnasked`. *Run log*, for batches that are not empty: a flush takes from
the front of the buffer what it wrote and nothing else, whoever flushes, and
what a reset takes from RAM has its excuse (`BootInv`); so `RowsKept`.
*Documents*, without a hypothesis but what a configuration is: a change the
collector would send is still wanted unless the node was edited on its own page
since, and then its report comes first and the change is given up
(`ChangesWanted`); what else it sends leaves a secret as it is
(`OnlyChangesTravel`); so `SecretsKept`, through stale pages, lost answers and
nodes forgotten. *Health*, for rings and hours that are not empty: each slot of
the ring counts the reads of the hour it stands for, for every hour of the last
turn, silences of any length included (`HoursOf`, with the arithmetic of slots
that `Slot` stands for); so `HealthExact`. *Dust*, for any intervals, warm-ups
and wirings, where the sensor obeyed its commands (`Obeyed`) and a send holds
the loop no longer than the port buffers (`Calm`): what the driver knows of the fan lags behind it in one way only
(`Knows`: it has run at least since the wake-up that was heard, and the newest
frame is of now), and a frame waits no longer than the loop was held, so that
the read that takes it finds it in time (`InTime`); so `DustIsWarm`. *Radio
readings*, for any pool, frame, oldest age and wakes: what the pool dates it
dates with the time it was taken, nothing in it is later than now, and a node
that had the time from the start dates everything, in order, through every loss
and push that drops the oldest (`PoolInv`); an age that is taken from such a date
and subtracted again gives the date back or, cut to its 16 bits, a later one
(`DateIs`, `DatesInOrder`); so `StampedAsTaken`.

**NodeFirmware** (`NodeFwProofs`), for either link. A target becomes done when a
node says it runs the image there is, so `FwInv` says what such words are worth:
a node that is on has run what its slot holds, though downloads and uploads
write the other slot all the time (`Runs`, over `Kin`: each step of a node leaves
the slot it runs from as it was); a report that waits for the tick names an
image that has run (`Reports`); and whom the card has as done has run the image
the card describes (`Described`), which is what a restart believes.
`DoneMeansRan` follows.

**Pipeline** (`PipelineProofs`), for any lists, settings, depths, batch sizes
and limits. `Base` types the state and says what the task may hold at each of
its steps. `FlushCovers` needs the order of things: what the task holds or owes
was measured before anything still queued, and each queue ascends (`Ordered`);
so nothing a waiter is owed can arrive after its flag was taken. For
`RowsMatchHeader` a row first agrees with the list of its own revision, then
with the header it goes under, and with those of its batch (`RowFits`,
`BatchFits`); every file, current or past, begins with its only header
(`FilesFit`), whichever way a write, a rename or a trim ended. For
`ReadingAccounted`, which is about good readings, what is written once more to the mirror must already be in
the log or counted (`Copied`): without it a mirrored flush would lose sight of
the rows whose first write failed.

**Only model-checked.** All liveness (`BacklogDrains`, `MCConverges`, `Drains`,
`Agree`, `HandoverEnds`, `Delivers`, `DeadProbeCools`, `ComesBack`,
`BadUpdateUndone`, `StopEnds`, `EveryReaderSettles`): fairness and ENABLED are
out of the prover's reach. `OneConfigPerRev` and `WayBack` hold within bounds
that are not the code's (edits against the circle, one batch per cycle, no
failing flash; section 6), so there is no theorem to prove. Results computed by
recursion over data (`LayoutSurvives`, `EstimateExact`, `BlocksApart`,
`StripTellsItsDay`) are checked over their inputs. Not proved
either: `RunsWhatWasSaid` (a document is the fold of all documents before it, and that
two of one revision are equal rests on the bounds of `OneConfigPerRev`).

## 6. Findings

Two runs are violated, and show a disagreement of the code with its own words;
`PROJECT.json` quotes both.

`platform_reload`: `POST /api/config/platform` takes
`configMutex` and calls `reloadConfig()`, which waits for the same plain mutex
(`sensors/SensorManager.cpp:445`), so no reload ever happens, although
docs/ARCHITECTURE.md:860 promises one.

`pipeline_errors`: a reading of quality error is forwarded "always, even errors"
(`tasks/ProcessingTask.cpp:139`, also :86, "still log errors to storage"), but
`LiveAggregator::feed()` (`pipeline/LiveAggregator.cpp:15-16`) and
`FlowRunLogger::feed()` return at once for it: it is in no row, and no counter
has it. `ErrorsLogged` says what the comments say; `ReadingAccounted`, which
holds, says it of the good readings only.

The following were found with TLC, too, each as a violated property that is
still stated in its module; they make no regular run.

*Readings by HTTP.* A 200 whose body cannot be read releases the whole batch,
also when the collector took none of it (`ForgetsOnlyReceived`,
node/src/main.cpp:650 against Backlog.h:79).
The comment "this cannot shed anything" (web/IngestHandler.cpp:328) holds only
without ESP-NOW frames in between; `OvershootBounded` is what does hold.

*Configuration of WiFi nodes.* A second configuration taken before the restart
makes the trial of the first void, and the node boots on an untested network
and stays (`WayBack` with two batches per cycle, node/src/main.cpp:386, 392).
A power cut between the roll back and the note of the refusal leaves the node
behind with the status *applied* and nobody to start again (`Converges`,
nodes/NodeCfgRules.h:93 against :222-223). A refusal reported while the store
is busy is never shown to anyone (nodes/NodeCfgStore.cpp:361). The portal saves
during a trial without touching the trial (node/src/ConfigPortal.cpp:208
against NodeStore.h:46-48).

*Documents.* A passphrase equal to the collector's stale copy is accepted and
never sent; when saving fails while a configuration is adopted, the old desired
document keeps its dirty mark and an old secret is pushed later; a trial rolled
back after a lost answer loses a typed secret; a stale form on the node's page
reverts a push; the collector's page cannot clear a secret; a migrated
configuration and an adopted one are not validated; queued readings named by
the configuration may be reported under a later one (docs/NODE_CONFIG.md:448).

*Radio link.* An acknowledged frame is dropped by the replay guard after half a
circle of unheard reports (`AckMeansLanded`, espnow/EspNowIngest.cpp:897
against :700), and after two cold starts. An id handed out again while its
first radio missed its WELCOME is used by both (`OwnName`); adding over a taken
id keeps the old address (web/ApiHandlers.cpp:679-681). `saveNodes()` clears
its dirty mark after a change that came meanwhile; a busy file system at boot
empties the table and a later save overwrites the file. A reading sent off as
lost (node_espnow/src/main.cpp:659) may still land and is then stored twice.
A frame the radio doubled is stored twice when its node is forgotten and its
address typed in again between the copies: the proof of `StoredOnce` failed at
this step, and the property now names it.

*Configuration by radio.* A node can hold the revision of an edit it never saw
(`NeverHoldsUnseen`, nodes/NodeCfgStore.cpp:516-517 against
docs/NODE_CONFIG.md:22). A full ring, or two lost CFG_ACKs, with a busy store
leave "pending" for ever; a failed write leaves the old document under a new
revision in RAM; a forgotten and re-paired node keeps `refusedRev`; a node
adopted during a handover is not told (docs/NODE_CONFIG.md:608).

*Firmware of nodes.* A node can be shown as sending for ever
(`NeverSendingForEver`, nodes/NodeFwStore.cpp:313 against FwOffer.h:21-23). A
broken-off upload overwrites blocks while the old progress is kept, which ends
in BAD_IMAGE and, during a trial, in the loss of the way back (FwFetch.h:64).
A cut between the switch of the boot partition and the note of the trial starts
an image without one. A restarted collector answers "nothing" once, and a
partial download is forgotten.

*Collector.* The circuit breaker never fires (`BreakerFires`,
ESP_Logger.ino:616 against docs/INSTRUCTIONS.md:274-276): RTC memory is loaded
anew by every reset but a wake. A form refused half-way is saved with the next
save (`RefusedNotPersisted`, web/WebServer.cpp:817 against :793-795); the
platform file can be replaced by a document the answer called bad
(`PlatformKept`, web/WebServer.cpp:2958); the modules' file wins over
config.bin after a cut (`BinIsAuthoritative`), also with an old network and a
new password (`PasswordOfItsNetwork`). A daily file can hold two days
(`OneDayPerFile`, storage/Datalog.cpp:410 against Datalog.h:92-93). `shutdown()`
clears `running` before the drain, and what is queued is lost uncounted
(`QueueDrained`). The heater is stopped before the tasks are told to end, and a
pending reconfiguration starts it again (`OffWhileAsleep`,
tasks/TaskManager.cpp:360); enabling it through its form does not attach its
pin (`HeatsWhenCold`, modules/HeaterModule.cpp:49); a refused `load()` has set
`_enabled` already (:42).

*Around.* STOP can be lost while a program is being started (`StopRemembered`);
new pages can land on an old firmware after a rolled back update
(`PagesFollowFirmware`, tools/deploy_core.py:1799 against :108-111). A dust
sensor that missed its wake command is read cold (`DustAlwaysWarm`,
node_common/NodeSensors.cpp:1071), and may be given up late (`GivenUpLate`). The
browser's wall page draws blocks over each other (`BlocksApart` with the page
"wall", web/KindleFlow.h:1402). An Open-Meteo answer over midnight is a day out
(`StripNeverADayOut`); two fetches can be less than a minute apart
(`MinuteApart`, modules/ForecastModule.h:155-158).

Observations by reading, of the same kind:

- The spool's drain counts an unanswered batch as sent every time
  (`export/ExportManager.cpp:558`); only live sends count the run after which
  Throttle.h:49-51 wants batches kept "so a long hang loses nothing". The model
  marks such readings `unheard`.
- The exporters' circuit breaker (`export/ExportManager.cpp:601`) ends the walk,
  and the next walk starts at the first exporter again: a later one is never
  reached while earlier ones fail for more than 30 s together.
- `_sentByAll()` (`export/ExportManager.cpp:199`) includes exporters with nothing
  pending, whose `_sentSeq` does not move; this changes a line in the log only.
- An offset survives its file when the file system is formatted from the web
  (`web/WebServer.cpp:1353`), or a panic falls between `remove()` and
  `_setSpoolOff(idx, 0)` (`export/ExportManager.cpp:570`); the check at 515
  looks at the size only. `orphan` marks this, and `NothingForgotten` counts
  the records skipped as given up.
- The online legacy mode keeps stale pulses; a bad image that stays 90 s in safe
  mode is confirmed, and a good one is rolled back by a sleep or restart within
  90 s. Overlapping flushes of the legacy log write rows twice and drop a new
  one; `/api/datalog/create` truncates.
- `saveConfig()`'s result is looked at by one handler only. `/format` or
  `/factory_reset` followed by a save within 2 s writes the old settings back;
  `/save_platform` may answer 429 after replacing the file; an aborted upload leaves a truncated file, and a second
  upload of an image within 2 s destroys a completed one.
- An import is answered "OK" whatever is missing of it (`ImportStored`): a piece
  that would go over 8192 bytes is dropped without a flag while later, smaller
  ones are still appended, a failed `concat()` is not noticed
  (`web/WebServer.cpp:2446-2447`), and `saveConfig()`'s result is not looked at
  (:2390). Only what is left of the document has to parse.
- Alerts: `nowTs − condFirstMetTs` is unsigned, so a reading earlier than the
  first fires a rule with a duration at once; a reading that finds the rules
  locked does not end a run; saving rules resets the firing ones.
- Sensors: two pulse sensors on one pin share the second's interrupt; a failed
  first claim of a bus keeps its pins; "read now" may read without a lock.
- Kindle settings: a busy file system or no memory at boot draws the default
  layout, and a later save overwrites the user's. Package: a cut between the
  two renames loses it although the old one is there; more than four readers
  push each other out of the table.
- Battery: a backlog that spans wakes moves the history to today before older
  days arrive (power/BatteryModel.h:186).

## 7. Not modelled

- Contents and encodings: JSON, units, the text of rows and pages, drawing,
  authentication of frames.
- ConfigSync: renaming, deletion, handover, failures of the node's own flash,
  undecodable reports. NodeDocs: table renames, a chip that is exchanged.
- Heater: the duty ramp, polarity, PWM frequency, dew point arithmetic.
- ExportManager: streaming exporters (which bypass table and spool), reload of
  the configuration during a walk, the length of back-offs, a file of another
  record size, registration in another order after an update.
- Exporters (encoders of a protocol; what `send()` may answer is an input),
  heap budget (accounting under one lock), logs and panic capture
  (diagnostics), rate limits and tokens (guards in front of handlers), browser
  pages, Kindle scripts beyond the package, build tools.
- Node firmware: one kind of image at a time; an upload is one step but for a
  commit that is torn. The replay floor is kept over a restart.
- Uploads: one file per form. Deploy: the device restarts within the time the
  tool waits, questions are answered, the tool's own settings.

## 8. What is left

1. Proofs: `RunsWhatWasSaid`, which needs `ConfigSync` and `NodeDocs` as one
   module, and under it the bounds of `OneConfigPerRev` stated as a fairness of
   the editors.
2. The observations above that have a property in no run could each have a run
   of their own in place of one whose question is settled by a theorem:
   `store_forward_race` is, but for its bounds.
