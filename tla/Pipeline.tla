----------------------------- MODULE Pipeline ------------------------------
(***************************************************************************)
(* The way of a reading from the sensors to the data log, and the life of  *)
(* the tasks it goes through (tasks/TaskManager.cpp, SensorTask.cpp,       *)
(* SlowSensorTask.cpp, ProcessingTask.cpp, ExportTask.cpp, and the restart *)
(* and sleep of ESP_Logger.ino).  StorageTask is its own module, and what  *)
(* ExportTask does with a reading is ExportManager; the latest-value table *)
(* and the sensors' own timing are left out, and so is the heater, which   *)
(* module Heater has with the same tasks.                                  *)
(***************************************************************************)
EXTENDS StorageTask

CONSTANTS
    Readings,     \* what the sensors measure, in turn
    SensorRoom, StorageRoom, ExportRoom,   \* depths of the three queues
    Blocking,     \* is a blocking sensor configured?
    Lists, Setups,\* what the settings page may save: lists of columns, and settings
    Scenarios     \* records of `left` and the first list and settings

Tasks == {"storage", "export", "sensor", "slow", "process"}
Order == <<"storage", "export", "sensor", "slow", "process">>

Reading == [m : Metrics, by : {"sensor", "slow"}, good : BOOLEAN, n : Nat]

ASSUME PipelineAssumption ==
    /\ SensorRoom \in Nat \ {0} /\ StorageRoom \in Nat \ {0} /\ ExportRoom \in Nat \ {0}
    /\ Readings \in Seq(Reading) /\ \A i \in DOMAIN Readings : Readings[i].n = i /\ Readings[i] # None
    /\ Lists \subseteq Seq(Col) /\ Setups \subseteq Setup
    /\ \A sc \in Scenarios : sc.cols \in Seq(Col) /\ onCount(sc.cols) <= MaxCols /\ sc.setup \in Setup

VARIABLES
    sensorQ,      \* sensorQueue
    exportQ,      \* exportQueue: how many
    queues,       \* the queues exist
    hand,         \* the reading ProcessingTask has not passed on yet, or None
    tasks,        \* "none", "parked", "run", "stuck" in a blocking call, "gone"
    running, gate,\* TaskManager::running, startGate
    loop,         \* the main task: booting, in its loop, shutting down, restarting
    measured,     \* readings taken so far
    forced        \* ghost: a task was deleted, or left its loop with readings in its queue

plVars == <<sensorQ, exportQ, queues, hand, tasks, running, gate, loop, measured, forced>>
allVars == <<stVars, plVars>>

At(t) == tasks[t] = "run"
Sets(t, s) == tasks' = [tasks EXCEPT ![t] = s]

-----------------------------------------------------------------------------
(* TaskManager::init().                                                    *)

\* The gate opens when every task has been created.
Opens(k) == k = Len(Order)

\* Mutexes are created and stay; the queues follow.
MakeQueues(ok) ==
    /\ loop = [at |-> "queues", k |-> 0]
    /\ IF ok THEN queues' = TRUE /\ left' = left ELSE UNCHANGED queues /\ Spend("faults")
    /\ loop' = IF ok THEN [at |-> "tasks", k |-> 0] ELSE [at |-> "safe", k |-> 0]
    /\ UNCHANGED <<dlVars, storageQ, taskVars, askVars, web, today, ended,
                   sensorQ, exportQ, hand, tasks, running, gate, measured, forced>>

\* Consumers first.  A task that cannot be created takes down what was built:
\* the tasks, then the queues.
CreateTask(ok) ==
    /\ loop.at = "tasks" /\ loop.k < Len(Order)
    /\ LET t == Order[loop.k + 1] IN
       IF ok
       THEN /\ tasks' = IF t = "slow" /\ ~Blocking THEN tasks ELSE [tasks EXCEPT ![t] = "parked"]
            /\ loop' = [loop EXCEPT !.k = @ + 1]
            /\ running' = Opens(loop.k + 1) /\ gate' = Opens(loop.k + 1)
            /\ UNCHANGED <<queues, left>>
       ELSE /\ t = "slow" => Blocking
            /\ Spend("faults") /\ tasks' = [x \in Tasks |-> "none"] /\ queues' = FALSE
            /\ running' = FALSE /\ gate' = FALSE /\ loop' = [at |-> "safe", k |-> 0]
    /\ UNCHANGED <<dlVars, storageQ, taskVars, askVars, web, today, ended,
                   sensorQ, exportQ, hand, measured, forced>>
InitDone ==
    /\ loop = [at |-> "tasks", k |-> Len(Order)] /\ loop' = [at |-> "loop", k |-> 0]
    /\ UNCHANGED <<stVars, sensorQ, exportQ, queues, hand, tasks, running, gate, measured, forced>>

\* waitForStart(): a parked task goes on when the gate opens; it ends at once
\* when a shutdown opened it.  Nothing waits for ten seconds in vain: a failed
\* init() deletes what it parked.
PassGate(t) ==
    /\ tasks[t] = "parked" /\ gate
    /\ Sets(t, IF running THEN "run" ELSE "gone")
    /\ IF t = "storage" THEN st' = [st EXCEPT !.pc = IF running THEN "top" ELSE "gone", !.colsRev = rev]
                        ELSE UNCHANGED st
    /\ UNCHANGED <<dlVars, storageQ, window, run, row, batch, askVars, envVars, ended,
                   sensorQ, exportQ, queues, hand, running, gate, loop, measured, forced>>

-----------------------------------------------------------------------------
(* Sensor tasks, ProcessingTask and ExportTask.                            *)

Rest == <<queues, running, gate, loop, measured, forced>>
Quiet == <<dlVars, taskVars, askVars, envVars>>

\* A reading is sent without waiting; a full queue is counted.
Measure(t, r) ==
    /\ r.by = t /\ At(t) /\ running /\ r.n = Cardinality(measured) + 1 /\ r.n <= left.readings
    /\ measured' = measured \cup {r}
    /\ IF Len(sensorQ) < SensorRoom THEN sensorQ' = Append(sensorQ, r) /\ UNCHANGED ended
                                    ELSE ended' = ended \cup {r} /\ UNCHANGED sensorQ
    /\ UNCHANGED <<Quiet, storageQ, exportQ, queues, hand, tasks, running, gate, loop, forced>>

\* The live view, the trends and the alerts take it on the way; what becomes of
\* it there nothing below depends on.
TakeReading ==
    /\ At("process") /\ running /\ hand = None /\ sensorQ # <<>>
    /\ hand' = Head(sensorQ) /\ sensorQ' = Tail(sensorQ)
    /\ UNCHANGED <<Quiet, storageQ, ended, exportQ, tasks, Rest>>

\* Fault: a reading that waited 50 ms in vain is put aside uncounted.
StoredUncounted(full, r) == {}

\* What counts as lost when the storage queue stays full for 50 ms.
Uncounted(full, r) == IF full THEN {r} ELSE {}

\* Storage first, then the exporters: what they miss the next reading replaces.
HandOn ==
    /\ hand # None /\ At("process") /\ hand' = None
    /\ LET full == Len(storageQ) = StorageRoom IN
       /\ storageQ' = IF full THEN storageQ ELSE Append(storageQ, hand)
       /\ ended' = ended \cup Uncounted(full, hand)
    /\ exportQ' = IF hand.good /\ exportQ < ExportRoom THEN exportQ + 1 ELSE exportQ
    /\ UNCHANGED <<Quiet, sensorQ, tasks, Rest>>

Ingest ==
    /\ At("export") /\ running /\ exportQ > 0 /\ exportQ' = 0
    /\ UNCHANGED <<Quiet, storageQ, ended, sensorQ, hand, tasks, Rest>>

\* A loop ends at its top when running has gone.
TaskEnds(t) ==
    /\ At(t) /\ ~running
    /\ IF t = "storage" THEN st.pc = "gone" ELSE TRUE
    /\ t = "process" => hand = None
    /\ Sets(t, "gone") /\ forced' = (forced \/ (t = "process" /\ sensorQ # <<>>) \/ (t = "storage" /\ storageQ # <<>>))
    /\ UNCHANGED <<stVars, sensorQ, exportQ, queues, hand, running, gate, loop, measured>>

\* A call that does not come back: a sensor's frame, a server, the flash.
GetsStuck(t) ==
    /\ At(t) /\ Spend("stuck") /\ Sets(t, "stuck")
    /\ UNCHANGED <<dlVars, storageQ, taskVars, askVars, web, today, ended,
                   sensorQ, exportQ, queues, hand, running, gate, loop, measured, forced>>

\* StorageTask's steps, while it is scheduled and not stuck.
StorageStep ==
    \/ running /\ Refresh
    \/ Receive \/ (\E c \in BOOLEAN : Drained(c)) \/ ReadFlag \/ (\E d \in BOOLEAN : CloseWindow(d))
    \/ ReadHeader \/ NoRoom \/ AddRow \/ NothingToFlush \/ FlushMisses
    \/ (\E how \in Ends, saves \in BOOLEAN : FlushMain(how, saves)) \/ (\E how \in Ends : FlushMirror(how))
    \/ FlushDone \/ Leave(running) \/ LastDone
Storage == At("storage") /\ StorageStep /\ UNCHANGED plVars

-----------------------------------------------------------------------------
(* The main task: health, restart, sleep.                                  *)

Held == <<dlVars, storageQ, window, run, row, batch, flush, web, today, ended>>

\* Thirty seconds of silence, or a task that is no more: the device restarts.
CheckHealth ==
    /\ loop.at = "loop" /\ running /\ \E t \in Tasks : tasks[t] \in {"stuck", "gone"}
    /\ loop' = [at |-> "restart", k |-> 0]
    /\ UNCHANGED <<stVars, sensorQ, exportQ, queues, hand, tasks, running, gate, measured, forced>>
RequestRestart ==
    /\ loop.at \in {"loop", "safe"} /\ Spend("restarts") /\ loop' = [at |-> "restart", k |-> 0]
    /\ UNCHANGED <<dlVars, storageQ, taskVars, askVars, web, today, ended,
                   sensorQ, exportQ, queues, hand, tasks, running, gate, measured, forced>>

\* The restart waits for the flush, for three seconds at most.
RestartAsks == loop = [at |-> "restart", k |-> 0] /\ loop' = [loop EXCEPT !.k = 1] /\ AskAndWait(running)
               /\ UNCHANGED <<sensorQ, exportQ, queues, hand, tasks, running, gate, measured, forced>>
RestartWaits == loop.at = "restart" /\ (WaitEnds \/ WaitTimesOut) /\ UNCHANGED plVars
Restarts ==
    /\ loop = [at |-> "restart", k |-> 1] /\ waiter.at \in {"answered", "given up"}
    /\ loop' = [at |-> "off", k |-> 0]
    /\ UNCHANGED <<stVars, sensorQ, exportQ, queues, hand, tasks, running, gate, measured, forced>>

\* shutdown(): the tasks are told to end before the queues are waited for, so
\* what is in them is not taken out any more.
SleepBegins ==
    /\ loop.at = "loop" /\ Spend("sleeps")
    /\ running' = FALSE /\ gate' = TRUE /\ loop' = [at |-> "draining", k |-> 0]
    /\ UNCHANGED <<dlVars, storageQ, taskVars, askVars, web, today, ended,
                   sensorQ, exportQ, queues, hand, tasks, measured, forced>>
DrainEnds(timeout) ==
    /\ loop.at = "draining" /\ (timeout \/ (sensorQ = <<>> /\ storageQ = <<>> /\ exportQ = 0))
    /\ timeout => sensorQ \o storageQ # <<>> \/ exportQ > 0
    /\ loop' = [at |-> "waiting", k |-> 1]
    /\ UNCHANGED <<stVars, sensorQ, exportQ, queues, hand, tasks, running, gate, measured, forced>>

\* Fault: a task is waited for until it ends.
KillsNone(t) == FALSE

\* A task that has not ended in its time is deleted.
Kills(t) == tasks[t] = "stuck"

\* Each task in turn is waited for, then deleted where it is.
NextHandle(t) == CASE t = 1 -> "sensor" [] t = 2 -> "slow" [] t = 3 -> "process" [] t = 4 -> "storage" [] t = 5 -> "export"
WaitTask(killed) ==
    /\ loop.at = "waiting" /\ loop.k <= 5
    /\ LET t == NextHandle(loop.k) IN
       /\ IF killed THEN Kills(t) ELSE tasks[t] \in {"gone", "none"}
       /\ tasks' = IF killed THEN [tasks EXCEPT ![t] = "gone"] ELSE tasks
       /\ forced' = (forced \/ killed)
    /\ loop' = [loop EXCEPT !.k = @ + 1]
    /\ UNCHANGED <<dlVars, storageQ, taskVars, askVars, envVars, ended,
                   sensorQ, exportQ, queues, hand, running, gate, measured>>
Sleeps ==
    /\ loop = [at |-> "waiting", k |-> 6] /\ loop' = [at |-> "off", k |-> 0]
    /\ UNCHANGED <<stVars, sensorQ, exportQ, queues, hand, tasks, running, gate, measured, forced>>

\* The next boot: RAM is empty, the list is what was saved.
IdleTask == [pc |-> "none", then |-> "answer", writing |-> FALSE, colsRev |-> 1, req |-> FALSE, k |-> 0, mirror |-> FALSE]
Fresh ==
    /\ storageQ' = <<>> /\ window' = NoWindow /\ run' = "idle" /\ row' = NoRow /\ batch' = NoBatch /\ st' = IdleTask
    /\ flush' = FALSE /\ waiter' = [at |-> "idle", owes |-> {}] /\ web' = None 
    /\ sensorQ' = <<>> /\ exportQ' = 0 /\ queues' = FALSE /\ hand' = None
    /\ tasks' = [t \in Tasks |-> "none"] /\ running' = FALSE /\ gate' = FALSE /\ loop' = [at |-> "queues", k |-> 0]
Boot ==
    /\ loop.at = "off" /\ Spend("boots") /\ Fresh /\ datalogColsBegin
    /\ counts' = [fs \in Filesystems |-> None] /\ ended' = measured
    /\ UNCHANGED <<colsFile, setup, files, past, today, measured, forced>>

-----------------------------------------------------------------------------
(* Specification.                                                          *)

\* A scenario starts with the boot, or in the loop with every task running.
InitPipeline ==
    \E sc \in Scenarios :
        /\ cols = sc.cols /\ auto = TRUE /\ learned = FALSE /\ rev = 1
        /\ colsFile = [cols |-> sc.cols, auto |-> TRUE] /\ setup = sc.setup /\ left = sc.left
        /\ files = [fs \in Filesystems |-> NoFile] /\ past = [fs \in Filesystems |-> {}]
        /\ counts = [fs \in Filesystems |-> None] /\ today = 0 /\ ended = {} /\ measured = {} /\ forced = FALSE
        /\ storageQ = <<>> /\ window = NoWindow /\ run = "idle" /\ row = NoRow /\ batch = NoBatch
        /\ flush = FALSE /\ waiter = [at |-> "idle", owes |-> {}] /\ web = None 
        /\ sensorQ = <<>> /\ exportQ = 0 /\ hand = None
        /\ LET on == sc.start = "loop" IN
           /\ queues = on /\ running = on /\ gate = on
           /\ loop = [at |-> IF on THEN "loop" ELSE "queues", k |-> 0]
           /\ tasks = [t \in Tasks |-> IF on /\ (t = "slow" => Blocking) THEN "run" ELSE "none"]
           /\ st = [IdleTask EXCEPT !.pc = IF on THEN "top" ELSE "none"]

Working == loop.at # "off"
Webs ==
    /\ Working
    /\ \/ \E list \in Lists, keep \in BOOLEAN : TakeList(list, keep)
       \/ \E ok \in BOOLEAN : SaveList(ok)
       \/ \E new \in Setups : SaveSetup(new)
       \/ datalogRequestFlush \/ Midnight
    /\ UNCHANGED plVars
Sensing == \E t \in {"sensor", "slow"}, i \in DOMAIN Readings : Measure(t, Readings[i])
Processing == TakeReading \/ HandOn
Starting == (\E ok \in BOOLEAN : MakeQueues(ok) \/ CreateTask(ok)) \/ InitDone
Ending == CheckHealth \/ RestartAsks \/ RestartWaits \/ Restarts \/ (\E x \in BOOLEAN : DrainEnds(x) \/ WaitTask(x)) \/ Sleeps
PipelineNext ==
    \/ Starting \/ Ending \/ RequestRestart \/ SleepBegins \/ Boot
    \/ Working /\ (Sensing \/ Processing \/ Ingest \/ Storage \/ \E t \in Tasks : PassGate(t) \/ TaskEnds(t) \/ GetsStuck(t))
    \/ Webs

\* Every task that is not stuck is scheduled.
PipelineFairness ==
    /\ WF_allVars(Working /\ Storage) /\ WF_allVars(Working /\ Processing) /\ WF_allVars(Starting) /\ WF_allVars(Ending)
    /\ \A t \in Tasks : WF_allVars(Working /\ (PassGate(t) \/ TaskEnds(t)))
PipelineSpec == InitPipeline /\ [][PipelineNext]_allVars /\ PipelineFairness

-----------------------------------------------------------------------------
(* Properties.                                                             *)

InHand == {hand} \ {None}

\* A good reading on its way to the log is somewhere, or its loss was counted, or
\* a setting or the file's limit left it out: through three tasks, two queues,
\* the window, the batch and the file.  Excepted is what is left in a queue
\* when its reader ends, or in a task that is deleted.
Accounted(S) ==
    forced \/ S \subseteq ended \cup ToSet(sensorQ) \cup InHand \cup ToSet(storageQ)
                          \cup TaskHolds \cup OnDisk(Main)
ReadingAccounted == Accounted({r \in measured : r.good})

\* The same of every reading, which does not hold: ProcessingTask.cpp says of
\* the bad ones that they are still logged to storage, and passes them on, but
\* StorageTask drops them uncounted.
ErrorsLogged == Accounted(measured)

\* Sleep is reached, whichever task does not come back.
ShutdownEnds == loop.at = "draining" ~> loop.at = "off"

\* A flush that was asked for is answered, unless StorageTask is stuck.
FlushAnswered == flush ~> (~flush \/ tasks["storage"] # "run" \/ loop.at = "off")

\* What the comment above the drain in shutdown() says the wait is for: no
\* reading is lost with the storage queue.
QueueDrained == loop.at = "off" => storageQ = <<>> \/ tasks["storage"] # "gone"
=============================================================================
