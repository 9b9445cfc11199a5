------------------------------ MODULE BootLoop ------------------------------
(***************************************************************************)
(* The collector between two resets: what setup() decides from the kind of  *)
(* reset, the wake reason and the files; what loop() does with a new        *)
(* firmware image, a requested restart, the water meter's run log and deep  *)
(* sleep (ESP_Logger.ino, OtaManager, DataLogger, RtcManager).              *)
(*                                                                         *)
(* The device's memory is three records.  "flash" survives everything.      *)
(* "rtc" holds the RTC_DATA_ATTR variables: they survive deep sleep, and    *)
(* every other reset loads them from the image again.  "ram" lives from a   *)
(* reset to the next.                                                       *)
(***************************************************************************)
EXTENDS Naturals, Sequences

CONSTANTS
    Lives,       \* the devices of an instance, [mode, online, guard, fault, manual, budget]
    LogBatch,    \* LOG_BATCH_SIZE, rows the legacy buffer holds
    MaxFlows,    \* bound: how many bursts of pulses the meter gives
    MaxBoots     \* bound: where the boot count stands still

VARIABLES
    life,    \* the device: constant after Init, apart from its budget of troubles
    flash,   \* partitions, otadata, boot count and the log file
    rtc,     \* RTC_DATA_ATTR
    ram,     \* everything else
    cyc,     \* the run in progress: logging state, pulses, the flushes under way
    past     \* ghost: crashes in a row, the rows that have an excuse

bootVars == <<life, flash, rtc, ram, cyc, past>>

Troubles == {"crash", "power", "busy", "full", "restart", "update", "confirm", "rollback",
             "press", "sleep", "mount", "webFlush"}

-----------------------------------------------------------------------------
(* The boot.                                                               *)

FreshRtc == [magic |-> FALSE, resets |-> 0, boots |-> 0, restore |-> TRUE, buf |-> <<>>]

\* What the bootloader runs: an image that was just written is on trial, one
\* that is still on trial at the next reset has failed it.
Bootloader(f) ==
    IF f.mark = "new" THEN [f EXCEPT !.mark = "pending"]
    ELSE IF f.mark = "pending" THEN [f EXCEPT !.run = f.other, !.other = "none", !.mark = "valid"]
    ELSE f

\* RTC_DATA_ATTR is part of the image: only a wake from deep sleep keeps it.
RtcAfter(why) == IF why = "sleep" THEN rtc ELSE FreshRtc

\* The restart circuit breaker at the top of setup().
Breaker(r, why) ==
    IF ~r.magic THEN [r EXCEPT !.magic = TRUE, !.resets = 0]
    ELSE IF why \in {"power", "sleep"} THEN [r EXCEPT !.resets = 0]
    ELSE [r EXCEPT !.resets = @ + 1]

\* bootCount: from the backup after a reset that lost it, then one more.
CountBoot(r, f) ==
    LET last == IF r.restore THEN f.boots ELSE r.boots IN
    [r EXCEPT !.boots = IF last < MaxBoots THEN last + 1 ELSE last, !.restore = FALSE]

\* The web server comes up in safe mode, in every mode but legacy unless the
\* hybrid timer woke the device, and where the settings force it.
WebUp(safe, wake) ==
    \/ safe \/ life.online \/ wake = "WIFI"
    \/ life.mode = "continuous" \/ (life.mode = "hybrid" /\ wake # "TIMER")

\* setup() up to the point where the tasks start. The file system may not mount.
Boot ==
    /\ ram.phase = "off"
    /\ \E mounted \in BOOLEAN :
        LET f    == IF life.guard THEN Bootloader(flash) ELSE flash
            r    == CountBoot(Breaker(RtcAfter(ram.why), ram.why), f)
            safe == r.resets >= 3 \/ ~mounted
            web  == WebUp(safe, ram.wake) IN
        /\ mounted \/ life.budget["mount"] > 0
        /\ life' = IF mounted THEN life ELSE [life EXCEPT !.budget["mount"] = @ - 1]
        /\ flash' = [f EXCEPT !.boots = r.boots]
        /\ rtc' = r
        /\ ram' = [ram EXCEPT !.phase = "setup", !.safe = safe, !.web = web, !.mounted = mounted,
                              !.online = life.online /\ ram.wake # "WIFI" /\ ~safe,
                              !.pending = f.mark = "pending", !.up = 0]
    /\ UNCHANGED <<cyc, past>>

\* The rest of setup(): a button that woke a legacy device starts a run; the
\* hybrid timer's wake never reaches loop().
SetupDone ==
    /\ ram.phase = "setup"
    /\ ram' = [ram EXCEPT !.phase =
                 IF life.mode = "hybrid" /\ ram.wake = "TIMER" /\ ~ram.web THEN "window" ELSE "loop"]
    /\ cyc' = [cyc EXCEPT !.st = IF life.mode = "legacy" /\ ram.wake = "FF_BTN" THEN "wait" ELSE "idle"]
    /\ UNCHANGED <<life, flash, rtc, past>>

-----------------------------------------------------------------------------
(* The next reset.                                                         *)

\* What is in the rows of a log or buffer.
Rows(buf) == UNION {buf[i] : i \in DOMAIN buf}

OffRam(why, wake) ==
    [phase |-> "off", why |-> why, wake |-> wake, safe |-> FALSE, web |-> FALSE, online |-> FALSE,
     mounted |-> TRUE, pending |-> FALSE, up |-> 0, asked |-> FALSE, undo |-> FALSE]

Idle == [st |-> "idle", pulses |-> {}, lines |-> <<>>, web |-> <<>>, pressed |-> FALSE]

Spend(what) == life.budget[what] > 0 /\ life' = [life EXCEPT !.budget[what] = @ - 1]

\* RAM goes, and with it the run in progress; a reset that is not a wake takes
\* the legacy buffer too.
Reset(why, wake) ==
    /\ ram' = OffRam(why, wake)
    /\ cyc' = Idle
    /\ past' = [past EXCEPT !.crashes = IF why = "crash" THEN @ + 1 ELSE 0,
                            !.excused = @ \cup cyc.pulses
                                         \cup IF why = "sleep" THEN {} ELSE Rows(rtc.buf)]

On == ram.phase # "off"

\* An image that fails early dies in a sensor task, which safe mode leaves
\* out; one that fails late dies after a minute.
FaultBites ==
    /\ flash.run = "update"
    /\ CASE life.fault = "setup" -> On
         [] life.fault = "early" -> ram.phase = "loop" /\ ~ram.safe /\ ram.up = 0
         [] life.fault = "late"  -> ram.phase = "loop" /\ ~ram.safe /\ ram.up = 1
         [] OTHER -> FALSE

Crash ==
    /\ On
    /\ \/ FaultBites /\ UNCHANGED life
       \/ Spend("crash")
    /\ past.crashes < 3
    /\ Reset("crash", "PWR_ON")
    /\ UNCHANGED <<flash, rtc>>

PowerCut == On /\ Spend("power") /\ Reset("power", "PWR_ON") /\ UNCHANGED <<flash, rtc>>

\* Deep sleep, and what ends it. No path into it confirms an image.
Sleep(wakes) ==
    /\ \E wake \in wakes : Reset("sleep", wake)
    /\ UNCHANGED <<flash, rtc>>

-----------------------------------------------------------------------------
(* A new image.                                                            *)

\* Fault: the image is confirmed as soon as it runs.
ConfirmsAtOnce(p, u, m) == p /\ ~m

\* OtaManager::tick(): an image that ran for OTA_CONFIRM_TIMEOUT_MS, unless
\* the settings want a hand to confirm it.
Confirms(p, u, m) == p /\ u = 2 /\ ~m

\* loop() comes round again: after one minute the breaker's count goes, after
\* ninety seconds the image may be confirmed.
Grow ==
    /\ ram.phase = "loop" /\ ~FaultBites
    /\ \E u \in {ram.up, ram.up + 1} \cap 0..2 :
        /\ u # ram.up \/ Confirms(ram.pending, u, life.manual)
        /\ rtc' = [rtc EXCEPT !.resets = IF u >= 1 THEN 0 ELSE @]
        /\ past' = [past EXCEPT !.crashes = IF u >= 1 THEN 0 ELSE @, !.proven = @ \/ (u = 2 /\ flash.run = "update")]
        /\ IF Confirms(ram.pending, u, life.manual)
           THEN /\ flash' = [flash EXCEPT !.mark = "valid"]
                /\ ram' = [ram EXCEPT !.up = u, !.pending = FALSE]
           ELSE /\ ram' = [ram EXCEPT !.up = u]
                /\ UNCHANGED flash
    /\ UNCHANGED <<life, cyc>>

\* POST /do_update writes the other partition, makes it the next to boot and
\* asks for a restart.
WebUpdate ==
    /\ ram.phase = "loop" /\ ram.web /\ flash.run = "old" /\ Spend("update")
    /\ flash' = [flash EXCEPT !.run = "update", !.other = "old", !.mark = IF life.guard THEN "new" ELSE "valid"]
    /\ ram' = [ram EXCEPT !.asked = TRUE]
    /\ UNCHANGED <<rtc, cyc, past>>

WebConfirm ==
    /\ ram.phase = "loop" /\ ram.web /\ ram.pending /\ Spend("confirm")
    /\ flash' = [flash EXCEPT !.mark = "valid"]
    /\ ram' = [ram EXCEPT !.pending = FALSE]
    /\ past' = [past EXCEPT !.proven = TRUE]
    /\ UNCHANGED <<rtc, cyc>>

WebRollback ==
    /\ ram.phase = "loop" /\ ram.web /\ Spend("rollback")
    /\ ram' = [ram EXCEPT !.undo = TRUE]
    /\ UNCHANGED <<flash, rtc, cyc, past>>

\* loop() takes the request: it marks this image invalid and boots the other
\* one, or, where the bootloader cannot, asks for a plain restart.
Rollback ==
    /\ ram.phase = "loop" /\ ram.undo
    /\ IF life.guard /\ flash.other # "none"
       THEN /\ flash' = [flash EXCEPT !.run = flash.other, !.other = "none", !.mark = "valid"]
            /\ Reset("restart", "PWR_ON")
            /\ rtc' = [rtc EXCEPT !.magic = FALSE]
       ELSE /\ ram' = [ram EXCEPT !.undo = FALSE, !.asked = TRUE]
            /\ rtc' = [rtc EXCEPT !.magic = FALSE]
            /\ UNCHANGED <<flash, cyc, past>>
    /\ UNCHANGED life

-----------------------------------------------------------------------------
(* The run log of the legacy mode.                                         *)

\* flushLogBufferToFS() formats the rows before it waits for the file lock.
Format(b) == b

\* Rows formatted earlier may no longer be the buffer's first.
AtFront(lines, buf) == Len(lines) <= Len(buf) /\ SubSeq(buf, 1, Len(lines)) = lines

\* Fault: a short write empties the buffer.
KeepsUnwrittenNot(b, n) == <<>>

\* After a write of n rows the rest stays for the next flush.
KeepsUnwritten(b, n) == IF n >= Len(b) THEN <<>> ELSE SubSeq(b, n + 1, Len(b))

\* The flush under the lock: nothing when it is not obtained, else the first
\* rows, all of them when the file system takes them.
Append1(lines, n) ==
    /\ flash' = [flash EXCEPT !.log = @ \o SubSeq(lines, 1, n)]
    /\ rtc' = [rtc EXCEPT !.buf = IF n = 0 THEN @ ELSE KeepsUnwritten(@, n)]
    /\ past' = [past EXCEPT !.excused = @ \cup
                  IF AtFront(lines, rtc.buf) THEN {} ELSE Rows(rtc.buf)]

Written(lines) == {Len(lines)} \cup IF life.budget["full"] > 0 \/ ~ram.mounted THEN 0..Len(lines) ELSE {}

FlushEnds(lines) ==
    \E n \in Written(lines) :
        /\ Append1(lines, n)
        /\ life' = IF n < Len(lines) /\ ram.mounted THEN [life EXCEPT !.budget["full"] = @ - 1] ELSE life

Counting == ram.phase = "loop" /\ life.mode = "legacy" /\ (ram.online \/ ~ram.web)

\* The meter turns: onFlowPulse() counts.
Pulse ==
    /\ Counting /\ past.flows < MaxFlows
    /\ past' = [past EXCEPT !.flows = @ + 1]
    /\ cyc' = [cyc EXCEPT !.pulses = @ \cup {past.flows + 1}]
    /\ UNCHANGED <<life, flash, rtc, ram>>

\* debounceButton(), and STATE_IDLE acting on it.
Press ==
    /\ Counting /\ cyc.st = "idle" /\ Spend("press")
    /\ cyc' = [cyc EXCEPT !.st = "wait"]
    /\ UNCHANGED <<flash, rtc, ram, past>>

\* STATE_WAIT_FLOW until water flows or nobody draws any, STATE_MONITORING
\* until it stops.
Watch ==
    /\ Counting
    /\ \/ cyc.st = "wait" /\ cyc' = [cyc EXCEPT !.st = IF cyc.pulses # {} THEN "mon" ELSE "done"]
       \/ cyc.st = "mon" /\ cyc' = [cyc EXCEPT !.st = "done"]
    /\ UNCHANGED <<life, flash, rtc, ram, past>>

\* STATE_DONE takes the pulses. With the buffer full addLogEntry() flushes
\* before it adds the row.
Done ==
    /\ Counting /\ cyc.st = "done"
    /\ cyc' = IF cyc.pulses = {} THEN [cyc EXCEPT !.st = "over"]
              ELSE IF Len(rtc.buf) >= LogBatch THEN [cyc EXCEPT !.st = "room", !.lines = Format(rtc.buf)]
              ELSE [cyc EXCEPT !.st = "add"]
    /\ UNCHANGED <<life, flash, rtc, ram, past>>

MakeRoom ==
    /\ Counting /\ cyc.st = "room"
    /\ FlushEnds(cyc.lines)
    /\ cyc' = [cyc EXCEPT !.st = "add", !.lines = <<>>]
    /\ UNCHANGED ram

\* The row; a buffer that is still full loses its oldest one.
AddEntry ==
    /\ Counting /\ cyc.st = "add"
    /\ LET full == Len(rtc.buf) >= LogBatch
           kept == IF full THEN Tail(rtc.buf) ELSE rtc.buf IN
       /\ rtc' = [rtc EXCEPT !.buf = Append(kept, cyc.pulses)]
       /\ past' = [past EXCEPT !.captured = @ \cup cyc.pulses,
                               !.excused = IF full THEN @ \cup Head(rtc.buf) ELSE @]
       /\ cyc' = [cyc EXCEPT !.st = "flush", !.pulses = {}, !.lines = Format(Append(kept, cyc.pulses))]
    /\ UNCHANGED <<life, flash, ram>>

LoopFlush ==
    /\ Counting /\ cyc.st = "flush"
    /\ FlushEnds(cyc.lines)
    /\ cyc' = [cyc EXCEPT !.st = "over", !.lines = <<>>]
    /\ UNCHANGED ram

\* POST /flush_logs runs the same function on the web server's task.
WebFlushBegin ==
    /\ ram.phase = "loop" /\ ram.web /\ cyc.web = <<>> /\ rtc.buf # <<>> /\ Spend("webFlush")
    /\ cyc' = [cyc EXCEPT !.web = Format(rtc.buf)]
    /\ UNCHANGED <<flash, rtc, ram, past>>

WebFlushEnd ==
    /\ ram.phase = "loop" /\ cyc.web # <<>>
    /\ FlushEnds(cyc.web)
    /\ cyc' = [cyc EXCEPT !.web = <<>>]
    /\ UNCHANGED ram

\* The end of a run: an online device waits for the next, another one sleeps
\* unless a restart was asked for.
RunOver ==
    /\ Counting /\ cyc.st = "over"
    /\ IF ram.online THEN cyc' = [cyc EXCEPT !.st = "idle"] /\ UNCHANGED <<life, flash, rtc, ram, past>>
       ELSE ~ram.asked /\ Spend("sleep") /\ Sleep({"FF_BTN", "PWR_ON"})

-----------------------------------------------------------------------------
(* Restarts and sleep.                                                     *)

\* requestRestart() of a page, or of the watchdog over the tasks.
Ask ==
    /\ On /\ ram.phase # "setup" /\ (ram.web \/ life.mode # "legacy") /\ ~ram.asked /\ Spend("restart")
    /\ ram' = [ram EXCEPT !.asked = TRUE]
    /\ UNCHANGED <<flash, rtc, cyc, past>>

\* The restart itself, in loop() or in the hybrid timer's window: the rows
\* still in RAM are flushed, the breaker's magic word is cleared.
Restart ==
    /\ ram.phase \in {"loop", "window"} /\ ram.asked /\ ~ram.undo
    /\ cyc.st \notin {"room", "add", "flush"}
    /\ \E n \in Written(rtc.buf) :
        LET kept == KeepsUnwritten(rtc.buf, n) IN
        /\ flash' = [flash EXCEPT !.log = @ \o SubSeq(rtc.buf, 1, n)]
        /\ rtc' = [rtc EXCEPT !.magic = FALSE, !.buf = kept]
        /\ ram' = OffRam("restart", "PWR_ON")
        /\ cyc' = Idle
        /\ past' = [past EXCEPT !.crashes = 0, !.excused = @ \cup Rows(kept) \cup cyc.pulses]
        /\ life' = IF n < Len(rtc.buf) /\ ram.mounted THEN [life EXCEPT !.budget["full"] = @ - 1] ELSE life

\* A legacy device without a run sleeps after two seconds; a hybrid one after
\* a longer idle time, or at the end of the timer's window.
GoToSleep ==
    /\ Spend("sleep")
    /\ \/ ram.phase = "loop" /\ life.mode = "legacy" /\ ~ram.web /\ cyc.st = "idle"
       \/ ram.phase = "loop" /\ life.mode = "hybrid" /\ ~ram.asked
       \/ ram.phase = "window" /\ ~ram.asked
    /\ Sleep(IF life.mode = "hybrid" THEN {"TIMER", "FF_BTN"} ELSE {"FF_BTN", "WIFI"})

-----------------------------------------------------------------------------
NoBudget == [t \in Troubles |-> 0]

BootInit ==
    /\ life \in Lives
    /\ flash = [run |-> "old", other |-> "none", mark |-> "valid", boots |-> 0, log |-> <<>>]
    /\ rtc = FreshRtc
    /\ ram = OffRam("power", "PWR_ON")
    /\ cyc = Idle
    /\ past = [crashes |-> 0, flows |-> 0, captured |-> {}, excused |-> {}, proven |-> FALSE]

BootNext ==
    \/ Boot \/ SetupDone \/ Crash \/ PowerCut \/ Grow
    \/ WebUpdate \/ WebConfirm \/ WebRollback \/ Rollback
    \/ Pulse \/ Press \/ Watch \/ Done \/ MakeRoom \/ AddEntry \/ LoopFlush
    \/ WebFlushBegin \/ WebFlushEnd \/ RunOver \/ Ask \/ Restart \/ GoToSleep

BootSpec == BootInit /\ [][BootNext]_bootVars

\* A device that is on goes on, and an image that fails does fail.
BootFairness ==
    /\ WF_bootVars(Boot) /\ WF_bootVars(SetupDone) /\ WF_bootVars(Grow) /\ WF_bootVars(Restart)
    /\ WF_bootVars(FaultBites /\ Crash) /\ WF_bootVars(Rollback)
    /\ WF_bootVars(Watch \/ Done \/ MakeRoom \/ AddEntry \/ LoopFlush \/ RunOver)

-----------------------------------------------------------------------------

\* An image that fails within its first ninety seconds does not stay: the
\* device comes back to the image it had, unless it ran that long once (in
\* safe mode, say) or a hand confirmed it (setup(), OtaManager).
BadUpdateUndone ==
    (flash.run = "update" /\ flash.mark # "valid" /\ life.fault # "never")
        ~> (flash.run = "old" \/ past.proven)

\* Water that was drawn in a run is in the log, in the buffer or on its way
\* there; lost are only the rows of a device reset before they were written,
\* those a full buffer dropped and those of two flushes at once
\* (addLogEntry(), flushLogBufferToFS()).
RowsKept ==
    past.captured \subseteq
        Rows(flash.log) \cup Rows(rtc.buf) \cup past.excused

\* docs/INSTRUCTIONS.md: three crashes without a minute of clean uptime between
\* them end in safe mode.
BreakerFires == past.crashes >= 3 /\ ram.phase # "off" => ram.safe

\* The buffer is emptied only of rows that made it to the file.
ClearedIfWritten == past.captured \subseteq Rows(flash.log) \cup Rows(rtc.buf)
=============================================================================
