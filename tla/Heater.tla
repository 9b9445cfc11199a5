------------------------------- MODULE Heater -------------------------------
(***************************************************************************)
(* The enclosure heater (src/modules/HeaterModule.cpp): a control loop on  *)
(* ProcessingTask, a web task that reconfigures, stops and restarts it     *)
(* while the loop is in the middle of a tick, and the shutdown before deep *)
(* sleep.  The control part of a tick takes no lock: only the attaching    *)
(* and detaching of the pin does.                                          *)
(***************************************************************************)
EXTENDS Integers, FiniteSets

CONSTANTS
    Pins,          \* GPIO numbers in range
    Usable,        \* those validateAttachPin() accepts
    FirstPin,      \* the pin of the saved configuration
    Temps,         \* enclosure temperatures
    Targets,       \* what max(setpointC, dew point + dewMarginC) comes to
    Half,          \* hysteresisC / 2
    MaxTemp, ClearMargin,
    AttachFails,   \* whether ledcAttach() may fail (Arduino core 3)
    Absent

Control == "control"     \* ProcessingTask
Web     == "web"         \* the async web task
Loop    == "loop"        \* loop(), which calls TaskManager::shutdown()
Actors  == {Control, Web, Loop}

ASSUME HeaterAssumption ==
    /\ Usable \subseteq Pins
    /\ FirstPin \in Pins
    /\ Temps \subseteq Int /\ Targets \subseteq Int
    /\ Half \in Nat /\ MaxTemp \in Int /\ ClearMargin \in Nat
    /\ AttachFails \in BOOLEAN
    /\ Absent \notin Pins \cup Temps /\ Absent \notin Actors

VARIABLES
    enabled, pin,      \* configuration
    attached,          \* _attachedPin, or Absent when not _attached
    owned,             \* _ownedPin
    reconfigure,       \* _reconfigure
    heating, fault, latch,
    lock,              \* who holds _hwMutex
    pc,                \* where each task is
    restarting,        \* the stop() under way belongs to a restart
    running,           \* TaskManager::running
    probe,             \* the enclosure temperature in the cache; Absent when stale
    ledc,              \* pins routed to the PWM peripheral
    on,                \* pins at their active level
    driven             \* pins this module has ever driven

cfgVars  == <<enabled, pin>>
loopVars == <<heating, fault, latch>>
gateVars == <<ledc, on, driven>>
pinVars  == <<attached, owned, reconfigure>>
vars == <<cfgVars, pinVars, loopVars, lock, pc, restarting, running, probe, gateVars>>

Labels == {"top", "relock", "setup", "check", "control", "apply", "write", "work", "gone",
           "killed", "idle", "start", "load", "flag", "park", "unhook", "unhooked", "up", "stopped",
           "wait", "asleep"}
Faults == {"none", "no pin", "stale", "overtemp"}

Init ==
    /\ enabled \in BOOLEAN /\ pin = FirstPin
    /\ attached = Absent /\ owned = Absent
    /\ reconfigure = TRUE
    /\ heating = FALSE /\ fault = "none" /\ latch = FALSE
    /\ lock = Absent
    /\ pc = [a \in Actors |-> IF a = Control THEN "top" ELSE IF a = Web THEN "idle" ELSE "up"]
    /\ restarting = FALSE
    /\ running = TRUE
    /\ probe \in Temps \cup {Absent}
    /\ ledc = {} /\ on = {} /\ driven = {}

Goto(a, label) == pc' = [pc EXCEPT ![a] = label]

-----------------------------------------------------------------------------
(* The pin.                                                                *)

\* pinMode() and digitalWrite() of pin p at its inactive level.  Whether
\* pinMode() takes the pin from the peripheral depends on the core.
DriveLow(p) ==
    /\ on' = on \ {p}
    /\ driven' = driven \cup {p}
    /\ \/ ledc' = ledc \ {p}
       \/ UNCHANGED ledc

\* Fault: without a pin of its own, the configured one is driven.
SafeOffConfigured == DriveLow(IF owned # Absent THEN owned ELSE pin)

\* _safeOffNow(): only a pin the module owns.
SafeOff ==
    IF owned # Absent THEN DriveLow(owned) ELSE UNCHANGED gateVars

\* Fault: an attached pin keeps its duty.
ForceOffOnPaper == IF attached # Absent THEN UNCHANGED gateVars ELSE SafeOff

\* _forceOff(): the PWM at zero, or the pin itself low.
ForceOff ==
    IF attached # Absent
    THEN on' = on \ (ledc \cap {attached}) /\ UNCHANGED <<ledc, driven>>
    ELSE SafeOff

-----------------------------------------------------------------------------
(* stop(), which every task calls.                                         *)

Park(a) ==
    /\ pc[a] = "park"
    /\ heating' = FALSE
    /\ SafeOff
    /\ Goto(a, "unhook")
    /\ UNCHANGED <<cfgVars, pinVars, fault, latch, lock, restarting, running, probe>>

Return(a) ==
    Goto(a, IF a = Control THEN "gone"
            ELSE IF a = Loop THEN "stopped"
            ELSE IF restarting THEN "start" ELSE "idle")

\* Fault: the pin is released without the lock.
UnhookUnlocked(a) ==
    /\ pc[a] = "unhook"
    /\ ledc' = ledc \ {attached} /\ on' = on \ {attached}
    /\ Goto(a, "unhooked")
    /\ UNCHANGED <<cfgVars, pinVars, loopVars, lock, restarting, running, probe, driven>>

\* _detachPin() under the lock: the peripheral lets go, then the pin is
\* driven low and given up.  Without the lock it is left to the next tick.
Unhook(a) ==
    /\ pc[a] = "unhook"
    /\ \/ /\ lock = Absent
          /\ lock' = a
          /\ ledc' = ledc \ {attached}
          /\ on' = on \ {attached}
          /\ Goto(a, "unhooked")
          /\ UNCHANGED <<reconfigure, driven>>
       \/ /\ lock # Absent
          /\ reconfigure' = TRUE
          /\ Return(a)
          /\ UNCHANGED <<lock, gateVars>>
    /\ UNCHANGED <<cfgVars, attached, owned, loopVars, restarting, running, probe>>

Unhooked(a) ==
    /\ pc[a] = "unhooked"
    /\ attached' = Absent /\ owned' = Absent
    /\ IF owned # Absent THEN DriveLow(owned) ELSE UNCHANGED gateVars
    /\ lock' = IF lock = a THEN Absent ELSE lock
    /\ Return(a)
    /\ UNCHANGED <<cfgVars, reconfigure, loopVars, restarting, running, probe>>

-----------------------------------------------------------------------------
(* ProcessingTask: tick(), then whatever else the loop has to do.          *)

\* Fault: the task ends as it is.
TickBeginsNoStop ==
    /\ pc[Control] = "top"
    /\ Goto(Control, IF ~running THEN "gone" ELSE IF reconfigure THEN "relock" ELSE "check")
    /\ UNCHANGED <<cfgVars, pinVars, loopVars, lock, restarting, running, probe, gateVars>>

TickBegins ==
    /\ pc[Control] = "top"
    /\ Goto(Control, IF ~running THEN "park" ELSE IF reconfigure THEN "relock" ELSE "check")
    /\ UNCHANGED <<cfgVars, pinVars, loopVars, lock, restarting, running, probe, gateVars>>

\* A pending reconfiguration, or another try at the next tick.
Relock ==
    /\ pc[Control] = "relock"
    /\ \/ /\ lock = Absent
          /\ lock' = Control
          /\ reconfigure' = FALSE
          /\ heating' = FALSE
          /\ IF attached # Absent
             THEN /\ on' = on \ {attached} /\ ledc' = ledc \ {attached}
                  /\ UNCHANGED driven
             ELSE SafeOff
          /\ Goto(Control, "setup")
       \/ /\ lock # Absent
          /\ SafeOff
          /\ Goto(Control, "work")
          /\ UNCHANGED <<lock, reconfigure, heating>>
    /\ UNCHANGED <<cfgVars, attached, owned, fault, latch, restarting, running, probe>>

\* _attachPin(): the old pin is given up, the new one driven low and handed
\* to the PWM, which may fail.
Attach ==
    LET parked == IF owned = Absent THEN {} ELSE {owned} IN
    IF enabled /\ pin \in Usable
    THEN /\ driven' = driven \cup parked \cup {pin}
         /\ owned' = pin
         /\ \/ attached' = pin /\ ledc' = {pin} /\ UNCHANGED fault
            \/ AttachFails /\ attached' = Absent /\ ledc' = {} /\ fault' = "no pin"
         /\ on' = {}
    ELSE /\ driven' = driven \cup parked
         /\ owned' = Absent /\ attached' = Absent
         /\ ledc' = {} /\ on' = {}
         /\ fault' = IF enabled /\ pin # Absent THEN "no pin" ELSE fault

Setup ==
    /\ pc[Control] = "setup"
    /\ Attach
    /\ lock' = Absent
    /\ Goto(Control, "check")
    /\ UNCHANGED <<cfgVars, reconfigure, heating, latch, restarting, running, probe>>

\* Fault: a heater that is disabled is left alone.
DisabledIdle ==
    /\ pc[Control] = "check" /\ ~enabled
    /\ Goto(Control, "work")
    /\ UNCHANGED <<cfgVars, pinVars, loopVars, lock, restarting, running, probe, gateVars>>

Disabled ==
    /\ pc[Control] = "check" /\ ~enabled
    /\ heating' = FALSE
    /\ ForceOff
    /\ Goto(Control, "work")
    /\ UNCHANGED <<cfgVars, pinVars, fault, latch, lock, restarting, running, probe>>

\* Less than CONTROL_PERIOD_MS since the last control step.
TooSoon ==
    /\ pc[Control] = "check" /\ enabled
    /\ Goto(Control, "work")
    /\ UNCHANGED <<cfgVars, pinVars, loopVars, lock, restarting, running, probe, gateVars>>

Due ==
    /\ pc[Control] = "check" /\ enabled
    /\ Goto(Control, "control")
    /\ UNCHANGED <<cfgVars, pinVars, loopVars, lock, restarting, running, probe, gateVars>>

Cut(reason) ==
    /\ heating' = FALSE /\ fault' = reason
    /\ ForceOff
    /\ Goto(Control, "work")

Latched ==
    \/ probe >= MaxTemp
    \/ latch /\ probe >= MaxTemp - ClearMargin

\* Hysteresis: inside the band the state is held.
Demand(target) ==
    \/ probe <= target - Half
    \/ heating /\ probe < target + Half

\* Fault: only a temperature that is too high is a reason to cut.
ControlStepWithoutProbe ==
    /\ pc[Control] = "control"
    /\ IF attached = Absent THEN Cut("no pin") /\ UNCHANGED latch
       ELSE IF probe = Absent THEN Goto(Control, "work") /\ UNCHANGED <<loopVars, gateVars>>
       ELSE /\ latch' = Latched
            /\ IF Latched THEN Cut("overtemp")
               ELSE \E t \in Targets :
                      /\ heating' = Demand(t) /\ fault' = "none"
                      /\ IF Demand(t) THEN Goto(Control, "apply") /\ UNCHANGED gateVars
                         ELSE /\ on' = on \ ledc /\ UNCHANGED <<ledc, driven>>
                              /\ Goto(Control, "work")
    /\ UNCHANGED <<cfgVars, pinVars, lock, restarting, running, probe>>

ControlStep ==
    /\ pc[Control] = "control"
    /\ IF attached = Absent THEN Cut("no pin") /\ UNCHANGED latch
       ELSE IF probe = Absent THEN Cut("stale") /\ UNCHANGED latch
       ELSE /\ latch' = Latched
            /\ IF Latched THEN Cut("overtemp")
               ELSE \E t \in Targets :
                      /\ heating' = Demand(t) /\ fault' = "none"
                      /\ IF Demand(t) THEN Goto(Control, "apply") /\ UNCHANGED gateVars
                         ELSE /\ on' = on \ ledc /\ UNCHANGED <<ledc, driven>>
                              /\ Goto(Control, "work")
    /\ UNCHANGED <<cfgVars, pinVars, lock, restarting, running, probe>>

\* _applyDuty(): a look at _attached, then the write to whatever is attached
\* by then.
Apply ==
    /\ pc[Control] = "apply"
    /\ Goto(Control, IF attached # Absent THEN "write" ELSE "work")
    /\ UNCHANGED <<cfgVars, pinVars, loopVars, lock, restarting, running, probe, gateVars>>

Write ==
    /\ pc[Control] = "write"
    /\ on' = on \cup (ledc \cap {attached})
    /\ Goto(Control, "work")
    /\ UNCHANGED <<cfgVars, pinVars, loopVars, lock, restarting, running, probe, ledc, driven>>

\* The rest of the loop: a reading, its alerts, an MQTT publish.
Work ==
    /\ pc[Control] = "work"
    /\ Goto(Control, "top")
    /\ UNCHANGED <<cfgVars, pinVars, loopVars, lock, restarting, running, probe, gateVars>>

-----------------------------------------------------------------------------
(* The web task.                                                           *)

\* POST /api/modules/heater/enable
Enable ==
    /\ pc[Web] = "idle"
    /\ enabled' = TRUE
    /\ Goto(Web, "start")
    /\ UNCHANGED <<pin, pinVars, loopVars, lock, restarting, running, probe, gateVars>>

Disable ==
    /\ pc[Web] = "idle"
    /\ enabled' = FALSE
    /\ restarting' = FALSE
    /\ Goto(Web, "park")
    /\ UNCHANGED <<pin, pinVars, loopVars, lock, running, probe, gateVars>>

\* POST /api/modules/heater/restart
Restart ==
    /\ pc[Web] = "idle" /\ enabled
    /\ restarting' = TRUE
    /\ Goto(Web, "park")
    /\ UNCHANGED <<cfgVars, pinVars, loopVars, lock, running, probe, gateVars>>

Start ==
    /\ pc[Web] = "start"
    /\ reconfigure' = TRUE
    /\ Goto(Web, "idle")
    /\ UNCHANGED <<cfgVars, attached, owned, loopVars, lock, restarting, running, probe, gateVars>>

\* POST /api/modules/heater: load() forces the output off, then takes the
\* fields over one after another.  A new PWM frequency or polarity asks for a
\* reconfiguration as a new pin does.  Without the lock nothing is done.
LoadBegins ==
    /\ pc[Web] = "idle" /\ lock = Absent
    /\ lock' = Web
    /\ heating' = FALSE
    /\ ForceOff
    /\ Goto(Web, "load")
    /\ UNCHANGED <<cfgVars, pinVars, fault, latch, restarting, running, probe>>

\* Fault: any number is taken for a pin.
LoadUnchecked ==
    /\ pc[Web] = "load"
    /\ enabled' \in BOOLEAN
    /\ pin' \in Pins \cup {Absent, "no GPIO"}
    /\ reconfigure' \in {reconfigure \/ pin' # pin, TRUE}
    /\ lock' = Absent
    /\ Goto(Web, "flag")
    /\ UNCHANGED <<attached, owned, loopVars, restarting, running, probe, gateVars>>

Load ==
    /\ pc[Web] = "load"
    /\ enabled' \in BOOLEAN
    /\ pin' \in Pins \cup {Absent}
    /\ reconfigure' \in {reconfigure \/ pin' # pin, TRUE}
    /\ lock' = Absent
    /\ Goto(Web, "flag")
    /\ UNCHANGED <<attached, owned, loopVars, restarting, running, probe, gateVars>>

\* The request's own "enabled", after load().
SetEnabled ==
    /\ pc[Web] = "flag"
    /\ enabled' \in BOOLEAN
    /\ Goto(Web, "idle")
    /\ UNCHANGED <<pin, pinVars, loopVars, lock, restarting, running, probe, gateVars>>

\* A pin out of range is answered 400, with `enabled' taken over already.
LoadRefused ==
    /\ pc[Web] = "load"
    /\ enabled' \in BOOLEAN
    /\ lock' = Absent
    /\ Goto(Web, "idle")
    /\ UNCHANGED <<pin, pinVars, loopVars, restarting, running, probe, gateVars>>

-----------------------------------------------------------------------------
(* Shutdown, and the world.                                                *)

Shutdown ==
    /\ pc[Loop] = "up"
    /\ Goto(Loop, "park")
    /\ UNCHANGED <<cfgVars, pinVars, loopVars, lock, restarting, running, probe, gateVars>>

StopTasks ==
    /\ pc[Loop] = "stopped"
    /\ running' = FALSE
    /\ Goto(Loop, "wait")
    /\ UNCHANGED <<cfgVars, pinVars, loopVars, lock, restarting, probe, gateVars>>

\* The task has deleted itself, or it has not in four seconds and is deleted
\* where it hangs.
Sleep ==
    /\ pc[Loop] = "wait"
    /\ \/ pc[Control] = "gone" /\ Goto(Loop, "asleep")
       \/ /\ pc[Control] = "work"
          /\ pc' = [pc EXCEPT ![Loop] = "asleep", ![Control] = "killed"]
    /\ UNCHANGED <<cfgVars, pinVars, loopVars, lock, restarting, running, probe, gateVars>>

Measure ==
    /\ probe' \in Temps \cup {Absent}
    /\ UNCHANGED <<cfgVars, pinVars, loopVars, lock, pc, restarting, running, gateVars>>

Stopping(a) == Park(a) \/ Unhook(a) \/ Unhooked(a)

ControlTask ==
    \/ TickBegins \/ Relock \/ Setup \/ Disabled \/ TooSoon \/ Due
    \/ ControlStep \/ Apply \/ Write \/ Work \/ Stopping(Control)
WebTask ==
    \/ Enable \/ Disable \/ Restart \/ Start \/ LoadBegins \/ Load \/ SetEnabled
    \/ LoadRefused \/ Stopping(Web)
LoopTask == Shutdown \/ StopTasks \/ Sleep \/ Stopping(Loop)

Next == ControlTask \/ WebTask \/ LoopTask \/ Measure

Spec == Init /\ [][Next]_vars

\* The control loop runs on and comes round to a control step; a request that
\* has been begun is finished.
Fairness ==
    /\ WF_vars(ControlTask) /\ SF_vars(Due) /\ SF_vars(Relock /\ lock = Absent)
    /\ WF_vars(Start \/ Load \/ SetEnabled \/ LoadRefused \/ Stopping(Web))
    /\ WF_vars(StopTasks \/ Sleep \/ Stopping(Loop))

FairSpec == Spec /\ Fairness

-----------------------------------------------------------------------------

\* Every variable keeps the shape the code gives it.
TypeOK ==
    /\ enabled \in BOOLEAN /\ pin \in Pins \cup {Absent}
    /\ attached \in Pins \cup {Absent} /\ owned \in Pins \cup {Absent}
    /\ reconfigure \in BOOLEAN
    /\ heating \in BOOLEAN /\ fault \in Faults /\ latch \in BOOLEAN
    /\ lock \in Actors \cup {Absent}
    /\ pc \in [Actors -> Labels]
    /\ restarting \in BOOLEAN /\ running \in BOOLEAN
    /\ probe \in Temps \cup {Absent}
    /\ ledc \subseteq Pins /\ on \subseteq Pins /\ driven \subseteq Pins

\* Whatever a request does in the middle of a tick, the PWM drives no pin but
\* the one attached, and nothing else is at its active level: after stop()
\* has given the pin up a write still on its way reaches nothing.
OnlyAttachedOn == on \subseteq ledc /\ ledc \subseteq {attached} \cap {owned}

\* A pin the board profile rejects is never driven, not even low.
RejectedUntouched == driven \subseteq Usable

\* Above maxTempC, and until it has cooled by the margin, the output is off.
OffWhileLatched == latch => on = {}

\* The task that drives the heater leaves it off when it ends.
OffWhenGone == pc[Control] = "gone" => on = {}

\* Nothing is left energised while the tasks are shut down.
OffWhileAsleep == pc[Loop] = "asleep" => on = {}

\* The control loop goes round: it has not been deleted where it hung.
Alive == pc[Control] # "killed"

\* A probe that has died never leaves the heater on.
DeadProbeCools == <>[](probe = Absent /\ Alive) => <>[](on = {})

\* A heater that has been switched off, by either request, goes off.
DisabledCools == <>[](~enabled /\ Alive) => <>[](on = {})

\* Enabled, on a usable pin and left alone, the heater heats when it is cold.
HeatsWhenCold ==
    <>[](/\ enabled /\ pin \in Usable /\ pc[Web] = "idle" /\ running /\ fault # "overtemp"
         /\ probe # Absent /\ (\A t \in Targets : probe <= t - Half)
         /\ probe < MaxTemp - ClearMargin)
        => <>[](on # {})
=============================================================================
