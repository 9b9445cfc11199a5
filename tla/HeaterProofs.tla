---------------------------- MODULE HeaterProofs ----------------------------
(***************************************************************************)
(* Proofs about Heater, for any pins, temperatures and thresholds.         *)
(*                                                                         *)
(* What carries the argument: whoever attaches or detaches the pin holds   *)
(* the lock and has taken the pin from the PWM first (Owners), and the     *)
(* one step that switches the output on, Write, is unreachable while the   *)
(* latch is set and once the task is on its way out (Quiet).               *)
(***************************************************************************)
EXTENDS Heater, TLAPS

\* While a task is between taking the pin from the PWM and giving it up or
\* attaching a new one, it has the lock and the PWM drives nothing.
Owners ==
    /\ \A a \in Actors : pc[a] = "unhooked" => lock = a /\ ledc = {}
    /\ pc[Control] = "setup" => lock = Control /\ ledc = {}
    /\ pc[Web] = "load" => lock = Web

\* The attached pin is one the module owns, and that is a usable one.
PinsOwned ==
    /\ attached # Absent => owned = attached
    /\ owned # Absent => owned \in Usable

\* No write is on its way while the latch is set; none is left when the task
\* ends.
Quiet ==
    /\ latch => pc[Control] \notin {"apply", "write"}
    /\ pc[Control] \in {"unhook", "unhooked", "gone"} => on = {}

Inv == TypeOK /\ OnlyAttachedOn /\ RejectedUntouched /\ OffWhileLatched
       /\ Owners /\ PinsOwned /\ Quiet

-----------------------------------------------------------------------------

\* The hard-off path drives no pin but a usable one and leaves nothing on.
LEMMA SafeOffIsOff ==
    ASSUME Inv, SafeOff
    PROVE  /\ on' = {}
           /\ ledc' \subseteq ledc
           /\ driven' \subseteq Usable /\ driven' \subseteq Pins
BY HeaterAssumption
   DEF SafeOff, DriveLow, gateVars, Inv, TypeOK, OnlyAttachedOn, RejectedUntouched,
       PinsOwned

\* So does the off path of a tick.
LEMMA ForceOffIsOff ==
    ASSUME Inv, ForceOff
    PROVE  /\ on' = {}
           /\ ledc' \subseteq ledc
           /\ driven' \subseteq Usable /\ driven' \subseteq Pins
<1>1. CASE attached # Absent
  BY <1>1, HeaterAssumption
     DEF ForceOff, gateVars, Inv, TypeOK, OnlyAttachedOn, RejectedUntouched, PinsOwned
<1>2. CASE attached = Absent
  BY <1>2, SafeOffIsOff DEF ForceOff
<1> QED BY <1>1, <1>2

\* The initial states satisfy the invariant.
LEMMA InitInv == Init => Inv
<1> SUFFICES ASSUME Init PROVE Inv OBVIOUS
<1>1. TypeOK
  <2>1. pc \in [Actors -> Labels]
    BY DEF Init, Actors, Control, Web, Loop, Labels
  <2>2. fault \in Faults
    BY DEF Init, Faults
  <2> QED BY <2>1, <2>2, HeaterAssumption DEF Init, TypeOK
<1>2. OnlyAttachedOn /\ RejectedUntouched /\ OffWhileLatched /\ PinsOwned
  BY DEF Init, OnlyAttachedOn, RejectedUntouched, OffWhileLatched, PinsOwned
<1>3. Owners /\ Quiet
  BY DEF Init, Owners, Quiet, Actors, Control, Web, Loop
<1> QED BY <1>1, <1>2, <1>3 DEF Inv

-----------------------------------------------------------------------------
\* Dropping the output in the middle of a tick disturbs no part of it.
LEMMA ParkInv == ASSUME Inv, NEW a \in Actors, Park(a) PROVE Inv'
<1>1. pc' \in [Actors -> Labels]
  <2> {"unhook"} \subseteq Labels
    BY DEF Labels
  <2> QED BY DEF Park, Goto, Inv, TypeOK, Actors, Control, Web, Loop
<1>2. TypeOK'
  <2>1. lock' \in Actors \cup {Absent}
    BY DEF Park, Inv, TypeOK
  <2>2. ledc' \subseteq Pins /\ on' \subseteq Pins /\ driven' \subseteq Pins
    BY SafeOffIsOff, HeaterAssumption
    DEF Park, Inv, TypeOK, OnlyAttachedOn, RejectedUntouched, PinsOwned, gateVars
  <2> QED
    BY <1>1, <2>1, <2>2, HeaterAssumption
    DEF Park, Inv, TypeOK, Owners, Faults, cfgVars, loopVars, gateVars, pinVars
<1>3. OnlyAttachedOn' /\ PinsOwned'
  BY SafeOffIsOff, HeaterAssumption
  DEF Park, Inv, TypeOK, OnlyAttachedOn, PinsOwned, Owners, Actors, Control, Web, Loop,
      cfgVars, loopVars, gateVars, pinVars
<1>4. RejectedUntouched'
  BY SafeOffIsOff, HeaterAssumption
  DEF Park, Inv, TypeOK, RejectedUntouched, PinsOwned, cfgVars, loopVars, gateVars,
      pinVars
<1>5. OffWhileLatched' /\ Quiet'
  BY SafeOffIsOff, HeaterAssumption
  DEF Park, Inv, TypeOK, OnlyAttachedOn, OffWhileLatched, Quiet, Owners, PinsOwned, Goto,
      Actors, Control, Web, Loop, cfgVars, loopVars, gateVars, pinVars
<1>6. Owners'
  BY SafeOffIsOff, HeaterAssumption
  DEF Park, Inv, TypeOK, OnlyAttachedOn, Owners, PinsOwned, Goto, Actors, Control, Web,
      Loop, cfgVars, loopVars, gateVars, pinVars
<1> QED BY <1>2, <1>3, <1>4, <1>5, <1>6 DEF Inv

\* The pin is taken from the PWM under the lock, or left alone.
LEMMA UnhookInv == ASSUME Inv, NEW a \in Actors, Unhook(a) PROVE Inv'
<1>1. pc' \in [Actors -> Labels]
  <2> {"unhooked", "gone", "stopped", "start", "idle"} \subseteq Labels
    BY DEF Labels
  <2> QED BY DEF Unhook, Goto, Inv, TypeOK, Actors, Control, Web, Loop, Return
<1>2. TypeOK'
  <2>1. lock' \in Actors \cup {Absent}
    BY DEF Unhook, Inv, TypeOK, Actors, Control, Web, Loop
  <2>2. ledc' \subseteq Pins /\ on' \subseteq Pins /\ driven' \subseteq Pins
    BY HeaterAssumption
    DEF Unhook, Inv, TypeOK, OnlyAttachedOn, RejectedUntouched, PinsOwned, gateVars,
        Return
  <2>3. reconfigure' \in BOOLEAN
    BY Zenon DEF Unhook, Inv, TypeOK
  <2>4. enabled' \in BOOLEAN /\ pin' \in Pins \cup {Absent} /\ reconfigure' \in BOOLEAN
    BY <1>1, <2>1, <2>2, <2>3, HeaterAssumption
    DEF Unhook, Inv, TypeOK, Owners, Faults, cfgVars, loopVars, gateVars, pinVars
  <2>5. attached' \in Pins \cup {Absent} /\ owned' \in Pins \cup {Absent}
    BY <1>1, <2>1, <2>2, <2>3, HeaterAssumption
    DEF Unhook, Inv, TypeOK, Owners, Faults, cfgVars, loopVars, gateVars, pinVars
  <2>6. heating' \in BOOLEAN /\ fault' \in Faults /\ latch' \in BOOLEAN
    BY <1>1, <2>1, <2>2, <2>3, HeaterAssumption
    DEF Unhook, Inv, TypeOK, Owners, Faults, cfgVars, loopVars, gateVars, pinVars
  <2>7. restarting' \in BOOLEAN /\ running' \in BOOLEAN /\ probe' \in Temps \cup {Absent}
    BY <1>1, <2>1, <2>2, <2>3, HeaterAssumption
    DEF Unhook, Inv, TypeOK, Owners, Faults, cfgVars, loopVars, gateVars, pinVars
  <2> QED
    BY <1>1, <2>1, <2>2, <2>3, <2>4, <2>5, <2>6, <2>7, Zenon DEF TypeOK
<1>3. OnlyAttachedOn' /\ PinsOwned'
  BY HeaterAssumption
  DEF Unhook, Inv, TypeOK, OnlyAttachedOn, PinsOwned, Owners, Actors, Control, Web, Loop,
      cfgVars, loopVars, gateVars, pinVars, Return
<1>4. RejectedUntouched'
  BY HeaterAssumption
  DEF Unhook, Inv, TypeOK, RejectedUntouched, PinsOwned, cfgVars, loopVars, gateVars,
      pinVars, Return
<1>5. OffWhileLatched' /\ Quiet'
  BY HeaterAssumption
  DEF Unhook, Inv, TypeOK, OnlyAttachedOn, OffWhileLatched, Quiet, Owners, PinsOwned,
      Goto, Actors, Control, Web, Loop, cfgVars, loopVars, gateVars, pinVars, Return
<1>6. Owners'
  BY HeaterAssumption
  DEF Unhook, Inv, TypeOK, OnlyAttachedOn, Owners, PinsOwned, Goto, Actors, Control, Web,
      Loop, cfgVars, loopVars, gateVars, pinVars, Return
<1> QED BY <1>2, <1>3, <1>4, <1>5, <1>6 DEF Inv

\* The pin is given up by whoever holds the lock.
LEMMA UnhookedInv == ASSUME Inv, NEW a \in Actors, Unhooked(a) PROVE Inv'
<1>1. pc' \in [Actors -> Labels]
  <2> {"gone", "stopped", "start", "idle"} \subseteq Labels
    BY DEF Labels
  <2> QED BY DEF Unhooked, Goto, Inv, TypeOK, Actors, Control, Web, Loop, Return
<1>2. TypeOK'
  <2>1. lock' \in Actors \cup {Absent}
    BY DEF Unhooked, Inv, TypeOK, Actors, Control, Web, Loop
  <2>2. ledc' \subseteq Pins /\ on' \subseteq Pins /\ driven' \subseteq Pins
    BY HeaterAssumption
    DEF Unhooked, Inv, TypeOK, OnlyAttachedOn, RejectedUntouched, PinsOwned, gateVars,
        Return, DriveLow
  <2> QED
    BY <1>1, <2>1, <2>2, HeaterAssumption
    DEF Unhooked, Inv, TypeOK, Owners, Faults, cfgVars, loopVars, gateVars, pinVars,
        Return, DriveLow
<1>3. OnlyAttachedOn' /\ PinsOwned'
  BY HeaterAssumption
  DEF Unhooked, Inv, TypeOK, OnlyAttachedOn, PinsOwned, Owners, Actors, Control, Web,
      Loop, cfgVars, loopVars, gateVars, pinVars, Return, DriveLow
<1>4. RejectedUntouched'
  BY HeaterAssumption
  DEF Unhooked, Inv, TypeOK, RejectedUntouched, PinsOwned, cfgVars, loopVars, gateVars,
      pinVars, Return, DriveLow
<1>5. OffWhileLatched' /\ Quiet'
  BY HeaterAssumption
  DEF Unhooked, Inv, TypeOK, OnlyAttachedOn, OffWhileLatched, Quiet, Owners, PinsOwned,
      Goto, Actors, Control, Web, Loop, cfgVars, loopVars, gateVars, pinVars, Return,
      DriveLow
<1>6. Owners'
  BY HeaterAssumption
  DEF Unhooked, Inv, TypeOK, OnlyAttachedOn, Owners, PinsOwned, Goto, Actors, Control,
      Web, Loop, cfgVars, loopVars, gateVars, pinVars, Return, DriveLow
<1> QED BY <1>2, <1>3, <1>4, <1>5, <1>6 DEF Inv

\* The head of a tick writes nothing.
LEMMA TickBeginsInv == ASSUME Inv, TickBegins PROVE Inv'
<1>1. pc' \in [Actors -> Labels]
  <2> {"park", "relock", "check"} \subseteq Labels
    BY DEF Labels
  <2> QED BY DEF TickBegins, Goto, Inv, TypeOK, Actors, Control, Web, Loop
<1>2. TypeOK'
  <2>1. lock' \in Actors \cup {Absent}
    BY DEF TickBegins, Inv, TypeOK
  <2>2. ledc' \subseteq Pins /\ on' \subseteq Pins /\ driven' \subseteq Pins
    BY HeaterAssumption
    DEF TickBegins, Inv, TypeOK, OnlyAttachedOn, RejectedUntouched, PinsOwned, gateVars
  <2>3. enabled' \in BOOLEAN /\ pin' \in Pins \cup {Absent} /\ reconfigure' \in BOOLEAN
    BY <1>1, <2>1, <2>2, HeaterAssumption
    DEF TickBegins, Inv, TypeOK, Owners, Faults, cfgVars, loopVars, gateVars, pinVars
  <2>4. attached' \in Pins \cup {Absent} /\ owned' \in Pins \cup {Absent}
    BY <1>1, <2>1, <2>2, HeaterAssumption
    DEF TickBegins, Inv, TypeOK, Owners, Faults, cfgVars, loopVars, gateVars, pinVars
  <2>5. heating' \in BOOLEAN /\ fault' \in Faults /\ latch' \in BOOLEAN
    BY <1>1, <2>1, <2>2, HeaterAssumption
    DEF TickBegins, Inv, TypeOK, Owners, Faults, cfgVars, loopVars, gateVars, pinVars
  <2>6. restarting' \in BOOLEAN /\ running' \in BOOLEAN /\ probe' \in Temps \cup {Absent}
    BY <1>1, <2>1, <2>2, HeaterAssumption
    DEF TickBegins, Inv, TypeOK, Owners, Faults, cfgVars, loopVars, gateVars, pinVars
  <2> QED
    BY <1>1, <2>1, <2>2, <2>3, <2>4, <2>5, <2>6, Zenon DEF TypeOK
<1>3. OnlyAttachedOn' /\ PinsOwned'
  BY HeaterAssumption
  DEF TickBegins, Inv, TypeOK, OnlyAttachedOn, PinsOwned, Owners, Actors, Control, Web,
      Loop, cfgVars, loopVars, gateVars, pinVars
<1>4. RejectedUntouched'
  BY HeaterAssumption
  DEF TickBegins, Inv, TypeOK, RejectedUntouched, PinsOwned, cfgVars, loopVars, gateVars,
      pinVars
<1>5. OffWhileLatched' /\ Quiet'
  BY HeaterAssumption
  DEF TickBegins, Inv, TypeOK, OnlyAttachedOn, OffWhileLatched, Quiet, Owners, PinsOwned,
      Goto, Actors, Control, Web, Loop, cfgVars, loopVars, gateVars, pinVars
<1>6. Owners'
  BY HeaterAssumption
  DEF TickBegins, Inv, TypeOK, OnlyAttachedOn, Owners, PinsOwned, Goto, Actors, Control,
      Web, Loop, cfgVars, loopVars, gateVars, pinVars
<1> QED BY <1>2, <1>3, <1>4, <1>5, <1>6 DEF Inv

\* A reconfiguration takes the pin from the PWM before it attaches another.
LEMMA RelockInv == ASSUME Inv, Relock PROVE Inv'
<1>1. pc' \in [Actors -> Labels]
  <2> {"setup", "work"} \subseteq Labels
    BY DEF Labels
  <2> QED BY DEF Relock, Goto, Inv, TypeOK, Actors, Control, Web, Loop
<1>2. TypeOK'
  <2>1. lock' \in Actors \cup {Absent}
    BY DEF Relock, Inv, TypeOK, Actors, Control, Web, Loop
  <2>2. ledc' \subseteq Pins /\ on' \subseteq Pins /\ driven' \subseteq Pins
    BY HeaterAssumption
    DEF Relock, Inv, TypeOK, OnlyAttachedOn, RejectedUntouched, PinsOwned, gateVars,
        SafeOff, DriveLow
  <2>3. reconfigure' \in BOOLEAN /\ heating' \in BOOLEAN
    BY Zenon DEF Relock, Inv, TypeOK
  <2> QED
    BY <1>1, <2>1, <2>2, <2>3, HeaterAssumption
    DEF Relock, Inv, TypeOK, Owners, Faults, cfgVars, loopVars, gateVars, pinVars
<1>3. OnlyAttachedOn' /\ PinsOwned'
  BY HeaterAssumption
  DEF Relock, Inv, TypeOK, OnlyAttachedOn, PinsOwned, Owners, Actors, Control, Web, Loop,
      cfgVars, loopVars, gateVars, pinVars, SafeOff, DriveLow
<1>4. RejectedUntouched'
  BY HeaterAssumption
  DEF Relock, Inv, TypeOK, RejectedUntouched, PinsOwned, cfgVars, loopVars, gateVars,
      pinVars, SafeOff, DriveLow
<1>5. OffWhileLatched' /\ Quiet'
  BY HeaterAssumption
  DEF Relock, Inv, TypeOK, OnlyAttachedOn, OffWhileLatched, Quiet, Owners, PinsOwned,
      Goto, Actors, Control, Web, Loop, cfgVars, loopVars, gateVars, pinVars, SafeOff,
      DriveLow
<1>6. Owners'
  BY HeaterAssumption
  DEF Relock, Inv, TypeOK, OnlyAttachedOn, Owners, PinsOwned, Goto, Actors, Control, Web,
      Loop, cfgVars, loopVars, gateVars, pinVars, SafeOff, DriveLow
<1> QED BY <1>2, <1>3, <1>4, <1>5, <1>6 DEF Inv

\* A pin is attached only when the profile accepts it.
LEMMA SetupInv == ASSUME Inv, Setup PROVE Inv'
<1>1. pc' \in [Actors -> Labels]
  <2> {"check"} \subseteq Labels
    BY DEF Labels
  <2> QED BY DEF Setup, Goto, Inv, TypeOK, Actors, Control, Web, Loop, Attach
<1>2. TypeOK'
  <2>1. lock' \in Actors \cup {Absent}
    BY DEF Setup, Inv, TypeOK, Actors, Control, Web, Loop
  <2>2. ledc' \subseteq Pins /\ on' \subseteq Pins /\ driven' \subseteq Pins
    BY HeaterAssumption
    DEF Setup, Inv, TypeOK, OnlyAttachedOn, RejectedUntouched, PinsOwned, gateVars, Attach
  <2> QED
    BY <1>1, <2>1, <2>2, HeaterAssumption
    DEF Setup, Inv, TypeOK, Owners, Faults, cfgVars, loopVars, gateVars, pinVars, Attach
<1>3. OnlyAttachedOn' /\ PinsOwned'
  BY HeaterAssumption
  DEF Setup, Inv, TypeOK, OnlyAttachedOn, PinsOwned, Owners, Actors, Control, Web, Loop,
      cfgVars, loopVars, gateVars, pinVars, Attach
<1>4. RejectedUntouched'
  BY HeaterAssumption
  DEF Setup, Inv, TypeOK, RejectedUntouched, PinsOwned, cfgVars, loopVars, gateVars,
      pinVars, Attach
<1>5. OffWhileLatched' /\ Quiet'
  BY HeaterAssumption
  DEF Setup, Inv, TypeOK, OnlyAttachedOn, OffWhileLatched, Quiet, Owners, PinsOwned, Goto,
      Actors, Control, Web, Loop, cfgVars, loopVars, gateVars, pinVars, Attach
<1>6. Owners'
  BY HeaterAssumption
  DEF Setup, Inv, TypeOK, OnlyAttachedOn, Owners, PinsOwned, Goto, Actors, Control, Web,
      Loop, cfgVars, loopVars, gateVars, pinVars, Attach
<1> QED BY <1>2, <1>3, <1>4, <1>5, <1>6 DEF Inv

\* A disabled heater is cut.
LEMMA DisabledInv == ASSUME Inv, Disabled PROVE Inv'
<1>1. pc' \in [Actors -> Labels]
  <2> {"work"} \subseteq Labels
    BY DEF Labels
  <2> QED BY DEF Disabled, Goto, Inv, TypeOK, Actors, Control, Web, Loop
<1>2. TypeOK'
  <2>1. lock' \in Actors \cup {Absent}
    BY DEF Disabled, Inv, TypeOK
  <2>2. ledc' \subseteq Pins /\ on' \subseteq Pins /\ driven' \subseteq Pins
    BY ForceOffIsOff, HeaterAssumption
    DEF Disabled, Inv, TypeOK, OnlyAttachedOn, RejectedUntouched, PinsOwned, gateVars
  <2> QED
    BY <1>1, <2>1, <2>2, HeaterAssumption
    DEF Disabled, Inv, TypeOK, Owners, Faults, cfgVars, loopVars, gateVars, pinVars
<1>3. OnlyAttachedOn' /\ PinsOwned'
  BY ForceOffIsOff, HeaterAssumption
  DEF Disabled, Inv, TypeOK, OnlyAttachedOn, PinsOwned, Owners, Actors, Control, Web,
      Loop, cfgVars, loopVars, gateVars, pinVars
<1>4. RejectedUntouched'
  BY ForceOffIsOff, HeaterAssumption
  DEF Disabled, Inv, TypeOK, RejectedUntouched, PinsOwned, cfgVars, loopVars, gateVars,
      pinVars
<1>5. OffWhileLatched' /\ Quiet'
  BY ForceOffIsOff, HeaterAssumption
  DEF Disabled, Inv, TypeOK, OnlyAttachedOn, OffWhileLatched, Quiet, Owners, PinsOwned,
      Goto, Actors, Control, Web, Loop, cfgVars, loopVars, gateVars, pinVars
<1>6. Owners'
  BY ForceOffIsOff, HeaterAssumption
  DEF Disabled, Inv, TypeOK, OnlyAttachedOn, Owners, PinsOwned, Goto, Actors, Control,
      Web, Loop, cfgVars, loopVars, gateVars, pinVars
<1> QED BY <1>2, <1>3, <1>4, <1>5, <1>6 DEF Inv

\* Waiting writes nothing.
LEMMA TooSoonInv == ASSUME Inv, TooSoon PROVE Inv'
<1>1. pc' \in [Actors -> Labels]
  <2> {"work"} \subseteq Labels
    BY DEF Labels
  <2> QED BY DEF TooSoon, Goto, Inv, TypeOK, Actors, Control, Web, Loop
<1>2. TypeOK'
  <2>1. lock' \in Actors \cup {Absent}
    BY DEF TooSoon, Inv, TypeOK
  <2>2. ledc' \subseteq Pins /\ on' \subseteq Pins /\ driven' \subseteq Pins
    BY HeaterAssumption
    DEF TooSoon, Inv, TypeOK, OnlyAttachedOn, RejectedUntouched, PinsOwned, gateVars
  <2> QED
    BY <1>1, <2>1, <2>2, HeaterAssumption
    DEF TooSoon, Inv, TypeOK, Owners, Faults, cfgVars, loopVars, gateVars, pinVars
<1>3. OnlyAttachedOn' /\ PinsOwned'
  BY HeaterAssumption
  DEF TooSoon, Inv, TypeOK, OnlyAttachedOn, PinsOwned, Owners, Actors, Control, Web, Loop,
      cfgVars, loopVars, gateVars, pinVars
<1>4. RejectedUntouched'
  BY HeaterAssumption
  DEF TooSoon, Inv, TypeOK, RejectedUntouched, PinsOwned, cfgVars, loopVars, gateVars,
      pinVars
<1>5. OffWhileLatched' /\ Quiet'
  BY HeaterAssumption
  DEF TooSoon, Inv, TypeOK, OnlyAttachedOn, OffWhileLatched, Quiet, Owners, PinsOwned,
      Goto, Actors, Control, Web, Loop, cfgVars, loopVars, gateVars, pinVars
<1>6. Owners'
  BY HeaterAssumption
  DEF TooSoon, Inv, TypeOK, OnlyAttachedOn, Owners, PinsOwned, Goto, Actors, Control, Web,
      Loop, cfgVars, loopVars, gateVars, pinVars
<1> QED BY <1>2, <1>3, <1>4, <1>5, <1>6 DEF Inv

\* The rate limit writes nothing.
LEMMA DueInv == ASSUME Inv, Due PROVE Inv'
<1>1. pc' \in [Actors -> Labels]
  <2> {"control"} \subseteq Labels
    BY DEF Labels
  <2> QED BY DEF Due, Goto, Inv, TypeOK, Actors, Control, Web, Loop
<1>2. TypeOK'
  <2>1. lock' \in Actors \cup {Absent}
    BY DEF Due, Inv, TypeOK
  <2>2. ledc' \subseteq Pins /\ on' \subseteq Pins /\ driven' \subseteq Pins
    BY HeaterAssumption
    DEF Due, Inv, TypeOK, OnlyAttachedOn, RejectedUntouched, PinsOwned, gateVars
  <2> QED
    BY <1>1, <2>1, <2>2, HeaterAssumption
    DEF Due, Inv, TypeOK, Owners, Faults, cfgVars, loopVars, gateVars, pinVars
<1>3. OnlyAttachedOn' /\ PinsOwned'
  BY HeaterAssumption
  DEF Due, Inv, TypeOK, OnlyAttachedOn, PinsOwned, Owners, Actors, Control, Web, Loop,
      cfgVars, loopVars, gateVars, pinVars
<1>4. RejectedUntouched'
  BY HeaterAssumption
  DEF Due, Inv, TypeOK, RejectedUntouched, PinsOwned, cfgVars, loopVars, gateVars, pinVars
<1>5. OffWhileLatched' /\ Quiet'
  BY HeaterAssumption
  DEF Due, Inv, TypeOK, OnlyAttachedOn, OffWhileLatched, Quiet, Owners, PinsOwned, Goto,
      Actors, Control, Web, Loop, cfgVars, loopVars, gateVars, pinVars
<1>6. Owners'
  BY HeaterAssumption
  DEF Due, Inv, TypeOK, OnlyAttachedOn, Owners, PinsOwned, Goto, Actors, Control, Web,
      Loop, cfgVars, loopVars, gateVars, pinVars
<1> QED BY <1>2, <1>3, <1>4, <1>5, <1>6 DEF Inv

\* A control step that sets the latch cuts the output in the same step.
LEMMA ControlStepInv == ASSUME Inv, ControlStep PROVE Inv'
<1>1. pc' \in [Actors -> Labels]
  <2> {"work", "apply"} \subseteq Labels
    BY DEF Labels
  <2> QED BY DEF ControlStep, Goto, Inv, TypeOK, Actors, Control, Web, Loop, Cut, Latched,
      Demand
<1>2. TypeOK'
  <2>1. lock' \in Actors \cup {Absent}
    BY DEF ControlStep, Inv, TypeOK
  <2>2. ledc' \subseteq Pins /\ on' \subseteq Pins /\ driven' \subseteq Pins
    BY ForceOffIsOff, HeaterAssumption
    DEF ControlStep, Inv, TypeOK, OnlyAttachedOn, RejectedUntouched, PinsOwned, gateVars,
        Cut, Latched, Demand
  <2> QED
    BY <1>1, <2>1, <2>2, HeaterAssumption
    DEF ControlStep, Inv, TypeOK, Owners, Faults, cfgVars, loopVars, gateVars, pinVars,
        Cut, Latched, Demand
<1>3. OnlyAttachedOn' /\ PinsOwned'
  BY ForceOffIsOff, HeaterAssumption
  DEF ControlStep, Inv, TypeOK, OnlyAttachedOn, PinsOwned, Owners, Actors, Control, Web,
      Loop, cfgVars, loopVars, gateVars, pinVars, Cut, Latched, Demand
<1>4. RejectedUntouched'
  BY ForceOffIsOff, HeaterAssumption
  DEF ControlStep, Inv, TypeOK, RejectedUntouched, PinsOwned, cfgVars, loopVars, gateVars,
      pinVars, Cut, Latched, Demand
<1>5. OffWhileLatched' /\ Quiet'
  BY ForceOffIsOff, HeaterAssumption
  DEF ControlStep, Inv, TypeOK, OnlyAttachedOn, OffWhileLatched, Quiet, Owners, PinsOwned,
      Goto, Actors, Control, Web, Loop, cfgVars, loopVars, gateVars, pinVars, Cut,
      Latched, Demand
<1>6. Owners'
  BY ForceOffIsOff, HeaterAssumption
  DEF ControlStep, Inv, TypeOK, OnlyAttachedOn, Owners, PinsOwned, Goto, Actors, Control,
      Web, Loop, cfgVars, loopVars, gateVars, pinVars, Cut, Latched, Demand
<1> QED BY <1>2, <1>3, <1>4, <1>5, <1>6 DEF Inv

\* A look at what is attached.
LEMMA ApplyInv == ASSUME Inv, Apply PROVE Inv'
<1>1. pc' \in [Actors -> Labels]
  <2> {"write", "work"} \subseteq Labels
    BY DEF Labels
  <2> QED BY DEF Apply, Goto, Inv, TypeOK, Actors, Control, Web, Loop
<1>2. TypeOK'
  <2>1. lock' \in Actors \cup {Absent}
    BY DEF Apply, Inv, TypeOK
  <2>2. ledc' \subseteq Pins /\ on' \subseteq Pins /\ driven' \subseteq Pins
    BY HeaterAssumption
    DEF Apply, Inv, TypeOK, OnlyAttachedOn, RejectedUntouched, PinsOwned, gateVars
  <2>3. enabled' \in BOOLEAN /\ pin' \in Pins \cup {Absent} /\ reconfigure' \in BOOLEAN
    BY <1>1, <2>1, <2>2, HeaterAssumption
    DEF Apply, Inv, TypeOK, Owners, Faults, cfgVars, loopVars, gateVars, pinVars
  <2>4. attached' \in Pins \cup {Absent} /\ owned' \in Pins \cup {Absent}
    BY <1>1, <2>1, <2>2, HeaterAssumption
    DEF Apply, Inv, TypeOK, Owners, Faults, cfgVars, loopVars, gateVars, pinVars
  <2>5. heating' \in BOOLEAN /\ fault' \in Faults /\ latch' \in BOOLEAN
    BY <1>1, <2>1, <2>2, HeaterAssumption
    DEF Apply, Inv, TypeOK, Owners, Faults, cfgVars, loopVars, gateVars, pinVars
  <2>6. restarting' \in BOOLEAN /\ running' \in BOOLEAN /\ probe' \in Temps \cup {Absent}
    BY <1>1, <2>1, <2>2, HeaterAssumption
    DEF Apply, Inv, TypeOK, Owners, Faults, cfgVars, loopVars, gateVars, pinVars
  <2> QED
    BY <1>1, <2>1, <2>2, <2>3, <2>4, <2>5, <2>6, Zenon DEF TypeOK
<1>3. OnlyAttachedOn' /\ PinsOwned'
  BY HeaterAssumption
  DEF Apply, Inv, TypeOK, OnlyAttachedOn, PinsOwned, Owners, Actors, Control, Web, Loop,
      cfgVars, loopVars, gateVars, pinVars
<1>4. RejectedUntouched'
  BY HeaterAssumption
  DEF Apply, Inv, TypeOK, RejectedUntouched, PinsOwned, cfgVars, loopVars, gateVars,
      pinVars
<1>5. OffWhileLatched' /\ Quiet'
  BY HeaterAssumption
  DEF Apply, Inv, TypeOK, OnlyAttachedOn, OffWhileLatched, Quiet, Owners, PinsOwned, Goto,
      Actors, Control, Web, Loop, cfgVars, loopVars, gateVars, pinVars
<1>6. Owners'
  BY HeaterAssumption
  DEF Apply, Inv, TypeOK, OnlyAttachedOn, Owners, PinsOwned, Goto, Actors, Control, Web,
      Loop, cfgVars, loopVars, gateVars, pinVars
<1> QED BY <1>2, <1>3, <1>4, <1>5, <1>6 DEF Inv

\* The output goes on: on the attached pin only, and never while latched.
LEMMA WriteInv == ASSUME Inv, Write PROVE Inv'
<1>1. pc' \in [Actors -> Labels]
  <2> {"work"} \subseteq Labels
    BY DEF Labels
  <2> QED BY DEF Write, Goto, Inv, TypeOK, Actors, Control, Web, Loop
<1>2. TypeOK'
  <2>1. lock' \in Actors \cup {Absent}
    BY DEF Write, Inv, TypeOK
  <2>2. ledc' \subseteq Pins /\ on' \subseteq Pins /\ driven' \subseteq Pins
    BY HeaterAssumption
    DEF Write, Inv, TypeOK, OnlyAttachedOn, RejectedUntouched, PinsOwned, gateVars
  <2>3. enabled' \in BOOLEAN /\ pin' \in Pins \cup {Absent} /\ reconfigure' \in BOOLEAN
    BY <1>1, <2>1, <2>2, HeaterAssumption
    DEF Write, Inv, TypeOK, Owners, Faults, cfgVars, loopVars, gateVars, pinVars
  <2>4. attached' \in Pins \cup {Absent} /\ owned' \in Pins \cup {Absent}
    BY <1>1, <2>1, <2>2, HeaterAssumption
    DEF Write, Inv, TypeOK, Owners, Faults, cfgVars, loopVars, gateVars, pinVars
  <2>5. heating' \in BOOLEAN /\ fault' \in Faults /\ latch' \in BOOLEAN
    BY <1>1, <2>1, <2>2, HeaterAssumption
    DEF Write, Inv, TypeOK, Owners, Faults, cfgVars, loopVars, gateVars, pinVars
  <2>6. restarting' \in BOOLEAN /\ running' \in BOOLEAN /\ probe' \in Temps \cup {Absent}
    BY <1>1, <2>1, <2>2, HeaterAssumption
    DEF Write, Inv, TypeOK, Owners, Faults, cfgVars, loopVars, gateVars, pinVars
  <2> QED
    BY <1>1, <2>1, <2>2, <2>3, <2>4, <2>5, <2>6, Zenon DEF TypeOK
<1>3. OnlyAttachedOn' /\ PinsOwned'
  BY HeaterAssumption
  DEF Write, Inv, TypeOK, OnlyAttachedOn, PinsOwned, Owners, Actors, Control, Web, Loop,
      cfgVars, loopVars, gateVars, pinVars
<1>4. RejectedUntouched'
  BY HeaterAssumption
  DEF Write, Inv, TypeOK, RejectedUntouched, PinsOwned, cfgVars, loopVars, gateVars,
      pinVars
<1>5. OffWhileLatched' /\ Quiet'
  BY HeaterAssumption
  DEF Write, Inv, TypeOK, OnlyAttachedOn, OffWhileLatched, Quiet, Owners, PinsOwned, Goto,
      Actors, Control, Web, Loop, cfgVars, loopVars, gateVars, pinVars
<1>6. Owners'
  BY HeaterAssumption
  DEF Write, Inv, TypeOK, OnlyAttachedOn, Owners, PinsOwned, Goto, Actors, Control, Web,
      Loop, cfgVars, loopVars, gateVars, pinVars
<1> QED BY <1>2, <1>3, <1>4, <1>5, <1>6 DEF Inv

\* The rest of the loop leaves the heater alone.
LEMMA WorkInv == ASSUME Inv, Work PROVE Inv'
<1>1. pc' \in [Actors -> Labels]
  <2> {"top"} \subseteq Labels
    BY DEF Labels
  <2> QED BY DEF Work, Goto, Inv, TypeOK, Actors, Control, Web, Loop
<1>2. TypeOK'
  <2>1. lock' \in Actors \cup {Absent}
    BY DEF Work, Inv, TypeOK
  <2>2. ledc' \subseteq Pins /\ on' \subseteq Pins /\ driven' \subseteq Pins
    BY HeaterAssumption
    DEF Work, Inv, TypeOK, OnlyAttachedOn, RejectedUntouched, PinsOwned, gateVars
  <2>3. enabled' \in BOOLEAN /\ pin' \in Pins \cup {Absent} /\ reconfigure' \in BOOLEAN
    BY <1>1, <2>1, <2>2, HeaterAssumption
    DEF Work, Inv, TypeOK, Owners, Faults, cfgVars, loopVars, gateVars, pinVars
  <2>4. attached' \in Pins \cup {Absent} /\ owned' \in Pins \cup {Absent}
    BY <1>1, <2>1, <2>2, HeaterAssumption
    DEF Work, Inv, TypeOK, Owners, Faults, cfgVars, loopVars, gateVars, pinVars
  <2>5. heating' \in BOOLEAN /\ fault' \in Faults /\ latch' \in BOOLEAN
    BY <1>1, <2>1, <2>2, HeaterAssumption
    DEF Work, Inv, TypeOK, Owners, Faults, cfgVars, loopVars, gateVars, pinVars
  <2>6. restarting' \in BOOLEAN /\ running' \in BOOLEAN /\ probe' \in Temps \cup {Absent}
    BY <1>1, <2>1, <2>2, HeaterAssumption
    DEF Work, Inv, TypeOK, Owners, Faults, cfgVars, loopVars, gateVars, pinVars
  <2> QED
    BY <1>1, <2>1, <2>2, <2>3, <2>4, <2>5, <2>6, Zenon DEF TypeOK
<1>3. OnlyAttachedOn' /\ PinsOwned'
  BY HeaterAssumption
  DEF Work, Inv, TypeOK, OnlyAttachedOn, PinsOwned, Owners, Actors, Control, Web, Loop,
      cfgVars, loopVars, gateVars, pinVars
<1>4. RejectedUntouched'
  BY HeaterAssumption
  DEF Work, Inv, TypeOK, RejectedUntouched, PinsOwned, cfgVars, loopVars, gateVars,
      pinVars
<1>5. OffWhileLatched' /\ Quiet'
  BY HeaterAssumption
  DEF Work, Inv, TypeOK, OnlyAttachedOn, OffWhileLatched, Quiet, Owners, PinsOwned, Goto,
      Actors, Control, Web, Loop, cfgVars, loopVars, gateVars, pinVars
<1>6. Owners'
  BY HeaterAssumption
  DEF Work, Inv, TypeOK, OnlyAttachedOn, Owners, PinsOwned, Goto, Actors, Control, Web,
      Loop, cfgVars, loopVars, gateVars, pinVars
<1> QED BY <1>2, <1>3, <1>4, <1>5, <1>6 DEF Inv

\* Enabling asks for a start.
LEMMA EnableInv == ASSUME Inv, Enable PROVE Inv'
<1>1. pc' \in [Actors -> Labels]
  <2> {"start"} \subseteq Labels
    BY DEF Labels
  <2> QED BY DEF Enable, Goto, Inv, TypeOK, Actors, Control, Web, Loop
<1>2. TypeOK'
  <2>1. lock' \in Actors \cup {Absent}
    BY DEF Enable, Inv, TypeOK
  <2>2. ledc' \subseteq Pins /\ on' \subseteq Pins /\ driven' \subseteq Pins
    BY HeaterAssumption
    DEF Enable, Inv, TypeOK, OnlyAttachedOn, RejectedUntouched, PinsOwned, gateVars
  <2> QED
    BY <1>1, <2>1, <2>2, HeaterAssumption
    DEF Enable, Inv, TypeOK, Owners, Faults, cfgVars, loopVars, gateVars, pinVars
<1>3. OnlyAttachedOn' /\ PinsOwned'
  BY HeaterAssumption
  DEF Enable, Inv, TypeOK, OnlyAttachedOn, PinsOwned, Owners, Actors, Control, Web, Loop,
      cfgVars, loopVars, gateVars, pinVars
<1>4. RejectedUntouched'
  BY HeaterAssumption
  DEF Enable, Inv, TypeOK, RejectedUntouched, PinsOwned, cfgVars, loopVars, gateVars,
      pinVars
<1>5. OffWhileLatched' /\ Quiet'
  BY HeaterAssumption
  DEF Enable, Inv, TypeOK, OnlyAttachedOn, OffWhileLatched, Quiet, Owners, PinsOwned,
      Goto, Actors, Control, Web, Loop, cfgVars, loopVars, gateVars, pinVars
<1>6. Owners'
  BY HeaterAssumption
  DEF Enable, Inv, TypeOK, OnlyAttachedOn, Owners, PinsOwned, Goto, Actors, Control, Web,
      Loop, cfgVars, loopVars, gateVars, pinVars
<1> QED BY <1>2, <1>3, <1>4, <1>5, <1>6 DEF Inv

\* Disabling asks for a stop.
LEMMA DisableInv == ASSUME Inv, Disable PROVE Inv'
<1>1. pc' \in [Actors -> Labels]
  <2> {"park"} \subseteq Labels
    BY DEF Labels
  <2> QED BY DEF Disable, Goto, Inv, TypeOK, Actors, Control, Web, Loop
<1>2. TypeOK'
  <2>1. lock' \in Actors \cup {Absent}
    BY DEF Disable, Inv, TypeOK
  <2>2. ledc' \subseteq Pins /\ on' \subseteq Pins /\ driven' \subseteq Pins
    BY HeaterAssumption
    DEF Disable, Inv, TypeOK, OnlyAttachedOn, RejectedUntouched, PinsOwned, gateVars
  <2> QED
    BY <1>1, <2>1, <2>2, HeaterAssumption
    DEF Disable, Inv, TypeOK, Owners, Faults, cfgVars, loopVars, gateVars, pinVars
<1>3. OnlyAttachedOn' /\ PinsOwned'
  BY HeaterAssumption
  DEF Disable, Inv, TypeOK, OnlyAttachedOn, PinsOwned, Owners, Actors, Control, Web, Loop,
      cfgVars, loopVars, gateVars, pinVars
<1>4. RejectedUntouched'
  BY HeaterAssumption
  DEF Disable, Inv, TypeOK, RejectedUntouched, PinsOwned, cfgVars, loopVars, gateVars,
      pinVars
<1>5. OffWhileLatched' /\ Quiet'
  BY HeaterAssumption
  DEF Disable, Inv, TypeOK, OnlyAttachedOn, OffWhileLatched, Quiet, Owners, PinsOwned,
      Goto, Actors, Control, Web, Loop, cfgVars, loopVars, gateVars, pinVars
<1>6. Owners'
  BY HeaterAssumption
  DEF Disable, Inv, TypeOK, OnlyAttachedOn, Owners, PinsOwned, Goto, Actors, Control, Web,
      Loop, cfgVars, loopVars, gateVars, pinVars
<1> QED BY <1>2, <1>3, <1>4, <1>5, <1>6 DEF Inv

\* Restarting asks for both.
LEMMA RestartInv == ASSUME Inv, Restart PROVE Inv'
<1>1. pc' \in [Actors -> Labels]
  <2> {"park"} \subseteq Labels
    BY DEF Labels
  <2> QED BY DEF Restart, Goto, Inv, TypeOK, Actors, Control, Web, Loop
<1>2. TypeOK'
  <2>1. lock' \in Actors \cup {Absent}
    BY DEF Restart, Inv, TypeOK
  <2>2. ledc' \subseteq Pins /\ on' \subseteq Pins /\ driven' \subseteq Pins
    BY HeaterAssumption
    DEF Restart, Inv, TypeOK, OnlyAttachedOn, RejectedUntouched, PinsOwned, gateVars
  <2> QED
    BY <1>1, <2>1, <2>2, HeaterAssumption
    DEF Restart, Inv, TypeOK, Owners, Faults, cfgVars, loopVars, gateVars, pinVars
<1>3. OnlyAttachedOn' /\ PinsOwned'
  BY HeaterAssumption
  DEF Restart, Inv, TypeOK, OnlyAttachedOn, PinsOwned, Owners, Actors, Control, Web, Loop,
      cfgVars, loopVars, gateVars, pinVars
<1>4. RejectedUntouched'
  BY HeaterAssumption
  DEF Restart, Inv, TypeOK, RejectedUntouched, PinsOwned, cfgVars, loopVars, gateVars,
      pinVars
<1>5. OffWhileLatched' /\ Quiet'
  BY HeaterAssumption
  DEF Restart, Inv, TypeOK, OnlyAttachedOn, OffWhileLatched, Quiet, Owners, PinsOwned,
      Goto, Actors, Control, Web, Loop, cfgVars, loopVars, gateVars, pinVars
<1>6. Owners'
  BY HeaterAssumption
  DEF Restart, Inv, TypeOK, OnlyAttachedOn, Owners, PinsOwned, Goto, Actors, Control, Web,
      Loop, cfgVars, loopVars, gateVars, pinVars
<1> QED BY <1>2, <1>3, <1>4, <1>5, <1>6 DEF Inv

\* start() asks for a reconfiguration.
LEMMA StartInv == ASSUME Inv, Start PROVE Inv'
<1>1. pc' \in [Actors -> Labels]
  <2> {"idle"} \subseteq Labels
    BY DEF Labels
  <2> QED BY DEF Start, Goto, Inv, TypeOK, Actors, Control, Web, Loop
<1>2. TypeOK'
  <2>1. lock' \in Actors \cup {Absent}
    BY DEF Start, Inv, TypeOK
  <2>2. ledc' \subseteq Pins /\ on' \subseteq Pins /\ driven' \subseteq Pins
    BY HeaterAssumption
    DEF Start, Inv, TypeOK, OnlyAttachedOn, RejectedUntouched, PinsOwned, gateVars
  <2> QED
    BY <1>1, <2>1, <2>2, HeaterAssumption
    DEF Start, Inv, TypeOK, Owners, Faults, cfgVars, loopVars, gateVars, pinVars
<1>3. OnlyAttachedOn' /\ PinsOwned'
  BY HeaterAssumption
  DEF Start, Inv, TypeOK, OnlyAttachedOn, PinsOwned, Owners, Actors, Control, Web, Loop,
      cfgVars, loopVars, gateVars, pinVars
<1>4. RejectedUntouched'
  BY HeaterAssumption
  DEF Start, Inv, TypeOK, RejectedUntouched, PinsOwned, cfgVars, loopVars, gateVars,
      pinVars
<1>5. OffWhileLatched' /\ Quiet'
  BY HeaterAssumption
  DEF Start, Inv, TypeOK, OnlyAttachedOn, OffWhileLatched, Quiet, Owners, PinsOwned, Goto,
      Actors, Control, Web, Loop, cfgVars, loopVars, gateVars, pinVars
<1>6. Owners'
  BY HeaterAssumption
  DEF Start, Inv, TypeOK, OnlyAttachedOn, Owners, PinsOwned, Goto, Actors, Control, Web,
      Loop, cfgVars, loopVars, gateVars, pinVars
<1> QED BY <1>2, <1>3, <1>4, <1>5, <1>6 DEF Inv

\* A new configuration first forces the output off.
LEMMA LoadBeginsInv == ASSUME Inv, LoadBegins PROVE Inv'
<1>1. pc' \in [Actors -> Labels]
  <2> {"load"} \subseteq Labels
    BY DEF Labels
  <2> QED BY DEF LoadBegins, Goto, Inv, TypeOK, Actors, Control, Web, Loop
<1>2. TypeOK'
  <2>1. lock' \in Actors \cup {Absent}
    BY DEF LoadBegins, Inv, TypeOK, Actors, Control, Web, Loop
  <2>2. ledc' \subseteq Pins /\ on' \subseteq Pins /\ driven' \subseteq Pins
    BY ForceOffIsOff, HeaterAssumption
    DEF LoadBegins, Inv, TypeOK, OnlyAttachedOn, RejectedUntouched, PinsOwned, gateVars
  <2> QED
    BY <1>1, <2>1, <2>2, HeaterAssumption
    DEF LoadBegins, Inv, TypeOK, Owners, Faults, cfgVars, loopVars, gateVars, pinVars
<1>3. OnlyAttachedOn' /\ PinsOwned'
  BY ForceOffIsOff, HeaterAssumption
  DEF LoadBegins, Inv, TypeOK, OnlyAttachedOn, PinsOwned, Owners, Actors, Control, Web,
      Loop, cfgVars, loopVars, gateVars, pinVars
<1>4. RejectedUntouched'
  BY ForceOffIsOff, HeaterAssumption
  DEF LoadBegins, Inv, TypeOK, RejectedUntouched, PinsOwned, cfgVars, loopVars, gateVars,
      pinVars
<1>5. OffWhileLatched' /\ Quiet'
  BY ForceOffIsOff, HeaterAssumption
  DEF LoadBegins, Inv, TypeOK, OnlyAttachedOn, OffWhileLatched, Quiet, Owners, PinsOwned,
      Goto, Actors, Control, Web, Loop, cfgVars, loopVars, gateVars, pinVars
<1>6. Owners'
  BY ForceOffIsOff, HeaterAssumption
  DEF LoadBegins, Inv, TypeOK, OnlyAttachedOn, Owners, PinsOwned, Goto, Actors, Control,
      Web, Loop, cfgVars, loopVars, gateVars, pinVars
<1> QED BY <1>2, <1>3, <1>4, <1>5, <1>6 DEF Inv

\* The fields of a configuration are taken over.
LEMMA LoadInv == ASSUME Inv, Load PROVE Inv'
<1>1. pc' \in [Actors -> Labels]
  <2> {"flag"} \subseteq Labels
    BY DEF Labels
  <2> QED BY DEF Load, Goto, Inv, TypeOK, Actors, Control, Web, Loop
<1>2. TypeOK'
  <2>1. lock' \in Actors \cup {Absent}
    BY DEF Load, Inv, TypeOK, Actors, Control, Web, Loop
  <2>2. ledc' \subseteq Pins /\ on' \subseteq Pins /\ driven' \subseteq Pins
    BY HeaterAssumption
    DEF Load, Inv, TypeOK, OnlyAttachedOn, RejectedUntouched, PinsOwned, gateVars
  <2> QED
    BY <1>1, <2>1, <2>2, HeaterAssumption
    DEF Load, Inv, TypeOK, Owners, Faults, cfgVars, loopVars, gateVars, pinVars
<1>3. OnlyAttachedOn' /\ PinsOwned'
  BY HeaterAssumption
  DEF Load, Inv, TypeOK, OnlyAttachedOn, PinsOwned, Owners, Actors, Control, Web, Loop,
      cfgVars, loopVars, gateVars, pinVars
<1>4. RejectedUntouched'
  BY HeaterAssumption
  DEF Load, Inv, TypeOK, RejectedUntouched, PinsOwned, cfgVars, loopVars, gateVars,
      pinVars
<1>5. OffWhileLatched' /\ Quiet'
  BY HeaterAssumption
  DEF Load, Inv, TypeOK, OnlyAttachedOn, OffWhileLatched, Quiet, Owners, PinsOwned, Goto,
      Actors, Control, Web, Loop, cfgVars, loopVars, gateVars, pinVars
<1>6. Owners'
  BY HeaterAssumption
  DEF Load, Inv, TypeOK, OnlyAttachedOn, Owners, PinsOwned, Goto, Actors, Control, Web,
      Loop, cfgVars, loopVars, gateVars, pinVars
<1> QED BY <1>2, <1>3, <1>4, <1>5, <1>6 DEF Inv

\* The flag of the request follows.
LEMMA SetEnabledInv == ASSUME Inv, SetEnabled PROVE Inv'
<1>1. pc' \in [Actors -> Labels]
  <2> {"idle"} \subseteq Labels
    BY DEF Labels
  <2> QED BY DEF SetEnabled, Goto, Inv, TypeOK, Actors, Control, Web, Loop
<1>2. TypeOK'
  <2>1. lock' \in Actors \cup {Absent}
    BY DEF SetEnabled, Inv, TypeOK
  <2>2. ledc' \subseteq Pins /\ on' \subseteq Pins /\ driven' \subseteq Pins
    BY HeaterAssumption
    DEF SetEnabled, Inv, TypeOK, OnlyAttachedOn, RejectedUntouched, PinsOwned, gateVars
  <2> QED
    BY <1>1, <2>1, <2>2, HeaterAssumption
    DEF SetEnabled, Inv, TypeOK, Owners, Faults, cfgVars, loopVars, gateVars, pinVars
<1>3. OnlyAttachedOn' /\ PinsOwned'
  BY HeaterAssumption
  DEF SetEnabled, Inv, TypeOK, OnlyAttachedOn, PinsOwned, Owners, Actors, Control, Web,
      Loop, cfgVars, loopVars, gateVars, pinVars
<1>4. RejectedUntouched'
  BY HeaterAssumption
  DEF SetEnabled, Inv, TypeOK, RejectedUntouched, PinsOwned, cfgVars, loopVars, gateVars,
      pinVars
<1>5. OffWhileLatched' /\ Quiet'
  BY HeaterAssumption
  DEF SetEnabled, Inv, TypeOK, OnlyAttachedOn, OffWhileLatched, Quiet, Owners, PinsOwned,
      Goto, Actors, Control, Web, Loop, cfgVars, loopVars, gateVars, pinVars
<1>6. Owners'
  BY HeaterAssumption
  DEF SetEnabled, Inv, TypeOK, OnlyAttachedOn, Owners, PinsOwned, Goto, Actors, Control,
      Web, Loop, cfgVars, loopVars, gateVars, pinVars
<1> QED BY <1>2, <1>3, <1>4, <1>5, <1>6 DEF Inv

\* Half a configuration is taken over.
LEMMA LoadRefusedInv == ASSUME Inv, LoadRefused PROVE Inv'
<1>1. pc' \in [Actors -> Labels]
  <2> {"idle"} \subseteq Labels
    BY DEF Labels
  <2> QED BY DEF LoadRefused, Goto, Inv, TypeOK, Actors, Control, Web, Loop
<1>2. TypeOK'
  <2>1. lock' \in Actors \cup {Absent}
    BY DEF LoadRefused, Inv, TypeOK, Actors, Control, Web, Loop
  <2>2. ledc' \subseteq Pins /\ on' \subseteq Pins /\ driven' \subseteq Pins
    BY HeaterAssumption
    DEF LoadRefused, Inv, TypeOK, OnlyAttachedOn, RejectedUntouched, PinsOwned, gateVars
  <2> QED
    BY <1>1, <2>1, <2>2, HeaterAssumption
    DEF LoadRefused, Inv, TypeOK, Owners, Faults, cfgVars, loopVars, gateVars, pinVars
<1>3. OnlyAttachedOn' /\ PinsOwned'
  BY HeaterAssumption
  DEF LoadRefused, Inv, TypeOK, OnlyAttachedOn, PinsOwned, Owners, Actors, Control, Web,
      Loop, cfgVars, loopVars, gateVars, pinVars
<1>4. RejectedUntouched'
  BY HeaterAssumption
  DEF LoadRefused, Inv, TypeOK, RejectedUntouched, PinsOwned, cfgVars, loopVars, gateVars,
      pinVars
<1>5. OffWhileLatched' /\ Quiet'
  BY HeaterAssumption
  DEF LoadRefused, Inv, TypeOK, OnlyAttachedOn, OffWhileLatched, Quiet, Owners, PinsOwned,
      Goto, Actors, Control, Web, Loop, cfgVars, loopVars, gateVars, pinVars
<1>6. Owners'
  BY HeaterAssumption
  DEF LoadRefused, Inv, TypeOK, OnlyAttachedOn, Owners, PinsOwned, Goto, Actors, Control,
      Web, Loop, cfgVars, loopVars, gateVars, pinVars
<1> QED BY <1>2, <1>3, <1>4, <1>5, <1>6 DEF Inv

\* The shutdown begins with the heater.
LEMMA ShutdownInv == ASSUME Inv, Shutdown PROVE Inv'
<1>1. pc' \in [Actors -> Labels]
  <2> {"park"} \subseteq Labels
    BY DEF Labels
  <2> QED BY DEF Shutdown, Goto, Inv, TypeOK, Actors, Control, Web, Loop
<1>2. TypeOK'
  <2>1. lock' \in Actors \cup {Absent}
    BY DEF Shutdown, Inv, TypeOK
  <2>2. ledc' \subseteq Pins /\ on' \subseteq Pins /\ driven' \subseteq Pins
    BY HeaterAssumption
    DEF Shutdown, Inv, TypeOK, OnlyAttachedOn, RejectedUntouched, PinsOwned, gateVars
  <2>3. enabled' \in BOOLEAN /\ pin' \in Pins \cup {Absent} /\ reconfigure' \in BOOLEAN
    BY <1>1, <2>1, <2>2, HeaterAssumption
    DEF Shutdown, Inv, TypeOK, Owners, Faults, cfgVars, loopVars, gateVars, pinVars
  <2>4. attached' \in Pins \cup {Absent} /\ owned' \in Pins \cup {Absent}
    BY <1>1, <2>1, <2>2, HeaterAssumption
    DEF Shutdown, Inv, TypeOK, Owners, Faults, cfgVars, loopVars, gateVars, pinVars
  <2>5. heating' \in BOOLEAN /\ fault' \in Faults /\ latch' \in BOOLEAN
    BY <1>1, <2>1, <2>2, HeaterAssumption
    DEF Shutdown, Inv, TypeOK, Owners, Faults, cfgVars, loopVars, gateVars, pinVars
  <2>6. restarting' \in BOOLEAN /\ running' \in BOOLEAN /\ probe' \in Temps \cup {Absent}
    BY <1>1, <2>1, <2>2, HeaterAssumption
    DEF Shutdown, Inv, TypeOK, Owners, Faults, cfgVars, loopVars, gateVars, pinVars
  <2> QED
    BY <1>1, <2>1, <2>2, <2>3, <2>4, <2>5, <2>6, Zenon DEF TypeOK
<1>3. OnlyAttachedOn' /\ PinsOwned'
  BY HeaterAssumption
  DEF Shutdown, Inv, TypeOK, OnlyAttachedOn, PinsOwned, Owners, Actors, Control, Web,
      Loop, cfgVars, loopVars, gateVars, pinVars
<1>4. RejectedUntouched'
  BY HeaterAssumption
  DEF Shutdown, Inv, TypeOK, RejectedUntouched, PinsOwned, cfgVars, loopVars, gateVars,
      pinVars
<1>5. OffWhileLatched' /\ Quiet'
  BY HeaterAssumption
  DEF Shutdown, Inv, TypeOK, OnlyAttachedOn, OffWhileLatched, Quiet, Owners, PinsOwned,
      Goto, Actors, Control, Web, Loop, cfgVars, loopVars, gateVars, pinVars
<1>6. Owners'
  BY HeaterAssumption
  DEF Shutdown, Inv, TypeOK, OnlyAttachedOn, Owners, PinsOwned, Goto, Actors, Control,
      Web, Loop, cfgVars, loopVars, gateVars, pinVars
<1> QED BY <1>2, <1>3, <1>4, <1>5, <1>6 DEF Inv

\* The tasks are told to end.
LEMMA StopTasksInv == ASSUME Inv, StopTasks PROVE Inv'
<1>1. pc' \in [Actors -> Labels]
  <2> {"wait"} \subseteq Labels
    BY DEF Labels
  <2> QED BY DEF StopTasks, Goto, Inv, TypeOK, Actors, Control, Web, Loop
<1>2. TypeOK'
  <2>1. lock' \in Actors \cup {Absent}
    BY DEF StopTasks, Inv, TypeOK
  <2>2. ledc' \subseteq Pins /\ on' \subseteq Pins /\ driven' \subseteq Pins
    BY HeaterAssumption
    DEF StopTasks, Inv, TypeOK, OnlyAttachedOn, RejectedUntouched, PinsOwned, gateVars
  <2> QED
    BY <1>1, <2>1, <2>2, HeaterAssumption
    DEF StopTasks, Inv, TypeOK, Owners, Faults, cfgVars, loopVars, gateVars, pinVars
<1>3. OnlyAttachedOn' /\ PinsOwned'
  BY HeaterAssumption
  DEF StopTasks, Inv, TypeOK, OnlyAttachedOn, PinsOwned, Owners, Actors, Control, Web,
      Loop, cfgVars, loopVars, gateVars, pinVars
<1>4. RejectedUntouched'
  BY HeaterAssumption
  DEF StopTasks, Inv, TypeOK, RejectedUntouched, PinsOwned, cfgVars, loopVars, gateVars,
      pinVars
<1>5. OffWhileLatched' /\ Quiet'
  BY HeaterAssumption
  DEF StopTasks, Inv, TypeOK, OnlyAttachedOn, OffWhileLatched, Quiet, Owners, PinsOwned,
      Goto, Actors, Control, Web, Loop, cfgVars, loopVars, gateVars, pinVars
<1>6. Owners'
  BY HeaterAssumption
  DEF StopTasks, Inv, TypeOK, OnlyAttachedOn, Owners, PinsOwned, Goto, Actors, Control,
      Web, Loop, cfgVars, loopVars, gateVars, pinVars
<1> QED BY <1>2, <1>3, <1>4, <1>5, <1>6 DEF Inv

\* The chip sleeps.
LEMMA SleepInv == ASSUME Inv, Sleep PROVE Inv'
<1>1. pc' \in [Actors -> Labels]
  <2> {"asleep", "killed"} \subseteq Labels
    BY DEF Labels
  <2> QED BY DEF Sleep, Goto, Inv, TypeOK, Actors, Control, Web, Loop
<1>2. TypeOK'
  <2>1. lock' \in Actors \cup {Absent}
    BY DEF Sleep, Inv, TypeOK
  <2>2. ledc' \subseteq Pins /\ on' \subseteq Pins /\ driven' \subseteq Pins
    BY HeaterAssumption
    DEF Sleep, Inv, TypeOK, OnlyAttachedOn, RejectedUntouched, PinsOwned, gateVars
  <2>3. enabled' \in BOOLEAN /\ pin' \in Pins \cup {Absent} /\ reconfigure' \in BOOLEAN
    BY <1>1, <2>1, <2>2, HeaterAssumption
    DEF Sleep, Inv, TypeOK, Owners, Faults, cfgVars, loopVars, gateVars, pinVars
  <2>4. attached' \in Pins \cup {Absent} /\ owned' \in Pins \cup {Absent}
    BY <1>1, <2>1, <2>2, HeaterAssumption
    DEF Sleep, Inv, TypeOK, Owners, Faults, cfgVars, loopVars, gateVars, pinVars
  <2>5. heating' \in BOOLEAN /\ fault' \in Faults /\ latch' \in BOOLEAN
    BY <1>1, <2>1, <2>2, HeaterAssumption
    DEF Sleep, Inv, TypeOK, Owners, Faults, cfgVars, loopVars, gateVars, pinVars
  <2>6. restarting' \in BOOLEAN /\ running' \in BOOLEAN /\ probe' \in Temps \cup {Absent}
    BY <1>1, <2>1, <2>2, HeaterAssumption
    DEF Sleep, Inv, TypeOK, Owners, Faults, cfgVars, loopVars, gateVars, pinVars
  <2> QED
    BY <1>1, <2>1, <2>2, <2>3, <2>4, <2>5, <2>6, Zenon DEF TypeOK
<1>3. OnlyAttachedOn' /\ PinsOwned'
  BY HeaterAssumption
  DEF Sleep, Inv, TypeOK, OnlyAttachedOn, PinsOwned, Owners, Actors, Control, Web, Loop,
      cfgVars, loopVars, gateVars, pinVars
<1>4. RejectedUntouched'
  BY HeaterAssumption
  DEF Sleep, Inv, TypeOK, RejectedUntouched, PinsOwned, cfgVars, loopVars, gateVars,
      pinVars
<1>5. OffWhileLatched' /\ Quiet'
  BY HeaterAssumption
  DEF Sleep, Inv, TypeOK, OnlyAttachedOn, OffWhileLatched, Quiet, Owners, PinsOwned, Goto,
      Actors, Control, Web, Loop, cfgVars, loopVars, gateVars, pinVars
<1>6. Owners'
  BY HeaterAssumption
  DEF Sleep, Inv, TypeOK, OnlyAttachedOn, Owners, PinsOwned, Goto, Actors, Control, Web,
      Loop, cfgVars, loopVars, gateVars, pinVars
<1> QED BY <1>2, <1>3, <1>4, <1>5, <1>6 DEF Inv

\* The temperature changes.
LEMMA MeasureInv == ASSUME Inv, Measure PROVE Inv'
<1>1. pc' \in [Actors -> Labels]
  BY DEF Measure, Inv, TypeOK
<1>2. TypeOK'
  <2>1. lock' \in Actors \cup {Absent}
    BY DEF Measure, Inv, TypeOK
  <2>2. ledc' \subseteq Pins /\ on' \subseteq Pins /\ driven' \subseteq Pins
    BY HeaterAssumption
    DEF Measure, Inv, TypeOK, OnlyAttachedOn, RejectedUntouched, PinsOwned, gateVars
  <2> QED
    BY <1>1, <2>1, <2>2, HeaterAssumption
    DEF Measure, Inv, TypeOK, Owners, Faults, cfgVars, loopVars, gateVars, pinVars
<1>3. OnlyAttachedOn' /\ PinsOwned'
  BY HeaterAssumption
  DEF Measure, Inv, TypeOK, OnlyAttachedOn, PinsOwned, Owners, Actors, Control, Web, Loop,
      cfgVars, loopVars, gateVars, pinVars
<1>4. RejectedUntouched'
  BY HeaterAssumption
  DEF Measure, Inv, TypeOK, RejectedUntouched, PinsOwned, cfgVars, loopVars, gateVars,
      pinVars
<1>5. OffWhileLatched' /\ Quiet'
  BY HeaterAssumption
  DEF Measure, Inv, TypeOK, OnlyAttachedOn, OffWhileLatched, Quiet, Owners, PinsOwned,
      Actors, Control, Web, Loop, cfgVars, loopVars, gateVars, pinVars
<1>6. Owners'
  BY HeaterAssumption
  DEF Measure, Inv, TypeOK, OnlyAttachedOn, Owners, PinsOwned, Actors, Control, Web, Loop,
      cfgVars, loopVars, gateVars, pinVars
<1> QED BY <1>2, <1>3, <1>4, <1>5, <1>6 DEF Inv


\* Nothing happens.
LEMMA StutterInv == ASSUME Inv, UNCHANGED vars PROVE Inv'
<1>1. TypeOK'
  BY DEF Inv, TypeOK, vars, cfgVars, loopVars, gateVars, pinVars
<1>2. OnlyAttachedOn' /\ RejectedUntouched' /\ OffWhileLatched' /\ PinsOwned'
  BY DEF Inv, OnlyAttachedOn, RejectedUntouched, OffWhileLatched, PinsOwned,
         vars, cfgVars, loopVars, gateVars, pinVars
<1>3. Owners' /\ Quiet'
  BY DEF Inv, Owners, Quiet, vars, cfgVars, loopVars, gateVars, pinVars
<1> QED BY <1>1, <1>2, <1>3 DEF Inv

\* Whichever task runs, the invariant holds after it.
LEMMA NextInv == Inv /\ [Next]_vars => Inv'
<1> SUFFICES ASSUME Inv, [Next]_vars PROVE Inv' OBVIOUS
<1>0. ASSUME NEW a \in Actors, Stopping(a) PROVE Inv'
  BY <1>0, ParkInv, UnhookInv, UnhookedInv DEF Stopping
<1>1. CASE ControlTask
  BY <1>0, <1>1, TickBeginsInv, RelockInv, SetupInv, DisabledInv, TooSoonInv, DueInv,
     ControlStepInv, ApplyInv, WriteInv, WorkInv
  DEF ControlTask, Actors
<1>2. CASE WebTask
  BY <1>0, <1>2, EnableInv, DisableInv, RestartInv, StartInv, LoadBeginsInv, LoadInv,
     SetEnabledInv,
     LoadRefusedInv
  DEF WebTask, Actors
<1>3. CASE LoopTask
  BY <1>0, <1>3, ShutdownInv, StopTasksInv, SleepInv DEF LoopTask, Actors
<1>4. CASE Measure
  BY <1>4, MeasureInv
<1>5. CASE UNCHANGED vars
  BY <1>5, StutterInv
<1> QED BY <1>1, <1>2, <1>3, <1>4, <1>5 DEF Next

\* The invariant is one of every execution.
THEOREM InvHolds == Spec => []Inv
<1> QED BY InitInv, NextInv, PTL DEF Spec

\* The state keeps its shape, for any pins and temperatures.
THEOREM TypeCorrect == Spec => []TypeOK
<1>1. Inv => TypeOK BY DEF Inv
<1> QED BY <1>1, InvHolds, PTL

\* For any pins: however a request and a tick interleave, the PWM drives no
\* pin but the one attached, and no other is at its active level.
THEOREM AttachedPinOnly == Spec => []OnlyAttachedOn
<1>1. Inv => OnlyAttachedOn BY DEF Inv
<1> QED BY <1>1, InvHolds, PTL

\* For any board profile: a pin it rejects is never driven, on the way to a
\* new pin included.
THEOREM RejectedPinUntouched == Spec => []RejectedUntouched
<1>1. Inv => RejectedUntouched BY DEF Inv
<1> QED BY <1>1, InvHolds, PTL

\* For any temperatures, thresholds and targets: while the over-temperature
\* latch is set the output is off.
THEOREM LatchCuts == Spec => []OffWhileLatched
<1>1. Inv => OffWhileLatched BY DEF Inv
<1> QED BY <1>1, InvHolds, PTL

\* A control task that ends leaves the output off.
THEOREM TaskEndsOff == Spec => []OffWhenGone
<1>1. Inv => OffWhenGone BY DEF Inv, Quiet, OffWhenGone
<1> QED BY <1>1, InvHolds, PTL
=============================================================================
