----------------------------- MODULE NodeFwRadio -----------------------------
(***************************************************************************)
(* Updating an ESP-NOW node.  The node pulls the image slice by slice when *)
(* an ACK says so (node_espnow/src/FwFetch.h, FwFetch.cpp) into the slot   *)
(* it does not run from, verifies it, switches, restarts, and goes back to *)
(* the old slot unless an ACK is heard in time (FwTrial.h).  The           *)
(* collector's receive callback answers from two windows in RAM and copies *)
(* of the store; the tick fills the windows from the card and renews the   *)
(* copies (src/espnow/EspNowIngest.cpp, NodeFwRules.h).                    *)
(***************************************************************************)
EXTENDS NodeFwStore

CONSTANTS
    Deaf,             \* images that run and never hear the collector
    Crashing,         \* images that crash after setup() began
    Corrupt,          \* images whose own SHA-256 is wrong
    Unloadable,       \* images the bootloader does not start
    Size, Win,        \* slices per image, slices per window (some 5000 and 20 in the code)
    MaxBoots, MaxMissed,  \* MAX_BOOTS, MAX_MISSES of the trial
    MaxMisses         \* NODE_FW_MAX_MISSES

ASSUME RadioAssumption ==
    /\ Deaf \cup Crashing \cup Corrupt \cup Unloadable \subseteq Images \ {Factory}
    /\ {Size, Win, MaxBoots, MaxMissed, MaxMisses} \subseteq Nat \ {0}

VARIABLES
    dev,      \* per node: flash, NVS, RTC memory and the wake under way
    air,      \* per node: a FW frame that will arrive one window late
    mir,      \* what the callback answers from: s_fwSt, s_fwImg
    serve,    \* s_fwServe: the two windows and the load asked for or under way
    owner,    \* s_fwOwner, and quiet: its transfer has ended
    prog,     \* s_fwProg: the owner's download moved on
    ring,     \* FW_DONE frames parked for the tick
    tick      \* serviceFw() under way

radioVars == <<dev, air, mir, serve, owner, prog, ring, tick>>
storeVars == <<img, tgt, disk, gen, left, seen>>
storeOps  == <<img, tgt, disk, gen>>

Slots   == {0, 1}
Blocks  == 0..(Size - 1)
Content == [Blocks -> Images \cup {None}]
Whole(c) == \E i \in Images : \A b \in Blocks : c[b] = i
ImageOf(c) == IF Whole(c) THEN c[0] ELSE None
Loads(c) == Whole(c) /\ c[0] \notin Corrupt \cup Unloadable

NoTrial == [prev |-> None, img |-> None, att |-> 0, boots |-> 0]
NoneGot == [img |-> None, att |-> 0, got |-> 0, part |-> 0]
Nothing == [img |-> None, att |-> 0]
Frames  == [say : {"nothing", "busy", "slice"}, img : Images \cup {None}, att : Attempt, floor : BOOLEAN,
            off : Blocks, of : Images \cup {None}]

Running(n) == ImageOf(dev[n].slot[dev[n].run])
Part(n) == 1 - dev[n].run         \* esp_ota_get_next_update_partition()

-----------------------------------------------------------------------------
(* The receive callback: answerFwGet() and the serving windows.            *)

Empty == [base |-> 0, len |-> 0, of |-> None]
Reset == [w |-> [i \in {0, 1} |-> Empty], loading |-> None, loadOff |-> 0,
          req |-> FALSE, reqIdx |-> 0, reqOff |-> 0]

winHas(w, off) == off \in w.base..(w.base + w.len - 1)
comingSoon(off) ==
    \/ serve.req /\ off \in serve.reqOff..(serve.reqOff + Win - 1)
    \/ serve.loading # None /\ off \in serve.loadOff..(serve.loadOff + Win - 1)
askLoad(i, off) == [serve EXCEPT !.req = TRUE, !.reqIdx = i, !.reqOff = off]

\* The window a miss overwrites: an empty one, else the one further behind.
Victim ==
    IF serve.loading # None THEN 1 - serve.loading
    ELSE IF serve.w[0].len = 0 THEN 0
    ELSE IF serve.w[1].len = 0 THEN 1
    ELSE IF serve.w[0].base <= serve.w[1].base THEN 0 ELSE 1

\* lookup(), on a hit in window i: past its middle the next bytes are asked
\* for in the other one.
ReadAhead(i, off) ==
    LET next == serve.w[i].base + serve.w[i].len
        o    == 1 - i IN
    IF /\ 2 * (off - serve.w[i].base) >= Win
       /\ next < Size
       /\ ~winHas(serve.w[o], next) /\ ~comingSoon(next) /\ serve.loading # o
    THEN askLoad(o, next) ELSE serve

Missed(off) == IF comingSoon(off) THEN serve ELSE askLoad(Victim, off)

Say(what) == [say |-> what, img |-> None, att |-> 0, floor |-> FALSE, off |-> 0, of |-> None]
Identity(f) == [f EXCEPT !.img = mir.img.id, !.att = mir.img.attempt, !.floor = mir.img.floor]

\* The frame the callback answers a FW_GET of n with, None for no answer.
Turned(n) == owner.id \notin {None, n} /\ ~owner.quiet
Refuses(n, want) == ~mir.img.have \/ ~isOpen(mir.st[n]) \/ want \notin {None, mir.img.id}
Hits(off) == {i \in {0, 1} : winHas(serve.w[i], off)}
Answer(n, want, off) ==
    IF Refuses(n, want) THEN Say("nothing")
    ELSE IF Turned(n) THEN Identity(Say("busy"))
    ELSE IF Hits(off) = {} THEN None
    ELSE LET i == CHOOSE h \in Hits(off) : \A h2 \in Hits(off) : h <= h2 IN
         [Identity(Say("slice")) EXCEPT !.off = off, !.of = serve.w[i].of]

AnswerFwGet(n, want, off) ==
    IF Refuses(n, want) \/ Turned(n) THEN UNCHANGED <<owner, serve, prog>>
    ELSE /\ owner' = [id |-> n, quiet |-> FALSE]
         /\ prog' = (prog \/ want # None)
         /\ serve' = IF Hits(off) = {} THEN Missed(off)
                     ELSE ReadAhead(CHOOSE h \in Hits(off) : \A h2 \in Hits(off) : h <= h2, off)

-----------------------------------------------------------------------------
(* The node: booting, the trial, the wake.                                 *)

Rest(d) == [d EXCEPT !.pc = IF d.mains THEN "up" ELSE "off", !.want = None, !.misses = 0, !.gained = FALSE]

\* Fault: what was rolled back from is not kept.
RolledBackUnkept(d) == [d EXCEPT !.pc = "off", !.boot = d.trial.prev, !.trial = NoTrial, !.miss = 0]

\* Fault: the trial is over, and the image stays.
RolledBackInName(d) == [d EXCEPT !.rb = [img |-> d.trial.img, att |-> d.trial.att], !.trial = NoTrial, !.miss = 0]

\* rollBack(): the previous slot is booted from, and (image, attempt) kept as
\* rolled back from; a slot that does not verify cannot be switched to, and
\* the node stays.
Back(d) == Loads(d.slot[d.trial.prev])
RolledBack(d) ==
    [d EXCEPT !.boot = IF Back(d) THEN d.trial.prev ELSE @, !.pc = IF Back(d) THEN "off" ELSE @,
              !.rb = [img |-> d.trial.img, att |-> d.trial.att], !.trial = NoTrial, !.miss = 0]

\* Fault: the starts are not limited.
NeverTooMany(t) == FALSE

\* onBoot(): the bootloader went back by itself, or one start more is counted.
TooMany(t) == t.boots + 1 > MaxBoots
OnBoot(d) ==
    IF d.trial.prev = None THEN d
    ELSE IF d.run = d.trial.prev
    THEN [d EXCEPT !.rb = [img |-> d.trial.img, att |-> d.trial.att], !.trial = NoTrial]
    ELSE IF TooMany(d.trial) THEN RolledBack(d)
    ELSE [d EXCEPT !.trial.boots = @ + 1]

\* fwColdBoot(): RTC memory is garbage, or another image's.
Cold(d) == [d EXCEPT !.prog = NoneGot, !.failed = Nothing, !.skip = 0, !.cold = FALSE]

Boot(n) ==
    LET d0 == dev[n]
        d1 == [d0 EXCEPT !.run = IF Loads(d0.slot[d0.boot]) THEN d0.boot ELSE 1 - d0.boot,
                         !.miss = 0, !.pc = "up"]
        d2 == OnBoot(d1)
        i  == ImageOf(d1.slot[d1.run])
        new == d0.cold \/ d0.rtc # i
        d3 == IF new THEN [Cold(d2) EXCEPT !.rtc = i] ELSE d2
    IN
    /\ d0.pc = "off"
    /\ dev' = [dev EXCEPT ![n] = IF d2.pc = "off" THEN d2
                                 ELSE IF i \in Crashing THEN [d3 EXCEPT !.pc = "off", !.cold = TRUE]
                                 ELSE d3]
    /\ seen' = [seen EXCEPT !.ran[n] = IF dev'[n].pc = "up" THEN @ \cup {i} ELSE @,
                            !.back[n] = IF d2.trial # d0.trial /\ d2.trial = NoTrial
                                        THEN @ \cup {<<d0.trial.img, d0.trial.att>>} ELSE @,
                            !.refused[n] = IF d2.pc = "up" /\ new THEN {} ELSE @]
    /\ UNCHANGED <<air, mir, serve, owner, prog, ring, tick, storeOps, left>>

\* Fault: an ACK does not end the trial.
ConfirmNothing(d) == [d EXCEPT !.miss = 0]

\* onWake(): any ACK confirms the image; unanswered wakes in a row are
\* counted for a node that does not restart.
Confirm(d) == [d EXCEPT !.trial = NoTrial, !.miss = 0]

ManyMissed(d) == d.miss + 1 >= MaxMissed
AfterWake(d, acked) ==
    IF d.trial.prev = None THEN d
    ELSE IF acked THEN Confirm(d)
    ELSE IF ManyMissed(d) THEN RolledBack(d)
    ELSE [d EXCEPT !.miss = @ + 1]

\* fwOnPending(), its start: a wake that is not held back by its backoff.
Pending(d) == IF d.skip > 0 THEN Rest([d EXCEPT !.skip = @ - 1]) ELSE [d EXCEPT !.pc = "ask"]

\* wake(): one DATA frame and its ACK, the trial, and a download if flagged.
Wake(n) ==
    /\ dev[n].pc = "up"
    /\ \E acked \in BOOLEAN :
        LET d == AfterWake(dev[n], acked) IN
        /\ acked => Running(n) \notin Deaf
        /\ IF acked \/ Running(n) \in Deaf THEN UNCHANGED left ELSE Spend("lost")
        /\ dev' = [dev EXCEPT ![n] = IF d.pc = "off" THEN d
                                     ELSE IF acked /\ ackFlag(mir.st[n]) THEN Pending(d) ELSE Rest(d)]
        /\ seen' = IF d.rb # dev[n].rb
                   THEN [seen EXCEPT !.back[n] = @ \cup {<<dev[n].trial.img, dev[n].trial.att>>}]
                   ELSE seen
    /\ UNCHANGED <<air, mir, serve, owner, prog, ring, tick, storeOps>>

-----------------------------------------------------------------------------
(* The download.                                                           *)

Held(d) == [d EXCEPT !.skip = 1]       \* failed(): backed off
Miss(d) == [d EXCEPT !.misses = @ + 1]

\* sendDone() and what a verdict leaves in RTC memory.
Keeps(d, status, i, att) ==
    LET e == IF status \in {"bad", "flash"}
             THEN [d EXCEPT !.failed = [img |-> i, att |-> att], !.prog = NoneGot] ELSE d
    IN  Rest(IF status = "running" THEN [e EXCEPT !.skip = 0] ELSE Held(e))

Done(n, i, status, att) == [n |-> n, img |-> i, status |-> status, att |-> att]

\* The FW_DONE reaches the collector, or is lost.
SendDone(f) ==
    \/ ring' = Append(ring, f) /\ UNCHANGED left
    \/ Spend("lost") /\ UNCHANGED ring

Report(n, d, status, i, att) ==
    /\ dev' = [dev EXCEPT ![n] = Keeps(d, status, i, att)]
    /\ SendDone(Done(n, i, status, att))
    /\ seen' = IF status \in {"bad", "flash"}
               THEN [seen EXCEPT !.refused[n] = @ \cup {<<i, att>>}] ELSE seen

\* Fault: whatever attempt it was.
SameImage(a, f) == a.img = f.img

\* What the node knows of (image, attempt): onReply() decides on the first
\* answer, before paying for the rest.
Same(a, f) == a.img = f.img /\ a.att = f.att
Knows(n, d, f) ==
    CASE f.img = Running(n) -> "running"
      [] f.img # Running(n) /\ Same(d.failed, f) -> "bad"
      [] f.img # Running(n) /\ ~Same(d.failed, f) /\ Same(d.rb, f) -> "rolledback"
      [] OTHER -> "unknown"

\* A known image is resumed, unless the partition or the attempt differs.
Resumes(n, d, f) == d.prog.img = f.img /\ d.prog.att = f.att /\ d.prog.part = Part(n) /\ d.prog.got > 0
Takes(n, d, f) ==
    IF Resumes(n, d, f) THEN d
    ELSE [d EXCEPT !.prog = [img |-> f.img, att |-> f.att, got |-> 0, part |-> Part(n)]]

\* A slice is written when it is the next one; the last one completes.
Write(n, d, f) ==
    \/ LET e == [d EXCEPT !.slot[Part(n)][d.prog.got] = f.of, !.prog.got = @ + 1,
                          !.misses = 0, !.gained = TRUE]
       IN  /\ dev' = [dev EXCEPT ![n] = [e EXCEPT !.pc = IF e.prog.got = Size THEN "full" ELSE "ask"]]
           /\ seen' = [seen EXCEPT !.tried[n] = TRUE]
           /\ UNCHANGED <<left, ring>>
    \/ /\ Spend("flash")
       /\ dev' = [dev EXCEPT ![n] = Keeps(d, "flash", d.prog.img, d.prog.att)]
       /\ ring' = Append(ring, Done(n, d.prog.img, "flash", d.prog.att))
       /\ seen' = [seen EXCEPT !.tried[n] = TRUE, !.refused[n] = @ \cup {<<d.prog.img, d.prog.att>>}]

Goes(n, d) == dev' = [dev EXCEPT ![n] = d] /\ UNCHANGED <<left, ring, seen>>

Slice(n, d, f) == IF f.off = d.prog.got THEN Write(n, d, f) ELSE Goes(n, Miss(d))

\* The first answer of a wake.
First(n, d, f) ==
    IF f.off # 0 THEN Goes(n, Miss(d))
    ELSE IF Knows(n, d, f) # "unknown" THEN Report(n, d, Knows(n, d, f), f.img, f.att)
    ELSE \/ f.floor /\ left.flat > 0
            /\ dev' = [dev EXCEPT ![n] = Keeps(d, "low", f.img, f.att)]
            /\ ring' = Append(ring, Done(n, f.img, "low", f.att))
            /\ Spend("flat") /\ UNCHANGED seen
         \/ LET e == [Takes(n, d, f) EXCEPT !.want = f.img, !.misses = 0] IN
            IF Resumes(n, d, f)
            THEN Goes(n, [e EXCEPT !.pc = IF e.prog.got = Size THEN "full" ELSE "ask"])
            ELSE Slice(n, e, f)

\* onReply() and wrote(), of the frame that came in the window, or None.
OnReply(n, f) ==
    LET d == dev[n] IN
    IF f = None THEN Goes(n, Miss(d))
    ELSE IF f.say = "busy" THEN Goes(n, Rest(Held(d)))
    ELSE IF f.say = "nothing" THEN Goes(n, Rest([d EXCEPT !.prog = NoneGot, !.skip = 0]))
    ELSE IF d.want = None THEN First(n, d, f)
    ELSE IF f.img # d.prog.img \/ f.att # d.prog.att THEN Goes(n, Miss([d EXCEPT !.want = None]))
    ELSE Slice(n, d, f)

\* The tick is faster than the node's reply window (50 ms and more).
TickKeepsUp(n) == ~serve.req /\ tick.at # "load" /\ \A k \in DOMAIN ring : ring[k].n # n

\* One FW_GET and what comes back: the answer, nothing (lost), or the late
\* frame of an earlier request; if that one was of use, the answer is late.
Exchange(n) ==
    LET d   == dev[n]
        off == IF d.want = None THEN 0 ELSE d.prog.got
        f   == Answer(n, d.want, off)
    IN
    /\ d.pc = "ask" /\ d.misses < MaxMisses /\ TickKeepsUp(n)
    /\ \/ /\ air[n] = None
          /\ AnswerFwGet(n, d.want, off) /\ OnReply(n, f) /\ UNCHANGED air
       \/ /\ air[n] # None
          /\ AnswerFwGet(n, d.want, off) /\ OnReply(n, air[n])
          /\ air' = [air EXCEPT ![n] = IF dev'[n].prog.got > d.prog.got THEN f ELSE None]
       \/ /\ f # None /\ air[n] = None /\ Spend("late") /\ air' = [air EXCEPT ![n] = f]
          /\ AnswerFwGet(n, d.want, off)
          /\ dev' = [dev EXCEPT ![n] = Miss(d)] /\ UNCHANGED <<ring, seen>>
       \/ /\ Spend("lost") /\ dev' = [dev EXCEPT ![n] = Miss(d)]
          /\ UNCHANGED <<owner, serve, prog, air, ring, seen>>
    /\ UNCHANGED <<mir, tick, storeOps>>

\* wantRequest() is false: out of replies, or of the wake's time.
Stops(n) ==
    LET d == dev[n] IN
    /\ d.pc = "ask"
    /\ IF d.misses >= MaxMisses THEN UNCHANGED left ELSE Spend("budget")
    /\ dev' = [dev EXCEPT ![n] = IF d.gained THEN Rest([d EXCEPT !.skip = 0]) ELSE Rest(Held(d))]
    /\ UNCHANGED <<air, mir, serve, owner, prog, ring, tick, storeOps, seen>>

\* stage(), to the switch: what is in flash is checked, not what arrived.
Verified(d, part) == Whole(d.slot[part]) /\ d.slot[part][0] = d.prog.img /\ d.prog.img \notin Corrupt
Stage(n) ==
    LET d == dev[n] IN
    /\ d.pc = "full"
    /\ IF Verified(d, Part(n))
       THEN Goes(n, [d EXCEPT !.boot = Part(n), !.pc = "switched"])
       ELSE Report(n, d, "bad", d.prog.img, d.prog.att)
    /\ UNCHANGED <<air, mir, serve, owner, prog, tick, storeOps>>

\* ... the trial, and the restart.  A node that cannot arm it does not switch.
Arm(n) ==
    LET d == dev[n] IN
    /\ d.pc = "switched"
    /\ \/ /\ dev' = [dev EXCEPT ![n] =
                        [d EXCEPT !.trial = [prev |-> d.run, img |-> d.prog.img, att |-> d.prog.att, boots |-> 0],
                                  !.prog = NoneGot, !.pc = "off", !.want = None, !.misses = 0, !.gained = FALSE]]
          /\ SendDone(Done(n, d.prog.img, "staged", d.prog.att))
          /\ UNCHANGED seen
       \/ /\ Spend("nvs")
          /\ dev' = [dev EXCEPT ![n] = Keeps([d EXCEPT !.boot = d.run], "flash", d.prog.img, d.prog.att)]
          /\ ring' = Append(ring, Done(n, d.prog.img, "flash", d.prog.att))
          /\ seen' = [seen EXCEPT !.refused[n] = @ \cup {<<d.prog.img, d.prog.att>>}]
    /\ UNCHANGED <<air, mir, serve, owner, prog, tick, storeOps>>

\* The power goes and comes back, asleep or at work.
PowerCut(n) ==
    /\ Spend("cut")
    /\ dev[n].pc # "switched" \/ left.gap > 0
    /\ dev' = [dev EXCEPT ![n] = [@ EXCEPT !.pc = "off", !.cold = TRUE, !.want = None, !.misses = 0,
                                           !.gained = FALSE]]
    /\ UNCHANGED <<air, mir, serve, owner, prog, ring, tick, storeOps, seen>>

\* The node's own page: an upload replaces the other slot, and nothing goes
\* back from it.
LocalUpload(n, i) ==
    LET d == dev[n] IN
    /\ d.pc = "up" /\ Spend("local")
    /\ i \notin Deaf \cup Crashing \cup Corrupt \cup Unloadable
    /\ dev' = [dev EXCEPT ![n] = [d EXCEPT !.slot[Part(n)] = [b \in Blocks |-> i], !.boot = Part(n),
                                           !.trial = NoTrial, !.miss = 0, !.pc = "off"]]
    /\ UNCHANGED <<air, mir, serve, owner, prog, ring, tick, storeOps, seen>>

\* ... one that breaks off: its first blocks are where a download's were, the
\* page closes, the node restarts.
LocalBreaksOff(n) ==
    LET d == dev[n] IN
    /\ d.pc = "up" /\ Spend("partial")
    /\ dev' = [dev EXCEPT ![n] = [d EXCEPT !.slot[Part(n)][0] = None, !.pc = "off"]]
    /\ seen' = [seen EXCEPT !.broke = TRUE]
    /\ UNCHANGED <<air, mir, serve, owner, prog, ring, tick, storeOps>>

-----------------------------------------------------------------------------
(* The tick: serviceFw() and the FW_DONE frames.                           *)

Idle == [at |-> "idle", img |-> NoImage, win |-> 0, off |-> 0, serial |-> 0]

\* syncFwMirrors(), to the first of its two writes: the image and the
\* statuses are read, the statuses handed to the callback.
SyncStatuses ==
    /\ tick.at = "idle" /\ gen.behind
    /\ tick' = [Idle EXCEPT !.at = "img", !.img = img]
    /\ gen' = [gen EXCEPT !.moved = FALSE]
    /\ mir' = [mir EXCEPT !.st = [n \in Nodes |-> IF img.have THEN tgt[n] ELSE "none"]]
    /\ UNCHANGED <<dev, air, serve, owner, prog, ring, img, tgt, disk, left, seen>>

\* A new or deleted image empties the windows: they hold the old one's bytes.
SyncImage ==
    /\ tick.at = "img"
    /\ mir' = [mir EXCEPT !.img = tick.img]
    /\ serve' = IF tick.img.serial # mir.img.serial \/ ~tick.img.have THEN Reset ELSE serve
    /\ gen' = [gen EXCEPT !.behind = gen.moved]
    /\ tick' = Idle
    /\ UNCHANGED <<dev, air, owner, prog, ring, img, tgt, disk, left, seen>>

\* An owner that ended its transfer, or is silent for IDLE_MS, loses the
\* windows.
DropsIdle ==
    /\ tick.at = "idle" /\ owner.id # None
    /\ owner.quiet \/ dev[owner.id].pc # "ask"
    /\ owner' = [id |-> None, quiet |-> TRUE]
    /\ serve' = Reset
    /\ prog' = FALSE
    /\ UNCHANGED <<dev, air, mir, ring, tick, storeVars>>

Progress ==
    /\ tick.at = "idle" /\ ~gen.behind /\ prog /\ owner.id # None /\ ~owner.quiet
    /\ prog' = FALSE
    /\ EspnowGet(owner.id, mir.img.id)
    /\ UNCHANGED <<dev, air, mir, serve, owner, ring, tick, seen>>

\* take(): the window is emptied before it is read into; without memory for
\* the windows nothing is loaded this time.
Take ==
    /\ tick.at = "idle" /\ ~gen.behind /\ serve.req /\ serve.loading = None
    /\ \/ /\ serve' = [serve EXCEPT !.req = FALSE, !.loading = serve.reqIdx, !.loadOff = serve.reqOff,
                                    !.w[serve.reqIdx] = Empty]
          /\ tick' = [tick EXCEPT !.at = "load", !.win = serve.reqIdx, !.off = serve.reqOff,
                                  !.serial = mir.img.serial]
          /\ UNCHANGED left
       \/ Spend("heap") /\ serve' = [serve EXCEPT !.req = FALSE] /\ UNCHANGED tick
    /\ UNCHANGED <<dev, air, mir, owner, prog, ring, storeOps, seen>>

\* nodeFwRead() and loaded(): nothing when the image is gone or the card busy.
loadLen(off) == IF Size - off < Win THEN Size - off ELSE Win
Load ==
    /\ tick.at = "load"
    /\ \E got \in {Reads(tick.serial), None} :
        /\ IF got = Reads(tick.serial) THEN UNCHANGED left ELSE Spend("read")
        /\ serve' = [serve EXCEPT !.loading = None,
                        !.w[tick.win] = IF got = None THEN Empty
                                        ELSE [base |-> tick.off, len |-> loadLen(tick.off), of |-> got]]
    /\ tick' = Idle
    /\ UNCHANGED <<dev, air, mir, owner, prog, ring, storeOps, seen>>

\* handleFwDone(): the transfer it ends is released at once; the store may be
\* busy, and the report is gone.
HandleFwDone ==
    /\ tick.at = "idle" /\ ring # <<>>
    /\ LET f == Head(ring) IN
        /\ owner' = [owner EXCEPT !.quiet = @ \/ owner.id = f.n]
        /\ \/ EspnowDone(f.n, f.img, f.status, f.att)
           \/ Spend("busy") /\ UNCHANGED storeOps
    /\ ring' = Tail(ring)
    /\ UNCHANGED <<dev, air, mir, serve, prog, tick, seen>>

RadioRestarts ==
    /\ mir' = [st |-> [n \in Nodes |-> "none"], img |-> [NoImage EXCEPT !.serial = 0]]
    /\ serve' = Reset /\ owner' = [id |-> None, quiet |-> TRUE] /\ prog' = FALSE
    /\ ring' = <<>> /\ tick' = Idle
    /\ UNCHANGED <<dev, air>>

-----------------------------------------------------------------------------
(* Properties.                                                             *)

Device == [slot : [Slots -> Content], boot : Slots, run : Slots,
           trial : [prev : Slots \cup {None}, img : Images \cup {None}, att : Attempt, boots : 0..MaxBoots],
           miss : 0..MaxMissed, rb : [img : Images \cup {None}, att : Attempt],
           prog : [img : Images \cup {None}, att : Attempt, got : 0..Size, part : Slots],
           failed : [img : Images \cup {None}, att : Attempt], skip : 0..1, mains : BOOLEAN,
           pc : {"off", "up", "ask", "full", "switched"}, want : Images \cup {None},
           misses : 0..MaxMisses, gained : BOOLEAN, cold : BOOLEAN, rtc : Images]

RadioTypeOK ==
    /\ dev \in [Nodes -> Device]
    /\ air \in [Nodes -> Frames \cup {None}]
    /\ mir.st \in [Nodes -> Statuses]
    /\ serve.loading \in {None, 0, 1} /\ serve.loadOff \in Blocks /\ serve.reqOff \in Blocks
    /\ \A i \in {0, 1} : serve.w[i].base + serve.w[i].len <= Size
    /\ owner.id \in Nodes \cup {None}

\* There is always a way back: the slot the node runs from is a whole image,
\* and while an image is on trial so is the slot it would go back to.
\* Nothing is written into either, although downloads, local uploads and
\* roll-backs all write "the other slot".  Excepted is the old slot when an
\* upload on the node's page broke off during the trial.
WayBack ==
    \A n \in Nodes :
        /\ dev[n].pc # "off" => Whole(dev[n].slot[dev[n].run])
        /\ dev[n].trial.prev # None /\ ~seen.broke => Loads(dev[n].slot[dev[n].trial.prev])

\* The bytes the node counts are bytes of the image it counts them for, on
\* whichever wake and across whatever upload they came: a window loaded from
\* one image is never answered from under the next one's identity.
\* Excepted are files a power cut left in disagreement, and a slot an upload
\* on the node's page broke off in.
Counts(n) ==
    dev[n].prog.img # None /\ dev[n].pc # "off" =>
        \A b \in 0..(dev[n].prog.got - 1) : dev[n].slot[dev[n].prog.part][b] = dev[n].prog.img
CountsIts == seen.torn \/ seen.broke \/ \A n \in Nodes : Counts(n)

\* The same, whatever was done on the node's page: "bytes at the start of the
\* partition that are this image's" (FwFetch.h:52).
WrittenIsTheImage == \A n \in Nodes : Counts(n)

\* An image and attempt the node has given up (refused, or rolled back from)
\* is not downloaded again: not one slice is written for it.  A power cut
\* makes the node forget a refusal, never a roll-back.
NotAgain ==
    [][\A n \in Nodes : LET p == dev'[n].prog IN
          /\ p.got > dev[n].prog.got /\ ~seen.lostAttempt
        => <<p.img, p.att>> \notin seen.refused[n] \cup seen.back[n]]_<<radioVars, storeVars>>

\* An image that never hears the collector, or crashes, is left.
ComesBack == \A n \in Nodes : (Running(n) \in Deaf \cup Crashing) ~> (Running(n) \notin Deaf \cup Crashing)

\* Every node chosen gets a verdict: done, failed, or no longer chosen.
\* Excepted is a WiFi node's failure that its store could not keep.
Verdicts == \A n \in Nodes : isOpen(tgt[n]) ~> (~isOpen(tgt[n]) \/ seen.unheard)

\* The same, whatever the store kept: a failed update that is held until it
\* is delivered never leaves a target "sending" for ever (FwOffer.h:19-22).
NeverSendingForEver == \A n \in Nodes : isOpen(tgt[n]) ~> ~isOpen(tgt[n])

\* A node never runs a downloaded image without a way back before the
\* collector was heard once: what FwFetch.cpp:261 says the trial is for.
OnTrialOrHeard == \A n \in Nodes : dev[n].pc = "up" /\ Running(n) \in Deaf => dev[n].trial.prev # None
=============================================================================
