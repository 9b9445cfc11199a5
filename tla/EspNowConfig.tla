---------------------------- MODULE EspNowConfig ----------------------------
(***************************************************************************)
(* The configuration of ESP-NOW nodes.  On the collector three parties     *)
(* work on it without a common lock: the radio's receive callback, which   *)
(* answers at once from copies in RAM (src/espnow/EspNowIngest.cpp), the   *)
(* tick in loop(), which stores what the callback parked and renews the    *)
(* copies, and the web handlers, which edit the store                      *)
(* (src/nodes/NodeCfgStore.cpp).  On the node a wake whose DATA frame was  *)
(* acknowledged makes at most one exchange: it reports its configuration   *)
(* or fetches the desired one, slice by slice                              *)
(* (node_espnow/src/main.cpp, CfgFetch.h).  A handover hands every node    *)
(* the next network, and the collector follows when all of them hold it.   *)
(***************************************************************************)
EXTENDS NodeCfgRules, Sequences, FiniteSets

CONSTANTS
    Nodes,
    Settings,         \* what an edit can choose; one of them per configuration
    Refused,          \* the settings the nodes' validator refuses
    None,
    Slices,           \* frames per document, 6 in the code at most
    RingCap,          \* frames parked for the tick: RX_RING - 1
    MaxMisses,        \* NODE_CFG_MAX_MISSES
    MaxLevel,         \* BACKOFF_MAX_LEVEL
    Scenarios

ASSUME ConfigAssumption ==
    /\ Refused \subseteq Settings
    /\ Slices \in Nat \ {0} /\ RingCap \in Nat \ {0}
    /\ MaxMisses \in Nat \ {0} /\ MaxLevel \in Nat

VARIABLES
    node,         \* per node: NVS (rev, doc), RTC memory and the exchange under way
    air,          \* per node: a CFG frame that will arrive one window late
    entry, file,  \* the store per node: NodeCfgSummary in RAM, /nodes/e_<id>.json
    known,        \* the nodes in the radio's table
    mirror,       \* per node: what the callback answers from (s_cfgHave .. s_cfgPend)
    told,         \* per node: the last local report and the rev it got (s_repHash, s_repRev)
    asm,          \* s_asm, the one report assembler
    ready,        \* s_reportReady with s_reportPlan
    ring,         \* s_ring: CFG_ACK frames
    synced,       \* s_cfgMirrorGen = the store's generation
    sync,         \* syncCfgMirrors() under way
    ho,           \* s_ho.active, with its file
    web,          \* the node a forget handler is at work on
    left,         \* troubles and edits the scenario still has
    watch         \* ghost: what happened that the properties except

nodeVars  == <<node, air>>
storeVars == <<entry, file, ho>>
radioVars == <<known, mirror, told, asm, ready, ring>>
tickVars  == <<synced, sync>>
cfgVars   == <<nodeVars, storeVars, radioVars, tickVars, web, left, watch>>

Budgets == {"edit", "web", "lost", "late", "cold", "flash", "busy", "write", "restart",
            "forget", "pair", "handover"}

Doc     == [set : Settings, next : BOOLEAN]
Sent    == [doc : Doc, local : BOOLEAN]               \* a document as it travels
NoDocs  == <<>>
Frame   == [rev : Rev, total : {0, Slices}, off : 0..(Slices - 1), part : Sent \cup {None}]
Calm    == [level |-> 0, skip |-> 0]
Backoff == [level : 0..MaxLevel, skip : 0..(2 ^ MaxLevel - 1)]

Spend(b) == left[b] > 0 /\ left' = [left EXCEPT ![b] = @ - 1]
Plain(doc) == [doc |-> doc, local |-> FALSE]

-----------------------------------------------------------------------------
(* The store.  Its operations hold its mutex, so each is one step.         *)

Held(n) == entry[n] # None /\ file[n] # None

Noted(high, rev) == IF rev # 0 /\ ~revAtOrPast(high, rev) THEN rev ELSE high

Bumped(e) ==
    LET rev == revAfter(e.rev, e.told) IN
    [e EXCEPT !.rev = rev, !.status = statusAfterApplied("pending", rev, e.applied)]

\* saveEntry(): the generation moves whether or not the write succeeds; a
\* failed write leaves the old document in the file, for what RAM calls the
\* new revision.
Save(n, e, desired) ==
    /\ entry' = [entry EXCEPT ![n] = e]
    /\ synced' = FALSE
    /\ \/ file' = [file EXCEPT ![n] = [desired |-> desired, applied |-> e.applied,
                                       told |-> e.told, status |-> e.status, hoRev |-> e.hoRev]]
          /\ UNCHANGED left
       \/ Spend("write") /\ UNCHANGED file

Desired(rev, doc) == [rev |-> rev, doc |-> doc]

\* Fault: the next network is the node's business.
HoKeepNothing(n, doc) == FALSE

\* hoKeepNext(): the adopted document lacks the handover's network, or has
\* one that was taken back.
HoKeepNext(n, doc) == ho /\ Held(n) /\ doc.next # file[n].desired.doc.next

\* nodeCfgEspnowReport(), a report adopted: the node runs `applied`, and a
\* first contact may differ from the radio table in name or interval.
AdoptedAs(n, plan, renamed) ==
    LET first == ~Held(n)
        rev   == IF ~first /\ revAtOrPast(entry[n].rev, plan.rev)
                 THEN nextRev(entry[n].rev) ELSE plan.rev
        e     == [rev |-> rev, applied |-> plan.applied,
                  told |-> Noted(IF first THEN 0 ELSE Noted(entry[n].told, ready.applied), plan.applied),
                  status |-> statusAfterApplied("pending", rev, plan.applied),
                  hoRev |-> IF first THEN 0 ELSE entry[n].hoRev]
        b     == Bumped(e)
    IN  IF HoKeepNext(n, asm.docs[1].doc) THEN [b EXCEPT !.hoRev = b.rev]
        ELSE IF first /\ renamed THEN b ELSE e

StoreReport(n, renamed) ==
    LET local == asm.docs[1].local
        fresh == IF ~Held(n) /\ ~ready.adopt THEN planReport(FALSE, 0, asm.rev, local) ELSE ready
        plan  == IF local THEN fresh ELSE [fresh EXCEPT !.applied = asm.rev]
        doc   == asm.docs[1].doc
        kept  == IF HoKeepNext(n, doc) THEN [doc EXCEPT !.next = file[n].desired.doc.next] ELSE doc
        e     == AdoptedAs(n, plan, renamed)
    IN  IF plan.adopt
        THEN Save(n, e, Desired(e.rev, kept))
        ELSE Save(n, [entry[n] EXCEPT !.told = Noted(@, ready.applied), !.applied = plan.applied,
                                      !.status = statusAfterApplied(@, entry[n].rev, plan.applied)],
                  file[n].desired)

\* nodeCfgEspnowAck(): the entry after it.
Acked(n, rev, ok) ==
    LET e == [entry[n] EXCEPT !.told = Noted(@, rev)]
    IN  IF ok THEN [e EXCEPT !.applied = rev, !.status = statusAfterApplied(@, e.rev, rev)]
        ELSE IF rev = e.rev THEN [entry[n] EXCEPT !.status = "rejected"] ELSE entry[n]

-----------------------------------------------------------------------------
(* The receive callback.  Each answer is one step of the WiFi task.        *)

Parked(n, rev, ok) == Append(ring, [n |-> n, rev |-> rev, ok |-> ok])

Offers(n, have) == mirror[n].doc # None /\ ~revAtOrPast(have, mirror[n].docRev)

\* answerCfgGet(): a slice of the rendered document, or "nothing for you".
CfgAnswer(n, have, off) ==
    LET want == IF mirror[n].have THEN mirror[n].rev ELSE 0 IN
    IF Offers(n, have)
    THEN [rev |-> mirror[n].docRev, total |-> Slices, off |-> off, part |-> Plain(mirror[n].doc)]
    ELSE [rev |-> IF revAtOrPast(have, want) THEN have ELSE want, total |-> 0, off |-> 0, part |-> None]

RunsAlready(n, have) ==
    /\ ~Offers(n, have) /\ mirror[n].pend
    /\ revAtOrPast(have, IF mirror[n].have THEN mirror[n].rev ELSE 0)

AnswerCfgGet(n, have) ==
    IF RunsAlready(n, have)
    THEN /\ mirror' = [mirror EXCEPT ![n].pend = FALSE]
         /\ ring' = IF Len(ring) < RingCap THEN Parked(n, have, TRUE) ELSE ring
    ELSE UNCHANGED <<mirror, ring>>

EmptyAsm == [n |-> None, rev |-> 0, docs |-> NoDocs, old |-> FALSE]

\* espnowCfgHeld(): another node's report is under way and still moving.
CfgHeld(n, off) ==
    off = 0 /\ asm.n # n /\ Len(asm.docs) \in 1..(Slices - 1) /\ ~asm.old

\* Fault: a slice fits whose offset does.
FitsByOffset(n, rev, off) == off = Len(asm.docs)

\* espnowCfgFeed(): slice 0 starts over; any other must continue what is there.
Fits(n, rev, off) == off = 0 \/ (n = asm.n /\ rev = asm.rev /\ off = Len(asm.docs))

Fed(n, rev, off, part) ==
    [n |-> n, rev |-> rev, docs |-> IF off = 0 THEN <<part>> ELSE Append(asm.docs, part), old |-> FALSE]

\* Fault: a report that was adopted is adopted again.
RepeatsNever(n, a) == FALSE

\* The last slice of a local report whose answer was lost.
Repeats(n, a) == a.docs[1].local /\ told[n].report = [rev |-> a.rev, docs |-> a.docs]

ReportTold(n, a) ==
    LET local == a.docs[1].local
        plan  == planReport(mirror[n].have, mirror[n].rev, a.rev, local)
    IN  IF Repeats(n, a) THEN told[n].rev ELSE IF local THEN plan.applied ELSE a.rev

\* feedCfgReport().  `says` is the revision the last slice is answered with.
Completes(n, rev, off, part) ==
    /\ n \in known /\ ready = None /\ ~CfgHeld(n, off) /\ Fits(n, rev, off)
    /\ off = Slices - 1
Says(n, rev, off, part) == ReportTold(n, Fed(n, rev, off, part))

FeedCfgReport(n, rev, off, part) ==
    LET a == Fed(n, rev, off, part)
        local == a.docs[1].local
    IN  IF ready # None \/ n \notin known \/ CfgHeld(n, off) \/ ~Fits(n, rev, off)
        THEN UNCHANGED <<asm, ready, told>>
        ELSE IF off < Slices - 1 THEN asm' = a /\ UNCHANGED <<ready, told>>
        ELSE IF Repeats(n, a) THEN asm' = EmptyAsm /\ UNCHANGED <<ready, told>>
        ELSE /\ asm' = a
             /\ ready' = planReport(mirror[n].have, mirror[n].rev, rev, local)
             /\ told' = IF local THEN [told EXCEPT ![n] = [report |-> [rev |-> a.rev, docs |-> a.docs],
                                                           rev |-> ReportTold(n, a)]] ELSE told

\* A CFG_ACK reaches the ring or is gone.
AckArrives(n, rev, ok) ==
    \/ ring' = (IF Len(ring) < RingCap THEN Parked(n, rev, ok) ELSE ring) /\ UNCHANGED left
    \/ Spend("lost") /\ UNCHANGED ring

-----------------------------------------------------------------------------
(* The node.  A wake's exchange is a few steps; between two of them the    *)
(* collector does whatever it does.                                        *)

\* Fault: the wakes skipped are not counted.
WaitsForEver(b) == b

Waited(b) == IF b.skip > 0 THEN [b EXCEPT !.skip = @ - 1] ELSE b
Failed(b) == LET l == IF b.level < MaxLevel THEN b.level + 1 ELSE b.level
             IN  [level |-> l, skip |-> 2 ^ l - 1]

\* Fault: a pending configuration is fetched over a local edit.
ChoosesFetch(s, pending) ==
    IF pending /\ s.fb.skip = 0 THEN "fetch"
    ELSE IF (s.local \/ s.due) /\ s.rb.skip = 0 THEN "report" ELSE "asleep"

\* choose(): a local edit first, then the report owed, then a fetch.
Chooses(s, pending) ==
    IF s.local THEN IF s.rb.skip = 0 THEN "report" ELSE "asleep"
    ELSE IF s.due /\ s.rb.skip = 0 THEN "report"
    ELSE IF pending /\ s.fb.skip = 0 THEN "fetch" ELSE "asleep"

\* ... and the skips it uses up.
Waits(s, pending) ==
    [s EXCEPT !.phase = Chooses(s, pending), !.off = 0, !.misses = 0,
              !.got = [rev |-> 0, docs |-> NoDocs],
              !.rb = IF s.local \/ s.due THEN Waited(@) ELSE @,
              !.fb = IF ~s.local /\ pending /\ ~(s.due /\ s.rb.skip = 0) THEN Waited(@) ELSE @]

\* What the node left with the collector is taken by the tick, which runs
\* several times a second, before the node wakes again, ten seconds later;
\* a forget handler is done by then as well, and its copies are renewed.
TickKeepsUp(n) ==
    /\ ~(ready # None /\ asm.n = n)
    /\ \A i \in DOMAIN ring : ring[i].n # n
    /\ web # n /\ (entry[n] = None => ~mirror[n].have)

\* A wake whose DATA was acknowledged; the acknowledgement's flag is the
\* copy's.
Wake(n) ==
    /\ node[n].phase = "asleep" /\ n \in known /\ TickKeepsUp(n)
    /\ node[n].local \/ node[n].due \/ mirror[n].pend
    /\ node' = [node EXCEPT ![n] = Waits(node[n], mirror[n].pend)]
    /\ UNCHANGED <<air, storeVars, radioVars, tickVars, web, left, watch>>

Ends(s) == [s EXCEPT !.phase = "asleep", !.off = 0, !.misses = 0,
                     !.got = [rev |-> 0, docs |-> NoDocs], !.ack = None]
ReportFails(s) == [Ends(s) EXCEPT !.rb = Failed(@)]

\* The answer to the last slice.  The new revision goes to flash, and a
\* write that fails is found out at the next wake, which reads it back.
ReportAnswered(s, rev, saved) ==
    [Ends(s) EXCEPT !.due = FALSE, !.rb = Calm,
                    !.rev = IF s.local /\ saved THEN rev ELSE @,
                    !.local = @ /\ ~saved]

\* reportConfig(), one slice.
ReportSlice(n) ==
    LET s == node[n]  part == [doc |-> s.doc, local |-> s.local]  last == s.off = Slices - 1
        ended == Completes(n, s.rev, s.off, part)
        rev   == Says(n, s.rev, s.off, part)
    IN
    /\ s.phase = "report"
    /\ \/ \* delivered, and its receipt or answer comes back
          /\ FeedCfgReport(n, s.rev, s.off, part)
          /\ IF ~last THEN node' = [node EXCEPT ![n].off = @ + 1] /\ UNCHANGED left
             ELSE IF ended /\ (rev # 0 \/ ~s.local)
             THEN \/ node' = [node EXCEPT ![n] = ReportAnswered(s, rev, TRUE)] /\ UNCHANGED left
                  \/ s.local /\ Spend("flash")
                     /\ node' = [node EXCEPT ![n] = ReportAnswered(s, rev, FALSE)]
             ELSE node' = [node EXCEPT ![n] = ReportFails(s)] /\ UNCHANGED left
       \/ \* delivered, and nothing comes back
          /\ Spend("lost")
          /\ FeedCfgReport(n, s.rev, s.off, part)
          /\ node' = [node EXCEPT ![n] = ReportFails(s)]
       \/ \* not delivered
          /\ Spend("lost")
          /\ node' = [node EXCEPT ![n] = ReportFails(s)]
          /\ UNCHANGED <<asm, ready, told>>
    /\ UNCHANGED <<air, storeVars, known, mirror, ring, tickVars, web, watch>>

Acks(s, rev, ok) == [Ends(s) EXCEPT !.phase = "ack", !.ack = [rev |-> rev, ok |-> ok]]
Misses(s)        == [s EXCEPT !.misses = @ + 1]

\* applyConfigDoc(): refused and remembered, or saved and run.  A write that
\* fails is nobody's fault: nothing is remembered and nothing answered.
Applies(s, rev, doc) ==
    IF doc.set \in Refused
    THEN [Acks(s, rev, FALSE) EXCEPT !.refusedRev = rev, !.fb = Calm]
    ELSE [Acks(s, rev, TRUE) EXCEPT !.rev = rev, !.doc = doc, !.local = FALSE, !.fb = Calm]
NotWritten(s) == [Ends(s) EXCEPT !.fb = Failed(@)]

\* Fault: a refused revision is fetched again.
KnowsNone(s, f) == FALSE

KnowsRefused(s, f) == f.off = 0 /\ s.refusedRev # 0 /\ f.rev = s.refusedRev

\* Fault: slices are put together whatever revision they are of.
Continues(s, f) == f.off = Len(s.got.docs)

\* espnowCfgFeed() on the node.
TakesSlice(s, f) == f.off = 0 \/ (f.rev = s.got.rev /\ f.off = Len(s.got.docs))

Took(s, f) == [rev  |-> f.rev,
               docs |-> IF f.off = 0 THEN <<f.part>> ELSE Append(s.got.docs, f.part)]

\* onReply(): what a frame does to the node.
OnReply(s, f) ==
    IF f.total = 0 \/ (f.off = 0 /\ f.rev = s.rev)
    THEN [IF f.rev = s.rev THEN Acks(s, f.rev, TRUE) ELSE Ends(s) EXCEPT !.fb = Calm]
    ELSE IF KnowsRefused(s, f)
    THEN [Acks(s, f.rev, FALSE) EXCEPT !.fb = Failed(@)]
    ELSE IF TakesSlice(s, f)
    THEN IF f.off = Slices - 1 THEN Applies(s, f.rev, Took(s, f).docs[1].doc)
         ELSE [s EXCEPT !.got = Took(s, f), !.off = f.off + 1, !.misses = 0]
    ELSE [Misses(s) EXCEPT !.off = IF f.rev # s.got.rev THEN 0 ELSE @]

\* fetchConfig(), one request.  A frame that came too late for its own
\* window is heard in the next one.
FetchAsk(n) ==
    LET s == node[n]  f == CfgAnswer(n, s.rev, s.off) IN
    /\ s.phase = "fetch" /\ s.misses < MaxMisses
    /\ \/ \* heard in time
          /\ n \in known /\ air[n] = None
          /\ AnswerCfgGet(n, s.rev)
          /\ \/ node' = [node EXCEPT ![n] = OnReply(s, f)] /\ UNCHANGED left
             \/ OnReply(s, f).rev # s.rev
                /\ Spend("flash") /\ node' = [node EXCEPT ![n] = NotWritten(s)]
          /\ UNCHANGED air
       \/ \* an earlier frame is heard instead
          /\ n \in known /\ air[n] # None
          /\ AnswerCfgGet(n, s.rev)
          /\ node' = [node EXCEPT ![n] = OnReply(s, air[n])]
          /\ air' = [air EXCEPT ![n] = None]
          /\ UNCHANGED left
       \/ \* answered, and the answer is lost or late
          /\ n \in known /\ air[n] = None
          /\ AnswerCfgGet(n, s.rev)
          /\ node' = [node EXCEPT ![n] = Misses(s)]
          /\ \/ Spend("lost") /\ UNCHANGED air
             \/ Spend("late") /\ air' = [air EXCEPT ![n] = f]
       \/ \* lost on the way, or for a collector that does not know the node
          /\ IF n \in known THEN Spend("lost") ELSE UNCHANGED left
          /\ node' = [node EXCEPT ![n] = Misses(s)]
          /\ UNCHANGED <<mirror, ring, air>>
    /\ UNCHANGED <<storeVars, known, told, asm, ready, tickVars, web, watch>>

\* Enough windows without a frame, or the wake's 400 ms.
FetchGivesUp(n) ==
    /\ node[n].phase = "fetch" /\ node[n].misses > 0
    /\ node' = [node EXCEPT ![n] = [Ends(@) EXCEPT !.fb = Failed(@)]]
    /\ air' = [air EXCEPT ![n] = None]
    /\ UNCHANGED <<storeVars, radioVars, tickVars, web, left, watch>>

SendCfgAck(n) ==
    /\ node[n].phase = "ack"
    /\ AckArrives(n, node[n].ack.rev, node[n].ack.ok)
    /\ node' = [node EXCEPT ![n] = Ends(@)]
    /\ air' = [air EXCEPT ![n] = None]
    /\ UNCHANGED <<storeVars, known, mirror, told, asm, ready, tickVars, web, watch>>

\* A power cut: RTC memory is gone, the configuration in flash is not.
ColdStart(n) ==
    /\ Spend("cold")
    /\ node' = [node EXCEPT ![n] = [Ends(@) EXCEPT !.due = TRUE, !.refusedRev = 0,
                                                  !.rb = Calm, !.fb = Calm]]
    /\ air' = [air EXCEPT ![n] = None]
    /\ UNCHANGED <<storeVars, radioVars, tickVars, web, watch>>

\* The node's own page: validated there, saved as a local edit.
LocalEdit(n, set) ==
    /\ node[n].phase = "asleep" /\ set \notin Refused \cup {node[n].doc.set}
    /\ Spend("edit")
    /\ node' = [node EXCEPT ![n].doc.set = set, ![n].local = TRUE]
    /\ UNCHANGED <<air, storeVars, radioVars, tickVars, web, watch>>

-----------------------------------------------------------------------------
(* The tick, in loop(): the parked report, the ring, then the copies.      *)

Drops == asm' = EmptyAsm /\ ready' = None

\* serviceCfgReport().  Busy: two seconds without the store's mutex.
TickReport ==
    /\ ready # None /\ sync = None
    /\ Drops
    /\ IF asm.n \notin known
       THEN /\ watch' = [watch EXCEPT !.missed = @ \cup {asm.n}]
            /\ UNCHANGED <<entry, file, synced, left>>
       ELSE \/ /\ \E renamed \in {FALSE} \cup {~Held(asm.n)} : StoreReport(asm.n, renamed)
               /\ watch' = [watch EXCEPT !.kept[asm.n] = [rev |-> asm.rev, docs |-> asm.docs]]
            \/ /\ Spend("busy")
               /\ watch' = [watch EXCEPT !.missed = @ \cup {asm.n}]
               /\ UNCHANGED <<entry, file, synced>>
    /\ UNCHANGED <<nodeVars, ho, known, mirror, told, ring, sync, web>>

\* handleCfgAck()
TickAck ==
    LET a == Head(ring)
        e == Acked(a.n, a.rev, a.ok)
    IN
    /\ ring # <<>> /\ sync = None
    /\ ring' = Tail(ring)
    /\ IF a.n \notin known \/ entry[a.n] = None THEN UNCHANGED <<entry, file, synced, left>>
       ELSE \/ IF e = entry[a.n] THEN UNCHANGED <<entry, file, synced, left>>
               ELSE IF file[a.n] = None
               THEN /\ entry' = [entry EXCEPT ![a.n] = e]
                    /\ synced' = FALSE
                    /\ UNCHANGED <<file, left>>
               ELSE Save(a.n, e, file[a.n].desired)
            \/ Spend("busy") /\ UNCHANGED <<entry, file, synced>>
    /\ UNCHANGED <<nodeVars, ho, known, mirror, told, asm, ready, sync, web, watch>>

\* syncCfgMirrors(): for each node the entry, then the document, under two
\* holds of the store's mutex.  `synced` turns FALSE if the store changes
\* while a pass is under way.
SyncBegins ==
    /\ sync = None /\ ~synced
    /\ sync' = [todo |-> Nodes, r |-> None, again |-> FALSE]
    /\ synced' = TRUE
    /\ UNCHANGED <<nodeVars, storeVars, radioVars, web, left, watch>>

SyncReads(n) ==
    LET have == n \in known /\ entry[n] # None
        rev  == IF have THEN entry[n].rev ELSE 0
        send == have /\ shouldSend(entry[n].status, rev, entry[n].applied)
    IN
    /\ sync # None /\ sync.r = None /\ n \in sync.todo
    /\ \/ /\ sync' = [sync EXCEPT !.r = [n |-> n, have |-> have, rev |-> rev, send |-> send,
                                         keep |-> send /\ mirror[n].doc # None /\ mirror[n].docRev = rev]]
          /\ UNCHANGED left
       \/ /\ n \in known /\ Spend("busy")
          /\ sync' = [sync EXCEPT !.todo = @ \ {n}, !.again = TRUE]
    /\ UNCHANGED <<nodeVars, storeVars, radioVars, synced, web, watch>>

\* nodeCfgRadioDoc(), and its revision is still the one read before.
Renders(r) ==
    /\ r.send /\ ~r.keep /\ Held(r.n)
    /\ shouldSend(entry[r.n].status, entry[r.n].rev, entry[r.n].applied)
    /\ entry[r.n].rev = r.rev

SyncWrites ==
    LET r    == sync.r
        doc  == IF Renders(r) THEN file[r.n].desired.doc ELSE None
        kept == IF r.keep THEN mirror[r.n].doc ELSE doc
    IN
    /\ sync # None /\ sync.r # None
    /\ mirror' = [mirror EXCEPT ![r.n] = [have |-> r.have, rev |-> r.rev, doc |-> kept,
                                           docRev |-> IF r.keep THEN @.docRev ELSE r.rev,
                                           pend |-> kept # None]]
    /\ sync' = [sync EXCEPT !.todo = @ \ {r.n}, !.r = None]
    /\ UNCHANGED <<nodeVars, storeVars, known, told, asm, ready, ring, synced, web, left, watch>>

SyncEnds ==
    /\ sync # None /\ sync.r = None /\ sync.todo = {}
    /\ sync' = None
    /\ synced' = (synced /\ ~sync.again)
    /\ UNCHANGED <<nodeVars, storeVars, radioVars, web, left, watch>>

\* The assembler has not moved for EN_CFG_HOLD_MS; a report's slices are
\* milliseconds apart.
HoldExpires ==
    /\ Len(asm.docs) \in 1..(Slices - 1) /\ ~asm.old
    /\ node[asm.n].phase # "report"
    /\ asm' = [asm EXCEPT !.old = TRUE]
    /\ UNCHANGED <<nodeVars, storeVars, known, mirror, told, ready, ring, tickVars, web, left, watch>>

-----------------------------------------------------------------------------
(* The web.                                                                *)

\* nodeCfgApiPost(): settings the collector's validator passes.  The next
\* network is the handover's.
ApiPost(n, set) ==
    /\ Held(n) /\ set # file[n].desired.doc.set
    /\ left.web > 0
    /\ LET e == Bumped(entry[n])
           d == Desired(e.rev, [file[n].desired.doc EXCEPT !.set = set])
       IN  /\ entry' = [entry EXCEPT ![n] = e]
           /\ synced' = FALSE
           /\ \/ /\ file' = [file EXCEPT ![n] = [@ EXCEPT !.desired = d, !.told = e.told,
                                                         !.status = e.status]]
                 /\ left' = [left EXCEPT !.web = @ - 1]
              \/ /\ left.write > 0 /\ UNCHANGED file
                 /\ left' = [left EXCEPT !.web = @ - 1, !.write = @ - 1]
    /\ UNCHANGED <<nodeVars, ho, radioVars, sync, web, watch>>

\* handAll(): every node with a configuration is handed the next network,
\* or has it taken back, in a new revision.
HandAll(start) ==
    LET to(n) == LET e == Bumped(entry[n]) IN [e EXCEPT !.hoRev = IF start THEN e.rev ELSE 0]
        doc(n) == [file[n].desired.doc EXCEPT !.next = start]
    IN  /\ entry' = [n \in Nodes |-> IF Held(n) THEN to(n) ELSE entry[n]]
        /\ file' = [n \in Nodes |->
               IF Held(n) THEN [desired |-> Desired(to(n).rev, doc(n)), applied |-> to(n).applied,
                                told |-> to(n).told, status |-> to(n).status, hoRev |-> to(n).hoRev]
               ELSE file[n]]
        /\ ho' = start
        /\ synced' = FALSE

HandoverStart ==
    /\ ~ho /\ Spend("handover") /\ HandAll(TRUE)
    /\ UNCHANGED <<nodeVars, radioVars, sync, web, watch>>
HandoverCancel ==
    /\ ho /\ Spend("handover") /\ HandAll(FALSE)
    /\ UNCHANGED <<nodeVars, radioVars, sync, web, watch>>

\* Fault: a node is ready while it runs exactly what it was handed.
HoReadyExactly(n) == entry[n] # None /\ entry[n].hoRev # 0 /\ entry[n].applied = entry[n].hoRev

\* hoClassify()
HoReady(n) ==
    entry[n] # None /\ entry[n].hoRev # 0 /\ revAtOrPast(entry[n].applied, entry[n].hoRev)

NoMirror == [have |-> FALSE, rev |-> 0, doc |-> None, docRev |-> 0, pend |-> FALSE]
NotTold  == [report |-> None, rev |-> 0]

\* The collector starts with what its files hold.
Boots(f) ==
    /\ entry' = [n \in Nodes |-> IF f[n] = None THEN None
                  ELSE [rev |-> f[n].desired.rev, applied |-> f[n].applied, told |-> f[n].told,
                        status |-> f[n].status, hoRev |-> f[n].hoRev]]
    /\ mirror' = [n \in Nodes |-> NoMirror]
    /\ told' = [n \in Nodes |-> NotTold]
    /\ asm' = EmptyAsm /\ ready' = None /\ ring' = <<>>
    /\ synced' = FALSE /\ sync' = None /\ web' = None
    /\ watch' = [missed |-> watch.missed \cup (IF ready = None THEN {} ELSE {asm.n}),
                 kept |-> [n \in Nodes |-> None]]

\* handoverSwitch(), by itself once every node is ready, and the restart
\* into the next network.
AutoSwitch ==
    /\ ho /\ \A n \in Nodes : n \in known \/ entry[n] # None => HoReady(n)
    /\ ho' = FALSE
    /\ Boots(file)
    /\ UNCHANGED <<nodeVars, file, known, left>>

Restart ==
    /\ Spend("restart")
    /\ Boots(file)
    /\ UNCHANGED <<nodeVars, file, ho, known>>

\* handleEspnowForget(): the slot, then the configuration, if the store can
\* be had.
ForgetNode(n) ==
    /\ n \in known /\ web = None /\ Spend("forget")
    /\ web' = n
    /\ known' = known \ {n}
    /\ told' = [told EXCEPT ![n] = NotTold]
    /\ synced' = FALSE
    /\ UNCHANGED <<nodeVars, storeVars, mirror, asm, ready, ring, sync, watch>>

ForgetConfig ==
    /\ web # None
    /\ web' = None
    /\ \/ /\ entry' = [entry EXCEPT ![web] = None]
          /\ file' = [file EXCEPT ![web] = None]
          /\ synced' = FALSE
          /\ UNCHANGED left
       \/ Spend("busy") /\ UNCHANGED <<entry, file, synced>>
    /\ UNCHANGED <<nodeVars, ho, radioVars, sync, watch>>

\* The node pairs again: its report is owed at once.
Pair(n) ==
    /\ n \notin known /\ sync = None /\ node[n].phase = "asleep" /\ Spend("pair")
    /\ known' = known \cup {n}
    /\ told' = [told EXCEPT ![n] = NotTold]
    /\ synced' = FALSE
    /\ node' = [node EXCEPT ![n].due = TRUE, ![n].rb = Calm]
    /\ watch' = [watch EXCEPT !.kept[n] = None]
    /\ UNCHANGED <<air, storeVars, mirror, asm, ready, ring, sync, web>>

-----------------------------------------------------------------------------
FirstDoc == [set |-> CHOOSE x \in Settings \ Refused : TRUE, next |-> FALSE]
Fresh    == [rev |-> 0, doc |-> FirstDoc, local |-> FALSE, refusedRev |-> 0, due |-> TRUE,
             rb |-> Calm, fb |-> Calm, phase |-> "asleep", off |-> 0, misses |-> 0,
             got |-> [rev |-> 0, docs |-> NoDocs], ack |-> None]

\* Settled: node and collector agree on revision `at`.
Agreed(at) == [rev |-> at, applied |-> at, told |-> at, status |-> "applied", hoRev |-> 0]
OnFile(e)  == [desired |-> Desired(e.rev, FirstDoc), applied |-> e.applied, told |-> e.told,
               status |-> e.status, hoRev |-> e.hoRev]

InitAt(sc) ==
    /\ left = [b \in Budgets |-> sc[b]]
    /\ known = {n \in Nodes : sc.rev[n] # None}
    /\ node = [n \in Nodes |-> IF sc.rev[n] \in {None, 0} THEN Fresh
                                ELSE [Fresh EXCEPT !.rev = sc.rev[n], !.due = FALSE]]
    /\ entry = [n \in Nodes |-> IF sc.rev[n] \in {None, 0} THEN None ELSE Agreed(sc.rev[n])]
    /\ file = [n \in Nodes |-> IF sc.rev[n] \in {None, 0} THEN None ELSE OnFile(Agreed(sc.rev[n]))]
    /\ ho = FALSE /\ web = None
    /\ air = [n \in Nodes |-> None]
    /\ mirror = [n \in Nodes |-> NoMirror]
    /\ told = [n \in Nodes |-> NotTold]
    /\ asm = EmptyAsm /\ ready = None /\ ring = <<>>
    /\ synced = FALSE /\ sync = None
    /\ watch = [missed |-> {}, kept |-> [n \in Nodes |-> None]]
CfgInit == \E sc \in Scenarios : InitAt(sc)

Exchanges(n) == Wake(n) \/ ReportSlice(n) \/ FetchAsk(n) \/ FetchGivesUp(n) \/ SendCfgAck(n)
Ticks == TickReport \/ TickAck \/ SyncBegins \/ (\E n \in Nodes : SyncReads(n)) \/ SyncWrites \/ SyncEnds
Webs  == \/ \E n \in Nodes, set \in Settings : ApiPost(n, set)
         \/ HandoverStart \/ HandoverCancel
         \/ \E n \in Nodes : ForgetNode(n)
         \/ ForgetConfig
CfgNext ==
    \/ \E n \in Nodes : Exchanges(n) \/ Pair(n) \/ ColdStart(n) \/ \E set \in Settings : LocalEdit(n, set)
    \/ Ticks \/ HoldExpires \/ Webs \/ AutoSwitch \/ Restart

\* The node wakes and its windows end; loop() ticks; a handler finishes; the
\* switch is looked for every two seconds; somebody pairs a node again.
CfgFairness ==
    /\ \A n \in Nodes : WF_cfgVars(Exchanges(n)) /\ WF_cfgVars(Pair(n))
    /\ WF_cfgVars(TickReport) /\ WF_cfgVars(TickAck) /\ WF_cfgVars(SyncBegins)
    /\ WF_cfgVars((\E n \in Nodes : SyncReads(n)) \/ SyncWrites \/ SyncEnds)
    /\ WF_cfgVars(HoldExpires) /\ WF_cfgVars(ForgetConfig) /\ WF_cfgVars(AutoSwitch)
CfgSpec == CfgInit /\ [][CfgNext]_cfgVars /\ CfgFairness

-----------------------------------------------------------------------------
(* Properties.                                                             *)

Nvs == [rev : Rev, doc : Doc, local : BOOLEAN, refusedRev : Rev, due : BOOLEAN,
        rb : Backoff, fb : Backoff, phase : {"asleep", "report", "fetch", "ack"},
        off : 0..(Slices - 1), misses : 0..MaxMisses]
CfgTypeOK ==
    /\ \A n \in Nodes : [k \in DOMAIN node[n] \ {"got", "ack"} |-> node[n][k]] \in Nvs
    /\ \A n \in Nodes : Len(node[n].got.docs) < Slices
    /\ Len(ring) <= RingCap /\ Len(asm.docs) <= Slices
    /\ \A n \in Nodes : Held(n) => entry[n].rev \in Rev \ {0} /\ entry[n].told \in Rev

\* NODE_CONFIG.md section 0: "a node never already holds the rev of an edit it has
\* not seen".  Otherwise it answers that edit with "up to date" and the page
\* shows it applied.  Excepted are a node whose completed report the store did
\* not get, although the node was told its revision, and an entry whose last
\* write failed.
Saved(n) == file[n].desired.rev = entry[n].rev
AsDesired(n) ==
    Held(n) /\ Saved(n) /\ ~node[n].local /\ node[n].rev = entry[n].rev /\ ~(ready # None /\ asm.n = n)
        => node[n].doc = file[n].desired.doc
OneConfigPerRadioRev == \A n \in Nodes \ watch.missed : AsDesired(n)

\* The same of every node.
NeverHoldsUnseen == \A n \in Nodes : AsDesired(n)

\* A node the handover counts ready has the next network in its flash,
\* whatever was edited, reported and lost since it was handed out: the
\* collector leaves the old network on that word.
ReadyHoldsNext ==
    ho => \A n \in Nodes \ watch.missed : HoReady(n) => node[n].doc.next

\* A document is put together of the slices of one document: no other
\* node's, no other revision's, none of before an edit.
SlicesOfOne ==
    /\ \A i \in DOMAIN asm.docs : asm.docs[i] = asm.docs[1]
    /\ \A n \in Nodes : \A i \in DOMAIN node[n].got.docs : node[n].got.docs[i] = node[n].got.docs[1]

\* A refused revision is never fetched past its first slice again: a slice is
\* radio time out of a coin cell, and the collector may offer it for ever.
RefusedOnce ==
    \A n \in Nodes : node[n].refusedRev # 0 => node[n].got.rev # node[n].refusedRev

\* An edit on the node's page is never overwritten: while `local` is set the
\* document only changes by another edit, and `local` only goes when the
\* collector has said which revision the edit became.
EditsWin ==
    [][\A n \in Nodes : node[n].local /\ ~node'[n].local =>
           /\ node'[n].doc = node[n].doc
           /\ node'[n].rev # 0 /\ ~revAtOrPast(node[n].rev, node'[n].rev)]_cfgVars

\* One edit on the node's page becomes one revision, however often the answer
\* is lost: the store is not given the report it kept last.
KeptOnce ==
    [][\A n \in Nodes :
          /\ ready # None /\ ready' = None /\ asm.n = n /\ asm.docs[1].local
          /\ n \notin watch'.missed /\ watch'.kept[n] # None
        => watch'.kept[n] # watch.kept[n]]_cfgVars

\* Once edits and troubles end, node and collector agree: no report owed, no
\* local edit, and the desired configuration is run or refused.
Agrees(n) ==
    /\ n \in known /\ Held(n) /\ ~node[n].local /\ ~node[n].due
    /\ \/ entry[n].status = "applied" /\ node[n].doc = file[n].desired.doc
       \/ entry[n].status = "rejected" /\ file[n].desired.doc.set \in Refused
       \/ ~Saved(n)
Agree == <>[](\A n \in Nodes \ watch.missed : Agrees(n) \/ n \notin known)

\* A handover ends: every node gets the next network and the collector
\* follows, or somebody took it back.  Excepted are a node that refused what
\* it was sent, and one that got its first configuration during the handover:
\* it is handed nothing (NODE_CONFIG.md section 4).
HandedNothing(n) == entry[n] # None /\ (entry[n].status = "rejected" \/ entry[n].hoRev = 0)
HandoverEnds == ho ~> (~ho \/ \E n \in Nodes : HandedNothing(n))
=============================================================================
