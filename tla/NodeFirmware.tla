----------------------------- MODULE NodeFirmware -----------------------------
(***************************************************************************)
(* Node firmware updates, end to end: the store and the Nodes page with    *)
(* the nodes of one kind, over the radio or over WiFi, and the restarts    *)
(* and power cuts of both sides.                                           *)
(*                                                                         *)
(* The WiFi node is here, too: it has no second slot to go back to.  The   *)
(* offer comes in the reply to its own POST; once the cycle's POSTs are    *)
(* done it streams the image into its update area and restarts into it     *)
(* when length, marker and MD5 agree (node/src/main.cpp, FwOffer.h,        *)
(* FwFlash.cpp).  A failure is kept in RAM and sent with every POST until  *)
(* one that carried it was answered.                                       *)
(***************************************************************************)
EXTENDS NodeFwRadio

CONSTANTS
    TooBig,           \* images larger than this node's free flash
    Chunks            \* reads of one download

ASSUME WifiAssumption ==
    /\ TooBig \subseteq Images \ {Factory}
    /\ Chunks \in Nat \ {0}

ASSUME ScenarioAssumption ==
    \A s \in FwScenarios : s.nodes \subseteq Nodes /\ s.first \in Images /\ s.uploads \subseteq Images

VARIABLES
    sta,      \* per WiFi node: the sketch, the report, the offer and the work under way
    plan      \* the scenario: the link, the nodes, the images uploaded

wifiVars  == <<sta>>
wifiStore == <<img, tgt, disk, gen, left, seen>>

NoReport == [img |-> None, attempt |-> 0]
NoOffer == [img |-> None, attempt |-> 0]

-----------------------------------------------------------------------------
(* The WiFi node: the POST.                                                *)

\* Fault: a report counts as told once it was sent.
DeliveredWhenSent(s, tok, answered) == IF tok # 0 /\ tok = s.pending THEN 0 ELSE s.pending
Delivered(s, tok, answered) == IF answered /\ tok # 0 /\ tok = s.pending THEN 0 ELSE s.pending

\* postBatch(): the body carries the running sketch and the report; the
\* collector handles it, and the reply comes back or is lost.  The answer
\* ends the report it carried and brings an offer or withdraws one.
Post(n) ==
    LET s     == sta[n]
        err   == IF s.pending # 0 THEN s.report ELSE None
        act   == wifiIngest(tgt[n], s.runs, err)
        offer == IF act = "offer" THEN [img |-> img.id, attempt |-> img.attempt] ELSE NoOffer
        After(answered, o) == [s EXCEPT !.pending = Delivered(s, s.pending, answered), !.offer = o,
                                        !.pc = IF o = NoOffer THEN "idle" ELSE "offered"]
    IN
    /\ s.pc = "idle"
    /\ \/ Ingest(n, s.runs, err) /\ sta' = [sta EXCEPT ![n] = After(TRUE, offer)]
       \/ \* the collector was not reached, or its store was busy
          /\ \/ Spend("lost") /\ sta' = [sta EXCEPT ![n] = After(FALSE, NoOffer)]
             \/ Spend("busy") /\ sta' = [sta EXCEPT ![n] = After(TRUE, NoOffer)]
          /\ UNCHANGED <<img, tgt, disk, gen>>
       \/ \* it was, and the reply was lost
          /\ left.late > 0 /\ left.write = 0
          /\ \/ act \in {"done", "failed"} /\ tgt' = [tgt EXCEPT ![n] = act]
             \/ act = "offer" /\ tgt' = [tgt EXCEPT ![n] = "sending"]
             \/ act = "nothing" /\ UNCHANGED tgt
          /\ Rollout(img, tgt') /\ Moves
          /\ left' = [left EXCEPT !.late = @ - 1]
          /\ sta' = [sta EXCEPT ![n] = After(FALSE, NoOffer)]
          /\ UNCHANGED img
    /\ seen' = [seen EXCEPT !.ran[n] = @ \cup {s.runs},
                   !.unheard = @ \/ (err # None /\ \E b \in {"busy", "write"} : left'[b] # left[b])]

-----------------------------------------------------------------------------
(* The WiFi node: the offer.                                               *)

\* Report::fail(): not tried again, and reported until told.
Fails(s, o) ==
    [s EXCEPT !.report = [img |-> o.img, attempt |-> o.attempt], !.seq = (s.seq % 3) + 1,
              !.pending = (s.seq % 3) + 1, !.pc = "idle", !.offer = NoOffer, !.got = <<>>]

FailedBefore(s, o) == s.report.img = o.img /\ s.report.attempt = o.attempt

\* decideOffer(): running it already, failed since boot, or not takeable.
Decide(n) ==
    LET s == sta[n] IN
    /\ s.pc = "offered"
    /\ sta' = [sta EXCEPT ![n] =
         IF s.offer.img = s.runs \/ FailedBefore(s, s.offer) THEN [s EXCEPT !.pc = "idle", !.offer = NoOffer]
         ELSE IF s.offer.img \in TooBig THEN Fails(s, s.offer)
         ELSE [s EXCEPT !.pc = "get"]]
    /\ seen' = IF s.offer.img \in TooBig THEN [seen EXCEPT !.tried[n] = TRUE] ELSE seen
    /\ UNCHANGED <<img, tgt, disk, gen, left>>

\* The GET: the response reads the image it began on, or there is none.
Get(n) ==
    LET s == sta[n] IN
    /\ s.pc = "get"
    /\ IF img.have
       THEN sta' = [sta EXCEPT ![n] = [s EXCEPT !.pc = "body", !.serial = img.serial, !.got = <<>>]]
       ELSE sta' = [sta EXCEPT ![n] = Fails(s, s.offer)]
    /\ seen' = [seen EXCEPT !.tried[n] = TRUE]
    /\ UNCHANGED <<img, tgt, disk, gen, left>>

\* One chunk, or the body ends short: the image was replaced, or the link.
Body(n) ==
    LET s == sta[n] IN
    /\ s.pc = "body" /\ Len(s.got) < Chunks
    /\ \/ /\ Reads(s.serial) # None
          /\ sta' = [sta EXCEPT ![n].got = Append(@, Reads(s.serial))]
          /\ UNCHANGED left
       \/ /\ IF Reads(s.serial) = None THEN UNCHANGED left ELSE Spend("read")
          /\ sta' = [sta EXCEPT ![n] = Fails(s, s.offer)]
    /\ UNCHANGED <<img, tgt, disk, gen, seen>>

\* Fault: any complete body.
AnyBody(s) == TRUE

\* FwFlash::finish(): the marker and the MD5 of the offer, over every byte.
Md5Agrees(s) == \A k \in DOMAIN s.got : s.got[k] = s.offer.img
Finish(n) ==
    LET s == sta[n] IN
    /\ s.pc = "body" /\ Len(s.got) = Chunks
    /\ sta' = [sta EXCEPT ![n] =
         IF Md5Agrees(s) THEN [s EXCEPT !.pc = "restart"] ELSE Fails(s, s.offer)]
    /\ UNCHANGED wifiStore

\* The restart copies the staged image over the sketch; what RAM held is gone.
Restarted(s, i) == [s EXCEPT !.runs = i, !.report = NoReport, !.pending = 0, !.seq = 0,
                             !.offer = NoOffer, !.pc = "idle", !.got = <<>>]
Restart(n) ==
    /\ sta[n].pc = "restart"
    /\ sta' = [sta EXCEPT ![n] = Restarted(@, sta[n].got[1])]
    /\ UNCHANGED wifiStore

\* A crash or power cut: a staged image is started by the next boot.
NodeRestarts(n) ==
    /\ Spend("cut")
    /\ sta' = [sta EXCEPT ![n] = Restarted(@, IF @.pc = "restart" THEN @.got[1] ELSE @.runs)]
    /\ UNCHANGED <<img, tgt, disk, gen, seen>>

-----------------------------------------------------------------------------
(* End to end.                                                             *)

fwVars == <<radioVars, wifiVars, storeVars, plan>>
linkVars == <<radioVars, wifiVars>>

Blank(i) == [b \in Blocks |-> i]
NewDevice(mains) ==
    [slot |-> [s \in Slots |-> Blank(IF s = 0 THEN Factory ELSE None)], boot |-> 0, run |-> 0,
     trial |-> NoTrial, miss |-> 0, rb |-> Nothing, prog |-> NoneGot, failed |-> Nothing,
     skip |-> 0, mains |-> mains, pc |-> "off", want |-> None, misses |-> 0, gained |-> FALSE,
     cold |-> TRUE, rtc |-> Factory]
NewStation == [runs |-> Factory, report |-> NoReport, seq |-> 0, pending |-> 0,
               offer |-> NoOffer, pc |-> "idle", serial |-> 0, got |-> <<>>]

Init ==
    /\ plan \in FwScenarios
    /\ left = plan.left
    /\ img = [have |-> TRUE, id |-> plan.first, serial |-> 1, attempt |-> 1, floor |-> FALSE]
    /\ tgt = [n \in Nodes |-> IF n \in plan.nodes THEN "pending" ELSE "none"]
    /\ disk = [bin |-> plan.first, meta |-> plan.first, roll |-> [attempt |-> 1, tgt |-> tgt]]
    /\ gen = [behind |-> TRUE, moved |-> TRUE]
    /\ seen = [ran |-> [n \in Nodes |-> {Factory}], refused |-> [n \in Nodes |-> {}],
               back |-> [n \in Nodes |-> {}], tried |-> [n \in Nodes |-> FALSE],
               torn |-> FALSE, lostAttempt |-> FALSE, unheard |-> FALSE, broke |-> FALSE]
    /\ dev = [n \in Nodes |-> NewDevice(plan.mains)]
    /\ air = [n \in Nodes |-> None]
    /\ mir = [st |-> [n \in Nodes |-> "none"], img |-> [NoImage EXCEPT !.serial = 0]]
    /\ serve = Reset /\ owner = [id |-> None, quiet |-> TRUE] /\ prog = FALSE
    /\ ring = <<>> /\ tick = Idle
    /\ sta = [n \in Nodes |-> NewStation]

\* The Nodes page, at any moment.
Page ==
    /\ \/ \E i \in plan.uploads : Upload(i)
       \/ UploadFails
       \/ Start(plan.nodes)
       \/ \E n \in plan.nodes : Cancel({n})
       \/ Delete
       \/ SetFloor(~img.floor)
    /\ UNCHANGED <<linkVars, plan>>

\* The collector restarts, or loses power inside an upload.
Restarts ==
    /\ \/ Spend("restart") /\ StoreRestarts /\ UNCHANGED seen
       \/ /\ Spend("torn")
          /\ \E i \in plan.uploads : CommitTorn(i)
          /\ seen' = [seen EXCEPT !.torn = TRUE, !.lostAttempt = TRUE]
    /\ RadioRestarts
    /\ UNCHANGED <<wifiVars, plan>>

Radio == plan.link = "radio"
Wifi  == plan.link = "wifi"

NodeWorks(n) == Boot(n) \/ Wake(n) \/ Exchange(n) \/ Stops(n) \/ Stage(n) \/ Arm(n)
Syncs == SyncStatuses \/ SyncImage
Serves == DropsIdle \/ Progress \/ Take \/ Load
Local(n) == (\E i \in plan.uploads : LocalUpload(n, i)) \/ LocalBreaksOff(n)
RadioStep ==
    /\ Radio
    /\ \/ \E n \in plan.nodes : NodeWorks(n) \/ PowerCut(n) \/ Local(n)
       \/ Syncs \/ Serves \/ HandleFwDone
    /\ UNCHANGED <<wifiVars, plan>>

StationWorks(n) == Post(n) \/ Decide(n) \/ Get(n) \/ Body(n) \/ Finish(n) \/ Restart(n)
WifiStep ==
    /\ Wifi
    /\ \E n \in plan.nodes : StationWorks(n) \/ NodeRestarts(n)
    /\ UNCHANGED <<radioVars, plan>>

Next == Page \/ Restarts \/ RadioStep \/ WifiStep

\* Nodes keep waking and posting, the tick keeps coming round.
Fairness ==
    /\ \A n \in Nodes :
        /\ WF_fwVars(Radio /\ n \in plan.nodes /\ NodeWorks(n) /\ UNCHANGED <<wifiVars, plan>>)
        /\ WF_fwVars(Wifi /\ n \in plan.nodes /\ StationWorks(n) /\ UNCHANGED <<radioVars, plan>>)
    /\ WF_fwVars(Radio /\ Syncs /\ UNCHANGED <<wifiVars, plan>>)
    /\ WF_fwVars(Radio /\ Serves /\ UNCHANGED <<wifiVars, plan>>)
    /\ WF_fwVars(Radio /\ HandleFwDone /\ UNCHANGED <<wifiVars, plan>>)

Spec == Init /\ [][Next]_fwVars /\ Fairness

-----------------------------------------------------------------------------
(* Properties.                                                             *)

Station == [runs : Images, report : [img : Images \cup {None}, attempt : Attempt], seq : 0..3,
            pending : 0..3, offer : [img : Images \cup {None}, attempt : Attempt],
            pc : {"idle", "offered", "get", "body", "restart"}, serial : Nat,
            got : {<<>>} \cup UNION {[1..k -> Images] : k \in 1..Chunks}]
WifiTypeOK == sta \in [Nodes -> Station]

\* A node only ever starts an image that is whole: bytes of one image, the
\* one it was offered, whatever was uploaded while it downloaded.
StartsWhole == \A n \in Nodes : sta[n].pc = "restart" => \A k \in DOMAIN sta[n].got : sta[n].got[k] = sta[n].offer.img

FwTypeOK == StoreTypeOK /\ RadioTypeOK /\ WifiTypeOK
=============================================================================
