----------------------------- MODULE NodeFwStore -----------------------------
(***************************************************************************)
(* The collector's half of a node firmware update                          *)
(* (src/nodes/NodeFwStore.cpp, NodeFwRules.h, src/web/NodeFwApi.cpp): at   *)
(* most one image of a kind on the card, the nodes chosen to run it with   *)
(* the status of each, and three files that a power cut finds in any state *)
(* between two writes.  One kind of node; every operation holds the        *)
(* store's mutex, so each is one step.                                     *)
(***************************************************************************)
EXTENDS Naturals, FiniteSets, Sequences

CONSTANTS
    Nodes,            \* the keys a target may have
    Images,           \* images of the kind; `Factory` is what the nodes are built with
    Factory,
    None,
    AttemptMax,       \* 255 in the code: the attempt wraps to 1 after it
    FwScenarios

ASSUME FwAssumption ==
    /\ Factory \in Images /\ None \notin Images
    /\ AttemptMax \in Nat /\ AttemptMax > 1

VARIABLES
    img,      \* s_img[kind]: [have, id, serial, attempt, floor]
    tgt,      \* s_t: the status per node, "none" is not a target
    disk,     \* the card: <kind>.bin, <kind>.json, rollout.json
    gen,      \* [behind: s_gen # s_fwMirrorGen, moved: it moved during a mirror pass]
    left,     \* troubles and operations the scenario still has
    seen      \* ghost: see FwSeen

Budgets == {"upload", "start", "cancel", "delete", "floor", "restart", "torn", "busy", "write",
            "lost", "late", "cut", "nvs", "flash", "flat", "budget", "heap", "read", "local",
            "partial", "gap"}
Spend(b) == left[b] > 0 /\ left' = [left EXCEPT ![b] = @ - 1]

Statuses == {"none", "pending", "sending", "staged", "deferred", "done", "failed"}
isOpen(st) == st \in Statuses \ {"none", "done", "failed"}
wifiOffered(st) == st \in {"pending", "sending"}
ackFlag(st) == isOpen(st)
nextAttempt(a) == IF a >= AttemptMax THEN 1 ELSE a + 1
Attempt == 0..AttemptMax

NoRollout == [attempt |-> 0, tgt |-> [n \in Nodes |-> "none"]]
NoImage == [have |-> FALSE, id |-> None, serial |-> 1, attempt |-> 0, floor |-> FALSE]

\* What the run is told that the code does not record: per node the images it
\* has run, the (image, attempt) it refused since its last cold start and
\* those it rolled back from, whether it worked on the image since the last
\* upload or start; whether the card's files ever disagreed on which image
\* there is, or on the attempt; whether a WiFi node's failure was told to a
\* store that did not keep it; and whether an upload broke off on a page.
FwSeen == [ran : [Nodes -> SUBSET Images], refused : [Nodes -> SUBSET (Images \X Attempt)],
           back : [Nodes -> SUBSET (Images \X Attempt)], tried : [Nodes -> BOOLEAN], torn : BOOLEAN, lostAttempt : BOOLEAN,
           unheard : BOOLEAN, broke : BOOLEAN]

Moves == gen' = [behind |-> TRUE, moved |-> TRUE]

\* saveRollout(): the generation moves whether or not the write succeeds.
Rollout(i, t) == disk' = [disk EXCEPT !.roll = [attempt |-> i.attempt, tgt |-> t]]
SaveRollout(i, t) ==
    /\ Moves
    /\ \/ Rollout(i, t) /\ UNCHANGED left
       \/ Spend("write") /\ UNCHANGED disk

\* setSt() and saveRollout(), of one node's target.
SetStatus(n, st) ==
    /\ tgt' = [tgt EXCEPT ![n] = st]
    /\ SaveRollout(img, tgt')
    /\ UNCHANGED img

-----------------------------------------------------------------------------
(* Upload, start, cancel, delete: the Nodes page.                          *)

\* The page chose nodes, or all of them: a node is tried from here on.
Untried(K) == seen' = [seen EXCEPT !.tried = [n \in Nodes |-> @[n] /\ n \notin K]]

Chosen == {n \in Nodes : tgt[n] # "none"}

\* nodeFwCommit(): the checked upload takes the old image's place; the two
\* JSON files after it may fail to be written.
Upload(i) ==
    /\ left.upload > 0
    /\ img' = [img EXCEPT !.have = TRUE, !.id = i, !.serial = @ + 1,
                          !.attempt = nextAttempt(@)]
    /\ tgt' = [n \in Nodes |-> IF n \in Chosen THEN "pending" ELSE "none"]
    /\ Moves
    /\ \/ /\ disk' = [bin |-> i, meta |-> i, roll |-> [attempt |-> img'.attempt, tgt |-> tgt']]
          /\ left' = [left EXCEPT !.upload = @ - 1]
          /\ Untried(Chosen)
       \/ /\ left.write > 0
          /\ \E m \in {i, disk.meta} : disk' = [disk EXCEPT !.bin = i, !.meta = m]
          /\ left' = [left EXCEPT !.upload = @ - 1, !.write = @ - 1]
          /\ seen' = [seen EXCEPT !.tried = [n \in Nodes |-> @[n] /\ n \notin Chosen],
                                  !.torn = TRUE, !.lostAttempt = TRUE]

\* The rename of the checked upload fails: the old image is put back, or
\* there is nothing left to serve.
UploadFails ==
    /\ Spend("upload")
    /\ \/ /\ img.have
          /\ img' = [img EXCEPT !.serial = @ + 1]
          /\ Moves
          /\ UNCHANGED <<tgt, disk>>
       \/ /\ img' = [img EXCEPT !.have = FALSE, !.serial = @ + 1]
          /\ tgt' = [n \in Nodes |-> "none"]
          /\ disk' = [bin |-> None, meta |-> None, roll |-> [attempt |-> img.attempt, tgt |-> tgt']]
          /\ Moves
    /\ UNCHANGED seen

\* "start": a retry is a new attempt, so a node that failed tries again.
Start(K) ==
    /\ img.have /\ K # {} /\ left.start > 0
    /\ img' = [img EXCEPT !.attempt = nextAttempt(@)]
    /\ tgt' = [n \in Nodes |-> IF n \in K THEN "pending" ELSE tgt[n]]
    /\ Moves
    /\ \/ /\ Rollout(img', tgt')
          /\ left' = [left EXCEPT !.start = @ - 1]
          /\ Untried(K)
       \/ /\ left.write > 0
          /\ left' = [left EXCEPT !.start = @ - 1, !.write = @ - 1]
          /\ seen' = [seen EXCEPT !.tried = [n \in Nodes |-> @[n] /\ n \notin K], !.lostAttempt = TRUE]
          /\ UNCHANGED disk

Cancel(K) ==
    /\ K # {} /\ K \subseteq Chosen
    /\ Spend("cancel")
    /\ tgt' = [n \in Nodes |-> IF n \in K THEN "none" ELSE tgt[n]]
    /\ Rollout(img, tgt')
    /\ Moves
    /\ UNCHANGED <<img, seen>>

Delete ==
    /\ Spend("delete")
    /\ img' = [img EXCEPT !.have = FALSE, !.serial = @ + 1]
    /\ tgt' = [n \in Nodes |-> "none"]
    /\ disk' = [bin |-> None, meta |-> None, roll |-> [attempt |-> img.attempt, tgt |-> tgt']]
    /\ Moves
    /\ UNCHANGED seen

\* "min_mv": the battery floor of an image for battery nodes.
SetFloor(on) ==
    /\ img.have /\ Spend("floor")
    /\ img' = [img EXCEPT !.floor = on]
    /\ Moves
    /\ UNCHANGED <<tgt, disk, seen>>

-----------------------------------------------------------------------------
(* Restart of the collector.                                               *)

\* nodeFwBegin() on what the card holds; a download cut by the restart is
\* pending again, and a rollout without its image is dropped.
Loaded(d) ==
    LET have == d.bin # None /\ d.meta # None IN
    [img |-> [have |-> have, id |-> d.meta, serial |-> 1, attempt |-> d.roll.attempt,
              floor |-> img.floor],
     tgt |-> [n \in Nodes |-> IF ~have THEN "none"
                              ELSE IF d.roll.tgt[n] = "sending" THEN "pending" ELSE d.roll.tgt[n]]]

Boots(d) == /\ img' = Loaded(d).img
            /\ tgt' = Loaded(d).tgt
            /\ gen' = [behind |-> TRUE, moved |-> TRUE]

StoreRestarts == Boots(disk) /\ UNCHANGED disk

\* Power is lost inside nodeFwCommit(), between two steps on the card: the
\* old image moved aside, the new one in its place under the old one's
\* description (same size, or the image is dropped), or described and the
\* targets not yet pending again.
CommitTorn(i) ==
    \E d \in {[disk EXCEPT !.bin = None],
              [disk EXCEPT !.bin = i],
              [disk EXCEPT !.bin = i, !.meta = None],
              [disk EXCEPT !.bin = i, !.meta = i]} :
        /\ disk' = d
        /\ Boots(d)

-----------------------------------------------------------------------------
(* What the nodes' reports do to a target.                                 *)

\* afterDone(): the status an ESP-NOW node's FW_DONE moves a target to, or
\* "none" for no change.
afterDone(st, imgOk, status, frameAttempt, attempt) ==
    CASE st = "none" \/ ~imgOk -> "none"
      [] st # "none" /\ imgOk /\ status = "running" -> IF st = "done" THEN "none" ELSE "done"
      [] st # "none" /\ imgOk /\ status # "running" ->
            IF ~isOpen(st) \/ frameAttempt # attempt THEN "none"
            ELSE CASE status = "staged" -> "staged"
                   [] status = "low" -> "deferred"
                   [] OTHER -> "failed"

\* Fault: whatever image the frame names.
ImageAny(imgId) == img.have

ImageIs(imgId) == img.have /\ imgId = img.id

\* nodeFwEspnowDone().
EspnowDone(n, imgId, status, attempt) ==
    LET st == afterDone(tgt[n], ImageIs(imgId), status, attempt, img.attempt) IN
    \/ /\ st # "none"
       /\ SetStatus(n, st)
    \/ st = "none" /\ UNCHANGED <<img, tgt, disk, gen, left>>

\* nodeFwEspnowGet(): a FW_GET that names the image is a download under way.
EspnowGet(n, imgId) ==
    IF img.have /\ imgId = img.id /\ tgt[n] \in {"pending", "deferred"}
    THEN SetStatus(n, "sending")
    ELSE UNCHANGED <<img, tgt, disk, gen, left>>

\* wifiIngest(): running the image wins, a failure of this attempt is next,
\* and only then an offer.
wifiIngest(st, runs, err) ==
    CASE st = "none" \/ ~img.have -> "nothing"
      [] st # "none" /\ img.have /\ runs = img.id -> IF st = "done" THEN "nothing" ELSE "done"
      [] st # "none" /\ img.have /\ runs # img.id ->
            IF ~wifiOffered(st) THEN "nothing"
            ELSE IF err # None /\ err.img = img.id /\ err.attempt = img.attempt
            THEN "failed" ELSE "offer"

\* nodeFwIngest(): what a WiFi node's POST does to its target.
Ingest(n, runs, err) ==
    LET act == wifiIngest(tgt[n], runs, err) IN
    \/ act \in {"done", "failed"} /\ SetStatus(n, act)
    \/ act = "offer" /\ tgt[n] # "sending" /\ SetStatus(n, "sending")
    \/ act = "offer" /\ tgt[n] = "sending" /\ UNCHANGED <<img, tgt, disk, gen, left>>
    \/ act = "nothing" /\ UNCHANGED <<img, tgt, disk, gen, left>>

\* Fault: whatever image is there now.
ReadsAny(serial) == IF img.have THEN disk.bin ELSE None

\* nodeFwRead(): the image whose bytes a reader that began on `serial` gets,
\* None when that image is gone.
Reads(serial) == IF img.have /\ img.serial = serial THEN disk.bin ELSE None

-----------------------------------------------------------------------------
(* Properties of both links.                                               *)

StoreTypeOK ==
    /\ img \in [have : BOOLEAN, id : Images \cup {None}, serial : Nat, attempt : Attempt, floor : BOOLEAN]
    /\ tgt \in [Nodes -> Statuses]
    /\ disk \in [bin : Images \cup {None}, meta : Images \cup {None},
                 roll : [attempt : Attempt, tgt : [Nodes -> Statuses]]]
    /\ gen \in [behind : BOOLEAN, moved : BOOLEAN]
    /\ seen \in FwSeen

\* "Done means running" (NODE_OTA.md section 0.5): a node shown done has run
\* the image the page shows, whatever was uploaded, reported late or
\* restarted in between.  Excepted is a power cut inside an upload, after
\* which the new image has the old one's statuses.
DoneMeansRan == seen.torn \/ \A n \in Nodes : tgt[n] = "done" => img.id \in seen.ran[n]

\* A node shown failed has worked on the image since somebody last asked for
\* it: a failure it remembers of an earlier attempt never answers a retry.
\* Excepted is an attempt that a failed write and a restart took back.
Failed(n) == tgt[n] = "failed" => seen.tried[n]
FailedMeansTried == seen.lostAttempt \/ \A n \in Nodes : Failed(n)

\* The same, whatever could not be written.
RetryIsTried == \A n \in Nodes : Failed(n)
=============================================================================
