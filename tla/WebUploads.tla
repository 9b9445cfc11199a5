----------------------------- MODULE WebUploads -----------------------------
(***************************************************************************)
(* Bodies that reach the collector's web server in pieces: a file for       *)
(* /upload, a firmware image for /do_update, the document of /save_platform *)
(* and the settings of /import_settings (WebServer.cpp).                    *)
(*                                                                         *)
(* All callbacks run on the web server's one task, so each is a step; the    *)
(* callbacks of several requests come in any order, and a client may leave    *)
(* between any two. Files and images live in the request's context;          *)
(* /save_platform keeps its file, its lock and its result in variables that  *)
(* all its requests share.                                                  *)
(***************************************************************************)
EXTENDS Naturals, Sequences, FiniteSets

CONSTANTS
    Reqs,         \* requests, numbers from 1
    Kinds,        \* what each of them sends: "file", "image", "badImage", "platform", "import"
    Pieces,       \* callbacks a body comes in
    MaxTroubles   \* bound: locks not obtained, short writes, refused opens, resets

VARIABLES
    reqs,      \* each request and its context
    update,    \* the OTA partition: open or not, its error
    platform,  \* the shared variables of /save_platform, its two files
    troubles   \* how many there were

uploadVars == <<reqs, update, platform, troubles>>

NewReq(k) == [kind |-> k, n |-> 0, st |-> "new", ctx |-> FALSE, failed |-> FALSE, open |-> FALSE,
              whole |-> FALSE, kept |-> 0, reply |-> "none"]

Live(r) == reqs[r].st = "body"

\* A document is the sequence of requests whose pieces are in it. No request
\* is 0: <<0>> is no file.
None == <<0>>
Whole(r) == [i \in 1..Pieces |-> r]

Count(bad) == IF bad THEN troubles < MaxTroubles /\ troubles' = troubles + 1 ELSE UNCHANGED troubles

\* The file lock is not obtained when the storage task keeps it, and never
\* when /save_platform holds it: the two are the same task.
LockFails(bad) == bad \/ platform.held

-----------------------------------------------------------------------------
(* Files.                                                                  *)

\* Fault: a piece that is not written whole goes unnoticed.
PieceUnchecked(x, bad) == x.failed

\* A piece is not written without the lock or to a full disk: the upload has
\* failed from there on.
PieceFails(x, bad) == x.failed \/ bad

\* The context of an upload after its first piece, and after a later one.
FileBegun(x, noLock, short) ==
    [x EXCEPT !.st = "body", !.n = 1, !.ctx = TRUE, !.open = ~noLock, !.whole = ~noLock /\ ~short,
              !.failed = PieceFails([x EXCEPT !.failed = noLock], short)]
FileGoesOn(x, miss) ==
    [x EXCEPT !.n = @ + 1, !.failed = IF x.ctx THEN PieceFails(x, miss) ELSE @,
              !.whole = @ /\ ~miss, !.open = @ /\ x.n + 1 < Pieces]

\* The first callback of /upload takes a context, opens the file under its
\* final name and writes the first piece.
StartFile(r) ==
    /\ reqs[r].kind = "file" /\ reqs[r].st = "new"
    /\ \E oom, bad, short \in BOOLEAN :
        /\ Count(oom \/ bad \/ short)
        /\ ~(oom /\ (bad \/ short)) /\ ~(LockFails(bad) /\ short)
        /\ reqs' = [reqs EXCEPT ![r] = IF oom THEN [reqs[r] EXCEPT !.st = "body", !.n = 1]
                                      ELSE FileBegun(reqs[r], LockFails(bad), short)]
    /\ UNCHANGED <<update, platform>>

MoreFile(r) ==
    /\ reqs[r].kind = "file" /\ Live(r) /\ reqs[r].n < Pieces
    /\ \E bad \in BOOLEAN :
        /\ Count(bad)
        /\ reqs' = [reqs EXCEPT ![r] = FileGoesOn(reqs[r], reqs[r].open /\ LockFails(bad))]
    /\ UNCHANGED <<update, platform>>

-----------------------------------------------------------------------------
(* Firmware images.                                                        *)

\* Fault: a context that goes away leaves the partition as it is.
PartitionLeft(x) == FALSE

\* ~OtaCtx() gives the partition back that its request opened and did not
\* conclude.
PartitionGivenBack(x) == x.open

\* What the end of context x does to the partition.
UpdateAfter(x) ==
    IF x.kind \in {"image", "badImage"} /\ PartitionGivenBack(x)
    THEN [update EXCEPT !.open = FALSE, !.error = TRUE] ELSE update

\* The context of an update after its first piece, and after a later one.
ImageBegun(x, oom, begins, short) ==
    [x EXCEPT !.st = "body", !.n = 1, !.ctx = ~oom, !.open = begins, !.failed = ~oom /\ ~begins,
              !.whole = begins /\ ~short]
ImageGoesOn(x, short, bad, ends) ==
    [x EXCEPT !.n = @ + 1, !.failed = bad, !.whole = @ /\ ~short, !.open = @ /\ ~bad /\ ~ends]

\* The first callback of /do_update: the magic byte, Update.begin(), which
\* refuses a partition that is open, and the first piece.
StartImage(r) ==
    /\ reqs[r].kind \in {"image", "badImage"} /\ reqs[r].st = "new"
    /\ \E oom, magic, noMemory, short \in BOOLEAN :
        /\ Cardinality({c \in {<<1, oom>>, <<2, magic>>, <<3, noMemory>>, <<4, short>>} : c[2]}) <= 1
        /\ ~(update.open /\ short)
        /\ Count(oom \/ magic \/ noMemory \/ short)
        /\ LET begins == ~(oom \/ magic \/ noMemory \/ update.open) IN
           /\ reqs' = [reqs EXCEPT ![r] = ImageBegun(reqs[r], oom, begins, short)]
           /\ update' = IF begins THEN [open |-> TRUE, error |-> short] ELSE update
    /\ UNCHANGED platform

\* A later piece. With the last one the digest is compared and the partition
\* concluded; Update.end() after a failed write leaves it open.
MoreImage(r) ==
    /\ reqs[r].kind \in {"image", "badImage"} /\ Live(r) /\ reqs[r].n < Pieces
    /\ LET x == reqs[r] IN
       IF ~x.ctx \/ x.failed
       THEN reqs' = [reqs EXCEPT ![r].n = @ + 1] /\ UNCHANGED <<update, troubles>>
       ELSE \E short \in BOOLEAN :
        LET last  == x.n + 1 = Pieces
            error == update.error \/ short
            bad   == last /\ x.kind = "badImage"
            ends  == last /\ ~bad /\ ~error IN
        /\ Count(short)
        /\ reqs' = [reqs EXCEPT ![r] = ImageGoesOn(x, short, bad, ends)]
        /\ update' = [open |-> update.open /\ ~bad /\ ~ends, error |-> error \/ bad]
    /\ UNCHANGED platform

-----------------------------------------------------------------------------
(* Settings to import.                                                     *)

\* The body goes into a buffer, without which there is nothing to collect. A
\* piece over the 8 KB cap, or one there is no memory for, is left out: nothing
\* is flagged, and the pieces after it are collected.
Collect(r) ==
    /\ reqs[r].kind = "import" /\ (reqs[r].st = "new" \/ Live(r)) /\ reqs[r].n < Pieces
    /\ \E oom, misses \in BOOLEAN :
        /\ Count(oom \/ misses)
        /\ oom => reqs[r].n = 0 /\ ~misses
        /\ LET x   == reqs[r]
               buf == IF x.n = 0 THEN ~oom ELSE x.ctx IN
           /\ misses => buf
           /\ reqs' = [reqs EXCEPT ![r] = [x EXCEPT !.st = "body", !.n = @ + 1, !.ctx = buf,
                                                    !.kept = IF buf /\ ~misses THEN @ + 1 ELSE @]]
    /\ UNCHANGED <<update, platform>>

-----------------------------------------------------------------------------
(* /save_platform.                                                         *)

\* pcfgCleanup(), which also runs whenever a connection of this page closes.
Cleanup(p) == [p EXCEPT !.open = FALSE, !.held = FALSE, !.tmp = IF p.complete THEN @ ELSE None]

\* The first callback: the lock, or after five seconds no lock, and a new
\* temporary file in the one variable for it.
Opened(p, noLock, noFile) ==
    [p EXCEPT !.complete = FALSE, !.held = ~noFile /\ (p.held \/ ~noLock), !.tmp = IF noFile THEN None ELSE <<>>,
              !.open = ~noFile]

\* A piece goes to the file that is open, whoever opened it; nobody looks
\* whether it was written.
Written(p, r, short) == IF p.open /\ ~short THEN [p EXCEPT !.tmp = Append(@, r)] ELSE p

\* The last piece: rename, and where that fails remove the old file and
\* rename again.
Replaced(p) ==
    IF p.tmp # None
    THEN Cleanup([p EXCEPT !.real = p.tmp, !.tmp = None, !.open = FALSE, !.complete = TRUE])
    ELSE Cleanup([p EXCEPT !.real = None, !.open = FALSE])

\* The last piece of this body is followed by the answer: 429 when too many
\* came in, else "ok" whatever became of the file.
Platform(r) ==
    /\ reqs[r].kind = "platform" /\ (reqs[r].st = "new" \/ Live(r))
    /\ \E noLock, noFile, short, many \in BOOLEAN :
        LET x     == reqs[r]
            first == x.n = 0
            last  == x.n + 1 = Pieces
            p1    == IF first THEN Opened(platform, noLock, noFile) ELSE platform
            p2    == Written(p1, r, short) IN
        /\ Cardinality({c \in {<<1, noLock>>, <<2, noFile>>, <<3, short>>, <<4, many>>} : c[2]}) <= 1
        /\ first \/ ~(noLock \/ noFile)
        /\ last \/ ~many
        /\ Count(noLock \/ noFile \/ short \/ many)
        /\ platform' = IF ~last THEN p2 ELSE IF many THEN Cleanup(Replaced(p2)) ELSE Replaced(p2)
        /\ reqs' = [reqs EXCEPT ![r] = [x EXCEPT !.n = @ + 1, !.st = IF last THEN "handled" ELSE "body",
                                                 !.reply = IF last THEN IF many THEN "busy" ELSE "ok" ELSE @]]
    /\ UNCHANGED update

-----------------------------------------------------------------------------
(* The end of a request.                                                   *)

\* Whether /do_update reports success.
HandledImage(x) == x.ctx /\ ~x.failed /\ ~update.error

\* The request's own callback, after the last piece: it answers and frees the
\* context.
Handle(r) ==
    /\ reqs[r].kind \in {"file", "image", "badImage"} /\ Live(r) /\ reqs[r].n = Pieces
    /\ LET x  == reqs[r]
           ok == IF x.kind = "file" THEN x.ctx /\ ~x.failed ELSE HandledImage(x) IN
       reqs' = [reqs EXCEPT ![r] = [x EXCEPT !.st = "handled", !.ctx = FALSE, !.open = FALSE,
                                             !.reply = IF ok THEN "ok" ELSE "refused"]]
    /\ update' = UpdateAfter(reqs[r])
    /\ UNCHANGED <<platform, troubles>>

\* /import_settings takes over what parses: a whole document does, what is left
\* of one may, an empty buffer does not. Nobody looks whether it was saved.
HandleImport(r) ==
    /\ reqs[r].kind = "import" /\ Live(r) /\ reqs[r].n = Pieces
    /\ \E parses, saved \in BOOLEAN :
        LET x == reqs[r] IN
        /\ x.kept = Pieces => parses
        /\ x.kept = 0 => ~parses
        /\ ~parses => saved
        /\ Count(~saved)
        /\ reqs' = [reqs EXCEPT ![r] = [x EXCEPT !.st = "handled", !.ctx = FALSE,
                                                 !.whole = parses /\ saved /\ x.kept = Pieces,
                                                 !.reply = IF parses THEN "ok" ELSE "refused"]]
    /\ UNCHANGED <<update, platform>>

\* The connection closes: after the answer, or before it when the client
\* leaves. What onDisconnect() was given runs.
Disconnect(r) ==
    /\ reqs[r].st \in {"body", "handled"}
    /\ update' = IF Live(r) THEN UpdateAfter(reqs[r]) ELSE update
    /\ platform' = IF reqs[r].kind = "platform" THEN Cleanup(platform) ELSE platform
    /\ reqs' = [reqs EXCEPT ![r] = [@ EXCEPT !.st = "gone", !.ctx = FALSE, !.open = FALSE]]
    /\ UNCHANGED troubles

\* A reset: flash stays, with whatever the temporary file held.
Reset ==
    /\ troubles < MaxTroubles /\ \E r \in Reqs : Live(r)
    /\ troubles' = troubles + 1
    /\ reqs' = [r \in Reqs |-> IF reqs[r].st = "new" THEN reqs[r] ELSE [reqs[r] EXCEPT !.st = "gone", !.ctx = FALSE, !.open = FALSE]]
    /\ update' = [open |-> FALSE, error |-> FALSE]
    /\ platform' = [platform EXCEPT !.open = FALSE, !.held = FALSE, !.complete = FALSE]

-----------------------------------------------------------------------------
UploadInit ==
    /\ reqs \in {[r \in Reqs |-> NewReq(k[r])] : k \in Kinds}
    /\ update = [open |-> FALSE, error |-> FALSE]
    /\ platform = [open |-> FALSE, held |-> FALSE, complete |-> FALSE, tmp |-> None, real |-> <<>>]
    /\ troubles = 0

UploadNext ==
    \/ \E r \in Reqs :
        StartFile(r) \/ MoreFile(r) \/ StartImage(r) \/ MoreImage(r) \/ Collect(r) \/ Platform(r)
        \/ Handle(r) \/ HandleImport(r) \/ Disconnect(r)
    \/ Reset

-----------------------------------------------------------------------------

\* The OTA partition is open only while a request that opened it and has not
\* concluded it is there to give it back: no upload that failed or was left
\* makes every later one be refused (OtaCtx and its destructor, /do_update).
PartitionFreed ==
    /\ update.open => \E r \in Reqs : reqs[r].open /\ reqs[r].kind \in {"image", "badImage"}
    /\ Cardinality({r \in Reqs : reqs[r].open /\ reqs[r].kind \in {"image", "badImage"}}) <= 1

\* "ok" to a file or an image means that every piece of it was stored, whatever
\* the other requests did meanwhile (/upload, /do_update).
OkMeansStored ==
    \A r \in Reqs : reqs[r].reply = "ok" /\ reqs[r].kind \notin {"platform", "import"} => reqs[r].whole

\* The same of /import_settings, which does not hold: it answers "OK" to what
\* was left of a document, and to settings that were not saved.
ImportStored ==
    \A r \in Reqs : reqs[r].reply = "ok" /\ reqs[r].kind = "import" => reqs[r].whole

\* /save_platform says that the real file stays the last good copy: it is the
\* one from before or one whole document.
PlatformKept == platform.real \in {<<>>} \cup {Whole(r) : r \in Reqs}
=============================================================================
