------------------------------ MODULE KindlePkg ------------------------------
(***************************************************************************)
(* The scripts of the e-ink readers, updated through the collector: a      *)
(* package is uploaded on the E-ink page and kept on the memory card, the  *)
(* user offers it, and every reader that runs something else pulls it,     *)
(* checks it and restarts into it (KindlePkg.cpp, KindlePkgTar.h and       *)
(* pkg_check/pkg_install of kindle/update_dash.sh).                        *)
(*                                                                         *)
(* The web server runs its handlers one at a time, but an upload and a     *)
(* download are a handler call per piece, with other requests between.     *)
(* The MD5 of a file is the file: two uploads with the same MD5 are the    *)
(* same bytes.                                                             *)
(***************************************************************************)
EXTENDS Integers, Sequences, FiniteSets

CONSTANTS
    Packages,    \* what is uploaded: [md5, ver, size, entries, ends, parses]
    Factory,     \* the package every reader starts with
    Readers,     \* the e-ink readers; the collector has a slot for each
    Uploads,     \* the upload requests that may be open at once
    MaxUploads,  \* uploads begun
    MaxOffers,   \* times Offer or Stop is pressed
    MaxTroubles, \* locks not had, writes, renames and downloads that fail
    MaxCuts      \* power cuts of the collector

VARIABLES
    card,     \* [tar, old, tmp, json]: the files of the package's directory
    pkg,      \* s_pkg: [have, offer, serial, meta]
    table,    \* reader -> [st, ver, about]: its slot of s_rd
    sending,  \* upload -> [at, owner, err, file, got]: a PkgUpload
    reader,   \* reader -> [runs, offer, tried, err, at, dl, ...]: update_dash.sh
    asked,    \* the packages somebody pressed Offer for
    answer,   \* the last upload answered: [ok, had, has, faults]
    gone      \* [uploads, offers, troubles, cuts] so far

kpkgVars == <<card, pkg, table, sending, reader, asked, answer, gone>>

None == [md5 |-> "none"]
Required == {"update_dash", "start", "stop", "menu", "VERSION"}
EmptySlot == [st |-> "idle", ver |-> "none", about |-> "none", known |-> FALSE]
NoUpload == [at |-> "free", owner |-> FALSE, err |-> FALSE, file |-> None, got |-> 0]
NoMeta == [md5 |-> "none", ver |-> "none", size |-> 0]
MetaOf(p) == [md5 |-> p.md5, ver |-> p.ver, size |-> p.size]

-----------------------------------------------------------------------------
(* What a package is.                                                      *)

\* header(): an entry of the archive is a directory or a regular file with a
\* plain name under esp32dash/, and none of the reader's own files.
EntryOk(e) == e \in Required \cup {"dir", "file"}

\* scanFeed and scanFinish: every entry is allowed, the two zero blocks were
\* seen, the required files are there, and VERSION has a version in it.
Accepted(p) ==
    /\ \A i \in DOMAIN p.entries : EntryOk(p.entries[i])
    /\ p.ends
    /\ \A f \in Required : \E i \in DOMAIN p.entries : p.entries[i] = f
    /\ p.ver # "none"

\* A whole file of a package, as the pieces it is read in.
Whole(p) == [i \in 1 .. p.size |-> p.md5]

-----------------------------------------------------------------------------
(* The collector: keeping the package.                                     *)

\* kindlePkgBegin: what is on the card is a package when pkg.json describes a
\* file of the size that is there.
Begun(c, serial) ==
    LET known == /\ c.json # None /\ c.tar # None
                 /\ c.tar.size = c.json.meta.size
    IN  IF known THEN [have |-> TRUE, offer |-> c.json.offer, serial |-> serial,
                       meta |-> c.json.meta]
        ELSE [have |-> FALSE, offer |-> FALSE, serial |-> serial, meta |-> NoMeta]

Json(meta, offer) == [md5 |-> "json", meta |-> meta, offer |-> offer]
Forgotten == [r \in Readers |-> [table[r] EXCEPT !.st = "idle", !.about = "none"]]

KpkgInit ==
    /\ card = [tar |-> None, old |-> None, tmp |-> None, json |-> None]
    /\ pkg = Begun(card, 1)
    /\ table = [r \in Readers |-> EmptySlot]
    /\ sending = [u \in Uploads |-> NoUpload]
    /\ reader = [r \in Readers |-> [runs |-> MetaOf(Factory), offer |-> NoMeta,
                                    tried |-> "none", err |-> FALSE, at |-> "shows",
                                    dl |-> <<>>, serial |-> 0, length |-> 0]]
    /\ asked = {}
    /\ answer = [ok |-> TRUE, had |-> NoMeta, has |-> NoMeta, faults |-> 0]
    /\ gone = [uploads |-> 0, offers |-> 0, troubles |-> 0, cuts |-> 0]

Troubles(n) == /\ gone.troubles + n <= MaxTroubles
               /\ gone' = [gone EXCEPT !.troubles = @ + n]
Trouble == Troubles(1)
Fine == UNCHANGED gone

\* The first piece of an upload: one upload at a time has the temporary file.
UploadBegins(u, p) ==
    /\ sending[u].at = "free" /\ gone.uploads < MaxUploads
    /\ LET taken == \E v \in Uploads : sending[v].owner
       IN  \/ /\ gone' = [gone EXCEPT !.uploads = @ + 1]
              /\ sending' = [sending EXCEPT ![u] = [at |-> "open", owner |-> ~taken,
                                err |-> taken, file |-> p, got |-> IF taken THEN 0 ELSE 1]]
              /\ card' = IF taken THEN card ELSE [card EXCEPT !.tmp = [p EXCEPT !.size = 1]]
           \/ \* the card is busy, or the file is not to be opened
              /\ ~taken /\ gone.troubles < MaxTroubles
              /\ gone' = [gone EXCEPT !.uploads = @ + 1, !.troubles = @ + 1]
              /\ sending' = [sending EXCEPT ![u] = [at |-> "open", owner |-> TRUE,
                                err |-> TRUE, file |-> p, got |-> 0]]
              /\ UNCHANGED card
    /\ UNCHANGED <<pkg, table, reader, asked, answer>>

\* A piece more; a write that fails spoils the upload.
UploadPiece(u) ==
    LET s == sending[u] IN
    /\ s.at = "open" /\ ~s.err /\ s.got < s.file.size
    /\ \/ /\ sending' = [sending EXCEPT ![u].got = @ + 1]
          /\ card' = [card EXCEPT !.tmp.size = s.got + 1]
          /\ Fine
       \/ Trouble /\ sending' = [sending EXCEPT ![u].err = TRUE] /\ UNCHANGED card
    /\ UNCHANGED <<pkg, table, reader, asked, answer>>

\* Fault: the package on the card is removed before the new one is in place.
RemovedFirst(c, had) == [card |-> [c EXCEPT !.tar = None, !.old = None], moved |-> FALSE]

\* commit(), first half: the package on the card is put aside.
PutAside(c, had) ==
    LET moved == had /\ c.tar # None
    IN  [card |-> [c EXCEPT !.old = IF moved THEN c.tar ELSE None, !.tar = None],
         moved |-> moved]

\* commit(), second half: the new one takes its place, or the old one returns.
Placed(c) == [c EXCEPT !.tar = c.tmp, !.tmp = None, !.old = None]
PutBack(c) == [c EXCEPT !.tar = c.old, !.old = None, !.tmp = None]

Answers(ok, had, now, faults) ==
    answer' = [ok |-> ok, had |-> IF had.have THEN had.meta ELSE NoMeta,
               has |-> IF now.have THEN now.meta ELSE NoMeta, faults |-> faults]

\* The upload is over and was a package: it replaces what is on the card, is
\* not on offer, and the slots of the readers start over.  The result of
\* writing pkg.json is not looked at.
Commits(u) ==
    LET s == sending[u]
        aside == PutAside(card, pkg.have)
        new == [have |-> TRUE, offer |-> FALSE, serial |-> pkg.serial + 1,
                meta |-> MetaOf(s.file)]
    IN  /\ s.at = "open" /\ ~s.err /\ s.got = s.file.size /\ Accepted(s.file)
        /\ sending' = [sending EXCEPT ![u] = NoUpload]
        /\ \/ /\ pkg' = new /\ table' = Forgotten
              /\ Answers(TRUE, pkg, new, 0)
              /\ \/ /\ card' = [Placed(aside.card) EXCEPT !.json = Json(new.meta, FALSE)]
                    /\ Fine
                 \/ Trouble /\ card' = Placed(aside.card)
           \/ \* the lock is not had in 5 s: nothing was changed
              /\ Trouble /\ card' = [card EXCEPT !.tmp = None]
              /\ Answers(FALSE, pkg, pkg, 1)
              /\ UNCHANGED <<pkg, table>>
           \/ \* the rename fails, and the old package is put back
              /\ aside.moved /\ Trouble
              /\ card' = PutBack(aside.card)
              /\ pkg' = [pkg EXCEPT !.serial = @ + 1]
              /\ Answers(FALSE, pkg, pkg, 1)
              /\ UNCHANGED table
           \/ \* there was none to put back, or that fails too
              \E faults \in (IF aside.moved THEN {2} ELSE {1}) :
                 /\ Troubles(faults)
                 /\ card' = [aside.card EXCEPT !.tmp = None, !.json = None]
                 /\ pkg' = [pkg EXCEPT !.serial = @ + 1, !.have = FALSE, !.offer = FALSE]
                 /\ table' = Forgotten
                 /\ Answers(FALSE, pkg, pkg', faults)
        /\ UNCHANGED <<reader, asked>>

\* An upload that ended in an error is answered, and its file removed.
Refuses(u) ==
    LET s == sending[u] IN
    /\ s.at = "open"
    /\ s.err \/ (s.got = s.file.size /\ ~Accepted(s.file))
    /\ sending' = [sending EXCEPT ![u] = NoUpload]
    /\ card' = IF s.owner THEN [card EXCEPT !.tmp = None] ELSE card
    /\ Answers(FALSE, pkg, pkg, 0)
    /\ UNCHANGED <<pkg, table, reader, asked, gone>>

\* The browser goes away half way: what it held is freed, the file stays.
UploadDrops(u) ==
    /\ sending[u].at = "open"
    /\ sending' = [sending EXCEPT ![u] = NoUpload]
    /\ Trouble
    /\ UNCHANGED <<card, pkg, table, reader, asked, answer>>

\* POST offer and stop: in RAM first; a pkg.json that cannot be written is
\* answered with an error and changes nothing back.
Offers(on) ==
    /\ pkg.have /\ pkg.offer # on /\ gone.offers < MaxOffers
    /\ pkg' = [pkg EXCEPT !.offer = on]
    /\ table' = Forgotten
    /\ asked' = IF on THEN asked \cup {pkg.meta.md5} ELSE asked
    /\ \/ /\ card' = [card EXCEPT !.json = Json(pkg.meta, on)]
          /\ gone' = [gone EXCEPT !.offers = @ + 1]
       \/ /\ gone.troubles < MaxTroubles /\ UNCHANGED card
          /\ gone' = [gone EXCEPT !.offers = @ + 1, !.troubles = @ + 1]
    /\ UNCHANGED <<sending, reader, answer>>

\* POST delete
Deletes ==
    /\ pkg.have
    /\ pkg' = [pkg EXCEPT !.have = FALSE, !.offer = FALSE, !.serial = @ + 1]
    /\ card' = [card EXCEPT !.tar = None, !.json = None]
    /\ table' = Forgotten
    /\ UNCHANGED <<sending, reader, asked, answer, gone>>

-----------------------------------------------------------------------------
(* Power cuts.                                                              *)

\* pkg_fail: nothing on the reader was changed, and the next fetches say so.
Failed(x) == [x EXCEPT !.at = "shows", !.err = TRUE, !.dl = <<>>]

\* The collector restarts with the card as `c`; what was being sent is gone.
Restarts(c) ==
    /\ gone.cuts < MaxCuts /\ gone' = [gone EXCEPT !.cuts = @ + 1]
    /\ card' = c
    /\ pkg' = Begun(c, 1)
    /\ table' = [r \in Readers |-> EmptySlot]
    /\ sending' = [u \in Uploads |-> NoUpload]
    /\ reader' = [r \in Readers |-> IF reader[r].at = "loads" THEN Failed(reader[r])
                                    ELSE reader[r]]
    /\ UNCHANGED <<asked, answer>>

PowerCut ==
    \/ Restarts(card)
    \/ \* in commit(): between the two renames, or before pkg.json is written
       \E u \in Uploads :
          LET s == sending[u] IN
          /\ s.at = "open" /\ ~s.err /\ s.got = s.file.size /\ Accepted(s.file)
          /\ LET c == PutAside(card, pkg.have).card
             IN  Restarts(c) \/ Restarts(Placed(c))

-----------------------------------------------------------------------------
(* The readers.                                                             *)

\* kindlePkgOffer on a fetch: what the payload says of an update, and what the
\* slot of the reader says of it.
Offered(r) == pkg.have /\ pkg.offer /\ reader[r].runs.ver # pkg.meta.ver

SlotAfter(r) ==
    LET refused == reader[r].err /\ reader[r].tried = pkg.meta.md5
    IN  [table[r] EXCEPT
            !.known = TRUE, !.ver = reader[r].runs.ver,
            !.st = IF ~Offered(r) THEN "idle"
                   ELSE IF refused THEN "failed"
                   ELSE IF @ = "sending" THEN @ ELSE "pending",
            !.about = IF Offered(r) /\ refused THEN pkg.meta.md5
                      ELSE IF Offered(r) /\ @ = "sending" THEN @ ELSE "none"]

\* Fault: the refusal is forgotten before it is known that nothing is tried.
DecidesForgets(x, offer) ==
    IF offer = NoMeta THEN [x EXCEPT !.offer = offer]
    ELSE IF x.tried = offer.md5 THEN [x EXCEPT !.offer = offer, !.err = FALSE]
    ELSE [x EXCEPT !.offer = offer, !.at = "asks", !.err = FALSE, !.tried = offer.md5]

\* pkg_check: one try of a package in one run of the script.
Decides(x, offer) ==
    IF offer = NoMeta \/ x.tried = offer.md5 THEN [x EXCEPT !.offer = offer]
    ELSE [x EXCEPT !.offer = offer, !.at = "asks", !.err = FALSE, !.tried = offer.md5]

\* A fetch whose payload arrives whole.
Fetches(r) ==
    /\ reader[r].at = "shows"
    /\ table' = [table EXCEPT ![r] = SlotAfter(r)]
    /\ reader' = [reader EXCEPT ![r] = Decides(@, IF Offered(r) THEN pkg.meta ELSE NoMeta)]
    /\ UNCHANGED <<card, pkg, sending, asked, answer, gone>>

\* GET /kindle/pkg.tar: the answer is of the length of the package of now.
Asks(r) ==
    /\ reader[r].at = "asks"
    /\ IF pkg.have
       THEN /\ reader' = [reader EXCEPT ![r].at = "loads", ![r].dl = <<>>,
                                        ![r].serial = pkg.serial, ![r].length = pkg.meta.size]
            /\ table' = [table EXCEPT ![r].st = IF @ = "pending" THEN "sending" ELSE @]
       ELSE /\ reader' = [reader EXCEPT ![r] = Failed(@)]
            /\ UNCHANGED table
    /\ UNCHANGED <<card, pkg, sending, asked, answer, gone>>

\* readChunk: only of the package the download began with.
SameSerial(serial) == pkg.have /\ pkg.serial = serial

\* The next piece; none ends the answer short.  Or the connection breaks.
Piece(r) ==
    LET x == reader[r] IN
    /\ x.at = "loads" /\ Len(x.dl) < x.length
    /\ \/ /\ reader' = [reader EXCEPT ![r] =
                IF SameSerial(x.serial) /\ card.tar # None
                THEN [x EXCEPT !.dl = Append(x.dl, card.tar.md5)]
                ELSE Failed(@)]
          /\ Fine
       \/ Trouble /\ reader' = [reader EXCEPT ![r] = Failed(@)]
    /\ UNCHANGED <<card, pkg, table, sending, asked, answer>>

\* Fault: the length is all that is checked.
IsAsLong(x) == Len(x.dl) = x.offer.size

\* pkg_install: the length and the MD5 are those of the payload.
IsOffered(x) == x.dl = [i \in 1 .. x.offer.size |-> x.offer.md5]

\* The file is checked, unpacked beside, its files are checked again - those of
\* an accepted package that parses, of the version that was offered - copied
\* beside the old ones and renamed over them, and the new script is started.
Installs(r) ==
    LET x == reader[r]
        from == CHOOSE p \in Packages : p.md5 = x.dl[1]
    IN  /\ x.at = "loads" /\ Len(x.dl) = x.length
        /\ \/ /\ reader' = [reader EXCEPT ![r] =
                     IF IsOffered(x) /\ from.ver = x.offer.ver /\ Accepted(from) /\ from.parses
                     THEN [@ EXCEPT !.runs = MetaOf(from), !.offer = NoMeta, !.tried = "none",
                                    !.err = FALSE, !.at = "shows", !.dl = <<>>]
                     ELSE Failed(@)]
              /\ Fine
           \/ Trouble /\ reader' = [reader EXCEPT ![r] = Failed(@)]
        /\ UNCHANGED <<card, pkg, table, sending, asked, answer>>

\* The reader is started again: whatever it was doing, it tries afresh.
Restart(r) ==
    /\ Trouble
    /\ reader' = [reader EXCEPT ![r] = [@ EXCEPT !.offer = NoMeta, !.tried = "none",
                                         !.err = FALSE, !.at = "shows", !.dl = <<>>]]
    /\ UNCHANGED <<card, pkg, table, sending, asked, answer>>

KpkgNext ==
    \/ \E u \in Uploads : \/ \E p \in Packages : UploadBegins(u, p)
                          \/ UploadPiece(u) \/ Commits(u) \/ Refuses(u) \/ UploadDrops(u)
    \/ \E on \in BOOLEAN : Offers(on)
    \/ Deletes
    \/ PowerCut
    \/ \E r \in Readers : \/ Fetches(r) \/ Asks(r) \/ Piece(r) \/ Installs(r) \/ Restart(r)

\* A reader fetches every few minutes and carries on with what it has begun.
KpkgFairness ==
    \A r \in Readers : /\ WF_kpkgVars(Fetches(r)) /\ WF_kpkgVars(Asks(r))
                       /\ WF_kpkgVars(Piece(r)) /\ WF_kpkgVars(Installs(r))

KpkgSpec == KpkgInit /\ [][KpkgNext]_kpkgVars /\ KpkgFairness

-----------------------------------------------------------------------------
(* What is promised of an update.                                          *)

\* A reader runs what it came with or a package somebody pressed Offer for,
\* whole and of one version - whatever was uploaded, deleted or cut short while
\* it was downloading (docs/KINDLE_UPDATE.md: nothing is offered by itself).
NeverUnasked ==
    \A r \in Readers : \/ reader[r].runs = MetaOf(Factory)
                       \/ reader[r].runs.md5 \in asked

\* An upload that failed, for one reason, leaves the collector with the package
\* it had (commit(): "the old package, untouched").
FailedKeepsOld == ~answer.ok /\ answer.faults < 2 => answer.has = answer.had

\* In the end every reader runs what is on offer, or the collector's page says
\* that it refused it: a refusal is told again on every fetch, because the
\* collector may have restarted meanwhile.
Settled == \A r \in Readers : Offered(r) => table[r].st = "failed"

\* Every reader settles (docs/KINDLE_UPDATE.md).
EveryReaderSettles == <>[]Settled
=============================================================================
