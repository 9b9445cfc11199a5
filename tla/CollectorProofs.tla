--------------------------- MODULE CollectorProofs ---------------------------
(***************************************************************************)
(* For any number of saves, requests, readings, resets, readers, packages, *)
(* nodes and sensors: what the collector's settings, its uploads, its      *)
(* trends and alert rules, its run log, the health of its sensors and the  *)
(* update of its e-ink readers promise, what the documents and the dust    *)
(* sensor of a node do, and when a radio node's readings were taken. The   *)
(* parts share nothing and move alone, so each has an invariant of its own *)
(* over its own module.                                                    *)
(***************************************************************************)
EXTENDS MCCollector, FiniteSetTheorems, TLAPS

-----------------------------------------------------------------------------
(* The parts.                                                              *)

\* The part that was picked moves by its own steps, whatever else is in the model.
LEMMA PartsMoveAlone ==
    ASSUME [Next]_vars
    PROVE  /\ part' = part
           /\ part = "settings" => [Setting!SettingsNext]_Setting!settingsVars
           /\ part = "uploads" => [Sending!UploadNext]_Sending!uploadVars
           /\ part = "readings" => [Reading!ReadNext]_Reading!readVars
           /\ part = "package" => [Package!KpkgNext]_Package!kpkgVars
           /\ part = "boot" => [Booting!BootNext]_Booting!bootVars
           /\ part = "documents" => [Documents!DocsNext]_Documents!docVars
           /\ part = "node" => [Measuring!NodeNext]_Measuring!nodeVars
           /\ part = "sensors" => [Sensing!SensorsNext]_Sensing!sensorVars
           /\ part = "radio" => [Arriving!ReadingsNext]_Arriving!readingVars
BY DEF Next, vars, boot, settings, uploads, readings, sensors, package, documents, measured, received,
       Arriving!readingVars,
       Documents!docVars, Measuring!nodeVars, Sensing!sensorVars,
       Booting!bootVars, Setting!settingsVars, Sending!uploadVars, Reading!readVars, Package!kpkgVars

-----------------------------------------------------------------------------
(* KindlePkg: a reader runs nothing that nobody asked for.                 *)

\* What a page, a file or a payload says of a package that was asked for.
IsAsked(m) == m.md5 \in asked /\ \E p \in Packages : m = Package!MetaOf(p)

\* What is on offer was asked for, in RAM and in the file that a restart reads.
OfferAsked ==
    /\ pkg.have => \E p \in Packages : pkg.meta = Package!MetaOf(p)
    /\ pkg.have /\ pkg.offer => IsAsked(pkg.meta)
    /\ card.json # Package!None =>
          /\ \E p \in Packages : card.json.meta = Package!MetaOf(p)
          /\ card.json.offer => IsAsked(card.json.meta)

\* A reader that tries a package tries one that was asked for.
TriesAsked == \A r \in Readers : reader[r].at # "shows" => IsAsked(reader[r].offer)

\* The parts of the state the argument is about are there.
PackageTypes ==
    /\ DOMAIN card = {"tar", "old", "tmp", "json"}
    /\ DOMAIN pkg = {"have", "offer", "serial", "meta"}
    /\ DOMAIN reader = Readers
    /\ \A r \in Readers :
          DOMAIN reader[r] = {"runs", "offer", "tried", "err", "at", "dl", "serial", "length"}
    /\ DOMAIN sending = Uploads
    /\ \A u \in Uploads :
          /\ DOMAIN sending[u] = {"at", "owner", "err", "file", "got"}
          /\ sending[u].at = "open" => sending[u].file \in Packages

PackageInv == PackageTypes /\ OfferAsked /\ TriesAsked /\ Package!NeverUnasked

LEMMA PackageInit == Package!KpkgInit => PackageInv
<1>. SUFFICES ASSUME Package!KpkgInit PROVE PackageInv
    OBVIOUS
<1>. USE DEF Package!KpkgInit
<1>1. PackageTypes
    BY DEF PackageTypes, Package!NoUpload, Package!Begun
<1>2. OfferAsked
    BY DEF OfferAsked, Package!Begun
<1>3. TriesAsked
    BY DEF TriesAsked
<1>4. Package!NeverUnasked
    BY DEF Package!NeverUnasked
<1>. QED BY <1>1, <1>2, <1>3, <1>4 DEF PackageInv

\* Every upload changes the files and the package of now, or neither.
LEMMA UploadsKeep ==
    ASSUME PackageInv, NEW u \in Uploads,
           \/ \E p \in Packages : Package!UploadBegins(u, p)
           \/ Package!UploadPiece(u) \/ Package!Refuses(u) \/ Package!UploadDrops(u)
    PROVE  PackageInv'
<1>. USE DEF PackageInv
<1>1. /\ UNCHANGED <<pkg, table, reader, asked>>
      /\ card'.json = card.json /\ DOMAIN card' = DOMAIN card
    BY DEF PackageTypes, Package!UploadBegins, Package!UploadPiece, Package!Refuses, Package!UploadDrops
<1>2. /\ DOMAIN sending' = Uploads
      /\ \A v \in Uploads : /\ DOMAIN sending'[v] = {"at", "owner", "err", "file", "got"}
                            /\ sending'[v].at = "open" => sending'[v].file \in Packages
  <2>1. CASE \E p \in Packages : Package!UploadBegins(u, p)
    <3>1. PICK p \in Packages : Package!UploadBegins(u, p)
        BY <2>1
    <3>. DEFINE taken == \E v \in Uploads : sending[v].owner
                good == [at |-> "open", owner |-> ~taken, err |-> taken, file |-> p, got |-> IF taken THEN 0 ELSE 1]
                bad  == [at |-> "open", owner |-> TRUE, err |-> TRUE, file |-> p, got |-> 0]
    <3>2. sending' = [sending EXCEPT ![u] = good] \/ sending' = [sending EXCEPT ![u] = bad]
        BY <3>1, Zenon DEF Package!UploadBegins
    <3>3. \A x \in {good, bad} : DOMAIN x = {"at", "owner", "err", "file", "got"} /\ x.file = p
        OBVIOUS
    <3>. HIDE DEF good, bad
    <3>. QED BY <3>2, <3>3 DEF PackageTypes
  <2>2. CASE Package!UploadPiece(u)
    BY <2>2 DEF Package!UploadPiece, PackageTypes
  <2>3. CASE Package!Refuses(u)
    BY <2>3 DEF Package!Refuses, PackageTypes, Package!NoUpload
  <2>4. CASE Package!UploadDrops(u)
    BY <2>4 DEF Package!UploadDrops, PackageTypes, Package!NoUpload
  <2>. QED BY <2>1, <2>2, <2>3, <2>4
<1>3. PackageTypes'
    BY <1>1, <1>2 DEF PackageTypes
<1>4. OfferAsked'
    BY <1>1 DEF OfferAsked, IsAsked
<1>5. TriesAsked' /\ Package!NeverUnasked'
    BY <1>1 DEF TriesAsked, IsAsked, Package!NeverUnasked
<1>. QED BY <1>3, <1>4, <1>5

\* A package that replaces another is not on offer; one that does not replaces
\* nothing, or leaves none.
LEMMA CommitKeeps ==
    ASSUME PackageInv, NEW u \in Uploads, Package!Commits(u)
    PROVE  PackageInv'
<1>. USE DEF PackageInv
<1>1. UNCHANGED <<reader, asked>> /\ sending' = [sending EXCEPT ![u] = Package!NoUpload]
    BY DEF Package!Commits
<1>2. sending[u].file \in Packages
    BY DEF Package!Commits, PackageTypes
<1>3. /\ DOMAIN card' = DOMAIN card /\ DOMAIN pkg' = DOMAIN pkg
      /\ OfferAsked'
  <2>. USE DEF PackageTypes
  <2>. DEFINE aside == Package!PutAside(card, pkg.have)
              new   == [have |-> TRUE, offer |-> FALSE, serial |-> pkg.serial + 1,
                        meta |-> Package!MetaOf(sending[u].file)]
  <2>1. /\ DOMAIN aside.card = DOMAIN card /\ aside.card.json = card.json
        /\ DOMAIN Package!Placed(aside.card) = DOMAIN card /\ Package!Placed(aside.card).json = card.json
        /\ DOMAIN Package!PutBack(aside.card) = DOMAIN card /\ Package!PutBack(aside.card).json = card.json
    BY DEF Package!PutAside, Package!Placed, Package!PutBack
  <2>2. CASE /\ pkg' = new
             /\ \/ card' = [Package!Placed(aside.card) EXCEPT !.json = Package!Json(new.meta, FALSE)]
                \/ card' = Package!Placed(aside.card)
    <3>1. DOMAIN card' = DOMAIN card /\ (card'.json = card.json \/ card'.json = Package!Json(new.meta, FALSE))
      BY <2>1, <2>2
    <3>2. DOMAIN pkg' = DOMAIN pkg /\ pkg'.offer = FALSE /\ pkg'.meta = new.meta
      BY <2>2
    <3>3. OfferAsked'
      BY <1>1, <1>2, <3>1, <3>2 DEF OfferAsked, IsAsked, Package!Json
    <3>. QED BY <3>1, <3>2, <3>3
  <2>3. CASE card' = [card EXCEPT !.tmp = Package!None] /\ pkg' = pkg
    BY <1>1, <2>3 DEF OfferAsked, IsAsked
  <2>4. CASE card' = Package!PutBack(aside.card) /\ pkg' = [pkg EXCEPT !.serial = @ + 1]
    BY <1>1, <2>1, <2>4 DEF OfferAsked, IsAsked
  <2>5. CASE /\ card' = [aside.card EXCEPT !.tmp = Package!None, !.json = Package!None]
             /\ pkg' = [pkg EXCEPT !.serial = @ + 1, !.have = FALSE, !.offer = FALSE]
    BY <1>1, <2>1, <2>5 DEF OfferAsked, IsAsked
  <2>6. \/ /\ pkg' = new
           /\ \/ card' = [Package!Placed(aside.card) EXCEPT !.json = Package!Json(new.meta, FALSE)]
              \/ card' = Package!Placed(aside.card)
        \/ card' = [card EXCEPT !.tmp = Package!None] /\ pkg' = pkg
        \/ card' = Package!PutBack(aside.card) /\ pkg' = [pkg EXCEPT !.serial = @ + 1]
        \/ /\ card' = [aside.card EXCEPT !.tmp = Package!None, !.json = Package!None]
           /\ pkg' = [pkg EXCEPT !.serial = @ + 1, !.have = FALSE, !.offer = FALSE]
    <3>. HIDE DEF PackageInv, PackageTypes
    <3>. QED BY Zenon DEF Package!Commits
  <2>. HIDE DEF aside, new
  <2>. QED BY <2>2, <2>3, <2>4, <2>5, <2>6
<1>4. PackageTypes'
  BY <1>1, <1>3 DEF PackageTypes, Package!NoUpload
<1>5. TriesAsked' /\ Package!NeverUnasked'
    BY <1>1 DEF TriesAsked, IsAsked, Package!NeverUnasked
<1>. QED BY <1>3, <1>4, <1>5

\* Only the user puts a package on offer.
LEMMA PagesKeep ==
    ASSUME PackageInv, (\E on \in BOOLEAN : Package!Offers(on)) \/ Package!Deletes
    PROVE  PackageInv'
<1>. USE DEF PackageInv
<1>1. UNCHANGED <<sending, reader>> /\ asked \subseteq asked'
    BY DEF Package!Offers, Package!Deletes
<1>2. DOMAIN card' = DOMAIN card /\ DOMAIN pkg' = DOMAIN pkg
    BY DEF Package!Offers, Package!Deletes, PackageTypes
<1>3. OfferAsked'
  <2>1. CASE Package!Deletes
    BY <2>1 DEF Package!Deletes, OfferAsked, IsAsked, PackageTypes
  <2>2. CASE \E on \in BOOLEAN : Package!Offers(on)
    <3>1. PICK on \in BOOLEAN : Package!Offers(on)
        BY <2>2
    <3>2. pkg.have /\ pkg'.have /\ pkg'.offer = on /\ pkg'.meta = pkg.meta
        BY <3>1 DEF Package!Offers, PackageTypes
    <3>3. on => pkg.meta.md5 \in asked'
        BY <3>1 DEF Package!Offers
    <3>4. card'.json = card.json \/ card'.json = Package!Json(pkg.meta, on)
        BY <3>1 DEF Package!Offers, PackageTypes
    <3>. QED BY <1>1, <3>2, <3>3, <3>4 DEF OfferAsked, IsAsked, Package!Json
  <2>. QED BY <2>1, <2>2
<1>4. PackageTypes'
  BY <1>1, <1>2 DEF PackageTypes
<1>5. TriesAsked' /\ Package!NeverUnasked'
    BY <1>1 DEF TriesAsked, IsAsked, Package!NeverUnasked
<1>. QED BY <1>3, <1>4, <1>5

\* A restart offers what the file says, and no reader gets further by it.
LEMMA CutKeeps ==
    ASSUME PackageInv, Package!PowerCut
    PROVE  PackageInv'
<1>. USE DEF PackageInv
<1>1. PICK c : Package!Restarts(c) /\ DOMAIN c = DOMAIN card /\ c.json = card.json
  <2>1. CASE Package!Restarts(card)
    BY <2>1
  <2>2. CASE \E c \in {Package!PutAside(card, pkg.have).card,
                       Package!Placed(Package!PutAside(card, pkg.have).card)} : Package!Restarts(c)
    <3>. DEFINE d == Package!PutAside(card, pkg.have).card
                e == Package!Placed(d)
    <3>1. DOMAIN d = DOMAIN card /\ d.json = card.json
        BY DEF Package!PutAside, PackageTypes
    <3>2. Package!Restarts(d) \/ Package!Restarts(e)
        BY <2>2, Zenon
    <3>. HIDE DEF d
    <3>3. DOMAIN e = DOMAIN card /\ e.json = card.json
        BY <3>1 DEF Package!Placed, PackageTypes
    <3>. QED BY <3>1, <3>2, <3>3, Zenon
  <2>. QED BY <2>1, <2>2 DEF Package!PowerCut
<1>2. /\ asked' = asked /\ card' = c /\ pkg' = Package!Begun(c, 1)
      /\ sending' = [v \in Uploads |-> Package!NoUpload]
      /\ reader' = [r \in Readers |-> IF reader[r].at = "loads" THEN Package!Failed(reader[r]) ELSE reader[r]]
    BY <1>1 DEF Package!Restarts
<1>3. OfferAsked'
    BY <1>1, <1>2 DEF OfferAsked, IsAsked, Package!Begun
<1>4. \A r \in Readers : /\ DOMAIN reader'[r] = DOMAIN reader[r] /\ reader'[r].runs = reader[r].runs
                         /\ reader'[r].at # "shows" => reader'[r] = reader[r]
    BY <1>2 DEF PackageTypes, Package!Failed
<1>5. PackageTypes'
    BY <1>1, <1>2, <1>4 DEF PackageTypes, Package!Begun, Package!NoUpload
<1>6. TriesAsked' /\ Package!NeverUnasked'
    BY <1>2, <1>4 DEF TriesAsked, IsAsked, Package!NeverUnasked
<1>. QED BY <1>3, <1>5, <1>6

\* What a step of one reader must leave true of it.
Honest(x) ==
    /\ DOMAIN x = {"runs", "offer", "tried", "err", "at", "dl", "serial", "length"}
    /\ x.at # "shows" => IsAsked(x.offer)
    /\ x.runs = Package!MetaOf(Factory) \/ x.runs.md5 \in asked

LEMMA ReaderKeeps ==
    ASSUME PackageInv, NEW r \in Readers, UNCHANGED <<card, pkg, sending, asked>>,
           NEW x, Honest(x), reader' = [reader EXCEPT ![r] = x]
    PROVE  PackageInv'
<1>. USE DEF PackageInv
<1>1. PackageTypes'
    BY DEF PackageTypes, Honest
<1>2. OfferAsked'
    BY DEF OfferAsked, IsAsked
<1>3. TriesAsked' /\ Package!NeverUnasked'
    BY DEF TriesAsked, IsAsked, Package!NeverUnasked, Honest, PackageTypes
<1>. QED BY <1>1, <1>2, <1>3

LEMMA HonestNow ==
    ASSUME PackageInv, NEW r \in Readers
    PROVE  Honest(reader[r]) /\ Honest(Package!Failed(reader[r]))
<1>1. Honest(reader[r])
    BY DEF PackageInv, PackageTypes, TriesAsked, Package!NeverUnasked, Honest
<1>. QED BY <1>1 DEF Honest, Package!Failed

\* A fetch begins a try of what is on offer, and of nothing else.
LEMMA FetchKeeps ==
    ASSUME PackageInv, NEW r \in Readers, Package!Fetches(r)
    PROVE  PackageInv'
<1>. DEFINE offer == IF Package!Offered(r) THEN pkg.meta ELSE Package!NoMeta
            x == Package!Decides(reader[r], offer)
<1>1. offer = Package!NoMeta \/ IsAsked(offer)
    BY DEF Package!Offered, PackageInv, OfferAsked
<1>2. Honest(reader[r]) /\ reader[r].at = "shows"
    BY HonestNow DEF Package!Fetches
<1>. HIDE DEF offer
<1>3. Honest(x)
    BY <1>1, <1>2 DEF Honest, Package!Decides
<1>4. reader' = [reader EXCEPT ![r] = x] /\ UNCHANGED <<card, pkg, sending, asked>>
    BY DEF Package!Fetches, offer
<1>. HIDE DEF x
<1>. QED BY <1>3, <1>4, ReaderKeeps

\* The download begins, goes on, breaks off, or the reader is started again.
LEMMA LoadKeeps ==
    ASSUME PackageInv, NEW r \in Readers,
           Package!Asks(r) \/ Package!Piece(r) \/ Package!Restart(r)
    PROVE  PackageInv'
<1>1. Honest(reader[r]) /\ Honest(Package!Failed(reader[r])) /\ r \in DOMAIN reader
    BY HonestNow DEF PackageInv, PackageTypes
<1>2. PICK x : Honest(x) /\ reader' = [reader EXCEPT ![r] = x]
  <2>1. CASE Package!Asks(r)
    <3>. DEFINE y == [reader[r] EXCEPT !.at = "loads", !.dl = <<>>, !.serial = pkg.serial, !.length = pkg.meta.size]
    <3>1. Honest(y)
        BY <1>1, <2>1 DEF Honest, Package!Asks
    <3>2. reader' = [reader EXCEPT ![r] = y] \/ reader' = [reader EXCEPT ![r] = Package!Failed(reader[r])]
        BY <1>1, <2>1 DEF Package!Asks
    <3>. QED BY <1>1, <3>1, <3>2
  <2>2. CASE Package!Piece(r)
    <3>. DEFINE y == [reader[r] EXCEPT !.dl = Append(@, card.tar.md5)]
    <3>1. Honest(y)
        BY <1>1 DEF Honest
    <3>2. reader' = [reader EXCEPT ![r] = y] \/ reader' = [reader EXCEPT ![r] = Package!Failed(reader[r])]
      <4>1. CASE Package!SameSerial(reader[r].serial) /\ card.tar # Package!None
        BY <2>2, <4>1, Zenon DEF Package!Piece
      <4>2. CASE ~(Package!SameSerial(reader[r].serial) /\ card.tar # Package!None)
        BY <2>2, <4>2, Zenon DEF Package!Piece
      <4>. QED BY <4>1, <4>2
    <3>. QED BY <1>1, <3>1, <3>2
  <2>3. CASE Package!Restart(r)
    <3>. DEFINE y == [reader[r] EXCEPT !.offer = Package!NoMeta, !.tried = "none",
                                       !.err = FALSE, !.at = "shows", !.dl = <<>>]
    <3>1. Honest(y)
        BY <1>1 DEF Honest
    <3>. QED BY <2>3, <3>1 DEF Package!Restart
  <2>. QED BY <2>1, <2>2, <2>3
<1>3. UNCHANGED <<card, pkg, sending, asked>>
    BY DEF Package!Asks, Package!Piece, Package!Restart
<1>. QED BY <1>2, <1>3, ReaderKeeps

\* What is installed is what was offered when the try began: the MD5 says so.
LEMMA InstallKeeps ==
    ASSUME PackageInv, \A p \in Packages : p.size \in Nat \ {0},
           NEW r \in Readers, Package!Installs(r)
    PROVE  PackageInv'
<1>. DEFINE from == CHOOSE p \in Packages : p.md5 = reader[r].dl[1]
            y == [reader[r] EXCEPT !.runs = Package!MetaOf(from), !.offer = Package!NoMeta, !.tried = "none",
                                   !.err = FALSE, !.at = "shows", !.dl = <<>>]
<1>1. Honest(reader[r]) /\ Honest(Package!Failed(reader[r])) /\ reader[r].at = "loads"
    BY HonestNow DEF Package!Installs
<1>2. ASSUME Package!IsOffered(reader[r]) PROVE Honest(y)
  <2>1. IsAsked(reader[r].offer)
      BY <1>1 DEF Honest
  <2>2. PICK p \in Packages : reader[r].offer = Package!MetaOf(p)
      BY <2>1 DEF IsAsked
  <2>3. reader[r].dl[1] = p.md5 /\ p.md5 \in asked
      BY <1>2, <2>1, <2>2 DEF IsAsked, Package!IsOffered, Package!MetaOf
  <2>4. from \in Packages /\ from.md5 = p.md5
      BY <2>3
  <2>. HIDE DEF from
  <2>. QED BY <1>1, <2>3, <2>4 DEF Honest, Package!MetaOf
<1>3. \/ Package!IsOffered(reader[r]) /\ reader' = [reader EXCEPT ![r] = y]
      \/ reader' = [reader EXCEPT ![r] = Package!Failed(reader[r])]
    BY Zenon DEF Package!Installs
<1>4. UNCHANGED <<card, pkg, sending, asked>>
    BY DEF Package!Installs
<1>. HIDE DEF y
<1>. QED BY <1>1, <1>2, <1>3, <1>4, ReaderKeeps

LEMMA PackageStep ==
    ASSUME \A p \in Packages : p.size \in Nat \ {0}
    PROVE  PackageInv /\ [Package!KpkgNext]_Package!kpkgVars => PackageInv'
<1>. SUFFICES ASSUME PackageInv, [Package!KpkgNext]_Package!kpkgVars PROVE PackageInv'
    OBVIOUS
<1>1. ASSUME NEW u \in Uploads,
             \/ \E p \in Packages : Package!UploadBegins(u, p)
             \/ Package!UploadPiece(u) \/ Package!Commits(u) \/ Package!Refuses(u) \/ Package!UploadDrops(u)
      PROVE  PackageInv'
    BY <1>1, UploadsKeep, CommitKeeps
<1>2. ASSUME NEW r \in Readers,
             Package!Fetches(r) \/ Package!Asks(r) \/ Package!Piece(r) \/ Package!Installs(r) \/ Package!Restart(r)
      PROVE  PackageInv'
    BY <1>2, FetchKeeps, LoadKeeps, InstallKeeps
<1>3. CASE UNCHANGED Package!kpkgVars
    BY <1>3 DEF PackageInv, PackageTypes, OfferAsked, TriesAsked, IsAsked, Package!NeverUnasked, Package!kpkgVars
<1>. QED BY <1>1, <1>2, <1>3, PagesKeep, CutKeeps DEF Package!KpkgNext

\* For any readers, packages, uploads and power cuts: a reader runs what it
\* came with or a package that somebody pressed Offer for, whatever was
\* uploaded, deleted or cut short while it was downloading (KindlePkg.cpp,
\* pkg_check and pkg_install of update_dash.sh).
THEOREM OnlyWhatWasAsked ==
    ASSUME \A p \in Packages : p.size \in Nat \ {0}
    PROVE  Spec => []NeverUnasked
<1>. DEFINE Safe == part = "package" => PackageInv
<1>1. Safe => NeverUnasked
    BY DEF PackageInv, NeverUnasked
<1>2. Init => Safe
    BY PackageInit DEF Init
<1>3. Safe /\ [Next]_vars => Safe'
    BY PartsMoveAlone, PackageStep
<1>. QED BY <1>1, <1>2, <1>3, PTL DEF Spec

-----------------------------------------------------------------------------
(* Readings: a rule has held for its duration.                             *)

\* The times and conditions that a day may bring.
DaysFit ==
    \A day \in Days : day.lags \subseteq Int /\ day.jumps \subseteq Int /\ day.mets \subseteq BOOLEAN

ClockType ==
    /\ DOMAIN clock = {"now", "n", "mishaps", "day"}
    /\ clock.now \in Int /\ clock.day \in Days

Met == [t : Nat \ {0}, met : BOOLEAN]

\* From the reading that began the wait on, every one met the rule.
Since ==
    rule.since # Reading!NoTime =>
        \E i \in 1..Len(seen.run) : /\ seen.run[i].t = rule.since
                                    /\ \A k \in i..Len(seen.run) : seen.run[k].met

\* One of them came a duration after the first, or before it.
Lasted ==
    rule.firing =>
        \E i, j \in 1..Len(seen.run) :
            /\ i <= j
            /\ \A k \in i..Len(seen.run) : seen.run[k].met
            /\ seen.run[j].t - seen.run[i].t >= Duration \/ seen.run[j].t < seen.run[i].t

RuleType ==
    /\ DOMAIN rule = {"series", "enabled", "snoozed", "since", "firing", "toasts", "file"}
    /\ rule.since \in Nat /\ rule.firing \in BOOLEAN
    /\ DOMAIN seen = {"folded", "run"}
    /\ seen.run \in Seq(Met)

RuleInv == ClockType /\ RuleType /\ Since /\ Lasted

LEMMA RuleInit ==
    ASSUME DaysFit
    PROVE  Reading!ReadInit => RuleInv
<1>. SUFFICES ASSUME Reading!ReadInit PROVE RuleInv
    OBVIOUS
<1>1. PICK s \in Series, day \in Days :
        /\ clock = [now |-> 1, n |-> 0, mishaps |-> 0, day |-> day]
        /\ rule = [series |-> s, enabled |-> TRUE, snoozed |-> 0, since |-> Reading!NoTime, firing |-> FALSE,
                   toasts |-> <<>>, file |-> [enabled |-> TRUE, snoozed |-> 0]]
        /\ seen = [folded |-> {}, run |-> <<>>]
    BY DEF Reading!ReadInit
<1>2. ClockType
    BY <1>1 DEF ClockType
<1>3. RuleType /\ Since /\ Lasted
    BY <1>1 DEF RuleType, Since, Lasted, Reading!NoTime
<1>. QED BY <1>2, <1>3 DEF RuleInv

\* Where the rule starts over, so does what it waited for.
LEMMA Unbegun ==
    ASSUME RuleInv, ClockType',
           DOMAIN rule' = DOMAIN rule, rule'.since = 0, rule'.firing = FALSE,
           DOMAIN seen' = DOMAIN seen, seen'.run = <<>>
    PROVE  RuleInv'
<1>1. <<>> \in Seq(Met)
    OBVIOUS
<1>2. RuleType'
  <2>1. rule'.firing \in BOOLEAN
      BY Zenon
  <2>2. rule'.since \in Nat /\ seen'.run \in Seq(Met)
      BY <1>1
  <2>. QED BY <2>1, <2>2, Zenon DEF RuleInv, RuleType
<1>3. Since' /\ Lasted'
    BY DEF Since, Lasted, Reading!NoTime
<1>. QED BY <1>2, <1>3 DEF RuleInv

LEMMA RuleLeft ==
    ASSUME RuleInv, ClockType',
           DOMAIN rule' = DOMAIN rule, rule'.since = rule.since, rule'.firing = rule.firing,
           DOMAIN seen' = DOMAIN seen, seen'.run = seen.run
    PROVE  RuleInv'
<1>1. RuleType'
    BY DEF RuleInv, RuleType
<1>2. Since' /\ Lasted'
    BY DEF RuleInv, Since, Lasted, Reading!NoTime
<1>. QED BY <1>1, <1>2 DEF RuleInv

\* A reading that the rule evaluates is one more of the run.
LEMMA Extends ==
    ASSUME NEW run \in Seq(Met), NEW x \in Met
    PROVE  /\ Append(run, x) \in Seq(Met) /\ Len(Append(run, x)) = Len(run) + 1 /\ Len(run) \in Nat
           /\ Append(run, x)[Len(run) + 1] = x
           /\ \A i \in 1..Len(run) : Append(run, x)[i] = run[i] /\ run[i] \in Met
    OBVIOUS

LEMMA EvaluatedKeeps ==
    ASSUME RuleInv, ClockType', Duration \in Int,
           NEW r, r.t \in Nat \ {0}, r.met \in BOOLEAN,
           Reading!Evaluates(rule, r), rule' = Reading!Evaluated(rule, r),
           DOMAIN seen' = DOMAIN seen,
           seen'.run = Append(seen.run, [t |-> r.t, met |-> r.met])
    PROVE  RuleInv'
<1>. DEFINE n == Len(seen.run)
            x == [t |-> r.t, met |-> r.met]
<1>0. /\ DOMAIN rule = {"series", "enabled", "snoozed", "since", "firing", "toasts", "file"}
      /\ DOMAIN seen = {"folded", "run"} /\ rule.firing \in BOOLEAN
    BY DEF RuleInv, RuleType
<1>1. x \in Met /\ x.t = r.t /\ x.met = r.met
    BY DEF Met
<1>. HIDE DEF x
<1>2. /\ seen'.run \in Seq(Met) /\ Len(seen'.run) = n + 1 /\ n \in Nat /\ seen'.run[n + 1] = x
      /\ \A i \in 1..n : seen'.run[i] = seen.run[i] /\ seen.run[i] \in Met
    BY <1>1, Extends DEF RuleInv, RuleType, x
<1>. HIDE DEF n
<1>3. CASE ~r.met
  <2>1. DOMAIN rule' = DOMAIN rule /\ rule'.since = 0 /\ rule'.firing = FALSE
    <3>1. rule' = [rule EXCEPT !.since = Reading!NoTime, !.firing = FALSE]
        BY <1>3, Zenon DEF Reading!Evaluates, Reading!Evaluated, Reading!Ends, Reading!Quiet
    <3>. QED BY <1>0, <3>1 DEF Reading!NoTime
  <2>2. RuleType'
    <3>1. rule'.firing \in BOOLEAN
        BY <2>1, Zenon
    <3>2. rule'.since \in Nat /\ seen'.run \in Seq(Met)
        BY <1>2, <2>1
    <3>. QED BY <1>0, <2>1, <3>1, <3>2, Zenon DEF RuleType
  <2>3. Since' /\ Lasted'
      BY <2>1 DEF Since, Lasted, Reading!NoTime
  <2>. QED BY <2>2, <2>3 DEF RuleInv
<1>4. CASE r.met
  <2>. DEFINE since == IF rule.since = 0 THEN r.t ELSE rule.since
              fires == ~rule.firing /\ Reading!Waited(r.t, since)
  <2>1. DOMAIN rule' = DOMAIN rule /\ rule'.since = since /\ rule'.firing = (rule.firing \/ fires)
    <3>1. PICK ts : rule' = [rule EXCEPT !.since = since, !.firing = rule.firing \/ fires, !.toasts = ts]
        BY <1>4, Zenon DEF Reading!Evaluates, Reading!Evaluated, Reading!NoTime
    <3>. HIDE DEF since, fires
    <3>. QED BY <1>0, <3>1
  <2>2. since \in Nat
      BY DEF RuleInv, RuleType
  <2>3. PICK i \in 1..n + 1 : seen'.run[i].t = since /\ \A k \in i..n + 1 : seen'.run[k].met
    <3>1. CASE rule.since = 0
      <4>1. n + 1 \in 1..n + 1 /\ seen'.run[n + 1].t = since
          BY <1>1, <1>2, <3>1
      <4>2. \A k \in n + 1..n + 1 : seen'.run[k].met
          BY <1>1, <1>2, <1>4
      <4>. QED BY <4>1, <4>2
    <3>2. CASE rule.since # 0
      <4>1. PICK i \in 1..n : seen.run[i].t = rule.since /\ \A k \in i..n : seen.run[k].met
          BY <3>2 DEF RuleInv, Since, n, Reading!NoTime
      <4>2. \A k \in i..n + 1 : seen'.run[k].met
          <5>1. ASSUME NEW k \in i..n + 1 PROVE seen'.run[k].met
            <6>1. CASE k = n + 1
                BY <1>1, <1>2, <1>4, <6>1
            <6>2. CASE k # n + 1
                BY <1>2, <4>1, <6>2
            <6>. QED BY <6>1, <6>2
          <5>. QED BY <5>1
      <4>3. i \in 1..n + 1 /\ seen'.run[i].t = since
          BY <1>2, <3>2, <4>1
      <4>. QED BY <4>2, <4>3
    <3>. QED BY <3>1, <3>2
  <2>. HIDE DEF since
  <2>4. RuleType' /\ Since'
      BY <1>2, <2>1, <2>2, <2>3 DEF RuleInv, RuleType, Since, n
  <2>5. Lasted'
    <3>1. CASE fires
      <4>1. r.t < since \/ r.t - since >= Duration
          BY <3>1 DEF Reading!Waited
      <4>2. i <= n + 1 /\ n + 1 \in 1..n + 1
          BY <1>2
      <4>3. seen'.run[n + 1].t = r.t
          BY <1>1, <1>2
      <4>. QED BY <1>2, <2>3, <4>1, <4>2, <4>3 DEF Lasted
    <3>2. CASE rule.firing
      <4>1. PICK a \in 1..n, b \in 1..n :
              /\ a <= b /\ \A k \in a..n : seen.run[k].met
              /\ seen.run[b].t - seen.run[a].t >= Duration \/ seen.run[b].t < seen.run[a].t
          BY <3>2 DEF RuleInv, Lasted, n
      <4>2. \A k \in a..n + 1 : seen'.run[k].met
          <5>1. ASSUME NEW k \in a..n + 1 PROVE seen'.run[k].met
            <6>1. CASE k = n + 1
                BY <1>1, <1>2, <1>4, <6>1
            <6>2. CASE k # n + 1
                BY <1>2, <4>1, <6>2
            <6>. QED BY <6>1, <6>2
          <5>. QED BY <5>1
      <4>3. /\ a \in 1..n + 1 /\ b \in 1..n + 1
            /\ seen'.run[a] = seen.run[a] /\ seen'.run[b] = seen.run[b]
          BY <1>2
      <4>. QED BY <1>2, <4>1, <4>2, <4>3 DEF Lasted
    <3>3. CASE ~fires /\ ~rule.firing
        BY <2>1, <3>3 DEF Lasted
    <3>. QED BY <3>1, <3>2, <3>3
  <2>. QED BY <2>4, <2>5 DEF RuleInv
<1>. QED BY <1>3, <1>4

LEMMA ProcessKeepsRule ==
    ASSUME RuleInv, DaysFit, Duration \in Int, Reading!Process
    PROVE  RuleInv'
<1>1. PICK d \in clock.day.jumps, lag \in clock.day.lags, met \in clock.day.mets,
           s \in Series, good, rulesBusy \in BOOLEAN : Reading!Processed(d, lag, met, s, good, rulesBusy)
    BY DEF Reading!Process
<1>. DEFINE t == (clock.now + d) - lag
            r == [s |-> s, t |-> t, met |-> met]
            evals == good /\ ~Reading!Past(clock.now + d, r.t) /\ ~rulesBusy /\ s = rule.series
<1>2. clock.now + d \in Int /\ t \in Nat \ {0} /\ met \in BOOLEAN /\ clock.day \in Days
    BY <1>1 DEF Reading!Processed, RuleInv, ClockType, DaysFit
<1>3. ClockType'
    BY <1>1, <1>2 DEF Reading!Processed, RuleInv, ClockType
<1>4. DOMAIN seen' = DOMAIN seen
    BY <1>1 DEF Reading!Processed, RuleInv, RuleType
<1>5. CASE evals /\ Reading!Evaluates(rule, r)
  <2>1. r.t = t /\ r.met = met
      OBVIOUS
  <2>2. rule' = Reading!Evaluated(rule, r)
      BY <1>1, <1>5 DEF Reading!Processed
  <2>3. seen'.run = Append(seen.run, [t |-> r.t, met |-> r.met])
      BY <1>1, <1>5 DEF Reading!Processed
  <2>. HIDE DEF r, t
  <2>. QED BY <1>2, <1>3, <1>4, <1>5, <2>1, <2>2, <2>3, EvaluatedKeeps
<1>6. CASE ~(evals /\ Reading!Evaluates(rule, r))
  <2>1. seen'.run = seen.run
      BY <1>1, <1>6 DEF Reading!Processed
  <2>2. rule' = rule
    <3>1. CASE ~evals
        BY <1>1, <3>1 DEF Reading!Processed
    <3>2. CASE evals /\ ~Reading!Evaluates(rule, r)
        <4>1. rule' = Reading!Evaluated(rule, r)
            BY <1>1, <3>2 DEF Reading!Processed
        <4>2. ~rule.enabled \/ r.t < rule.snoozed
            BY <3>2 DEF Reading!Evaluates
        <4>. QED BY <4>1, <4>2 DEF Reading!Evaluated
    <3>. QED BY <1>6, <3>1, <3>2
  <2>. QED BY <1>3, <1>4, <2>1, <2>2, RuleLeft
<1>. QED BY <1>5, <1>6

LEMMA RuleStep ==
    ASSUME DaysFit, Duration \in Int
    PROVE  RuleInv /\ [Reading!ReadNext]_Reading!readVars => RuleInv'
<1>. SUFFICES ASSUME RuleInv, [Reading!ReadNext]_Reading!readVars PROVE RuleInv'
    OBVIOUS
<1>. USE DEF Reading!Mishaps
<1>1. CASE Reading!TrackTrends
  <2>1. ClockType'
      BY <1>1 DEF Reading!TrackTrends, RuleInv, ClockType
  <2>2. rule' = rule /\ DOMAIN seen' = DOMAIN seen /\ seen'.run = seen.run
      BY <1>1 DEF Reading!TrackTrends, RuleInv, RuleType
  <2>. QED BY <2>1, <2>2, RuleLeft
<1>2. CASE Reading!SaveTrends
  <2>1. ClockType'
      BY <1>2 DEF Reading!SaveTrends, RuleInv, ClockType
  <2>. QED BY <1>2, <2>1, RuleLeft DEF Reading!SaveTrends
<1>3. CASE Reading!Restart
  <2>1. ClockType'
      BY <1>3 DEF Reading!Restart, RuleInv, ClockType
  <2>2. DOMAIN rule' = DOMAIN rule /\ rule'.since = 0 /\ rule'.firing = FALSE
      BY <1>3 DEF Reading!Restart, Reading!Begun, Reading!Quiet, Reading!NoTime, RuleInv, RuleType
  <2>3. DOMAIN seen' = DOMAIN seen /\ seen'.run = <<>>
      BY <1>3 DEF Reading!Restart, RuleInv, RuleType
  <2>. QED BY <2>1, <2>2, <2>3, Unbegun
<1>4. CASE Reading!EditRule \/ Reading!Snooze
  <2>1. ClockType'
      BY <1>4 DEF Reading!EditRule, Reading!Snooze, RuleInv, ClockType
  <2>2. DOMAIN rule' = DOMAIN rule /\ rule'.since = 0 /\ rule'.firing = FALSE
    <3>1. CASE Reading!EditRule
        BY <3>1 DEF Reading!EditRule, Reading!Saved, Reading!Quiet, Reading!NoTime, RuleInv, RuleType
    <3>2. CASE Reading!Snooze
        BY <3>2 DEF Reading!Snooze, Reading!Saved, Reading!Quiet, Reading!NoTime, RuleInv, RuleType
    <3>. QED BY <1>4, <3>1, <3>2
  <2>3. DOMAIN seen' = DOMAIN seen /\ seen'.run = <<>>
      BY <1>4 DEF Reading!EditRule, Reading!Snooze, RuleInv, RuleType
  <2>. QED BY <2>1, <2>2, <2>3, Unbegun
<1>5. CASE Reading!PopToasts
  <2>1. ClockType'
      BY <1>5 DEF Reading!PopToasts, RuleInv, ClockType
  <2>2. DOMAIN rule' = DOMAIN rule /\ rule'.since = rule.since /\ rule'.firing = rule.firing /\ seen' = seen
      BY <1>5 DEF Reading!PopToasts, RuleInv, RuleType
  <2>. QED BY <2>1, <2>2, RuleLeft
<1>6. CASE Reading!Process
    BY <1>6, ProcessKeepsRule
<1>7. CASE UNCHANGED Reading!readVars
  <2>1. ClockType'
      BY <1>7 DEF Reading!readVars, RuleInv, ClockType
  <2>. QED BY <1>7, <2>1, RuleLeft DEF Reading!readVars
<1>. QED BY <1>1, <1>2, <1>3, <1>4, <1>5, <1>6, <1>7 DEF Reading!ReadNext

\* For any duration, readings and clock: a rule fires only when the readings it
\* saw met it for that long without a break, except where a reading's time lies
\* before the one that began it (AlertEngine::evaluate).
THEOREM FiresWhenHeld ==
    ASSUME DaysFit, Duration \in Int
    PROVE  Spec => []HeldItsDuration
<1>. DEFINE Safe == part = "readings" => RuleInv
<1>0. RuleInv => Reading!HeldItsDuration
  <2>1. ASSUME RuleInv PROVE DOMAIN seen.run = 1..Len(seen.run)
      BY <2>1 DEF RuleInv, RuleType
  <2>. QED BY <2>1 DEF RuleInv, Lasted, Reading!HeldItsDuration
<1>1. Safe => HeldItsDuration
    BY <1>0 DEF HeldItsDuration
<1>2. Init => Safe
    BY RuleInit DEF Init
<1>3. Safe /\ [Next]_vars => Safe'
    BY PartsMoveAlone, RuleStep
<1>. QED BY <1>1, <1>2, <1>3, PTL DEF Spec

-----------------------------------------------------------------------------
(* Readings: every hour of the trend is made of its own readings.          *)

\* A ring whose newest hour is `last` and the times folded into it.
RingExact(last, hours, folded) ==
    /\ last \in Nat
    /\ DOMAIN hours = 0..(Hours - 1)
    /\ folded \subseteq Nat \ {0}
    /\ \A t \in folded : Reading!Hour(t) <= last
    /\ \A h \in Nat : h <= last /\ last - h < Hours =>
          hours[h % Hours] = {t \in folded : Reading!Hour(t) = h}

TrendType ==
    /\ DOMAIN trend = {"series", "last", "hours", "dirty"}
    /\ DOMAIN snap = {"there", "series", "last", "hours", "folded"}
    /\ DOMAIN seen = {"folded", "run"}

\* The ring, and the snapshot that a restart takes it from.
TrendInv ==
    /\ ClockType /\ TrendType
    /\ RingExact(trend.last, trend.hours, seen.folded)
    /\ snap.there => RingExact(snap.last, snap.hours, snap.folded)

RingSize == Hours \in Nat \ {0} /\ HourLen \in Nat \ {0}

\* Hours less than a day apart have slots of their own.
LEMMA SlotsDiffer ==
    ASSUME RingSize, NEW a \in Nat, NEW b \in Nat, a < b, b - a < Hours
    PROVE  a % Hours # b % Hours
<1>. DEFINE p == a \div Hours
            q == b \div Hours
<1>1. /\ p \in Int /\ q \in Int
      /\ a = Hours * p + (a % Hours) /\ b = Hours * q + (b % Hours)
      /\ a % Hours \in 0..(Hours - 1) /\ b % Hours \in 0..(Hours - 1)
    BY DEF RingSize
<1>. HIDE DEF p, q
<1>2. ASSUME a % Hours = b % Hours PROVE FALSE
  <2>1. Hours * q - Hours * p = b - a
      BY <1>1, <1>2 DEF RingSize
  <2>2. Hours * (q - p) = b - a
      BY <1>1, <2>1 DEF RingSize
  <2>3. CASE q - p <= 0
    <3>1. Hours * (q - p) <= 0
        BY <1>1, <2>3 DEF RingSize
    <3>. QED BY <2>2, <3>1
  <2>4. CASE q - p >= 1
    <3>1. Hours * (q - p) >= Hours
        BY <1>1, <2>4 DEF RingSize
    <3>. QED BY <2>2, <3>1 DEF RingSize
  <2>. QED BY <1>1, <2>3, <2>4
<1>. QED BY <1>2

LEMMA SlotInRing ==
    ASSUME RingSize, NEW h \in Nat
    PROVE  h % Hours \in 0..(Hours - 1)
BY DEF RingSize

LEMMA HourIsNat ==
    ASSUME RingSize, NEW t \in Nat
    PROVE  Reading!Hour(t) \in Nat
BY DEF RingSize, Reading!Hour

\* A newer hour: what the ring shows is what it showed, and the hours skipped
\* are empty (TrendRing::add).
LEMMA RolledExact ==
    ASSUME RingSize, NEW last, NEW hours, NEW folded, RingExact(last, hours, folded),
           NEW h \in Nat, h > last, NEW fresh,
           fresh = IF h - last >= Hours THEN Reading!Nothing
                   ELSE [i \in DOMAIN hours |-> IF \E k \in (last + 1)..h : k % Hours = i THEN {} ELSE hours[i]]
    PROVE  RingExact(h, fresh, folded)
<1>0. last \in Nat /\ Hours \in Nat /\ DOMAIN hours = 0..(Hours - 1)
    BY DEF RingSize, RingExact
<1>1. DOMAIN fresh = 0..(Hours - 1)
    BY <1>0 DEF Reading!Nothing
<1>2. \A t \in folded : Reading!Hour(t) \in Nat /\ Reading!Hour(t) <= last /\ Reading!Hour(t) <= h
  <2>1. ASSUME NEW t \in folded
        PROVE  Reading!Hour(t) \in Nat /\ Reading!Hour(t) <= last /\ Reading!Hour(t) <= h
    <3>1. t \in Nat /\ Reading!Hour(t) <= last
        BY DEF RingExact
    <3>2. Reading!Hour(t) \in Nat
        BY <3>1, HourIsNat
    <3>. QED BY <1>0, <3>1, <3>2
  <2>. QED BY <2>1
<1>3. ASSUME NEW g \in Nat, g <= h, h - g < Hours
      PROVE  fresh[g % Hours] = {t \in folded : Reading!Hour(t) = g}
  <2>0. g % Hours \in 0..(Hours - 1)
      BY SlotInRing
  <2>1. CASE g > last
    <3>1. fresh[g % Hours] = {}
      <4>1. CASE h - last >= Hours
          BY <2>0, <4>1 DEF Reading!Nothing
      <4>2. CASE ~(h - last >= Hours)
        <5>1. g \in (last + 1)..h
            BY <1>0, <1>3, <2>1
        <5>2. \E k \in (last + 1)..h : k % Hours = g % Hours
            BY <5>1
        <5>. QED BY <1>0, <2>0, <4>2, <5>2, Zenon
      <4>. QED BY <4>1, <4>2
    <3>2. {t \in folded : Reading!Hour(t) = g} = {}
      <4>1. ASSUME NEW t \in folded, Reading!Hour(t) = g PROVE FALSE
        <5>1. Reading!Hour(t) <= last
            BY <1>2
        <5>. QED BY <1>0, <2>1, <4>1, <5>1
      <4>. QED BY <4>1, Zenon
    <3>. QED BY <3>1, <3>2, Zenon
  <2>2. CASE g <= last
    <3>1. last - g < Hours /\ ~(h - last >= Hours)
        BY <1>0, <1>3, <2>2
    <3>2. ~\E k \in (last + 1)..h : k % Hours = g % Hours
      <4>1. ASSUME NEW k \in (last + 1)..h, k % Hours = g % Hours PROVE FALSE
        <5>1. k \in Nat /\ g < k /\ k - g < Hours
            BY <1>0, <1>3, <2>2
        <5>. QED BY <4>1, <5>1, SlotsDiffer
      <4>. QED BY <4>1
    <3>3. fresh[g % Hours] = hours[g % Hours]
        BY <1>0, <2>0, <3>1, <3>2, Zenon
    <3>4. hours[g % Hours] = {t \in folded : Reading!Hour(t) = g}
        BY <2>2, <3>1 DEF RingExact
    <3>. QED BY <3>3, <3>4, Zenon
  <2>3. g > last \/ g <= last
      BY <1>0
  <2>. QED BY <2>1, <2>2, <2>3, Zenon
<1>4. \A g \in Nat : g <= h /\ h - g < Hours => fresh[g % Hours] = {t \in folded : Reading!Hour(t) = g}
    BY <1>3
<1>5. folded \subseteq Nat \ {0}
    BY DEF RingExact
<1>. QED BY <1>1, <1>2, <1>4, <1>5, Zenon DEF RingExact

\* A reading no newer than the ring folds into its hour or has left the window.
LEMMA FoldedExact ==
    ASSUME RingSize, NEW last, NEW hours, NEW folded, RingExact(last, hours, folded),
           NEW t \in Nat \ {0}, Reading!Hour(t) <= last, NEW fresh,
           fresh = IF last - Reading!Hour(t) < Hours
                   THEN [hours EXCEPT ![Reading!Hour(t) % Hours] = @ \cup {t}] ELSE hours
    PROVE  RingExact(last, fresh, folded \cup {t})
<1>. DEFINE h == Reading!Hour(t)
<1>0. /\ last \in Nat /\ h \in Nat /\ h <= last /\ Hours \in Nat
      /\ DOMAIN hours = 0..(Hours - 1) /\ h % Hours \in 0..(Hours - 1)
    BY HourIsNat, SlotInRing DEF RingSize, RingExact
<1>1. DOMAIN fresh = 0..(Hours - 1)
    BY <1>0
<1>2. folded \cup {t} \subseteq Nat \ {0} /\ \A s \in folded \cup {t} : Reading!Hour(s) <= last
    BY <1>0 DEF RingExact
<1>3. fresh = IF last - h < Hours THEN [hours EXCEPT ![h % Hours] = @ \cup {t}] ELSE hours
    OBVIOUS
<1>4. Reading!Hour(t) = h
    OBVIOUS
<1>. HIDE DEF h
<1>5. ASSUME NEW g \in Nat, g <= last, last - g < Hours
      PROVE  fresh[g % Hours] = {s \in folded \cup {t} : Reading!Hour(s) = g}
  <2>0. g % Hours \in 0..(Hours - 1)
      BY SlotInRing
  <2>1. hours[g % Hours] = {s \in folded : Reading!Hour(s) = g}
      BY <1>5 DEF RingExact
  <2>2. CASE g = h
    <3>1. fresh[g % Hours] = hours[g % Hours] \cup {t}
      <4>1. last - h < Hours
          BY <1>5, <2>2
      <4>. QED BY <1>0, <1>3, <2>0, <2>2, <4>1, Zenon
    <3>. QED BY <1>4, <2>1, <2>2, <3>1
  <2>3. CASE g # h
    <3>1. fresh[g % Hours] = hours[g % Hours]
      <4>1. CASE last - h < Hours
        <5>1. g % Hours # h % Hours
          <6>1. CASE g < h
            <7>1. h - g < Hours
                BY <1>0, <1>5
            <7>. QED BY <1>0, <6>1, <7>1, SlotsDiffer
          <6>2. CASE h < g
            <7>1. g - h < Hours
                BY <1>0, <1>5, <4>1
            <7>. QED BY <1>0, <6>2, <7>1, SlotsDiffer
          <6>. QED BY <1>0, <2>3, <6>1, <6>2
        <5>. QED BY <1>0, <1>3, <2>0, <4>1, <5>1, Zenon
      <4>2. CASE ~(last - h < Hours)
          BY <1>3, <4>2
      <4>. QED BY <4>1, <4>2
    <3>. QED BY <1>4, <2>1, <2>3, <3>1
  <2>. QED BY <2>2, <2>3
<1>6. \A g \in Nat : g <= last /\ last - g < Hours =>
          fresh[g % Hours] = {s \in folded \cup {t} : Reading!Hour(s) = g}
    BY <1>5
<1>. QED BY <1>0, <1>1, <1>2, <1>6, Zenon DEF RingExact

LEMMA EmptyExact == ASSUME RingSize PROVE RingExact(0, Reading!Nothing, {})
<1>1. DOMAIN Reading!Nothing = 0..(Hours - 1)
    BY DEF Reading!Nothing
<1>2. ASSUME NEW g \in Nat PROVE Reading!Nothing[g % Hours] = {t \in {} : Reading!Hour(t) = g}
  <2>1. g % Hours \in 0..(Hours - 1)
      BY SlotInRing
  <2>. QED BY <2>1, Zenon DEF Reading!Nothing
<1>3. 0 \in Nat
    OBVIOUS
<1>. QED BY <1>1, <1>2, <1>3, Zenon DEF RingExact

\* A reading of the ring's own series is in its hour, whichever that is.
LEMMA AddedExact ==
    ASSUME RingSize, TrendType, RingExact(trend.last, trend.hours, seen.folded),
           NEW r, r.t \in Nat \ {0}, r.s = trend.series, trend' = Reading!Added(trend, r)
    PROVE  /\ DOMAIN trend' = DOMAIN trend
           /\ RingExact(trend'.last, trend'.hours, seen.folded \cup {r.t})
<1>. DEFINE t == r.t
            h == Reading!Hour(r.t)
            u == IF h > trend.last THEN Reading!Rolled(trend, h) ELSE trend
            hours == IF h - trend.last >= Hours THEN Reading!Nothing
                     ELSE [i \in DOMAIN trend.hours |->
                             IF \E k \in (trend.last + 1)..h : k % Hours = i THEN {} ELSE trend.hours[i]]
<1>0. trend.last \in Nat /\ h \in Nat /\ Hours \in Nat
    BY HourIsNat DEF RingSize, RingExact
<1>1. trend' = IF u.last - h < Hours THEN [u EXCEPT !.hours[h % Hours] = @ \cup {r.t}] ELSE u
    BY Zenon DEF Reading!Added
<1>2. /\ DOMAIN u = DOMAIN trend /\ RingExact(u.last, u.hours, seen.folded)
      /\ u.last \in Nat /\ h <= u.last
  <2>1. CASE h > trend.last
    <3>1. u = [trend EXCEPT !.last = h, !.dirty = TRUE, !.hours = hours]
        BY <2>1, Zenon DEF Reading!Rolled
    <3>. HIDE DEF u, hours
    <3>2. DOMAIN u = DOMAIN trend /\ u.last = h /\ u.hours = hours
        BY <3>1 DEF TrendType
    <3>3. RingExact(h, hours, seen.folded)
        BY <1>0, <2>1, RolledExact DEF hours
    <3>. QED BY <1>0, <3>2, <3>3
  <2>2. CASE ~(h > trend.last)
    <3>1. u = trend
        BY <2>2
    <3>. HIDE DEF u
    <3>. QED BY <1>0, <2>2, <3>1
  <2>. QED BY <2>1, <2>2
<1>. HIDE DEF u
<1>. DEFINE fresh == IF u.last - h < Hours THEN [u.hours EXCEPT ![h % Hours] = @ \cup {t}] ELSE u.hours
<1>3. DOMAIN trend' = DOMAIN trend /\ trend'.last = u.last /\ trend'.hours = fresh
    BY <1>1, <1>2 DEF TrendType
<1>4. RingExact(u.last, fresh, seen.folded \cup {t})
  <2>1. t \in Nat \ {0} /\ Reading!Hour(t) <= u.last
      BY <1>2
  <2>2. fresh = IF u.last - Reading!Hour(t) < Hours
                THEN [u.hours EXCEPT ![Reading!Hour(t) % Hours] = @ \cup {t}] ELSE u.hours
      OBVIOUS
  <2>. HIDE DEF t, fresh, h
  <2>. QED BY <1>2, <2>1, <2>2, FoldedExact
<1>. QED BY <1>3, <1>4

LEMMA TrendInit == RingSize /\ DaysFit /\ Reading!ReadInit => TrendInv
<1>. SUFFICES ASSUME RingSize, DaysFit, Reading!ReadInit PROVE TrendInv
    OBVIOUS
<1>1. PICK s \in Series, day \in Days :
        /\ clock = [now |-> 1, n |-> 0, mishaps |-> 0, day |-> day]
        /\ trend = [series |-> s, last |-> 0, hours |-> Reading!Nothing, dirty |-> FALSE]
        /\ snap = [there |-> FALSE, series |-> s, last |-> 0, hours |-> Reading!Nothing, folded |-> {}]
        /\ seen = [folded |-> {}, run |-> <<>>]
    BY DEF Reading!ReadInit
<1>2. ClockType
    BY <1>1 DEF ClockType
<1>3. TrendType
    BY <1>1 DEF TrendType
<1>4. RingExact(trend.last, trend.hours, seen.folded) /\ ~snap.there
    BY <1>1, EmptyExact
<1>. QED BY <1>2, <1>3, <1>4 DEF TrendInv

LEMMA ProcessKeepsTrend ==
    ASSUME RingSize, TrendInv, DaysFit, Reading!Process
    PROVE  TrendInv'
<1>1. PICK d \in clock.day.jumps, lag \in clock.day.lags, met \in clock.day.mets,
           s \in Series, good, rulesBusy \in BOOLEAN : Reading!Processed(d, lag, met, s, good, rulesBusy)
    BY DEF Reading!Process
<1>. DEFINE t == (clock.now + d) - lag
            r == [s |-> s, t |-> t, met |-> met]
<1>2. clock.now + d \in Int /\ t \in Nat \ {0} /\ clock.day \in Days
    BY <1>1 DEF Reading!Processed, TrendInv, ClockType, DaysFit
<1>3. ClockType'
    BY <1>1, <1>2 DEF Reading!Processed, TrendInv, ClockType
<1>4. /\ trend' = IF good THEN Reading!Added(trend, r) ELSE trend
      /\ DOMAIN seen' = {"folded", "run"}
      /\ seen'.folded = IF good /\ s = trend.series THEN seen.folded \cup {r.t} ELSE seen.folded
    BY <1>1 DEF Reading!Processed
<1>5. snap' = snap
    BY DEF Reading!Process
<1>6. r.t = t /\ r.s = s
    OBVIOUS
<1>. HIDE DEF t, r
<1>7. DOMAIN trend' = DOMAIN trend /\ RingExact(trend'.last, trend'.hours, seen'.folded)
  <2>1. CASE good /\ s = trend.series
      BY <1>2, <1>4, <1>6, <2>1, AddedExact DEF TrendInv
  <2>2. CASE ~(good /\ s = trend.series)
    <3>1. trend' = trend
        BY <1>4, <1>6, <2>2 DEF Reading!Added
    <3>. QED BY <1>4, <2>2, <3>1 DEF TrendInv
  <2>. QED BY <2>1, <2>2
<1>. QED BY <1>3, <1>4, <1>5, <1>7 DEF TrendInv, TrendType

LEMMA TrendStep ==
    ASSUME RingSize, DaysFit
    PROVE  TrendInv /\ [Reading!ReadNext]_Reading!readVars => TrendInv'
<1>. SUFFICES ASSUME TrendInv, [Reading!ReadNext]_Reading!readVars PROVE TrendInv'
    OBVIOUS
<1>1. CASE Reading!TrackTrends
  <2>1. ClockType'
      BY <1>1 DEF Reading!TrackTrends, Reading!Mishaps, TrendInv, ClockType
  <2>2. DOMAIN trend' = DOMAIN trend /\ trend'.last = 0 /\ trend'.hours = Reading!Nothing
      BY <1>1 DEF Reading!TrackTrends, Reading!Tracked, TrendInv, TrendType
  <2>3. DOMAIN seen' = DOMAIN seen /\ seen'.folded = {} /\ snap' = snap
      BY <1>1 DEF Reading!TrackTrends, TrendInv, TrendType
  <2>. QED BY <2>1, <2>2, <2>3, EmptyExact DEF TrendInv, TrendType
<1>2. CASE Reading!SaveTrends
  <2>1. ClockType' /\ seen' = seen
      BY <1>2 DEF Reading!SaveTrends, Reading!Mishaps, TrendInv, ClockType
  <2>2. DOMAIN trend' = DOMAIN trend /\ trend'.last = trend.last /\ trend'.hours = trend.hours
      BY <1>2 DEF Reading!SaveTrends, TrendInv, TrendType
  <2>3. DOMAIN snap' = DOMAIN snap /\ (snap'.there => RingExact(snap'.last, snap'.hours, snap'.folded))
    <3>1. CASE snap' = Reading!Snapshot
        BY <3>1 DEF Reading!Snapshot, TrendInv, TrendType
    <3>2. CASE snap' = snap
        BY <3>2 DEF TrendInv
    <3>3. CASE snap' = [snap EXCEPT !.there = FALSE]
        BY <3>3 DEF TrendInv, TrendType
    <3>. QED BY <1>2, <3>1, <3>2, <3>3 DEF Reading!SaveTrends
  <2>. QED BY <2>1, <2>2, <2>3 DEF TrendInv, TrendType
<1>3. CASE Reading!Restart
  <2>. DEFINE empty == [series |-> "none", dirty |-> FALSE, last |-> 0, hours |-> Reading!Nothing]
  <2>1. PICK read \in BOOLEAN, s \in Series :
          /\ snap' = Reading!Loaded(read)
          /\ trend' = Reading!Restored(Reading!Tracked(empty, s), read)
          /\ seen' = [folded |-> IF Reading!Fits(s, read) THEN snap.folded ELSE {}, run |-> <<>>]
      BY <1>3 DEF Reading!Restart
  <2>. DEFINE t == Reading!Tracked(empty, s)
  <2>2. /\ DOMAIN t = {"series", "last", "hours", "dirty"}
        /\ t.series = s /\ t.last = 0 /\ t.hours = Reading!Nothing
      BY DEF Reading!Tracked
  <2>. HIDE DEF t, empty
  <2>3. ClockType'
      BY <1>3 DEF Reading!Restart, Reading!Mishaps, TrendInv, ClockType
  <2>4. DOMAIN snap' = DOMAIN snap /\ (snap'.there => RingExact(snap'.last, snap'.hours, snap'.folded))
      BY <2>1 DEF Reading!Loaded, TrendInv, TrendType
  <2>5. DOMAIN seen' = {"folded", "run"}
      BY <2>1
  <2>6. DOMAIN trend' = DOMAIN t /\ RingExact(trend'.last, trend'.hours, seen'.folded)
    <3>1. trend' = Reading!Restored(t, read)
        BY <2>1 DEF t
    <3>2. CASE Reading!Fits(s, read)
        BY <2>1, <2>2, <3>1, <3>2 DEF Reading!Restored, Reading!Fits, TrendInv
    <3>3. CASE ~Reading!Fits(s, read)
        BY <2>1, <2>2, <3>1, <3>3, EmptyExact DEF Reading!Restored
    <3>. QED BY <3>2, <3>3
  <2>. QED BY <2>2, <2>3, <2>4, <2>5, <2>6 DEF TrendInv, TrendType
<1>4. CASE Reading!EditRule \/ Reading!Snooze \/ Reading!PopToasts
  <2>1. ClockType'
      BY <1>4 DEF Reading!EditRule, Reading!Snooze, Reading!PopToasts, Reading!Mishaps, TrendInv, ClockType
  <2>2. /\ trend' = trend /\ snap' = snap
        /\ DOMAIN seen' = DOMAIN seen /\ seen'.folded = seen.folded
      BY <1>4 DEF Reading!EditRule, Reading!Snooze, Reading!PopToasts, TrendInv, TrendType
  <2>. QED BY <2>1, <2>2 DEF TrendInv, TrendType
<1>5. CASE Reading!Process
    BY <1>5, ProcessKeepsTrend
<1>6. CASE UNCHANGED Reading!readVars
    BY <1>6 DEF Reading!readVars, TrendInv, ClockType, TrendType
<1>. QED BY <1>1, <1>2, <1>3, <1>4, <1>5, <1>6 DEF Reading!ReadNext

\* For a ring of any size and any readings: each hour that the day's trend
\* shows is made of the readings of that hour and of all of them, late ones and
\* those a restart brought back from the snapshot included (TrendRing::add,
\* trendStoreLoad).
THEOREM HoursAreTheirOwn ==
    ASSUME RingSize, DaysFit
    PROVE  Spec => []HoursExact
<1>. DEFINE Safe == part = "readings" => TrendInv
<1>0. TrendInv => Reading!HoursExact
  <2>. SUFFICES ASSUME TrendInv, NEW h \in (trend.last - Hours + 1)..trend.last, h >= 0
                PROVE  Reading!Shown(h) = {t \in seen.folded : Reading!Hour(t) = h}
      BY Zenon DEF Reading!HoursExact
  <2>1. RingExact(trend.last, trend.hours, seen.folded)
      BY DEF TrendInv
  <2>2. h \in Nat /\ h <= trend.last /\ trend.last - h < Hours
      BY <2>1 DEF RingExact, RingSize
  <2>3. trend.hours[h % Hours] = {t \in seen.folded : Reading!Hour(t) = h}
      BY <2>1, <2>2 DEF RingExact
  <2>. QED BY <2>2, <2>3, Zenon DEF Reading!Shown
<1>1. Safe => HoursExact
    BY <1>0 DEF HoursExact
<1>2. Init => Safe
    BY TrendInit DEF Init
<1>3. Safe /\ [Next]_vars => Safe'
    BY PartsMoveAlone, TrendStep
<1>. QED BY <1>1, <1>2, <1>3, PTL DEF Spec

-----------------------------------------------------------------------------
(* WebUploads: "ok" to a file or an image means that all of it was stored.   *)

ReqFields == {"kind", "n", "st", "ctx", "failed", "open", "whole", "kept", "reply"}

IsImage(x) == x.kind \in {"image", "badImage"}

\* A request that has the OTA partition.
Holds(x) == IsImage(x) /\ x.open

\* What request x may be in with the partition as u: what it has not failed in
\* is stored so far, but for an image whose short write the partition remembers.
Sound(x, u) ==
    /\ DOMAIN x = ReqFields
    /\ x.st = "new" => ~x.ctx
    /\ x.st = "body" => x.kind \in {"file", "import", "platform"} \/ IsImage(x)
    /\ x.reply # "none" => x.st \in {"handled", "gone"}
    /\ x.reply = "ok" /\ x.kind \notin {"platform", "import"} => x.whole
    /\ x.kind = "file" /\ x.st = "body" /\ x.ctx /\ ~x.failed => x.whole
    /\ Holds(x) => x.st = "body" /\ u.open
    /\ IsImage(x) /\ x.st = "body" /\ x.ctx /\ ~x.failed =>
          /\ x.whole \/ (x.open /\ u.error)
          /\ x.n < Pieces => x.open

\* At most one request has the partition.
UploadInv ==
    /\ DOMAIN reqs = Reqs
    /\ DOMAIN update = {"open", "error"}
    /\ \A r \in Reqs : Sound(reqs[r], update)
    /\ \A r, s \in Reqs : Holds(reqs[r]) /\ Holds(reqs[s]) => r = s

\* Who does not have the partition does not care what becomes of it.
LEMMA Unconcerned ==
    ASSUME NEW x, NEW u, NEW v, Sound(x, u), ~Holds(x)
    PROVE  Sound(x, v)
<1>1. ASSUME IsImage(x), x.st = "body", x.ctx, ~x.failed PROVE x.whole /\ ~(x.n < Pieces)
    BY <1>1, Zenon DEF Sound, Holds
<1>2. /\ DOMAIN x = ReqFields
      /\ x.st = "new" => ~x.ctx
      /\ x.st = "body" => x.kind \in {"file", "import", "platform"} \/ IsImage(x)
      /\ x.reply # "none" => x.st \in {"handled", "gone"}
      /\ x.reply = "ok" /\ x.kind \notin {"platform", "import"} => x.whole
      /\ x.kind = "file" /\ x.st = "body" /\ x.ctx /\ ~x.failed => x.whole
    BY Zenon DEF Sound
<1>3. IsImage(x) /\ x.st = "body" /\ x.ctx /\ ~x.failed =>
          /\ x.whole \/ (x.open /\ v.error)
          /\ x.n < Pieces => x.open
    BY <1>1, Zenon
<1>. HIDE <1>1
<1>. QED BY <1>2, <1>3, Zenon DEF Sound

\* One request goes on and nobody else has what it changes.
LEMMA OneGoesOn ==
    ASSUME UploadInv, NEW r \in Reqs, NEW x, reqs' = [reqs EXCEPT ![r] = x],
           DOMAIN update' = {"open", "error"}, Sound(x, update'),
           update' = update \/ \A s \in Reqs \ {r} : ~Holds(reqs[s]),
           Holds(x) => \A s \in Reqs \ {r} : ~Holds(reqs[s])
    PROVE  UploadInv'
<1>1. DOMAIN reqs' = Reqs /\ reqs'[r] = x /\ \A s \in Reqs \ {r} : reqs'[s] = reqs[s]
    BY DEF UploadInv
<1>2. ASSUME NEW s \in Reqs PROVE Sound(reqs'[s], update')
  <2>1. CASE s = r
      BY <1>1, <2>1
  <2>2. CASE s # r
    <3>1. reqs'[s] = reqs[s] /\ Sound(reqs[s], update)
        BY <1>1, <2>2 DEF UploadInv
    <3>2. CASE update' = update
        BY <3>1, <3>2
    <3>3. CASE ~Holds(reqs[s])
        BY <3>1, <3>3, Unconcerned
    <3>. QED BY <2>2, <3>2, <3>3
  <2>. QED BY <2>1, <2>2
<1>3. ASSUME NEW s \in Reqs, NEW q \in Reqs, Holds(reqs'[s]), Holds(reqs'[q]) PROVE s = q
  <2>1. CASE s = r /\ q = r
      BY <2>1
  <2>2. CASE s # r /\ q # r
    <3>1. Holds(reqs[s]) /\ Holds(reqs[q])
        BY <1>1, <1>3, <2>2
    <3>. QED BY <3>1 DEF UploadInv
  <2>3. CASE s = r /\ q # r
      BY <1>1, <1>3, <2>3
  <2>4. CASE s # r /\ q = r
      BY <1>1, <1>3, <2>4
  <2>. QED BY <2>1, <2>2, <2>3, <2>4
<1>. QED BY <1>1, <1>2, <1>3, Zenon DEF UploadInv

LEMMA UploadStarts == Sending!UploadInit => UploadInv
<1>. SUFFICES ASSUME Sending!UploadInit PROVE UploadInv
    OBVIOUS
<1>1. PICK k \in Kinds : reqs = [r \in Reqs |-> Sending!NewReq(k[r])]
    BY DEF Sending!UploadInit
<1>2. update = [open |-> FALSE, error |-> FALSE]
    BY DEF Sending!UploadInit
<1>3. ASSUME NEW r \in Reqs PROVE Sound(reqs[r], update) /\ ~Holds(reqs[r])
  <2>1. reqs[r] = Sending!NewReq(k[r])
      BY <1>1
  <2>2. /\ DOMAIN reqs[r] = ReqFields /\ reqs[r].st = "new" /\ reqs[r].reply = "none"
        /\ reqs[r].open = FALSE /\ reqs[r].ctx = FALSE
      BY <2>1 DEF Sending!NewReq, ReqFields
  <2>. QED BY <2>2 DEF Sound, Holds
<1>. QED BY <1>1, <1>2, <1>3 DEF UploadInv

\* What a body does to its request, callback by callback.
LEMMA FileKeeps ==
    ASSUME UploadInv, NEW r \in Reqs, Sending!StartFile(r) \/ Sending!MoreFile(r)
    PROVE  UploadInv'
<1>. DEFINE x == reqs[r]
<1>0. Sound(x, update) /\ update' = update /\ DOMAIN update' = {"open", "error"} /\ DOMAIN x = ReqFields
    BY DEF UploadInv, Sound, Sending!StartFile, Sending!MoreFile
<1>1. PICK y : reqs' = [reqs EXCEPT ![r] = y] /\ y.kind = "file" /\ Sound(y, update)
  <2>1. CASE Sending!StartFile(r)
    <3>1. PICK oom, bad, short \in BOOLEAN :
            reqs' = [reqs EXCEPT ![r] = IF oom THEN [x EXCEPT !.st = "body", !.n = 1]
                                        ELSE Sending!FileBegun(x, Sending!LockFails(bad), short)]
        BY <2>1 DEF Sending!StartFile
    <3>2. x.kind = "file" /\ x.st = "new" /\ x.reply = "none" /\ ~x.ctx
        BY <1>0, <2>1 DEF Sending!StartFile, Sound
    <3>. HIDE DEF x
    <3>3. CASE oom
      <4>. DEFINE y == [x EXCEPT !.st = "body", !.n = 1]
      <4>1. /\ DOMAIN y = ReqFields /\ y.kind = x.kind /\ y.st = "body" /\ y.reply = x.reply
            /\ y.ctx = x.ctx
          BY <1>0 DEF ReqFields
      <4>2. reqs' = [reqs EXCEPT ![r] = y]
          BY <3>1, <3>3
      <4>. HIDE DEF y
      <4>. QED BY <3>2, <4>1, <4>2 DEF Sound, Holds, IsImage
    <3>4. CASE ~oom
      <4>. DEFINE noLock == Sending!LockFails(bad)
                  y == Sending!FileBegun(x, noLock, short)
      <4>1. reqs' = [reqs EXCEPT ![r] = y]
          BY <3>1, <3>4
      <4>. HIDE DEF noLock
      <4>2. /\ DOMAIN y = ReqFields /\ y.kind = x.kind /\ y.st = "body" /\ y.reply = x.reply
            /\ y.whole = (~noLock /\ ~short)
            /\ y.failed = Sending!PieceFails([x EXCEPT !.failed = noLock], short)
          BY <1>0 DEF ReqFields, Sending!FileBegun
      <4>3. y.failed = (noLock \/ short)
          BY <1>0, <4>2 DEF ReqFields, Sending!PieceFails
      <4>. HIDE DEF y
      <4>. QED BY <3>2, <4>1, <4>2, <4>3 DEF Sound, Holds, IsImage
    <3>. QED BY <3>3, <3>4
  <2>2. CASE Sending!MoreFile(r)
    <3>1. PICK miss : reqs' = [reqs EXCEPT ![r] = Sending!FileGoesOn(x, miss)]
        BY <2>2 DEF Sending!MoreFile
    <3>2. x.kind = "file" /\ x.st = "body" /\ x.reply = "none"
        BY <1>0, <2>2 DEF Sending!MoreFile, Sending!Live, Sound
    <3>. DEFINE y == Sending!FileGoesOn(x, miss)
    <3>3. reqs' = [reqs EXCEPT ![r] = y]
        BY <3>1
    <3>. HIDE DEF x
    <3>4. /\ DOMAIN y = ReqFields /\ y.kind = x.kind /\ y.st = x.st /\ y.reply = x.reply /\ y.ctx = x.ctx
          /\ y.whole = (x.whole /\ ~miss)
          /\ y.failed = IF x.ctx THEN Sending!PieceFails(x, miss) ELSE x.failed
        BY <1>0 DEF ReqFields, Sending!FileGoesOn
    <3>. HIDE DEF y
    <3>5. y.ctx /\ ~y.failed => y.whole
        BY <1>0, <3>2, <3>4 DEF Sending!PieceFails, Sound
    <3>. QED BY <3>2, <3>3, <3>4, <3>5 DEF Sound, Holds, IsImage
  <2>. QED BY <2>1, <2>2
<1>2. ~Holds(y)
    BY <1>1 DEF Holds, IsImage
<1>. QED BY <1>0, <1>1, <1>2, OneGoesOn

\* /import_settings answers whatever its buffer is left with: nothing is said
\* of what its "ok" means.
LEMMA ImportKeeps ==
    ASSUME UploadInv, NEW r \in Reqs, Sending!Collect(r) \/ Sending!HandleImport(r)
    PROVE  UploadInv'
<1>. DEFINE x == reqs[r]
<1>0. /\ Sound(x, update) /\ DOMAIN x = ReqFields
      /\ update' = update /\ DOMAIN update' = {"open", "error"}
      /\ x.kind = "import" /\ x.st \in {"new", "body"}
    BY DEF UploadInv, Sound, Sending!Collect, Sending!HandleImport, Sending!Live
<1>1. PICK y : reqs' = [reqs EXCEPT ![r] = y] /\ Sound(y, update) /\ ~Holds(y)
  <2>1. CASE Sending!Collect(r)
    <3>1. PICK buf, kept :
            reqs' = [reqs EXCEPT ![r] = [x EXCEPT !.st = "body", !.n = @ + 1, !.ctx = buf, !.kept = kept]]
      <4>1. PICK oom \in BOOLEAN, misses \in BOOLEAN :
              LET buf == IF x.n = 0 THEN ~oom ELSE x.ctx IN
              reqs' = [reqs EXCEPT ![r] = [x EXCEPT !.st = "body", !.n = @ + 1, !.ctx = buf,
                                                    !.kept = IF buf /\ ~misses THEN @ + 1 ELSE @]]
          BY <2>1 DEF Sending!Collect
      <4>. QED BY <4>1
    <3>. DEFINE y == [x EXCEPT !.st = "body", !.n = @ + 1, !.ctx = buf, !.kept = kept]
    <3>2. x.reply = "none"
        BY <1>0 DEF Sound
    <3>. HIDE DEF x
    <3>3. DOMAIN y = ReqFields /\ y.kind = x.kind /\ y.st = "body" /\ y.reply = x.reply
        BY <1>0 DEF ReqFields
    <3>. HIDE DEF y
    <3>4. Sound(y, update) /\ ~Holds(y)
        BY <1>0, <3>2, <3>3 DEF Sound, Holds, IsImage
    <3>. QED BY <3>1, <3>4 DEF x, y
  <2>2. CASE Sending!HandleImport(r)
    <3>1. PICK parses, whole :
            reqs' = [reqs EXCEPT ![r] = [x EXCEPT !.st = "handled", !.ctx = FALSE, !.whole = whole,
                                                  !.reply = IF parses THEN "ok" ELSE "refused"]]
        BY <2>2 DEF Sending!HandleImport
    <3>. DEFINE y == [x EXCEPT !.st = "handled", !.ctx = FALSE, !.whole = whole,
                               !.reply = IF parses THEN "ok" ELSE "refused"]
    <3>. HIDE DEF x
    <3>2. DOMAIN y = ReqFields /\ y.kind = x.kind /\ y.st = "handled"
        BY <1>0 DEF ReqFields
    <3>. HIDE DEF y
    <3>3. Sound(y, update) /\ ~Holds(y)
        BY <1>0, <3>2 DEF Sound, Holds, IsImage
    <3>. QED BY <3>1, <3>3 DEF x, y
  <2>. QED BY <2>1, <2>2
<1>. QED BY <1>0, <1>1, OneGoesOn

LEMMA PlatformKeeps ==
    ASSUME UploadInv, NEW r \in Reqs, Sending!Platform(r)
    PROVE  UploadInv'
<1>. DEFINE x == reqs[r]
            last == x.n + 1 = Pieces
<1>0. Sound(x, update) /\ update' = update /\ DOMAIN update' = {"open", "error"} /\ DOMAIN x = ReqFields
    BY DEF UploadInv, Sound, Sending!Platform
<1>1. PICK many \in BOOLEAN :
        reqs' = [reqs EXCEPT ![r] = [x EXCEPT !.n = @ + 1, !.st = IF last THEN "handled" ELSE "body",
                                              !.reply = IF last THEN IF many THEN "busy" ELSE "ok" ELSE @]]
    BY ZenonT(40) DEF Sending!Platform
<1>2. x.kind = "platform" /\ x.reply = "none"
    BY <1>0 DEF Sending!Platform, Sending!Live, Sound
<1>. DEFINE y == [x EXCEPT !.n = @ + 1, !.st = IF last THEN "handled" ELSE "body",
                           !.reply = IF last THEN IF many THEN "busy" ELSE "ok" ELSE @]
<1>3. reqs' = [reqs EXCEPT ![r] = y]
    BY <1>1
<1>. HIDE DEF x, last
<1>4. /\ DOMAIN y = ReqFields /\ y.kind = x.kind /\ y.st = IF last THEN "handled" ELSE "body"
      /\ ~last => y.reply = x.reply
    BY <1>0 DEF ReqFields
<1>. HIDE DEF y
<1>5. Sound(y, update) /\ ~Holds(y)
    BY <1>2, <1>4 DEF Sound, Holds, IsImage
<1>. QED BY <1>0, <1>3, <1>5, OneGoesOn DEF x

\* An image: its writes are remembered by the partition, which no other request
\* can have while this one does.
LEMMA ImageStarts ==
    ASSUME UploadInv, NEW r \in Reqs, Sending!StartImage(r)
    PROVE  UploadInv'
<1>. DEFINE x == reqs[r]
<1>0. Sound(x, update) /\ DOMAIN x = ReqFields /\ DOMAIN update = {"open", "error"}
    BY DEF UploadInv, Sound
<1>1. PICK oom, magic, noMemory, short \in BOOLEAN :
        LET begins == ~(oom \/ magic \/ noMemory \/ update.open) IN
        /\ reqs' = [reqs EXCEPT ![r] = Sending!ImageBegun(x, oom, begins, short)]
        /\ update' = IF begins THEN [open |-> TRUE, error |-> short] ELSE update
  <2>1. \E oom, magic, noMemory, short \in BOOLEAN :
          LET begins == ~(oom \/ magic \/ noMemory \/ update.open) IN
          /\ reqs' = [reqs EXCEPT ![r] = Sending!ImageBegun(reqs[r], oom, begins, short)]
          /\ update' = IF begins THEN [open |-> TRUE, error |-> short] ELSE update
      BY ZenonT(40) DEF Sending!StartImage
  <2>. QED BY <2>1, Zenon
<1>. DEFINE begins == ~(oom \/ magic \/ noMemory \/ update.open)
            y == Sending!ImageBegun(x, oom, begins, short)
<1>2. /\ reqs' = [reqs EXCEPT ![r] = y]
      /\ update' = IF begins THEN [open |-> TRUE, error |-> short] ELSE update
      /\ begins => ~oom /\ ~update.open
    BY <1>1
<1>3. x.st = "new" /\ x.reply = "none" /\ IsImage(x)
    BY <1>0 DEF Sending!StartImage, Sound, IsImage
<1>. HIDE DEF x, begins
<1>4. /\ DOMAIN y = ReqFields /\ y.kind = x.kind /\ y.st = "body" /\ y.reply = x.reply
      /\ y.open = begins /\ y.ctx = ~oom /\ y.failed = (~oom /\ ~begins) /\ y.whole = (begins /\ ~short)
    BY <1>0 DEF ReqFields, Sending!ImageBegun
<1>. HIDE DEF y
<1>5. DOMAIN update' = {"open", "error"} /\ (begins => update'.open = TRUE /\ update'.error = short)
    BY <1>0, <1>2
<1>6. Sound(y, update')
  <2>1. ASSUME y.ctx, ~y.failed PROVE begins
      BY <1>4, <2>1, Zenon
  <2>2. ASSUME begins PROVE y.open /\ (y.whole \/ update'.error)
      BY <1>4, <1>5, <2>2, Zenon
  <2>3. y.ctx /\ ~y.failed =>
          /\ y.whole \/ (y.open /\ update'.error)
          /\ y.n < Pieces => y.open
      BY <2>1, <2>2, Zenon
  <2>4. Holds(y) => y.st = "body" /\ update'.open
      BY <1>4, <1>5, Zenon DEF Holds
  <2>. QED BY <1>3, <1>4, <2>3, <2>4 DEF Sound, IsImage
<1>7. begins => \A s \in Reqs \ {r} : ~Holds(reqs[s])
    BY <1>2 DEF UploadInv, Sound
<1>8. Holds(y) => begins
    BY <1>4 DEF Holds
<1>. QED BY <1>2, <1>5, <1>6, <1>7, <1>8, OneGoesOn DEF x

LEMMA ImageContinues ==
    ASSUME UploadInv, Pieces \in Nat, NEW r \in Reqs, Sending!MoreImage(r)
    PROVE  UploadInv'
<1>. DEFINE x == reqs[r]
<1>0. Sound(x, update) /\ DOMAIN x = ReqFields /\ DOMAIN update = {"open", "error"}
    BY DEF UploadInv, Sound
<1>1. IsImage(x) /\ x.st = "body" /\ x.reply = "none" /\ x.n < Pieces
    BY <1>0 DEF Sending!MoreImage, Sending!Live, Sound, IsImage
<1>2. Holds(x) => \A s \in Reqs \ {r} : ~Holds(reqs[s])
    BY DEF UploadInv
<1>3. CASE ~x.ctx \/ x.failed
  <2>1. reqs' = [reqs EXCEPT ![r] = [x EXCEPT !.n = @ + 1]] /\ update' = update
      BY <1>3 DEF Sending!MoreImage, UploadInv
  <2>. DEFINE y == [x EXCEPT !.n = @ + 1]
  <2>2. reqs' = [reqs EXCEPT ![r] = y] /\ update' = update
      BY <2>1
  <2>. HIDE DEF x
  <2>3. /\ DOMAIN y = ReqFields /\ y.kind = x.kind /\ y.st = x.st /\ y.reply = x.reply
        /\ y.open = x.open /\ y.ctx = x.ctx /\ y.failed = x.failed
      BY <1>0 DEF ReqFields
  <2>. HIDE DEF y
  <2>4. Sound(y, update) /\ (Holds(y) => Holds(x))
      BY <1>0, <1>1, <1>3, <2>3 DEF Sound, Holds, IsImage
  <2>. QED BY <1>0, <1>2, <2>2, <2>4, OneGoesOn DEF x
<1>4. CASE ~(~x.ctx \/ x.failed)
  <2>1. PICK short \in BOOLEAN :
          LET last  == x.n + 1 = Pieces
              error == update.error \/ short
              bad   == last /\ x.kind = "badImage"
              ends  == last /\ ~bad /\ ~error IN
          /\ reqs' = [reqs EXCEPT ![r] = Sending!ImageGoesOn(x, short, bad, ends)]
          /\ update' = [open |-> update.open /\ ~bad /\ ~ends, error |-> error \/ bad]
      BY <1>4 DEF Sending!MoreImage
  <2>. DEFINE last  == x.n + 1 = Pieces
              error == update.error \/ short
              bad   == last /\ x.kind = "badImage"
              ends  == last /\ ~bad /\ ~error
              y     == Sending!ImageGoesOn(x, short, bad, ends)
  <2>2. /\ reqs' = [reqs EXCEPT ![r] = y]
        /\ update' = [open |-> update.open /\ ~bad /\ ~ends, error |-> error \/ bad]
      BY <2>1
  <2>3. x.open /\ update.open /\ (x.whole \/ update.error)
      BY <1>0, <1>1, <1>4, Zenon DEF Sound, Holds
  <2>4. ends => last /\ ~error
      OBVIOUS
  <2>5. ends \/ ~last \/ bad \/ error
      OBVIOUS
  <2>. HIDE DEF x, last, bad, ends
  <2>7. /\ DOMAIN y = ReqFields /\ y.kind = x.kind /\ y.st = x.st /\ y.reply = x.reply
        /\ y.ctx = x.ctx /\ y.failed = bad
        /\ y.whole = (x.whole /\ ~short) /\ y.open = (x.open /\ ~bad /\ ~ends) /\ y.n = x.n + 1
      BY <1>0 DEF ReqFields, Sending!ImageGoesOn
  <2>8. /\ DOMAIN update' = {"open", "error"} /\ update'.open = (update.open /\ ~bad /\ ~ends)
        /\ update'.error = (error \/ bad)
      BY <2>2
  <2>. HIDE DEF y
  <2>9. ~y.failed =>
          /\ y.whole \/ (y.open /\ update'.error)
          /\ y.n < Pieces => y.open
    <3>1. ASSUME ~y.failed PROVE ~bad
        BY <3>1, <2>7, Zenon
    <3>2. ASSUME ~bad, ends PROVE y.whole /\ ~(y.n < Pieces)
      <4>1. ~update.error /\ ~short /\ x.whole
          BY <2>3, <2>4, <3>2, Zenon
      <4>2. y.whole
          BY <2>7, <4>1, Zenon
      <4>3. y.n = Pieces
          BY <2>4, <2>7, <3>2 DEF last
      <4>4. Pieces \in Nat
          OBVIOUS
      <4>. QED BY <4>2, <4>3, <4>4
    <3>3. ASSUME ~bad, ~ends PROVE y.open
        BY <2>3, <2>7, <3>3, Zenon
    <3>4. ASSUME ~bad, ~ends PROVE y.whole \/ update'.error
      <4>1. CASE error
          BY <2>8, <4>1, Zenon
      <4>2. CASE ~error
        <5>1. ~update.error /\ ~short
            BY <4>2
        <5>. QED BY <2>3, <2>7, <5>1, Zenon
      <4>. QED BY <4>1, <4>2
    <3>. QED BY <3>1, <3>2, <3>3, <3>4, Zenon
  <2>10. Holds(y) => y.st = "body" /\ update'.open
      BY <1>1, <2>3, <2>7, <2>8, Zenon DEF Holds
  <2>11. Sound(y, update')
      BY <1>1, <2>7, <2>9, <2>10 DEF Sound, IsImage
  <2>12. Holds(x)
      BY <1>1, <2>3 DEF Holds
  <2>. QED BY <1>2, <2>2, <2>8, <2>11, <2>12, OneGoesOn DEF x
<1>. QED BY <1>3, <1>4

\* The end of a request: what it answers, and what its context gives back.
LEMMA EndKeeps ==
    ASSUME UploadInv, NEW r \in Reqs, Sending!Handle(r) \/ Sending!Disconnect(r)
    PROVE  UploadInv'
<1>. DEFINE x == reqs[r]
<1>0. /\ Sound(x, update) /\ DOMAIN x = ReqFields /\ DOMAIN update = {"open", "error"}
      /\ Holds(x) => \A s \in Reqs \ {r} : ~Holds(reqs[s])
    BY DEF UploadInv, Sound
<1>1. /\ DOMAIN update' = {"open", "error"}
      /\ update' = update \/ \A s \in Reqs \ {r} : ~Holds(reqs[s])
  <2>1. CASE update' = update
      BY <1>0, <2>1
  <2>2. CASE update' = Sending!UpdateAfter(x)
    <3>1. CASE Holds(x)
      <4>1. DOMAIN update' = DOMAIN update
          BY <1>0, <2>2 DEF Sending!UpdateAfter
      <4>. QED BY <1>0, <3>1, <4>1
    <3>2. CASE ~Holds(x)
      <4>1. update' = update
          BY <2>2, <3>2 DEF Sending!UpdateAfter, Sending!PartitionGivenBack, Holds, IsImage
      <4>. QED BY <1>0, <4>1
    <3>. QED BY <3>1, <3>2
  <2>. QED BY <2>1, <2>2 DEF Sending!Handle, Sending!Disconnect
<1>2. PICK y : reqs' = [reqs EXCEPT ![r] = y] /\ Sound(y, update') /\ ~Holds(y)
  <2>1. CASE Sending!Handle(r)
    <3>. DEFINE ok == IF x.kind = "file" THEN x.ctx /\ ~x.failed ELSE Sending!HandledImage(x)
                y  == [x EXCEPT !.st = "handled", !.ctx = FALSE, !.open = FALSE,
                                !.reply = IF ok THEN "ok" ELSE "refused"]
    <3>1. reqs' = [reqs EXCEPT ![r] = y] /\ (x.kind = "file" \/ IsImage(x)) /\ x.st = "body"
        BY <2>1 DEF Sending!Handle, Sending!Live, IsImage
    <3>2. ASSUME ok PROVE x.whole
      <4>1. CASE x.kind = "file"
        <5>1. x.ctx /\ ~x.failed
            BY <3>2, <4>1
        <5>. QED BY <1>0, <3>1, <4>1, <5>1, Zenon DEF Sound
      <4>2. CASE IsImage(x)
        <5>1. x.ctx /\ ~x.failed /\ ~update.error
            BY <3>2, <4>2 DEF Sending!HandledImage, IsImage
        <5>. QED BY <1>0, <3>1, <4>2, <5>1, Zenon DEF Sound
      <4>. QED BY <3>1, <4>1, <4>2
    <3>. HIDE DEF x, ok
    <3>3. /\ DOMAIN y = ReqFields /\ y.kind = x.kind /\ y.st = "handled" /\ y.open = FALSE
          /\ y.reply = IF ok THEN "ok" ELSE "refused"
          /\ y.whole = x.whole
        BY <1>0 DEF ReqFields
    <3>. HIDE DEF y
    <3>4. y.reply = "ok" => y.whole
        BY <3>2, <3>3
    <3>5. Sound(y, update') /\ ~Holds(y)
        BY <3>3, <3>4 DEF Sound, Holds
    <3>. QED BY <3>1, <3>5 DEF x
  <2>2. CASE Sending!Disconnect(r)
    <3>. DEFINE y == [x EXCEPT !.st = "gone", !.ctx = FALSE, !.open = FALSE]
    <3>1. reqs' = [reqs EXCEPT ![r] = y]
        BY <2>2 DEF Sending!Disconnect, UploadInv
    <3>. HIDE DEF x
    <3>2. /\ DOMAIN y = ReqFields /\ y.kind = x.kind /\ y.st = "gone" /\ y.open = FALSE
          /\ y.reply = x.reply /\ y.whole = x.whole
        BY <1>0 DEF ReqFields
    <3>. HIDE DEF y
    <3>3. y.reply = "ok" /\ y.kind \notin {"platform", "import"} => y.whole
        BY <1>0, <3>2 DEF Sound
    <3>4. Sound(y, update') /\ ~Holds(y)
        BY <3>2, <3>3 DEF Sound, Holds
    <3>. QED BY <3>1, <3>4 DEF x
  <2>. QED BY <2>1, <2>2
<1>. QED BY <1>1, <1>2, OneGoesOn

LEMMA ResetKeeps == ASSUME UploadInv, Sending!Reset PROVE UploadInv'
<1>1. ASSUME NEW r \in Reqs PROVE Sound(reqs'[r], update') /\ ~Holds(reqs'[r])
  <2>. DEFINE x == reqs[r]
              y == [x EXCEPT !.st = "gone", !.ctx = FALSE, !.open = FALSE]
  <2>0. Sound(x, update) /\ DOMAIN x = ReqFields
      BY DEF UploadInv, Sound
  <2>1. reqs'[r] = IF x.st = "new" THEN x ELSE y
      BY DEF Sending!Reset
  <2>2. CASE x.st = "new"
    <3>1. ~Holds(x)
        BY <2>0, <2>2 DEF Sound
    <3>2. Sound(x, update')
        BY <2>0, <3>1, Unconcerned
    <3>. QED BY <2>1, <2>2, <3>1, <3>2
  <2>3. CASE x.st # "new"
    <3>. HIDE DEF x
    <3>1. /\ DOMAIN y = ReqFields /\ y.kind = x.kind /\ y.st = "gone" /\ y.open = FALSE
          /\ y.reply = x.reply /\ y.whole = x.whole
        BY <2>0 DEF ReqFields
    <3>2. reqs'[r] = y
        BY <2>1, <2>3
    <3>. HIDE DEF y
    <3>3. y.reply = "ok" /\ y.kind \notin {"platform", "import"} => y.whole
        BY <2>0, <3>1 DEF Sound
    <3>. QED BY <3>1, <3>2, <3>3 DEF Sound, Holds
  <2>. QED BY <2>2, <2>3
<1>2. DOMAIN reqs' = Reqs /\ DOMAIN update' = {"open", "error"}
    BY DEF Sending!Reset
<1>. QED BY <1>1, <1>2 DEF UploadInv

\* Every step of a handler keeps all of it.
LEMMA UploadStep ==
    ASSUME Pieces \in Nat
    PROVE  UploadInv /\ [Sending!UploadNext]_Sending!uploadVars => UploadInv'
<1>. SUFFICES ASSUME UploadInv, [Sending!UploadNext]_Sending!uploadVars PROVE UploadInv'
    OBVIOUS
<1>1. ASSUME NEW r \in Reqs, Sending!StartFile(r) \/ Sending!MoreFile(r) PROVE UploadInv'
    BY <1>1, FileKeeps
<1>2. ASSUME NEW r \in Reqs, Sending!StartImage(r) PROVE UploadInv'
    BY <1>2, ImageStarts
<1>3. ASSUME NEW r \in Reqs, Sending!MoreImage(r) PROVE UploadInv'
    BY <1>3, ImageContinues
<1>4. ASSUME NEW r \in Reqs, Sending!Collect(r) \/ Sending!HandleImport(r) PROVE UploadInv'
    BY <1>4, ImportKeeps
<1>5. ASSUME NEW r \in Reqs, Sending!Platform(r) PROVE UploadInv'
    BY <1>5, PlatformKeeps
<1>6. ASSUME NEW r \in Reqs, Sending!Handle(r) \/ Sending!Disconnect(r) PROVE UploadInv'
    BY <1>6, EndKeeps
<1>7. CASE Sending!Reset
    BY <1>7, ResetKeeps
<1>8. CASE UNCHANGED Sending!uploadVars
    BY <1>8 DEF Sending!uploadVars, UploadInv
<1>. QED BY <1>1, <1>2, <1>3, <1>4, <1>5, <1>6, <1>7, <1>8 DEF Sending!UploadNext

\* For any number of requests of any kinds, in pieces of any number and in any
\* order: "ok" to a file or an image means that every piece of it was stored (the
\* handlers of /upload and /do_update in WebServer.cpp).
THEOREM OkIsStored ==
    ASSUME Pieces \in Nat
    PROVE  Spec => []OkMeansStored
<1>. DEFINE Safe == part = "uploads" => UploadInv
<1>1. Safe => OkMeansStored
    BY DEF UploadInv, Sound, Sending!OkMeansStored, OkMeansStored
<1>2. Init => Safe
    BY UploadStarts DEF Init
<1>3. Safe /\ [Next]_vars => Safe'
    BY PartsMoveAlone, UploadStep
<1>. QED BY <1>1, <1>2, <1>3, PTL DEF Spec

-----------------------------------------------------------------------------
(* Settings: what was answered is there after the next boot.               *)

\* A file that can be read holds a value for every field it is for.
Filled(file, fs) == Setting!Readable(file) => file.val \in [fs -> Nat]

\* The file has edit n of field f, or a newer one.
Has(file, f, n) == Setting!Readable(file) /\ file.val[f] >= n

BinDone == {"mods", "swap", "done"}

\* What config.bin, and what is about to become it, must have: what was answered
\* of the fields that only it holds, and the edits whose saver has written it.
GoodBin(file, ok, sv) ==
    /\ \A f \in Setting!Own \ Setting!Shadow : ok[f] > 0 => Has(file, f, ok[f])
    /\ \A u \in Setting!Tasks : sv[u].pc \in BinDone =>
          \A f \in sv[u].fs \cap Setting!Own : Has(file, f, sv[u].n)

\* The same of modules.json.
GoodMods(file, ok, sv) ==
    /\ \A f \in Setting!Shadow : ok[f] > 0 => Has(file, f, ok[f])
    /\ \A u \in Setting!Tasks : sv[u].pc = "done" =>
          \A f \in sv[u].fs \cap Setting!Shadow : Has(file, f, sv[u].n)

SaverType == [pc : {"idle", "bin", "rename", "mods", "swap", "done"}, n : Nat, fs : SUBSET Setting!Fields]

DiskType(d) ==
    /\ DOMAIN d = {"bin", "binTmp", "mods", "modsNew"}
    /\ Filled(d.bin, Setting!Own) /\ Filled(d.binTmp, Setting!Own)
    /\ Filled(d.mods, Setting!Shadow) /\ Filled(d.modsNew, Setting!Shadow)

SettingTypes ==
    /\ DiskType(disk)
    /\ DOMAIN cfg = {"up", "val"} /\ cfg.val \in [Setting!Fields -> Nat]
    /\ saver \in [Setting!Tasks -> SaverType]
    /\ DOMAIN told = {"edits", "troubles", "refused", "ok", "missed"}
    /\ told.edits \in Nat /\ told.ok \in [Setting!Fields -> Nat]

\* No edit is newer than the newest.
Newest ==
    /\ \A f \in Setting!Fields : told.ok[f] <= told.edits
    /\ \A t \in Setting!Tasks : saver[t].n <= told.edits

\* RAM has what was answered, unless it was never read, and what is being saved.
InRam ==
    /\ cfg.up => \A f \in Setting!Fields \ told.missed : cfg.val[f] >= told.ok[f]
    /\ \A t \in Setting!Tasks : saver[t].pc # "idle" =>
          cfg.up /\ told.missed = {} /\ \A f \in saver[t].fs : cfg.val[f] >= saver[t].n

\* Who holds the lock has written a file that may replace the other.
Writing ==
    \A t \in Setting!Tasks :
        /\ saver[t].pc = "rename" =>
              /\ lock = t /\ GoodBin(disk.binTmp, told.ok, saver)
              /\ \A f \in saver[t].fs \cap Setting!Own : Has(disk.binTmp, f, saver[t].n)
        /\ saver[t].pc = "swap" =>
              /\ lock = t /\ GoodMods(disk.modsNew, told.ok, saver)
              /\ \A f \in saver[t].fs \cap Setting!Shadow : Has(disk.modsNew, f, saver[t].n)

SettingInv ==
    /\ SettingTypes /\ Newest /\ InRam /\ Writing
    /\ GoodBin(disk.bin, told.ok, saver) /\ GoodMods(disk.mods, told.ok, saver)

\* What is asked of a file does not grow where no answer is new and no saver
\* has come further.
LEMMA StillGoodBin ==
    ASSUME NEW file, NEW ok \in [Setting!Fields -> Nat], NEW ok2 \in [Setting!Fields -> Nat], NEW sv, NEW sv2,
           GoodBin(file, ok, sv), Filled(file, Setting!Own),
           \A f \in Setting!Fields : ok2[f] <= ok[f],
           \A u \in Setting!Tasks : sv2[u].pc \in BinDone =>
               sv[u].pc \in BinDone /\ sv2[u].n = sv[u].n /\ sv2[u].fs \subseteq sv[u].fs
    PROVE  GoodBin(file, ok2, sv2)
<1>1. ASSUME NEW f \in Setting!Own \ Setting!Shadow, ok2[f] > 0 PROVE Has(file, f, ok2[f])
  <2>1. f \in Setting!Fields /\ f \in Setting!Own
      BY DEF Setting!Fields
  <2>2. ok[f] \in Nat /\ ok2[f] \in Nat /\ ok2[f] <= ok[f]
      BY <2>1
  <2>3. Has(file, f, ok[f])
      BY <1>1, <2>2 DEF GoodBin
  <2>4. file.val[f] \in Nat
      BY <2>1, <2>3 DEF Has, Filled
  <2>. QED BY <2>2, <2>3, <2>4 DEF Has
<1>2. \A u \in Setting!Tasks : sv2[u].pc \in BinDone =>
          \A f \in sv2[u].fs \cap Setting!Own : Has(file, f, sv2[u].n)
    BY DEF GoodBin
<1>. QED BY <1>1, <1>2 DEF GoodBin

LEMMA StillGoodMods ==
    ASSUME NEW file, NEW ok \in [Setting!Fields -> Nat], NEW ok2 \in [Setting!Fields -> Nat], NEW sv, NEW sv2,
           GoodMods(file, ok, sv), Filled(file, Setting!Shadow),
           \A f \in Setting!Fields : ok2[f] <= ok[f],
           \A u \in Setting!Tasks : sv2[u].pc = "done" =>
               sv[u].pc = "done" /\ sv2[u].n = sv[u].n /\ sv2[u].fs \subseteq sv[u].fs
    PROVE  GoodMods(file, ok2, sv2)
<1>1. ASSUME NEW f \in Setting!Shadow, ok2[f] > 0 PROVE Has(file, f, ok2[f])
  <2>1. f \in Setting!Fields
      BY DEF Setting!Fields
  <2>2. ok[f] \in Nat /\ ok2[f] \in Nat /\ ok2[f] <= ok[f]
      BY <2>1
  <2>3. Has(file, f, ok[f])
      BY <1>1, <2>2 DEF GoodMods
  <2>4. file.val[f] \in Nat
      BY <2>3 DEF Has, Filled
  <2>. QED BY <2>2, <2>3, <2>4 DEF Has
<1>2. \A u \in Setting!Tasks : sv2[u].pc = "done" =>
          \A f \in sv2[u].fs \cap Setting!Shadow : Has(file, f, sv2[u].n)
    BY DEF GoodMods
<1>. QED BY <1>1, <1>2 DEF GoodMods

\* A file written from RAM has what RAM has.
LEMMA WrittenHas ==
    ASSUME NEW v \in [Setting!Fields -> Nat], NEW fs \in SUBSET Setting!Fields
    PROVE  /\ Filled(Setting!File(Setting!Project(v, fs)), fs)
           /\ \A f \in fs, n \in Nat : v[f] >= n => Has(Setting!File(Setting!Project(v, fs)), f, n)
<1>. DEFINE p == Setting!Project(v, fs)
<1>1. p \in [fs -> Nat] /\ \A f \in fs : p[f] = v[f]
    BY DEF Setting!Project
<1>. HIDE DEF p
<1>2. Setting!Readable(Setting!File(p)) /\ Setting!File(p).val = p
    BY DEF Setting!Readable, Setting!File
<1>. QED BY <1>1, <1>2 DEF Filled, Has, p

LEMMA NothingToRead ==
    ASSUME NEW fs
    PROVE  Filled(Setting!NoFile, fs) /\ Filled(Setting!HalfFile, fs)
BY DEF Filled, Setting!Readable, Setting!NoFile, Setting!HalfFile

\* What a file recovered at boot is.
LEMMA RecoveredFilled ==
    ASSUME NEW file, NEW spare, NEW fs, Filled(file, fs), Filled(spare, fs)
    PROVE  Filled(Setting!Recovered(file, spare), fs)
BY DEF Setting!Recovered

LEMMA RecoveredHas ==
    ASSUME NEW file, NEW spare, NEW f, NEW n, Has(file, f, n)
    PROVE  Setting!Recovered(file, spare) = file
BY DEF Setting!Recovered, Has, Setting!Readable

LEMMA SettingsStart == Setting!SettingsInit => SettingInv
<1>. SUFFICES ASSUME Setting!SettingsInit PROVE SettingInv
    OBVIOUS
<1>. USE DEF Setting!SettingsInit
<1>0. Setting!Defaults \in [Setting!Fields -> Nat] /\ \A f \in Setting!Fields : Setting!Defaults[f] = 0
    BY DEF Setting!Defaults
<1>1. \A t \in Setting!Tasks : saver[t].pc = "idle" /\ saver[t].n = 0
    BY DEF Setting!Quiet
<1>2. DiskType(disk)
    BY NothingToRead DEF DiskType
<1>3. saver \in [Setting!Tasks -> SaverType]
    BY DEF Setting!Quiet, SaverType
<1>4. told.edits = 0 /\ told.ok = Setting!Defaults /\ DOMAIN told = {"edits", "troubles", "refused", "ok", "missed"}
    OBVIOUS
<1>5. SettingTypes
    BY <1>0, <1>2, <1>3, <1>4 DEF SettingTypes
<1>6. Newest
    BY <1>0, <1>1, <1>4 DEF Newest
<1>7. InRam
    BY <1>1 DEF InRam
<1>8. Writing
    BY <1>1 DEF Writing
<1>9. \A f \in Setting!Own \cup Setting!Shadow : ~(told.ok[f] > 0)
    BY <1>0, <1>4 DEF Setting!Fields
<1>10. \A t \in Setting!Tasks : ~(saver[t].pc \in BinDone) /\ saver[t].pc # "done"
    BY <1>1 DEF BinDone
<1>11. GoodBin(disk.bin, told.ok, saver) /\ GoodMods(disk.mods, told.ok, saver)
  <2>. HIDE DEF Setting!SettingsInit
  <2>. QED BY <1>9, <1>10 DEF GoodBin, GoodMods
<1>. QED BY <1>5, <1>6, <1>7, <1>8, <1>11 DEF SettingInv

\* Every saver is idle: files need to have what was answered only.
LEMMA IdleFit ==
    ASSUME NEW bin, NEW mods, NEW ok, NEW sv,
           \A t \in Setting!Tasks : sv[t].pc = "idle",
           \A f \in Setting!Own \ Setting!Shadow : ok[f] > 0 => Has(bin, f, ok[f]),
           \A f \in Setting!Shadow : ok[f] > 0 => Has(mods, f, ok[f])
    PROVE  GoodBin(bin, ok, sv) /\ GoodMods(mods, ok, sv)
BY DEF GoodBin, GoodMods, BinDone

LEMMA BootKeeps == ASSUME SettingInv, Setting!Boot PROVE SettingInv'
<1>. DEFINE bin  == Setting!Recovered(disk.bin, disk.binTmp)
            mods == Setting!Recovered(disk.mods, disk.modsNew)
            ok   == told.ok
<1>1. PICK binRead, modsRead \in BOOLEAN :
        LET v0 == IF binRead THEN Setting!FromBin(bin) ELSE Setting!Defaults
            v  == IF modsRead THEN Setting!Overlaid(v0, mods) ELSE v0 IN
        /\ cfg' = [up |-> TRUE, val |-> v]
        /\ disk' = [bin |-> IF bin.there THEN bin ELSE Setting!File(Setting!Project(v0, Setting!Own)),
                    binTmp |-> Setting!NoFile,
                    mods |-> IF mods.there THEN mods ELSE Setting!File(Setting!Project(v, Setting!Shadow)),
                    modsNew |-> Setting!NoFile]
        /\ told' = [told EXCEPT
                      !.troubles = IF binRead /\ modsRead THEN @ ELSE @ + 1,
                      !.missed = (IF binRead THEN {} ELSE Setting!Own) \cup (IF modsRead THEN {} ELSE Setting!Shadow)]
    BY DEF Setting!Boot
<1>. DEFINE v0 == IF binRead THEN Setting!FromBin(bin) ELSE Setting!Defaults
            v  == IF modsRead THEN Setting!Overlaid(v0, mods) ELSE v0
            newBin == IF bin.there THEN bin ELSE Setting!File(Setting!Project(v0, Setting!Own))
            newMods == IF mods.there THEN mods ELSE Setting!File(Setting!Project(v, Setting!Shadow))
            missed == (IF binRead THEN {} ELSE Setting!Own) \cup (IF modsRead THEN {} ELSE Setting!Shadow)
<1>2. /\ cfg' = [up |-> TRUE, val |-> v]
      /\ disk' = [bin |-> newBin, binTmp |-> Setting!NoFile, mods |-> newMods, modsNew |-> Setting!NoFile]
      /\ told' = [told EXCEPT !.troubles = IF binRead /\ modsRead THEN @ ELSE @ + 1, !.missed = missed]
      /\ saver' = saver
    BY <1>1 DEF Setting!Boot
<1>3. Filled(bin, Setting!Own) /\ Filled(mods, Setting!Shadow)
    BY RecoveredFilled DEF SettingInv, SettingTypes, DiskType
<1>4. /\ \A f \in Setting!Own \ Setting!Shadow : ok[f] > 0 => Has(disk.bin, f, ok[f]) /\ bin = disk.bin
      /\ \A f \in Setting!Shadow : ok[f] > 0 => Has(disk.mods, f, ok[f]) /\ mods = disk.mods
    BY RecoveredHas DEF SettingInv, GoodBin, GoodMods
<1>5. \A t \in Setting!Tasks : saver[t].pc = "idle"
    BY DEF Setting!Boot, SettingInv, InRam
<1>6. ok \in [Setting!Fields -> Nat] /\ Setting!Own \subseteq Setting!Fields /\ Setting!Shadow \subseteq Setting!Fields
    BY DEF SettingInv, SettingTypes, Setting!Fields
<1>. HIDE DEF bin, mods, ok
<1>7. v0 \in [Setting!Fields -> Nat]
  <2>1. Setting!Defaults \in [Setting!Fields -> Nat]
      BY DEF Setting!Defaults
  <2>2. Setting!FromBin(bin) \in [Setting!Fields -> Nat]
      BY <1>3 DEF Setting!FromBin, Filled
  <2>. QED BY <2>1, <2>2
<1>8. /\ v \in [Setting!Fields -> Nat]
      /\ \A f \in Setting!Own \ Setting!Shadow : v[f] = v0[f]
  <2>1. Setting!Overlaid(v0, mods) \in [Setting!Fields -> Nat]
      BY <1>3, <1>7 DEF Setting!Overlaid, Filled
  <2>2. \A f \in Setting!Own \ Setting!Shadow : Setting!Overlaid(v0, mods)[f] = v0[f]
      BY <1>6 DEF Setting!Overlaid
  <2>. QED BY <1>7, <2>1, <2>2
<1>9. ASSUME NEW f \in Setting!Fields \ missed PROVE v[f] >= ok[f]
  <2>0. v[f] \in Nat /\ ok[f] \in Nat
      BY <1>6, <1>8
  <2>1. CASE ~(ok[f] > 0)
      BY <2>0, <2>1
  <2>2. CASE ok[f] > 0 /\ f \in Setting!Shadow
    <3>1. modsRead /\ Has(mods, f, ok[f])
        BY <1>4, <1>9, <2>2
    <3>2. v[f] = mods.val[f]
        BY <2>2, <3>1 DEF Setting!Overlaid, Has
    <3>. QED BY <3>1, <3>2 DEF Has
  <2>3. CASE ok[f] > 0 /\ f \in Setting!Own \ Setting!Shadow
    <3>1. binRead /\ Has(bin, f, ok[f])
        BY <1>4, <1>9, <2>3
    <3>2. v0[f] = bin.val[f]
        BY <2>3, <3>1 DEF Setting!FromBin, Has
    <3>. QED BY <1>8, <2>3, <3>1, <3>2 DEF Has
  <2>. QED BY <2>1, <2>2, <2>3 DEF Setting!Fields
<1>10. Filled(newBin, Setting!Own) /\ Filled(newMods, Setting!Shadow)
  <2>. HIDE DEF v, v0
  <2>. QED BY <1>3, <1>6, <1>7, <1>8, WrittenHas
<1>11. /\ \A f \in Setting!Own \ Setting!Shadow : ok[f] > 0 => Has(newBin, f, ok[f])
       /\ \A f \in Setting!Shadow : ok[f] > 0 => Has(newMods, f, ok[f])
    BY <1>4 DEF Has, Setting!Readable
<1>. HIDE DEF v, v0, newBin, newMods, missed
<1>12. DiskType(disk')
    BY <1>2, <1>10, NothingToRead DEF DiskType
<1>13. /\ DOMAIN told' = {"edits", "troubles", "refused", "ok", "missed"}
       /\ told'.edits = told.edits /\ told'.ok = ok /\ told'.missed = missed
    BY <1>2 DEF SettingInv, SettingTypes, ok
<1>14. SettingTypes'
    BY <1>2, <1>8, <1>12, <1>13 DEF SettingInv, SettingTypes, ok
<1>15. Newest'
    BY <1>2, <1>13 DEF SettingInv, Newest, ok
<1>16. InRam'
    BY <1>2, <1>5, <1>9, <1>13 DEF InRam
<1>17. Writing'
    BY <1>2, <1>5 DEF Writing
<1>18. GoodBin(disk'.bin, told'.ok, saver') /\ GoodMods(disk'.mods, told'.ok, saver')
    BY <1>2, <1>5, <1>11, <1>13, IdleFit
<1>. QED BY <1>14, <1>15, <1>16, <1>17, <1>18 DEF SettingInv

\* No answer is new, no saver has come further, and who writes still does.
LEMMA LessAsked ==
    ASSUME SettingInv, told'.ok \in [Setting!Fields -> Nat],
           \A f \in Setting!Fields : told'.ok[f] <= told.ok[f],
           \A u \in Setting!Tasks : saver'[u].pc \in BinDone =>
               saver[u].pc \in BinDone /\ saver'[u].n = saver[u].n /\ saver'[u].fs \subseteq saver[u].fs,
           \A u \in Setting!Tasks : saver'[u].pc = "done" => saver[u].pc = "done",
           \A u \in Setting!Tasks : saver'[u].pc = "rename" =>
               saver'[u] = saver[u] /\ lock' = lock /\ disk'.binTmp = disk.binTmp,
           \A u \in Setting!Tasks : saver'[u].pc = "swap" =>
               saver'[u] = saver[u] /\ lock' = lock /\ disk'.modsNew = disk.modsNew
    PROVE  /\ Writing'
           /\ GoodBin(disk.bin, told'.ok, saver') /\ GoodMods(disk.mods, told'.ok, saver')
<1>0. told.ok \in [Setting!Fields -> Nat]
    BY DEF SettingInv, SettingTypes
<1>1. \A u \in Setting!Tasks : saver'[u].pc = "done" =>
          saver[u].pc = "done" /\ saver'[u].n = saver[u].n /\ saver'[u].fs \subseteq saver[u].fs
    BY DEF BinDone
<1>2. ASSUME NEW file, Filled(file, Setting!Own), GoodBin(file, told.ok, saver)
      PROVE  GoodBin(file, told'.ok, saver')
    BY <1>0, <1>2, StillGoodBin
<1>3. ASSUME NEW file, Filled(file, Setting!Shadow), GoodMods(file, told.ok, saver)
      PROVE  GoodMods(file, told'.ok, saver')
    BY <1>0, <1>1, <1>3, StillGoodMods
<1>4. /\ GoodBin(disk.bin, told.ok, saver) /\ GoodMods(disk.mods, told.ok, saver)
      /\ Filled(disk.bin, Setting!Own) /\ Filled(disk.mods, Setting!Shadow)
      /\ Filled(disk.binTmp, Setting!Own) /\ Filled(disk.modsNew, Setting!Shadow)
    BY DEF SettingInv, SettingTypes, DiskType
<1>5. GoodBin(disk.bin, told'.ok, saver') /\ GoodMods(disk.mods, told'.ok, saver')
    BY <1>2, <1>3, <1>4
<1>6. ASSUME NEW u \in Setting!Tasks, saver'[u].pc = "rename"
      PROVE  /\ lock' = u /\ GoodBin(disk'.binTmp, told'.ok, saver')
             /\ \A f \in saver'[u].fs \cap Setting!Own : Has(disk'.binTmp, f, saver'[u].n)
  <2>1. saver'[u] = saver[u] /\ lock' = lock /\ disk'.binTmp = disk.binTmp
      BY <1>6
  <2>2. /\ lock = u /\ GoodBin(disk.binTmp, told.ok, saver)
        /\ \A f \in saver[u].fs \cap Setting!Own : Has(disk.binTmp, f, saver[u].n)
      BY <1>6, <2>1 DEF SettingInv, Writing
  <2>. QED BY <1>2, <1>4, <2>1, <2>2
<1>7. ASSUME NEW u \in Setting!Tasks, saver'[u].pc = "swap"
      PROVE  /\ lock' = u /\ GoodMods(disk'.modsNew, told'.ok, saver')
             /\ \A f \in saver'[u].fs \cap Setting!Shadow : Has(disk'.modsNew, f, saver'[u].n)
  <2>1. saver'[u] = saver[u] /\ lock' = lock /\ disk'.modsNew = disk.modsNew
      BY <1>7
  <2>2. /\ lock = u /\ GoodMods(disk.modsNew, told.ok, saver)
        /\ \A f \in saver[u].fs \cap Setting!Shadow : Has(disk.modsNew, f, saver[u].n)
      BY <1>7, <2>1 DEF SettingInv, Writing
  <2>. QED BY <1>3, <1>4, <2>1, <2>2
<1>. QED BY <1>5, <1>6, <1>7 DEF Writing

\* A saver that goes on to its next step, or goes idle, as the others stay.
LEMMA SaverSteps ==
    ASSUME SettingTypes, NEW t \in Setting!Tasks, NEW pc,
           pc \in {"idle", "bin", "rename", "mods", "swap", "done"}, Setting!Step(t, pc)
    PROVE  /\ saver' \in [Setting!Tasks -> SaverType]
           /\ saver'[t].pc = pc /\ saver'[t].n = saver[t].n /\ saver'[t].fs = saver[t].fs
           /\ \A u \in Setting!Tasks \ {t} : saver'[u] = saver[u]
<1>1. saver' = [saver EXCEPT ![t] = [saver[t] EXCEPT !.pc = pc]] /\ saver[t] \in SaverType
    BY DEF Setting!Step, SettingTypes
<1>2. /\ [saver[t] EXCEPT !.pc = pc] \in SaverType
      /\ [saver[t] EXCEPT !.pc = pc].pc = pc
      /\ [saver[t] EXCEPT !.pc = pc].n = saver[t].n /\ [saver[t] EXCEPT !.pc = pc].fs = saver[t].fs
    BY <1>1 DEF SaverType
<1>. QED BY <1>1, <1>2 DEF SettingTypes

LEMMA SaverQuiet ==
    ASSUME SettingTypes, NEW t \in Setting!Tasks, saver' = [saver EXCEPT ![t] = Setting!Quiet]
    PROVE  /\ saver' \in [Setting!Tasks -> SaverType]
           /\ saver'[t].pc = "idle" /\ saver'[t].n = 0 /\ saver'[t].fs = {}
           /\ \A u \in Setting!Tasks \ {t} : saver'[u] = saver[u]
<1>1. Setting!Quiet \in SaverType /\ Setting!Quiet.pc = "idle" /\ Setting!Quiet.n = 0 /\ Setting!Quiet.fs = {}
    BY DEF Setting!Quiet, SaverType
<1>. QED BY <1>1 DEF SettingTypes

LEMMA PowerCutKeeps == ASSUME SettingInv, Setting!PowerCut PROVE SettingInv'
<1>1. PICK half \in SUBSET Setting!Tasks :
        disk' = [disk EXCEPT !.binTmp = IF \E t \in half : saver[t].pc = "bin" THEN Setting!HalfFile ELSE @,
                             !.modsNew = IF \E t \in half : saver[t].pc = "mods" THEN Setting!HalfFile ELSE @]
    BY DEF Setting!PowerCut
<1>2. DiskType(disk') /\ disk'.bin = disk.bin /\ disk'.mods = disk.mods
  <2>1. /\ DOMAIN disk' = DOMAIN disk /\ disk'.bin = disk.bin /\ disk'.mods = disk.mods
        /\ disk'.binTmp \in {disk.binTmp, Setting!HalfFile} /\ disk'.modsNew \in {disk.modsNew, Setting!HalfFile}
      BY <1>1 DEF SettingInv, SettingTypes, DiskType
  <2>. QED BY <2>1, NothingToRead DEF SettingInv, SettingTypes, DiskType
<1>3. saver' \in [Setting!Tasks -> SaverType] /\ \A t \in Setting!Tasks : saver'[t].pc = "idle" /\ saver'[t].n = 0
    BY DEF Setting!PowerCut, Setting!Quiet, SaverType
<1>4. /\ cfg'.up = FALSE /\ DOMAIN cfg' = {"up", "val"} /\ cfg'.val \in [Setting!Fields -> Nat]
    BY DEF Setting!PowerCut, Setting!Defaults
<1>5. /\ DOMAIN told' = DOMAIN told /\ told'.edits = told.edits /\ told'.ok = told.ok
    BY DEF Setting!PowerCut, Setting!Trouble, SettingInv, SettingTypes
<1>6. SettingTypes'
    BY <1>2, <1>3, <1>4, <1>5 DEF SettingInv, SettingTypes
<1>7. Newest'
    BY <1>3, <1>5 DEF SettingInv, SettingTypes, Newest
<1>8. InRam'
    BY <1>3, <1>4 DEF InRam
<1>9. Writing' /\ GoodBin(disk.bin, told'.ok, saver') /\ GoodMods(disk.mods, told'.ok, saver')
  <2>1. told'.ok \in [Setting!Fields -> Nat] /\ \A f \in Setting!Fields : told'.ok[f] <= told.ok[f]
      BY <1>5 DEF SettingInv, SettingTypes
  <2>. QED BY <1>3, <2>1, LessAsked DEF BinDone
<1>. QED BY <1>2, <1>6, <1>7, <1>8, <1>9 DEF SettingInv

LEMMA EditKeeps ==
    ASSUME SettingInv, NEW t \in Setting!Tasks, NEW fs \in SUBSET Setting!Fields, Setting!Edit(t, fs)
    PROVE  SettingInv'
<1>. DEFINE n == told.edits + 1
<1>1. /\ cfg.up /\ saver[t].pc = "idle"
      /\ cfg' = [cfg EXCEPT !.val = [f \in Setting!Fields |-> IF f \in fs THEN n ELSE @[f]]]
      /\ saver' = [saver EXCEPT ![t] = [pc |-> "bin", n |-> n, fs |-> fs]]
      /\ told' = [told EXCEPT !.edits = n,
                              !.ok = [f \in Setting!Fields |-> IF f \in told.missed THEN 0 ELSE @[f]], !.missed = {}]
      /\ disk' = disk /\ lock' = lock
    BY DEF Setting!Edit
<1>2. /\ n \in Nat /\ told.edits <= n /\ told.ok \in [Setting!Fields -> Nat] /\ cfg.val \in [Setting!Fields -> Nat]
      /\ \A f \in Setting!Fields : told.ok[f] <= n
      /\ \A u \in Setting!Tasks : saver[u].n \in Nat /\ saver[u].n <= n
  <2>1. n \in Nat /\ told.edits <= n /\ told.edits \in Nat
      BY DEF SettingInv, SettingTypes
  <2>2. told.ok \in [Setting!Fields -> Nat] /\ cfg.val \in [Setting!Fields -> Nat] /\ Newest
      BY DEF SettingInv, SettingTypes
  <2>3. \A u \in Setting!Tasks : saver[u].n \in Nat
      BY DEF SettingInv, SettingTypes, SaverType
  <2>. HIDE DEF n
  <2>. QED BY <2>1, <2>2, <2>3 DEF Newest
<1>. HIDE DEF n
<1>3. /\ saver' \in [Setting!Tasks -> SaverType]
      /\ saver'[t].pc = "bin" /\ saver'[t].n = n /\ saver'[t].fs = fs
      /\ \A u \in Setting!Tasks \ {t} : saver'[u] = saver[u]
  <2>1. [pc |-> "bin", n |-> n, fs |-> fs] \in SaverType
      BY <1>2 DEF SaverType
  <2>. QED BY <1>1, <2>1 DEF SettingInv, SettingTypes
<1>4. /\ DOMAIN cfg' = DOMAIN cfg /\ cfg'.up = cfg.up
      /\ cfg'.val \in [Setting!Fields -> Nat]
      /\ \A f \in Setting!Fields : cfg'.val[f] = IF f \in fs THEN n ELSE cfg.val[f]
    BY <1>1, <1>2 DEF SettingInv, SettingTypes
<1>5. /\ DOMAIN told' = DOMAIN told /\ told'.edits = n /\ told'.missed = {}
      /\ told'.ok \in [Setting!Fields -> Nat]
      /\ \A f \in Setting!Fields : told'.ok[f] = IF f \in told.missed THEN 0 ELSE told.ok[f]
    BY <1>1, <1>2 DEF SettingInv, SettingTypes
<1>6. \A f \in Setting!Fields : told'.ok[f] <= told.ok[f] /\ told'.ok[f] <= n /\ told.ok[f] \in Nat
    BY <1>2, <1>5
<1>7. SettingTypes'
    BY <1>1, <1>2, <1>3, <1>4, <1>5 DEF SettingInv, SettingTypes
<1>8. Newest'
    BY <1>2, <1>3, <1>5, <1>6 DEF Newest
<1>9. InRam'
  <2>1. ASSUME NEW f \in Setting!Fields PROVE cfg'.val[f] >= told'.ok[f]
    <3>1. CASE f \in fs
        BY <1>2, <1>4, <1>5, <1>6, <3>1
    <3>2. CASE f \notin fs /\ f \in told.missed
        BY <1>2, <1>4, <1>5, <3>2
    <3>3. CASE f \notin fs /\ f \notin told.missed
        BY <1>1, <1>4, <1>5, <3>3 DEF SettingInv, InRam
    <3>. QED BY <3>1, <3>2, <3>3
  <2>2. ASSUME NEW u \in Setting!Tasks, saver'[u].pc # "idle", NEW f \in saver'[u].fs
        PROVE  cfg'.val[f] >= saver'[u].n
    <3>0. f \in Setting!Fields
        BY <1>3 DEF SaverType
    <3>1. CASE u = t
        BY <1>2, <1>3, <1>4, <3>0, <3>1
    <3>2. CASE u # t
      <4>1. saver'[u] = saver[u] /\ cfg.val[f] >= saver[u].n
          BY <1>3, <2>2, <3>2 DEF SettingInv, InRam
      <4>. QED BY <1>2, <1>4, <3>0, <4>1
    <3>. QED BY <3>1, <3>2
  <2>. QED BY <1>1, <1>4, <1>5, <2>1, <2>2 DEF InRam
<1>10. Writing' /\ GoodBin(disk.bin, told'.ok, saver') /\ GoodMods(disk.mods, told'.ok, saver')
  <2>1. \A u \in Setting!Tasks : u = t \/ saver'[u] = saver[u]
      BY <1>3
  <2>. QED BY <1>1, <1>3, <1>5, <1>6, <2>1, LessAsked DEF BinDone
<1>. QED BY <1>1, <1>7, <1>8, <1>9, <1>10 DEF SettingInv

LEMMA RefuseKeeps == ASSUME SettingInv, Setting!RefuseHardware PROVE SettingInv'
<1>. DEFINE n == told.edits + 1
<1>1. /\ cfg' = [cfg EXCEPT !.val["pins"] = n, !.val["rest"] = n]
      /\ told' = [told EXCEPT !.edits = n, !.refused = @ \cup {n}]
      /\ disk' = disk /\ saver' = saver /\ lock' = lock
    BY DEF Setting!RefuseHardware
<1>2. /\ n \in Nat /\ told.edits \in Nat /\ told.edits <= n
      /\ told.ok \in [Setting!Fields -> Nat] /\ cfg.val \in [Setting!Fields -> Nat]
    BY DEF SettingInv, SettingTypes
<1>3. \A u \in Setting!Tasks : saver[u].n \in Nat /\ saver[u].fs \subseteq Setting!Fields
    BY DEF SettingInv, SettingTypes, SaverType
<1>. HIDE DEF n
<1>4. /\ \A f \in Setting!Fields : told.ok[f] \in Nat /\ told.ok[f] <= n
      /\ \A u \in Setting!Tasks : saver[u].n <= n
    BY <1>2, <1>3 DEF SettingInv, Newest
<1>5. /\ DOMAIN cfg' = DOMAIN cfg /\ cfg'.up = cfg.up
      /\ cfg'.val \in [Setting!Fields -> Nat]
      /\ \A f \in Setting!Fields : cfg'.val[f] = IF f \in {"pins", "rest"} THEN n ELSE cfg.val[f]
  <2>1. cfg' = [cfg EXCEPT !.val = [[cfg.val EXCEPT !["pins"] = n] EXCEPT !["rest"] = n]]
      BY <1>1 DEF SettingInv, SettingTypes
  <2>. QED BY <1>2, <2>1 DEF SettingInv, SettingTypes, Setting!Fields, Setting!Own
<1>6. /\ DOMAIN told' = DOMAIN told /\ told'.edits = n /\ told'.missed = told.missed /\ told'.ok = told.ok
    BY <1>1 DEF SettingInv, SettingTypes
<1>7. SettingTypes'
    BY <1>1, <1>2, <1>5, <1>6 DEF SettingInv, SettingTypes
<1>8. Newest'
    BY <1>1, <1>4, <1>6 DEF Newest
<1>9. \A f \in Setting!Fields, m \in Nat : m <= n /\ cfg.val[f] >= m => cfg'.val[f] >= m
    BY <1>2, <1>5
<1>10. InRam'
    BY <1>1, <1>3, <1>4, <1>5, <1>6, <1>9 DEF SettingInv, InRam
<1>11. Writing' /\ GoodBin(disk'.bin, told'.ok, saver') /\ GoodMods(disk'.mods, told'.ok, saver')
    BY <1>1, <1>6 DEF SettingInv, Writing
<1>. QED BY <1>7, <1>8, <1>10, <1>11 DEF SettingInv

LEMMA FormatKeeps == ASSUME SettingInv, Setting!FormatAll PROVE SettingInv'
<1>0. Setting!Tasks = {"web", "loop"}
    BY DEF Setting!Tasks
<1>1. /\ saver["web"].pc = "idle" /\ lock = "nobody"
      /\ disk' = [f \in DOMAIN disk |-> Setting!NoFile]
      /\ told' = [told EXCEPT !.troubles = @ + 1, !.ok = Setting!Defaults]
      /\ saver' = [saver EXCEPT !["loop"].fs = {}] /\ cfg' = cfg /\ lock' = lock
    BY DEF Setting!FormatAll
<1>2. DiskType(disk')
    BY <1>1, NothingToRead DEF SettingInv, SettingTypes, DiskType
<1>3. /\ saver' \in [Setting!Tasks -> SaverType]
      /\ \A u \in Setting!Tasks : /\ saver'[u].pc = saver[u].pc /\ saver'[u].n = saver[u].n
                                  /\ saver'[u].pc # "idle" => saver'[u].fs = {}
  <2>1. saver' = [saver EXCEPT !["loop"] = [saver["loop"] EXCEPT !.fs = {}]] /\ saver["loop"] \in SaverType
      BY <1>0, <1>1 DEF SettingInv, SettingTypes
  <2>2. /\ [saver["loop"] EXCEPT !.fs = {}] \in SaverType
        /\ [saver["loop"] EXCEPT !.fs = {}].fs = {}
        /\ [saver["loop"] EXCEPT !.fs = {}].pc = saver["loop"].pc
        /\ [saver["loop"] EXCEPT !.fs = {}].n = saver["loop"].n
      BY <2>1 DEF SaverType
  <2>. QED BY <1>0, <1>1, <2>1, <2>2 DEF SettingInv, SettingTypes
<1>4. /\ DOMAIN told' = DOMAIN told /\ told'.edits = told.edits /\ told'.missed = told.missed
      /\ told'.ok \in [Setting!Fields -> Nat] /\ \A f \in Setting!Fields : told'.ok[f] = 0
  <2>1. Setting!Defaults \in [Setting!Fields -> Nat] /\ \A f \in Setting!Fields : Setting!Defaults[f] = 0
      BY DEF Setting!Defaults
  <2>. QED BY <1>1, <2>1 DEF SettingInv, SettingTypes
<1>5. SettingTypes'
    BY <1>1, <1>2, <1>3, <1>4 DEF SettingInv, SettingTypes
<1>6. Newest'
    BY <1>3, <1>4 DEF SettingInv, SettingTypes, Newest
<1>7. InRam'
  <2>1. ASSUME NEW f \in Setting!Fields PROVE cfg'.val[f] >= told'.ok[f]
      BY <1>4, <1>5 DEF SettingTypes
  <2>. QED BY <1>1, <1>3, <1>4, <2>1 DEF SettingInv, InRam
<1>8. Writing'
    BY <1>0, <1>1, <1>3 DEF SettingInv, Writing
<1>9. GoodBin(disk'.bin, told'.ok, saver') /\ GoodMods(disk'.mods, told'.ok, saver')
  <2>1. \A f \in Setting!Own \cup Setting!Shadow : ~(told'.ok[f] > 0)
      BY <1>4 DEF Setting!Fields
  <2>. QED BY <1>3, <2>1 DEF GoodBin, GoodMods, BinDone
<1>. QED BY <1>5, <1>6, <1>7, <1>8, <1>9 DEF SettingInv

\* What a save leaves alone while it goes on.
LEMMA SavingLeaves ==
    ASSUME SettingInv, NEW t \in Setting!Tasks, NEW pc, pc \in {"rename", "mods", "swap", "done"},
           saver[t].pc # "idle", Setting!Step(t, pc), cfg' = cfg, told' = told, DiskType(disk')
    PROVE  SettingTypes' /\ Newest' /\ InRam'
<1>1. /\ saver' \in [Setting!Tasks -> SaverType]
      /\ \A u \in Setting!Tasks : saver'[u].n = saver[u].n /\ saver'[u].fs = saver[u].fs
      /\ \A u \in Setting!Tasks : saver'[u].pc # "idle" => saver[u].pc # "idle"
    BY SaverSteps DEF SettingInv
<1>2. SettingTypes'
    BY <1>1 DEF SettingInv, SettingTypes
<1>3. Newest' /\ InRam'
    BY <1>1 DEF SettingInv, Newest, InRam
<1>. QED BY <1>2, <1>3

LEMMA WriteBinKeeps ==
    ASSUME SettingInv, NEW t \in Setting!Tasks, Setting!WriteBin(t)
    PROVE  SettingInv'
<1>. DEFINE tmp == Setting!File(Setting!Project(cfg.val, Setting!Own))
<1>1. /\ saver[t].pc = "bin" /\ lock = "nobody" /\ lock' = t /\ Setting!Step(t, "rename")
      /\ cfg' = cfg /\ told' = told /\ disk' = [disk EXCEPT !.binTmp = tmp]
    BY DEF Setting!WriteBin
<1>2. /\ Filled(tmp, Setting!Own)
      /\ \A f \in Setting!Own, n \in Nat : cfg.val[f] >= n => Has(tmp, f, n)
    BY WrittenHas DEF SettingInv, SettingTypes, Setting!Fields
<1>. HIDE DEF tmp
<1>3. /\ DOMAIN disk' = DOMAIN disk /\ disk'.binTmp = tmp
      /\ disk'.bin = disk.bin /\ disk'.mods = disk.mods /\ disk'.modsNew = disk.modsNew
    BY <1>1 DEF SettingInv, SettingTypes, DiskType
<1>4. SettingTypes' /\ Newest' /\ InRam'
  <2>1. DiskType(disk')
      BY <1>2, <1>3 DEF SettingInv, SettingTypes, DiskType
  <2>. QED BY <1>1, <2>1, SavingLeaves
<1>5. /\ saver'[t].pc = "rename" /\ saver'[t].n = saver[t].n /\ saver'[t].fs = saver[t].fs
      /\ \A u \in Setting!Tasks \ {t} : saver'[u] = saver[u]
    BY <1>1, SaverSteps DEF SettingInv
<1>6. \A u \in Setting!Tasks : saver[u].pc \notin {"rename", "swap"}
    BY <1>1 DEF SettingInv, Writing, Setting!Tasks
<1>7. GoodBin(disk.bin, told.ok, saver') /\ GoodMods(disk.mods, told.ok, saver')
  <2>1. \A u \in Setting!Tasks : saver'[u].pc \in BinDone => saver'[u] = saver[u]
      BY <1>5 DEF BinDone
  <2>2. GoodBin(disk.bin, told.ok, saver')
      BY <2>1 DEF SettingInv, GoodBin
  <2>3. GoodMods(disk.mods, told.ok, saver')
      BY <2>1 DEF SettingInv, GoodMods, BinDone
  <2>. QED BY <2>2, <2>3
<1>8. \A f \in Setting!Fields : told.ok[f] \in Nat /\ cfg.val[f] >= told.ok[f]
    BY <1>1 DEF SettingInv, SettingTypes, InRam
<1>9. \A u \in Setting!Tasks : saver[u].pc # "idle" =>
          saver[u].n \in Nat /\ \A f \in saver[u].fs : cfg.val[f] >= saver[u].n
    BY DEF SettingInv, SettingTypes, SaverType, InRam
<1>10. GoodBin(tmp, told.ok, saver')
  <2>1. \A f \in Setting!Own : Has(tmp, f, told.ok[f])
      BY <1>2, <1>8 DEF Setting!Fields
  <2>2. ASSUME NEW u \in Setting!Tasks, saver'[u].pc \in BinDone, NEW f \in saver'[u].fs \cap Setting!Own
        PROVE  Has(tmp, f, saver'[u].n)
    <3>1. saver'[u] = saver[u] /\ saver[u].pc # "idle"
        BY <1>5, <2>2 DEF BinDone
    <3>. QED BY <1>2, <1>9, <2>2, <3>1
  <2>. QED BY <2>1, <2>2 DEF GoodBin
<1>11. \A f \in saver'[t].fs \cap Setting!Own : Has(tmp, f, saver'[t].n)
    BY <1>1, <1>2, <1>5, <1>9
<1>12. Writing'
  <2>1. ASSUME NEW u \in Setting!Tasks \ {t} PROVE saver'[u].pc \notin {"rename", "swap"}
      BY <1>5, <1>6
  <2>. QED BY <1>1, <1>3, <1>5, <1>10, <1>11, <2>1 DEF Writing
<1>. QED BY <1>1, <1>3, <1>4, <1>7, <1>12 DEF SettingInv

LEMMA RenameBinKeeps ==
    ASSUME SettingInv, NEW t \in Setting!Tasks, Setting!RenameBin(t)
    PROVE  SettingInv'
<1>1. /\ saver[t].pc = "rename" /\ lock' = "nobody" /\ Setting!Step(t, "mods")
      /\ cfg' = cfg /\ told' = told
      /\ disk' = [disk EXCEPT !.bin = disk.binTmp, !.binTmp = Setting!NoFile]
    BY DEF Setting!RenameBin, Setting!AfterBin
<1>2. /\ DOMAIN disk' = DOMAIN disk /\ disk'.bin = disk.binTmp /\ disk'.binTmp = Setting!NoFile
      /\ disk'.mods = disk.mods /\ disk'.modsNew = disk.modsNew
    BY <1>1 DEF SettingInv, SettingTypes, DiskType
<1>3. SettingTypes' /\ Newest' /\ InRam'
  <2>1. DiskType(disk')
      BY <1>2, NothingToRead DEF SettingInv, SettingTypes, DiskType
  <2>. QED BY <1>1, <2>1, SavingLeaves
<1>4. /\ saver'[t].pc = "mods" /\ saver'[t].n = saver[t].n /\ saver'[t].fs = saver[t].fs
      /\ \A u \in Setting!Tasks \ {t} : saver'[u] = saver[u]
    BY <1>1, SaverSteps DEF SettingInv
<1>5. /\ lock = t /\ GoodBin(disk.binTmp, told.ok, saver)
      /\ \A f \in saver[t].fs \cap Setting!Own : Has(disk.binTmp, f, saver[t].n)
      /\ \A u \in Setting!Tasks \ {t} : saver[u].pc \notin {"rename", "swap"}
    BY <1>1 DEF SettingInv, Writing
<1>6. GoodBin(disk.binTmp, told.ok, saver')
    BY <1>4, <1>5 DEF GoodBin
<1>7. GoodMods(disk.mods, told.ok, saver')
    BY <1>4 DEF SettingInv, GoodMods
<1>8. Writing'
    BY <1>4, <1>5 DEF Writing
<1>. QED BY <1>1, <1>2, <1>3, <1>6, <1>7, <1>8 DEF SettingInv

LEMMA WriteModsKeeps ==
    ASSUME SettingInv, NEW t \in Setting!Tasks, Setting!WriteMods(t)
    PROVE  SettingInv'
<1>. DEFINE new == Setting!File(Setting!Project(cfg.val, Setting!Shadow))
<1>1. /\ saver[t].pc = "mods" /\ lock = "nobody" /\ lock' = t /\ Setting!Step(t, "swap")
      /\ cfg' = cfg /\ told' = told /\ disk' = [disk EXCEPT !.modsNew = new]
    BY DEF Setting!WriteMods
<1>2. /\ Filled(new, Setting!Shadow)
      /\ \A f \in Setting!Shadow, n \in Nat : cfg.val[f] >= n => Has(new, f, n)
    BY WrittenHas DEF SettingInv, SettingTypes, Setting!Fields
<1>. HIDE DEF new
<1>3. /\ DOMAIN disk' = DOMAIN disk /\ disk'.modsNew = new
      /\ disk'.bin = disk.bin /\ disk'.mods = disk.mods /\ disk'.binTmp = disk.binTmp
    BY <1>1 DEF SettingInv, SettingTypes, DiskType
<1>4. SettingTypes' /\ Newest' /\ InRam'
  <2>1. DiskType(disk')
      BY <1>2, <1>3 DEF SettingInv, SettingTypes, DiskType
  <2>. QED BY <1>1, <2>1, SavingLeaves
<1>5. /\ saver'[t].pc = "swap" /\ saver'[t].n = saver[t].n /\ saver'[t].fs = saver[t].fs
      /\ \A u \in Setting!Tasks \ {t} : saver'[u] = saver[u]
    BY <1>1, SaverSteps DEF SettingInv
<1>6. \A u \in Setting!Tasks : saver[u].pc \notin {"rename", "swap"}
    BY <1>1 DEF SettingInv, Writing, Setting!Tasks
<1>7. GoodBin(disk.bin, told.ok, saver')
  <2>1. saver[t].pc \in BinDone
      BY <1>1 DEF BinDone
  <2>. QED BY <1>5, <2>1 DEF SettingInv, GoodBin
<1>8. GoodMods(disk.mods, told.ok, saver')
    BY <1>5 DEF SettingInv, GoodMods
<1>9. \A f \in Setting!Fields : told.ok[f] \in Nat /\ cfg.val[f] >= told.ok[f]
    BY <1>1 DEF SettingInv, SettingTypes, InRam
<1>10. \A u \in Setting!Tasks : saver[u].pc # "idle" =>
          saver[u].n \in Nat /\ \A f \in saver[u].fs : cfg.val[f] >= saver[u].n
    BY DEF SettingInv, SettingTypes, SaverType, InRam
<1>11. GoodMods(new, told.ok, saver')
  <2>1. \A f \in Setting!Shadow : Has(new, f, told.ok[f])
      BY <1>2, <1>9 DEF Setting!Fields
  <2>2. ASSUME NEW u \in Setting!Tasks, saver'[u].pc = "done", NEW f \in saver'[u].fs \cap Setting!Shadow
        PROVE  Has(new, f, saver'[u].n)
    <3>1. saver'[u] = saver[u] /\ saver[u].pc # "idle"
        BY <1>5, <2>2
    <3>. QED BY <1>2, <1>10, <2>2, <3>1
  <2>. QED BY <2>1, <2>2 DEF GoodMods
<1>12. \A f \in saver'[t].fs \cap Setting!Shadow : Has(new, f, saver'[t].n)
    BY <1>1, <1>2, <1>5, <1>10
<1>13. Writing'
  <2>1. ASSUME NEW u \in Setting!Tasks \ {t} PROVE saver'[u].pc \notin {"rename", "swap"}
      BY <1>5, <1>6
  <2>. QED BY <1>1, <1>3, <1>5, <1>11, <1>12, <2>1 DEF Writing
<1>. QED BY <1>1, <1>3, <1>4, <1>7, <1>8, <1>13 DEF SettingInv

LEMMA RenameModsKeeps ==
    ASSUME SettingInv, NEW t \in Setting!Tasks, Setting!RenameMods(t)
    PROVE  SettingInv'
<1>1. /\ saver[t].pc = "swap" /\ lock' = "nobody" /\ Setting!Step(t, "done")
      /\ cfg' = cfg /\ told' = told
      /\ disk' = [disk EXCEPT !.mods = disk.modsNew, !.modsNew = Setting!NoFile]
    BY DEF Setting!RenameMods
<1>2. /\ DOMAIN disk' = DOMAIN disk /\ disk'.mods = disk.modsNew /\ disk'.modsNew = Setting!NoFile
      /\ disk'.bin = disk.bin /\ disk'.binTmp = disk.binTmp
    BY <1>1 DEF SettingInv, SettingTypes, DiskType
<1>3. SettingTypes' /\ Newest' /\ InRam'
  <2>1. DiskType(disk')
      BY <1>2, NothingToRead DEF SettingInv, SettingTypes, DiskType
  <2>. QED BY <1>1, <2>1, SavingLeaves
<1>4. /\ saver'[t].pc = "done" /\ saver'[t].n = saver[t].n /\ saver'[t].fs = saver[t].fs
      /\ \A u \in Setting!Tasks \ {t} : saver'[u] = saver[u]
    BY <1>1, SaverSteps DEF SettingInv
<1>5. /\ lock = t /\ GoodMods(disk.modsNew, told.ok, saver)
      /\ \A f \in saver[t].fs \cap Setting!Shadow : Has(disk.modsNew, f, saver[t].n)
      /\ \A u \in Setting!Tasks \ {t} : saver[u].pc \notin {"rename", "swap"}
    BY <1>1 DEF SettingInv, Writing
<1>6. GoodMods(disk.modsNew, told.ok, saver')
    BY <1>4, <1>5 DEF GoodMods
<1>7. GoodBin(disk.bin, told.ok, saver')
  <2>1. saver[t].pc \in BinDone
      BY <1>1 DEF BinDone
  <2>. QED BY <1>4, <2>1 DEF SettingInv, GoodBin
<1>8. Writing'
    BY <1>4, <1>5 DEF Writing
<1>. QED BY <1>1, <1>2, <1>3, <1>6, <1>7, <1>8 DEF SettingInv

LEMMA GiveUpKeeps ==
    ASSUME SettingInv, NEW t \in Setting!Tasks, Setting!GiveUp(t)
    PROVE  SettingInv'
<1>1. /\ disk' = [disk EXCEPT !.modsNew = IF saver[t].pc = "swap" THEN Setting!NoFile ELSE @]
      /\ lock' = (IF lock = t THEN "nobody" ELSE lock)
      /\ saver' = [saver EXCEPT ![t] = Setting!Quiet] /\ cfg' = cfg
      /\ told' = [told EXCEPT !.troubles = @ + 1]
    BY DEF Setting!GiveUp, Setting!Trouble
<1>2. /\ DOMAIN disk' = DOMAIN disk /\ disk'.bin = disk.bin /\ disk'.binTmp = disk.binTmp /\ disk'.mods = disk.mods
      /\ disk'.modsNew = IF saver[t].pc = "swap" THEN Setting!NoFile ELSE disk.modsNew
    BY <1>1 DEF SettingInv, SettingTypes, DiskType
<1>3. /\ saver' \in [Setting!Tasks -> SaverType]
      /\ saver'[t].pc = "idle" /\ saver'[t].n = 0 /\ saver'[t].fs = {}
      /\ \A u \in Setting!Tasks \ {t} : saver'[u] = saver[u]
    BY <1>1, SaverQuiet DEF SettingInv
<1>4. /\ DOMAIN told' = DOMAIN told /\ told'.edits = told.edits /\ told'.ok = told.ok
      /\ told'.missed = told.missed
    BY <1>1 DEF SettingInv, SettingTypes
<1>5. SettingTypes'
  <2>1. DiskType(disk')
      BY <1>2, NothingToRead DEF SettingInv, SettingTypes, DiskType
  <2>. QED BY <1>1, <1>3, <1>4, <2>1 DEF SettingInv, SettingTypes
<1>6. Newest'
    BY <1>3, <1>4 DEF SettingInv, SettingTypes, Newest
<1>7. InRam'
    BY <1>1, <1>3, <1>4 DEF SettingInv, InRam
<1>8. Writing' /\ GoodBin(disk.bin, told'.ok, saver') /\ GoodMods(disk.mods, told'.ok, saver')
  <2>1. told'.ok \in [Setting!Fields -> Nat] /\ \A f \in Setting!Fields : told'.ok[f] <= told.ok[f]
      BY <1>4 DEF SettingInv, SettingTypes
  <2>2. \A u \in Setting!Tasks : saver'[u].pc # "idle" => u # t /\ saver'[u] = saver[u]
      BY <1>3
  <2>3. ASSUME NEW u \in Setting!Tasks, saver'[u].pc \in {"rename", "swap"}
        PROVE  lock' = lock /\ saver[t].pc # "swap"
      BY <1>1, <2>2, <2>3 DEF SettingInv, Writing
  <2>. QED BY <1>2, <2>1, <2>2, <2>3, LessAsked DEF BinDone
<1>. QED BY <1>2, <1>5, <1>6, <1>7, <1>8 DEF SettingInv

\* "ok": what the files had for the saver they have for the answer.
LEMMA AnswerKeeps ==
    ASSUME SettingInv, NEW t \in Setting!Tasks, Setting!Answer(t)
    PROVE  SettingInv'
<1>. DEFINE ok2 == [f \in Setting!Fields |->
                      IF f \in saver[t].fs /\ saver[t].n > told.ok[f] THEN saver[t].n ELSE told.ok[f]]
<1>1. /\ saver[t].pc = "done" /\ saver' = [saver EXCEPT ![t] = Setting!Quiet]
      /\ told' = [told EXCEPT !.ok = ok2]
      /\ disk' = disk /\ cfg' = cfg /\ lock' = lock
    BY DEF Setting!Answer
<1>2. saver[t].n \in Nat /\ told.ok \in [Setting!Fields -> Nat]
    BY DEF SettingInv, SettingTypes, SaverType
<1>3. ok2 \in [Setting!Fields -> Nat]
    BY <1>2
<1>4. \A f \in Setting!Fields : ok2[f] = told.ok[f] \/ (f \in saver[t].fs /\ ok2[f] = saver[t].n)
    BY <1>2
<1>. HIDE DEF ok2
<1>5. /\ saver' \in [Setting!Tasks -> SaverType]
      /\ saver'[t].pc = "idle" /\ saver'[t].n = 0 /\ saver'[t].fs = {}
      /\ \A u \in Setting!Tasks \ {t} : saver'[u] = saver[u]
    BY <1>1, SaverQuiet DEF SettingInv
<1>6. /\ DOMAIN told' = DOMAIN told /\ told'.edits = told.edits /\ told'.ok = ok2
      /\ told'.missed = told.missed
    BY <1>1 DEF SettingInv, SettingTypes
<1>7. SettingTypes'
    BY <1>1, <1>3, <1>5, <1>6 DEF SettingInv, SettingTypes
<1>8. Newest'
    BY <1>4, <1>5, <1>6 DEF SettingInv, SettingTypes, Newest
<1>9. InRam'
    BY <1>1, <1>4, <1>5, <1>6 DEF SettingInv, InRam
<1>10. ASSUME NEW file, GoodBin(file, told.ok, saver) PROVE GoodBin(file, ok2, saver')
  <2>1. ASSUME NEW f \in Setting!Own \ Setting!Shadow, ok2[f] > 0 PROVE Has(file, f, ok2[f])
    <3>1. CASE ok2[f] = told.ok[f]
        BY <1>10, <2>1, <3>1 DEF GoodBin
    <3>2. CASE f \in saver[t].fs /\ ok2[f] = saver[t].n
        BY <1>1, <1>10, <3>2 DEF GoodBin, BinDone
    <3>. QED BY <1>4, <3>1, <3>2 DEF Setting!Fields
  <2>. QED BY <1>5, <1>10, <2>1 DEF GoodBin, BinDone
<1>11. ASSUME NEW file, GoodMods(file, told.ok, saver) PROVE GoodMods(file, ok2, saver')
  <2>1. ASSUME NEW f \in Setting!Shadow, ok2[f] > 0 PROVE Has(file, f, ok2[f])
    <3>1. CASE ok2[f] = told.ok[f]
        BY <1>11, <2>1, <3>1 DEF GoodMods
    <3>2. CASE f \in saver[t].fs /\ ok2[f] = saver[t].n
        BY <1>1, <1>11, <3>2 DEF GoodMods
    <3>. QED BY <1>4, <3>1, <3>2 DEF Setting!Fields
  <2>. QED BY <1>5, <1>11, <2>1 DEF GoodMods
<1>12. Writing'
  <2>1. \A u \in Setting!Tasks : saver'[u].pc \in {"rename", "swap"} => saver'[u] = saver[u]
      BY <1>5
  <2>. QED BY <1>1, <1>6, <1>10, <1>11, <2>1 DEF SettingInv, Writing
<1>. QED BY <1>1, <1>6, <1>7, <1>8, <1>9, <1>10, <1>11, <1>12 DEF SettingInv

LEMMA SettingStep == SettingInv /\ [Setting!SettingsNext]_Setting!settingsVars => SettingInv'
<1>. SUFFICES ASSUME SettingInv, [Setting!SettingsNext]_Setting!settingsVars PROVE SettingInv'
    OBVIOUS
<1>1. CASE Setting!Boot
    BY <1>1, BootKeeps
<1>2. CASE Setting!PowerCut
    BY <1>2, PowerCutKeeps
<1>3. ASSUME NEW t \in Setting!Tasks, NEW fs \in SUBSET Setting!Fields, Setting!Edit(t, fs) PROVE SettingInv'
    BY <1>3, EditKeeps
<1>4. CASE \/ Setting!SaveDevice \/ Setting!SaveTheme \/ Setting!SaveDatalog \/ Setting!SaveNetwork
           \/ Setting!UpdateModule \/ Setting!SaveKindle \/ Setting!SaveHardware \/ Setting!FirstRun
           \/ Setting!Import \/ Setting!HandoverSwitch
  <2>1. PICK t \in Setting!Tasks, fs \in SUBSET Setting!Fields : Setting!Edit(t, fs)
      BY <1>4 DEF Setting!SaveDevice, Setting!SaveTheme, Setting!SaveDatalog, Setting!SaveNetwork,
                  Setting!UpdateModule, Setting!SaveKindle, Setting!SaveHardware, Setting!FirstRun,
                  Setting!Import, Setting!HandoverSwitch, Setting!Tasks, Setting!Fields, Setting!Own, Setting!Shadow
  <2>. QED BY <1>3, <2>1
<1>5. CASE Setting!RefuseHardware
    BY <1>5, RefuseKeeps
<1>6. CASE Setting!FormatAll
    BY <1>6, FormatKeeps
<1>7. ASSUME NEW t \in Setting!Tasks, Setting!Saving(t) PROVE SettingInv'
    BY <1>7, WriteBinKeeps, RenameBinKeeps, WriteModsKeeps, RenameModsKeeps, GiveUpKeeps, AnswerKeeps
       DEF Setting!Saving
<1>8. CASE UNCHANGED Setting!settingsVars
    BY <1>8 DEF Setting!settingsVars, SettingInv, SettingTypes, Newest, InRam, Writing
<1>. QED BY <1>1, <1>2, <1>4, <1>5, <1>6, <1>7, <1>8 DEF Setting!SettingsNext

\* For any number of saves by the web server and by loop(), and of power cuts
\* between any two steps of them: the next boot comes up with each field as the
\* newest answered save left it or newer (saveConfig(), saveAll(), their
\* recovery).
THEOREM AnswersSurvive ==
    Spec => []AnsweredSurvives
<1>. DEFINE Safe == part = "settings" => SettingInv
<1>0. SettingInv => Setting!AnsweredSurvives
  <2>. DEFINE bin  == Setting!Recovered(disk.bin, disk.binTmp)
              mods == Setting!Recovered(disk.mods, disk.modsNew)
              v0   == Setting!FromBin(bin)
  <2>. SUFFICES ASSUME SettingInv, NEW f \in Setting!Fields
                PROVE  Setting!Overlaid(v0, mods)[f] >= told.ok[f]
      BY DEF Setting!AnsweredSurvives, Setting!Loads
  <2>1. Filled(bin, Setting!Own) /\ Filled(mods, Setting!Shadow)
      BY RecoveredFilled DEF SettingInv, SettingTypes, DiskType
  <2>2. /\ \A g \in Setting!Own \ Setting!Shadow : told.ok[g] > 0 => Has(bin, g, told.ok[g])
        /\ \A g \in Setting!Shadow : told.ok[g] > 0 => Has(mods, g, told.ok[g])
      BY RecoveredHas DEF SettingInv, GoodBin, GoodMods
  <2>. HIDE DEF bin, mods
  <2>3. v0 \in [Setting!Fields -> Nat] /\ told.ok[f] \in Nat
      BY <2>1 DEF Setting!FromBin, Filled, SettingInv, SettingTypes
  <2>4. Setting!Overlaid(v0, mods) \in [Setting!Fields -> Nat]
      BY <2>1, <2>3 DEF Setting!Overlaid, Filled
  <2>5. CASE ~(told.ok[f] > 0)
      BY <2>3, <2>4, <2>5
  <2>6. CASE told.ok[f] > 0 /\ f \in Setting!Shadow
    <3>1. Has(mods, f, told.ok[f])
        BY <2>2, <2>6
    <3>. QED BY <2>6, <3>1 DEF Setting!Overlaid, Has
  <2>7. CASE told.ok[f] > 0 /\ f \in Setting!Own \ Setting!Shadow
    <3>1. Has(bin, f, told.ok[f])
        BY <2>2, <2>7
    <3>2. Setting!Overlaid(v0, mods)[f] = v0[f]
        BY <2>7 DEF Setting!Overlaid
    <3>3. v0[f] = bin.val[f]
        BY <2>7, <3>1 DEF Setting!FromBin, Has
    <3>. QED BY <3>1, <3>2, <3>3 DEF Has
  <2>. QED BY <2>5, <2>6, <2>7 DEF Setting!Fields
<1>1. Safe => AnsweredSurvives
    BY <1>0 DEF AnsweredSurvives
<1>2. Init => Safe
    BY SettingsStart DEF Init
<1>3. Safe /\ [Next]_vars => Safe'
    BY PartsMoveAlone, SettingStep
<1>. QED BY <1>1, <1>2, <1>3, PTL DEF Spec
-----------------------------------------------------------------------------
(* BootLoop: no row of the run log is lost without an excuse.              *)

\* The pulses of a run; what some rows hold of them.
Pulses == SUBSET Nat
OfRows(rows) == Booting!Rows(rows)

BootTypes ==
    /\ DOMAIN flash = {"run", "other", "mark", "boots", "log"}
    /\ DOMAIN rtc = {"magic", "resets", "boots", "restore", "buf"}
    /\ DOMAIN ram = {"phase", "why", "wake", "safe", "web", "online", "mounted", "pending", "up", "asked", "undo"}
    /\ DOMAIN cyc = {"st", "pulses", "lines", "web", "pressed"}
    /\ DOMAIN past = {"crashes", "flows", "captured", "excused", "proven"}
    /\ flash.log \in Seq(Pulses) /\ rtc.buf \in Seq(Pulses)
    /\ cyc.pulses \in Pulses /\ cyc.lines \in Seq(Pulses) /\ cyc.web \in Seq(Pulses)
    /\ past.flows \in Nat

\* What the buffer holds when a device is off does not outlive a reset that is
\* no wake: it was excused then.
Survives ==
    past.captured \subseteq OfRows(flash.log) \cup past.excused
        \cup IF ram.phase = "off" /\ ram.why # "sleep" THEN {} ELSE OfRows(rtc.buf)

BootInv == BootTypes /\ Survives

\* A buffer that is full holds a row.
BatchSize == LogBatch \in Nat \ {0}

\* The pulses of rows put one after the other, and of one row more.
LEMMA OfRowsJoined ==
    ASSUME NEW q \in Seq(Pulses), NEW s \in Seq(Pulses)
    PROVE  q \o s \in Seq(Pulses) /\ OfRows(q) \subseteq OfRows(q \o s) /\ OfRows(s) \subseteq OfRows(q \o s)
<1>1. PICK m \in Nat, n \in Nat : m = Len(q) /\ n = Len(s)
    OBVIOUS
<1>. DEFINE j == q \o s
<1>2. /\ j \in Seq(Pulses) /\ DOMAIN j = 1..(m + n) /\ DOMAIN q = 1..m /\ DOMAIN s = 1..n
      /\ \A i \in 1..m : j[i] = q[i]
      /\ \A i \in 1..n : j[m + i] = s[i]
    BY <1>1
<1>. HIDE DEF j
<1>3. \A i \in DOMAIN q : i \in DOMAIN j /\ j[i] = q[i]
    BY <1>1, <1>2
<1>4. ASSUME NEW i \in DOMAIN s PROVE m + i \in DOMAIN j /\ j[m + i] = s[i]
  <2>1. i \in 1..n
      BY <1>2
  <2>2. m + i \in 1..(m + n)
      BY <1>1, <2>1
  <2>. QED BY <1>2, <2>1, <2>2
<1>5. OfRows(q) \subseteq OfRows(j) /\ OfRows(s) \subseteq OfRows(j)
    BY <1>3, <1>4 DEF OfRows, Booting!Rows
<1>. QED BY <1>2, <1>5 DEF j

LEMMA OfRowsAppended ==
    ASSUME NEW q \in Seq(Pulses), NEW x \in Pulses
    PROVE  /\ Append(q, x) \in Seq(Pulses)
           /\ OfRows(q) \subseteq OfRows(Append(q, x)) /\ x \subseteq OfRows(Append(q, x))
<1>1. PICK m \in Nat : m = Len(q)
    OBVIOUS
<1>. DEFINE j == Append(q, x)
<1>2. /\ j \in Seq(Pulses) /\ DOMAIN j = 1..(m + 1) /\ DOMAIN q = 1..m
      /\ \A i \in 1..m : j[i] = q[i]
      /\ j[m + 1] = x
    BY <1>1
<1>. HIDE DEF j
<1>3. /\ \A i \in DOMAIN q : i \in DOMAIN j /\ j[i] = q[i]
      /\ m + 1 \in DOMAIN j
    BY <1>1, <1>2
<1>4. OfRows(q) \subseteq OfRows(j) /\ x \subseteq OfRows(j)
    BY <1>2, <1>3 DEF OfRows, Booting!Rows
<1>. QED BY <1>2, <1>4 DEF j

\* The oldest row and the rest.
LEMMA OfRowsTail ==
    ASSUME NEW q \in Seq(Pulses), q # <<>>
    PROVE  Tail(q) \in Seq(Pulses) /\ OfRows(q) \subseteq Head(q) \cup OfRows(Tail(q))
<1>1. PICK m \in Nat : m = Len(q) /\ m > 0
    OBVIOUS
<1>. DEFINE j == Tail(q)
<1>2. /\ j \in Seq(Pulses) /\ DOMAIN j = 1..(m - 1) /\ DOMAIN q = 1..m
      /\ \A i \in 1..(m - 1) : j[i] = q[i + 1]
      /\ Head(q) = q[1]
    BY <1>1
<1>. HIDE DEF j
<1>3. \A i \in DOMAIN q : i = 1 \/ (i - 1 \in DOMAIN j /\ j[i - 1] = q[i])
    BY <1>1, <1>2
<1>4. OfRows(q) \subseteq Head(q) \cup OfRows(j)
    BY <1>2, <1>3 DEF OfRows, Booting!Rows
<1>. QED BY <1>2, <1>4 DEF j

\* A write takes the first rows: what it wrote and what it kept is all there was
\* (flushLogBufferToFS()).
LEMMA WrittenOrKept ==
    ASSUME NEW q \in Seq(Pulses), NEW n \in Nat
    PROVE  /\ Booting!KeepsUnwritten(q, n) \in Seq(Pulses)
           /\ n <= Len(q) => /\ SubSeq(q, 1, n) \in Seq(Pulses)
                             /\ OfRows(q) \subseteq OfRows(SubSeq(q, 1, n)) \cup OfRows(Booting!KeepsUnwritten(q, n))
<1>1. PICK m \in Nat : m = Len(q) /\ DOMAIN q = 1..m
    OBVIOUS
<1>. DEFINE j == SubSeq(q, 1, n)
            k == Booting!KeepsUnwritten(q, n)
<1>2. CASE n >= m
  <2>1. k = <<>> /\ k \in Seq(Pulses)
      BY <1>1, <1>2 DEF Booting!KeepsUnwritten
  <2>2. n <= m => j = q
      BY <1>1, <1>2
  <2>. QED BY <1>1, <2>1, <2>2
<1>3. CASE ~(n >= m)
  <2>1. k = SubSeq(q, n + 1, m)
      BY <1>1, <1>3 DEF Booting!KeepsUnwritten
  <2>2. k \in Seq(Pulses) /\ DOMAIN k = 1..(m - n) /\ \A i \in 1..(m - n) : k[i] = q[n + i]
      BY <1>1, <1>3, <2>1
  <2>3. j \in Seq(Pulses) /\ DOMAIN j = 1..n /\ \A i \in 1..n : j[i] = q[i]
      BY <1>1, <1>3
  <2>. HIDE DEF j, k
  <2>4. \A i \in DOMAIN q : (i \in DOMAIN j /\ j[i] = q[i]) \/ (i - n \in DOMAIN k /\ k[i - n] = q[i])
      BY <1>1, <1>3, <2>2, <2>3
  <2>5. OfRows(q) \subseteq OfRows(j) \cup OfRows(k)
      BY <2>4 DEF OfRows, Booting!Rows
  <2>. QED BY <2>2, <2>3, <2>5 DEF j, k
<1>. QED BY <1>2, <1>3

\* Rows formatted from the front of the buffer are those the write takes out.
LEMMA FrontIsWritten ==
    ASSUME NEW lines \in Seq(Pulses), NEW buf \in Seq(Pulses), Booting!AtFront(lines, buf), NEW n \in 0..Len(lines)
    PROVE  n <= Len(buf) /\ SubSeq(lines, 1, n) = SubSeq(buf, 1, n)
<1>0. Len(lines) <= Len(buf) /\ SubSeq(buf, 1, Len(lines)) = lines
    BY Zenon DEF Booting!AtFront
<1>. DEFINE m == Len(lines)
            l == Len(buf)
<1>1. m \in Nat /\ l \in Nat /\ m = Len(lines) /\ l = Len(buf) /\ m <= l
    BY <1>0
<1>2. n \in Nat /\ n <= m
    BY <1>1
<1>3. lines = SubSeq(buf, 1, m)
    BY <1>0, Zenon
<1>. HIDE DEF m, l
<1>4. \A i \in 1..m : SubSeq(buf, 1, m)[i] = buf[i]
    BY <1>1
<1>5. \A i \in 1..n : lines[i] = buf[i]
    BY <1>1, <1>2, <1>3, <1>4
<1>6. /\ SubSeq(lines, 1, n) = [i \in 1..n |-> lines[i]]
      /\ SubSeq(buf, 1, n) = [i \in 1..n |-> buf[i]]
    BY <1>1, <1>2
<1>7. SubSeq(lines, 1, n) = SubSeq(buf, 1, n)
    BY <1>5, <1>6
<1>. QED BY <1>1, <1>2, <1>7
\* At first nothing was captured.
LEMMA BootStarts == Booting!BootInit => BootInv
<1>. SUFFICES ASSUME Booting!BootInit PROVE BootInv
    OBVIOUS
<1>. USE DEF Booting!BootInit
<1>1. BootTypes
    BY DEF BootTypes, Booting!FreshRtc, Booting!OffRam, Booting!Idle, Pulses
<1>2. Survives
    BY DEF Survives
<1>. QED BY <1>1, <1>2 DEF BootInv

\* A step that neither adds nor takes rows, of a device that stays on.
LEMMA QuietKeeps ==
    ASSUME BootInv,
           DOMAIN flash' = DOMAIN flash, DOMAIN rtc' = DOMAIN rtc, DOMAIN ram' = DOMAIN ram,
           DOMAIN cyc' = DOMAIN cyc, DOMAIN past' = DOMAIN past,
           flash'.log = flash.log, rtc'.buf = rtc.buf,
           past'.captured = past.captured, past'.excused = past.excused, past'.flows \in Nat,
           cyc'.pulses \in Pulses, cyc'.lines \in Seq(Pulses), cyc'.web \in Seq(Pulses),
           ram' = ram \/ ram'.phase # "off"
    PROVE  BootInv'
<1>1. BootTypes'
    BY DEF BootInv, BootTypes
<1>2. Survives'
    BY DEF BootInv, Survives
<1>. QED BY <1>1, <1>2 DEF BootInv

\* Every way into a reset excuses the pulses of the run and, but for deep sleep,
\* the buffer.
LEMMA ResetsKeep ==
    ASSUME BootInv, NEW why, NEW wake, Booting!Reset(why, wake),
           DOMAIN flash' = DOMAIN flash, DOMAIN rtc' = DOMAIN rtc,
           flash'.log = flash.log, rtc'.buf = rtc.buf
    PROVE  BootInv'
<1>1. /\ DOMAIN past' = DOMAIN past /\ past'.captured = past.captured /\ past'.flows = past.flows
      /\ past.excused \subseteq past'.excused
      /\ why # "sleep" => OfRows(rtc.buf) \subseteq past'.excused
    BY DEF Booting!Reset, BootInv, BootTypes, OfRows
<1>2. /\ DOMAIN ram' = DOMAIN ram /\ ram'.phase = "off" /\ ram'.why = why
      /\ DOMAIN cyc' = DOMAIN cyc /\ cyc'.pulses = {} /\ cyc'.lines = <<>> /\ cyc'.web = <<>>
    BY DEF Booting!Reset, Booting!OffRam, Booting!Idle, BootInv, BootTypes
<1>3. BootTypes'
    BY <1>1, <1>2 DEF BootInv, BootTypes, Pulses
<1>4. Survives'
    BY <1>1, <1>2 DEF BootInv, Survives
<1>. QED BY <1>3, <1>4 DEF BootInv

\* setup() after a wake finds the buffer as it was; after another reset it is
\* empty, and was excused.
LEMMA SetupKeeps == ASSUME BootInv, Booting!Boot PROVE BootInv'
<1>0. BootTypes /\ Survives /\ UNCHANGED <<cyc, past>> /\ ram.phase = "off"
    BY DEF Booting!Boot, BootInv
<1>1. PICK mounted \in BOOLEAN :
        LET f == IF life.guard THEN Booting!Bootloader(flash) ELSE flash
            r == Booting!CountBoot(Booting!Breaker(Booting!RtcAfter(ram.why), ram.why), f) IN
        /\ flash' = [f EXCEPT !.boots = r.boots]
        /\ rtc' = r
        /\ DOMAIN ram' = DOMAIN ram /\ ram'.phase = "setup"
    BY <1>0 DEF Booting!Boot, BootTypes
<1>2. DOMAIN flash' = DOMAIN flash /\ flash'.log = flash.log
    BY <1>0, <1>1 DEF Booting!Bootloader, BootTypes
<1>3. /\ DOMAIN rtc' = DOMAIN rtc
      /\ rtc'.buf = IF ram.why = "sleep" THEN rtc.buf ELSE <<>>
    BY <1>0, <1>1 DEF Booting!CountBoot, Booting!Breaker, Booting!RtcAfter, Booting!FreshRtc, BootTypes
<1>4. BootTypes'
  <2>1. rtc'.buf \in Seq(Pulses)
      BY <1>0, <1>3 DEF BootTypes
  <2>2. DOMAIN ram' = DOMAIN ram
      BY <1>1
  <2>. QED BY <1>0, <1>2, <1>3, <2>1, <2>2 DEF BootTypes
<1>5. Survives'
    BY <1>0, <1>1, <1>2, <1>3 DEF Survives
<1>. QED BY <1>4, <1>5 DEF BootInv

\* The flush under the lock: rows that are no longer those at the front of the
\* buffer were written by another flush, and both have their excuse.
LEMMA FlushKeepsRows ==
    ASSUME BootInv, NEW lines \in Seq(Pulses), Booting!FlushEnds(lines), ram' = ram,
           DOMAIN cyc' = DOMAIN cyc, cyc'.pulses \in Pulses, cyc'.lines \in Seq(Pulses), cyc'.web \in Seq(Pulses),
           ram.phase # "off"
    PROVE  BootInv'
<1>0. BootTypes /\ Survives
    BY DEF BootInv
<1>1. PICK n \in 0..Len(lines) : Booting!Append1(lines, n)
    BY DEF Booting!FlushEnds, Booting!Written
<1>. DEFINE new == SubSeq(lines, 1, n)
<1>2. n \in Nat /\ n <= Len(lines) /\ new \in Seq(Pulses)
    BY <1>1, WrittenOrKept
<1>3. DOMAIN flash' = DOMAIN flash /\ flash'.log = flash.log \o new
    BY <1>0, <1>1 DEF Booting!Append1, BootTypes
<1>4. /\ DOMAIN rtc' = DOMAIN rtc
      /\ rtc'.buf = IF n = 0 THEN rtc.buf ELSE Booting!KeepsUnwritten(rtc.buf, n)
    BY <1>0, <1>1 DEF Booting!Append1, BootTypes
<1>5. /\ DOMAIN past' = DOMAIN past /\ past'.captured = past.captured /\ past'.flows = past.flows
      /\ past.excused \subseteq past'.excused
      /\ ~Booting!AtFront(lines, rtc.buf) => OfRows(rtc.buf) \subseteq past'.excused
    BY <1>0, <1>1 DEF Booting!Append1, BootTypes, OfRows
<1>6. /\ flash'.log \in Seq(Pulses)
      /\ OfRows(flash.log) \subseteq OfRows(flash'.log) /\ OfRows(new) \subseteq OfRows(flash'.log)
  <2>. HIDE DEF new
  <2>. QED BY <1>0, <1>2, <1>3, OfRowsJoined DEF BootTypes
<1>7. rtc'.buf \in Seq(Pulses)
    BY <1>0, <1>2, <1>4, WrittenOrKept DEF BootTypes
<1>8. OfRows(rtc.buf) \subseteq OfRows(flash'.log) \cup OfRows(rtc'.buf) \cup past'.excused
  <2>1. CASE ~Booting!AtFront(lines, rtc.buf)
      BY <1>5, <2>1
  <2>2. CASE n = 0
      BY <1>4, <2>2
  <2>3. CASE Booting!AtFront(lines, rtc.buf) /\ n # 0
    <3>1. n <= Len(rtc.buf) /\ new = SubSeq(rtc.buf, 1, n)
        BY <1>0, <2>3, FrontIsWritten DEF BootTypes
    <3>2. OfRows(rtc.buf) \subseteq OfRows(new) \cup OfRows(Booting!KeepsUnwritten(rtc.buf, n))
        BY <1>0, <1>2, <3>1, WrittenOrKept DEF BootTypes
    <3>. QED BY <1>4, <1>6, <2>3, <3>2
  <2>. QED BY <2>1, <2>2, <2>3
<1>. HIDE DEF new
<1>9. BootTypes'
    BY <1>0, <1>3, <1>4, <1>5, <1>6, <1>7 DEF BootTypes
<1>10. Survives'
    BY <1>0, <1>5, <1>6, <1>8 DEF Survives
<1>. QED BY <1>9, <1>10 DEF BootInv

\* addLogEntry(): the row is in the buffer; what a full one dropped is excused.
LEMMA EntryKeeps == ASSUME BatchSize, BootInv, Booting!AddEntry PROVE BootInv'
<1>0. BootTypes /\ Survives /\ ram' = ram /\ flash' = flash /\ ram.phase = "loop"
    BY DEF Booting!AddEntry, Booting!Counting, BootInv
<1>. DEFINE full == Len(rtc.buf) >= LogBatch
            kept == IF full THEN Tail(rtc.buf) ELSE rtc.buf
<1>1. /\ rtc' = [rtc EXCEPT !.buf = Append(kept, cyc.pulses)]
      /\ past' = [past EXCEPT !.captured = @ \cup cyc.pulses,
                              !.excused = IF full THEN @ \cup Head(rtc.buf) ELSE @]
      /\ cyc' = [cyc EXCEPT !.st = "flush", !.pulses = {}, !.lines = Append(kept, cyc.pulses)]
    BY DEF Booting!AddEntry, Booting!Format
<1>2. rtc.buf \in Seq(Pulses) /\ cyc.pulses \in Pulses
    BY <1>0 DEF BootTypes
<1>3. full => rtc.buf # <<>>
    BY <1>2 DEF BatchSize
<1>4. kept \in Seq(Pulses) /\ OfRows(rtc.buf) \subseteq OfRows(kept) \cup IF full THEN Head(rtc.buf) ELSE {}
    BY <1>2, <1>3, OfRowsTail
<1>. HIDE DEF full, kept
<1>5. /\ Append(kept, cyc.pulses) \in Seq(Pulses)
      /\ OfRows(kept) \subseteq OfRows(Append(kept, cyc.pulses)) /\ cyc.pulses \subseteq OfRows(Append(kept, cyc.pulses))
    BY <1>2, <1>4, OfRowsAppended
<1>6. /\ DOMAIN rtc' = DOMAIN rtc /\ rtc'.buf = Append(kept, cyc.pulses)
      /\ DOMAIN cyc' = DOMAIN cyc /\ cyc'.pulses = {} /\ cyc'.lines = Append(kept, cyc.pulses) /\ cyc'.web = cyc.web
    BY <1>0, <1>1 DEF BootTypes
<1>7. /\ DOMAIN past' = DOMAIN past /\ past'.captured = past.captured \cup cyc.pulses /\ past'.flows = past.flows
      /\ past'.excused = past.excused \cup IF full THEN Head(rtc.buf) ELSE {}
    BY <1>0, <1>1 DEF BootTypes
<1>8. BootTypes'
    BY <1>0, <1>5, <1>6, <1>7 DEF BootTypes, Pulses
<1>9. Survives'
    BY <1>0, <1>4, <1>5, <1>6, <1>7 DEF Survives
<1>. QED BY <1>8, <1>9 DEF BootInv

\* A restart that was asked for: what the last flush did not write is excused.
LEMMA RestartKeeps == ASSUME BootInv, Booting!Restart PROVE BootInv'
<1>0. BootTypes /\ Survives /\ ram.phase # "off"
    BY DEF Booting!Restart, BootInv
<1>1. PICK n \in Booting!Written(rtc.buf) :
        /\ flash' = [flash EXCEPT !.log = @ \o SubSeq(rtc.buf, 1, n)]
        /\ rtc' = [rtc EXCEPT !.magic = FALSE, !.buf = Booting!KeepsUnwritten(rtc.buf, n)]
        /\ ram' = Booting!OffRam("restart", "PWR_ON") /\ cyc' = Booting!Idle
        /\ past' = [past EXCEPT !.crashes = 0,
                      !.excused = @ \cup Booting!Rows(Booting!KeepsUnwritten(rtc.buf, n)) \cup cyc.pulses]
    BY DEF Booting!Restart
<1>. DEFINE new  == SubSeq(rtc.buf, 1, n)
            kept == Booting!KeepsUnwritten(rtc.buf, n)
<1>2. rtc.buf \in Seq(Pulses) /\ n \in Nat /\ n <= Len(rtc.buf)
  <2>1. rtc.buf \in Seq(Pulses)
      BY <1>0 DEF BootTypes
  <2>2. n \in 0..Len(rtc.buf)
      BY <1>1, <2>1 DEF Booting!Written
  <2>. QED BY <2>1, <2>2
<1>3. new \in Seq(Pulses) /\ kept \in Seq(Pulses) /\ OfRows(rtc.buf) \subseteq OfRows(new) \cup OfRows(kept)
    BY <1>2, WrittenOrKept
<1>. HIDE DEF new
<1>4. /\ DOMAIN flash' = DOMAIN flash /\ flash'.log = flash.log \o new
      /\ DOMAIN rtc' = DOMAIN rtc /\ rtc'.buf = kept
    BY <1>0, <1>1 DEF BootTypes, new
<1>5. /\ DOMAIN past' = DOMAIN past /\ past'.captured = past.captured /\ past'.flows = past.flows
      /\ past.excused \subseteq past'.excused /\ OfRows(kept) \subseteq past'.excused
    BY <1>0, <1>1 DEF BootTypes, OfRows
<1>. HIDE DEF kept
<1>6. /\ flash'.log \in Seq(Pulses)
      /\ OfRows(flash.log) \subseteq OfRows(flash'.log) /\ OfRows(new) \subseteq OfRows(flash'.log)
    BY <1>0, <1>3, <1>4, OfRowsJoined DEF BootTypes
<1>7. BootTypes'
    BY <1>0, <1>1, <1>3, <1>4, <1>5, <1>6 DEF BootTypes, Booting!OffRam, Booting!Idle, Pulses
<1>8. Survives'
  <2>1. past.captured \subseteq OfRows(flash.log) \cup past.excused \cup OfRows(rtc.buf)
      BY <1>0 DEF Survives
  <2>2. past'.captured \subseteq OfRows(flash'.log) \cup past'.excused
      BY <1>3, <1>5, <1>6, <2>1
  <2>. QED BY <2>2 DEF Survives
<1>. QED BY <1>7, <1>8 DEF BootInv

LEMMA BootStep ==
    ASSUME BatchSize, BootInv, [Booting!BootNext]_Booting!bootVars
    PROVE  BootInv'
<1>0. BootTypes
    BY DEF BootInv
<1>1. CASE Booting!Boot
    BY <1>1, SetupKeeps
<1>2. CASE Booting!SetupDone
    BY <1>0, <1>2, QuietKeeps DEF Booting!SetupDone, BootTypes
<1>3. CASE Booting!Crash
    BY <1>3, ResetsKeep DEF Booting!Crash
<1>4. CASE Booting!PowerCut
    BY <1>4, ResetsKeep DEF Booting!PowerCut
<1>5. CASE Booting!Grow
    BY <1>0, <1>5, QuietKeeps DEF Booting!Grow, BootTypes
<1>6. CASE Booting!WebUpdate
    BY <1>0, <1>6, QuietKeeps DEF Booting!WebUpdate, BootTypes
<1>7. CASE Booting!WebConfirm
    BY <1>0, <1>7, QuietKeeps DEF Booting!WebConfirm, BootTypes
<1>8. CASE Booting!WebRollback
    BY <1>0, <1>8, QuietKeeps DEF Booting!WebRollback, BootTypes
<1>9. CASE Booting!Rollback
  <2>1. /\ ram.phase = "loop" /\ DOMAIN rtc' = DOMAIN rtc /\ rtc'.buf = rtc.buf
        /\ DOMAIN flash' = DOMAIN flash /\ flash'.log = flash.log
      BY <1>0, <1>9 DEF Booting!Rollback, BootTypes
  <2>2. CASE Booting!Reset("restart", "PWR_ON")
      BY <2>1, <2>2, ResetsKeep
  <2>3. CASE ram' = [ram EXCEPT !.undo = FALSE, !.asked = TRUE] /\ UNCHANGED <<cyc, past>>
      BY <1>0, <2>1, <2>3, QuietKeeps DEF BootTypes
  <2>. QED BY <1>9, <2>2, <2>3 DEF Booting!Rollback
<1>10. CASE Booting!Pulse
  <2>1. /\ UNCHANGED <<flash, rtc, ram>> /\ past' = [past EXCEPT !.flows = @ + 1]
        /\ cyc' = [cyc EXCEPT !.pulses = @ \cup {past.flows + 1}]
      BY <1>10 DEF Booting!Pulse
  <2>2. cyc.pulses \cup {past.flows + 1} \in Pulses
      BY <1>0 DEF BootTypes, Pulses
  <2>. QED BY <1>0, <2>1, <2>2, QuietKeeps DEF BootTypes
<1>11. CASE Booting!Press
    BY <1>0, <1>11, QuietKeeps DEF Booting!Press, BootTypes
<1>12. CASE Booting!Watch
    BY <1>0, <1>12, QuietKeeps DEF Booting!Watch, BootTypes
<1>13. CASE Booting!Done
    BY <1>0, <1>13, QuietKeeps DEF Booting!Done, Booting!Format, BootTypes
<1>14. CASE Booting!MakeRoom \/ Booting!LoopFlush
  <2>1. /\ Booting!FlushEnds(cyc.lines) /\ ram' = ram /\ ram.phase # "off"
        /\ \E st \in {"add", "over"} : cyc' = [cyc EXCEPT !.st = st, !.lines = <<>>]
      BY <1>14 DEF Booting!MakeRoom, Booting!LoopFlush, Booting!Counting
  <2>2. /\ cyc.lines \in Seq(Pulses) /\ DOMAIN cyc' = DOMAIN cyc
        /\ cyc'.pulses \in Pulses /\ cyc'.lines \in Seq(Pulses) /\ cyc'.web \in Seq(Pulses)
      BY <1>0, <2>1 DEF BootTypes
  <2>. QED BY <2>1, <2>2, FlushKeepsRows
<1>15. CASE Booting!AddEntry
    BY <1>15, EntryKeeps
<1>16. CASE Booting!WebFlushBegin
    BY <1>0, <1>16, QuietKeeps DEF Booting!WebFlushBegin, Booting!Format, BootTypes
<1>17. CASE Booting!WebFlushEnd
  <2>1. /\ Booting!FlushEnds(cyc.web) /\ ram' = ram /\ ram.phase # "off"
        /\ cyc' = [cyc EXCEPT !.web = <<>>]
      BY <1>17 DEF Booting!WebFlushEnd
  <2>2. /\ cyc.web \in Seq(Pulses) /\ DOMAIN cyc' = DOMAIN cyc
        /\ cyc'.pulses \in Pulses /\ cyc'.lines \in Seq(Pulses) /\ cyc'.web \in Seq(Pulses)
      BY <1>0, <2>1 DEF BootTypes
  <2>. QED BY <2>1, <2>2, FlushKeepsRows
<1>18. CASE Booting!RunOver
  <2>1. CASE ram.online
      BY <1>0, <1>18, <2>1, QuietKeeps DEF Booting!RunOver, BootTypes
  <2>2. CASE ~ram.online
      BY <1>18, <2>2, ResetsKeep DEF Booting!RunOver, Booting!Sleep
  <2>. QED BY <2>1, <2>2
<1>19. CASE Booting!Ask
    BY <1>0, <1>19, QuietKeeps DEF Booting!Ask, Booting!On, BootTypes
<1>20. CASE Booting!Restart
    BY <1>20, RestartKeeps
<1>21. CASE Booting!GoToSleep
    BY <1>21, ResetsKeep DEF Booting!GoToSleep, Booting!Sleep
<1>22. CASE UNCHANGED Booting!bootVars
    BY <1>22, <1>0, QuietKeeps DEF Booting!bootVars, BootTypes
<1>. QED BY <1>1, <1>2, <1>3, <1>4, <1>5, <1>6, <1>7, <1>8, <1>9, <1>10, <1>11, <1>12, <1>13, <1>14, <1>15,
            <1>16, <1>17, <1>18, <1>19, <1>20, <1>21, <1>22 DEF Booting!BootNext

\* For any devices, batch sizes, runs of water and resets: what was drawn is in
\* the log, in the buffer or excused, though loop() and the web server's task
\* write the same buffer (addLogEntry(), flushLogBufferToFS()).
THEOREM NoRowLost ==
    ASSUME BatchSize
    PROVE  Spec => []RowsKept
<1>. DEFINE Safe == part = "boot" => BootInv
<1>1. Safe => RowsKept
  <2>. SUFFICES ASSUME Survives PROVE Booting!RowsKept
      BY DEF BootInv, RowsKept
  <2>1. past.captured \subseteq OfRows(flash.log) \cup past.excused \cup OfRows(rtc.buf)
      BY DEF Survives
  <2>. QED BY <2>1 DEF OfRows, Booting!RowsKept
<1>2. Init => Safe
    BY BootStarts DEF Init
<1>3. Safe /\ [Next]_vars => Safe'
    BY PartsMoveAlone, BootStep
<1>. QED BY <1>1, <1>2, <1>3, PTL DEF Spec

-----------------------------------------------------------------------------
(* NodeDocs: no secret is lost or brought back.                            *)

\* The secrets that go between node and collector; the key of the radio does not.
Travels == Documents!Travelling(node.cfg)

\* The collector's file for the node.
FileFields == {"held", "desired", "rev", "applied", "told", "status", "known", "dirty"}
FileType ==
    /\ DOMAIN shelf = FileFields /\ shelf.held = TRUE
    /\ DOMAIN shelf.desired = ConfigFields
    /\ shelf.desired.espnow = node.cfg.espnow
    /\ DOMAIN shelf.desired.secret = DOMAIN may
    /\ shelf.dirty \subseteq Travels

DocTypes ==
    /\ DOMAIN node = {"cfg", "reported", "err", "rejected"}
    /\ DOMAIN node.cfg = ConfigFields
    /\ node.cfg.espnow \in BOOLEAN /\ node.cfg.local \in BOOLEAN
    /\ DOMAIN node.cfg.secret = DOMAIN may
    /\ Documents!SecretsOf(node.cfg.espnow) = DOMAIN may
    /\ shelf = Documents!NoFile \/ FileType
    /\ DOMAIN base = {"portal", "page"}
    /\ base["page"] # Documents!Unread => DOMAIN base["page"].secret = Travels

\* What the collector has changed and would send is still wanted - unless the
\* node was changed on its own page, for then its report comes first and what
\* the collector changed is given up.
ChangesWanted ==
    shelf.held /\ ~node.cfg.local => \A s \in shelf.dirty : shelf.desired.secret[s] \in may[s]

DocInv == DocTypes /\ ChangesWanted /\ Documents!SecretsKept

LEMMA DocsBegin == Documents!DocsInit => DocInv
<1>. SUFFICES ASSUME Documents!DocsInit PROVE DocInv
    OBVIOUS
<1>1. PICK n \in Nodes : \E c \in Documents!FirstConfigs(n) : node = Documents!Init1(c)
    BY DEF Documents!DocsInit
<1>2. PICK c \in Documents!FirstConfigs(n) : node = Documents!Init1(c)
    BY <1>1
<1>3. /\ DOMAIN c = ConfigFields /\ c.espnow = n.espnow /\ c.local \in BOOLEAN
      /\ DOMAIN c.secret = DOMAIN n.secret
  <2>. DEFINE new == Documents!seedDefaults(n)
  <2>1. /\ DOMAIN new = ConfigFields /\ new.espnow = n.espnow /\ new.local = n.local
        /\ new.secret = n.secret
      BY DocumentsAssumption DEF Documents!seedDefaults, ConfigFields
  <2>. HIDE DEF new
  <2>2. CASE c = new
      BY <2>1, <2>2, DocumentsAssumption
  <2>3. ASSUME NEW old \in Legacy, c = Documents!MigrateLegacy(old, new)
        PROVE  DOMAIN c = ConfigFields /\ c.espnow = n.espnow /\ c.local = FALSE /\ DOMAIN c.secret = DOMAIN n.secret
      BY <2>1, <2>3 DEF Documents!MigrateLegacy, ConfigFields
  <2>. QED BY <2>2, <2>3 DEF Documents!FirstConfigs, new
<1>4. /\ DOMAIN node = {"cfg", "reported", "err", "rejected"} /\ node.cfg = c
      /\ shelf = Documents!NoFile /\ ~shelf.held
      /\ DOMAIN base = {"portal", "page"} /\ base["page"] = Documents!Unread
      /\ may = [s \in DOMAIN c.secret |-> {c.secret[s]}]
    BY <1>2 DEF Documents!DocsInit, Documents!Init1, Documents!NoFile
<1>5. DocTypes
    BY <1>3, <1>4, DocumentsAssumption DEF DocTypes
<1>. QED BY <1>4, <1>5 DEF DocInv, ChangesWanted, Documents!SecretsKept

\* Reading a document over a configuration keeps what it is a record of.
LEMMA DecodeShape ==
    ASSUME NEW d, NEW c, DOMAIN c = ConfigFields
    PROVE  /\ DOMAIN Documents!Decode(d, c) = ConfigFields
           /\ Documents!Decode(d, c).espnow = c.espnow
           /\ Documents!Decode(d, c).local = c.local
           /\ Documents!Decode(d, c).rev = c.rev
           /\ DOMAIN Documents!Decode(d, c).secret = DOMAIN c.secret
           /\ \A s \in DOMAIN c.secret :
                 Documents!Decode(d, c).secret[s] = Documents!DecodeSecret(d, s, c.secret[s])
BY Zenon DEF Documents!Decode, ConfigFields

\* What the node gets for its secrets: the collector's value of each that was
\* changed there and travels, and its own of every other (secretsForNode(),
\* readSecret()).
LEMMA OnlyChangesTravel ==
    ASSUME NEW f, NEW c, DOMAIN c = ConfigFields
    PROVE  \A s \in DOMAIN c.secret :
              Documents!Decode(Documents!ForNode(f), c).secret[s]
                = IF s \in Documents!Travelling(f.desired) /\ s \in f.dirty
                  THEN f.desired.secret[s] ELSE c.secret[s]
<1>. DEFINE all == Documents!Travelling(f.desired)
            d   == Documents!ForNode(f)
<1>. SUFFICES ASSUME NEW s \in DOMAIN c.secret
              PROVE  Documents!Decode(d, c).secret[s]
                       = IF s \in all /\ s \in f.dirty THEN f.desired.secret[s] ELSE c.secret[s]
    OBVIOUS
<1>0. Documents!Decode(d, c).secret[s] = Documents!DecodeSecret(d, s, c.secret[s])
    BY DecodeShape
<1>1. /\ d.secret = [k \in all |-> IF k \in f.dirty THEN f.desired.secret[k] ELSE ""]
      /\ d.set = [k \in all |-> k \in f.dirty => f.desired.secret[k] # ""]
    BY DEF Documents!ForNode, Documents!Encode
<1>. HIDE DEF d, all
<1>2. CASE s \notin all
    BY <1>0, <1>1, <1>2 DEF Documents!DecodeSecret
<1>3. CASE s \in all /\ s \in f.dirty
  <2>1. d.secret[s] = f.desired.secret[s] /\ d.set[s] = (f.desired.secret[s] # "")
      BY <1>1, <1>3
  <2>. QED BY <1>0, <1>1, <1>3, <2>1 DEF Documents!DecodeSecret
<1>4. CASE s \in all /\ s \notin f.dirty
  <2>1. d.secret[s] = "" /\ d.set[s] = TRUE
      BY <1>1, <1>4
  <2>. QED BY <1>0, <1>1, <1>4, <2>1 DEF Documents!DecodeSecret
<1>. QED BY <1>2, <1>3, <1>4

\* A new revision of a file changes nothing but numbers.
LEMMA BumpShape ==
    ASSUME NEW f, DOMAIN f = FileFields, DOMAIN f.desired = ConfigFields
    PROVE  /\ DOMAIN Documents!Bump(f) = FileFields
           /\ Documents!Bump(f).held = f.held
           /\ Documents!Bump(f).dirty = f.dirty
           /\ DOMAIN Documents!Bump(f).desired = ConfigFields
           /\ Documents!Bump(f).desired.espnow = f.desired.espnow
           /\ Documents!Bump(f).desired.secret = f.desired.secret
BY DEF Documents!Bump, FileFields, ConfigFields

\* Neither what the node runs nor what it refused changes what the collector
\* wants of it, and neither makes a secret one that is still to be sent.
LEMMA RunsShape ==
    ASSUME NEW f, NEW rev, DOMAIN f = FileFields
    PROVE  LET g == Documents!Runs(Documents!Refused(f), rev) IN
           /\ DOMAIN g = FileFields /\ g.held = f.held
           /\ g.desired = f.desired /\ g.dirty \subseteq f.dirty
<1>. DEFINE r == Documents!Refused(f)
<1>1. DOMAIN r = FileFields /\ r.held = f.held /\ r.desired = f.desired /\ r.dirty = f.dirty
    BY DEF Documents!Refused, FileFields
<1>. HIDE DEF r
<1>2. DEFINE g == Documents!Runs(r, rev)
<1>3. DOMAIN g = DOMAIN r /\ g.held = r.held /\ g.desired = r.desired
    BY <1>1 DEF Documents!Runs, FileFields
<1>4. g.dirty = IF Documents!revAtOrPast(rev, r.rev) THEN {} ELSE r.dirty
    BY <1>1 DEF Documents!Runs, FileFields
<1>. HIDE DEF g
<1>5. g.dirty \subseteq f.dirty
    BY <1>1, <1>4
<1>6. DOMAIN g = FileFields /\ g.held = f.held /\ g.desired = f.desired /\ g.dirty \subseteq f.dirty
    BY <1>1, <1>3, <1>5
<1>. QED BY <1>6 DEF g, r

\* A report adopted leaves nothing to be sent.
LEMMA AdoptedShape ==
    ASSUME DocTypes, NEW rep, NEW plan
    PROVE  LET g == Documents!Adopted(rep, plan) IN
           /\ DOMAIN g = FileFields /\ g.held = TRUE
           /\ DOMAIN g.desired = ConfigFields
           /\ g.desired.espnow = node.cfg.espnow
           /\ DOMAIN g.desired.secret = DOMAIN may
           /\ g.dirty = {}
<1>. DEFINE over    == IF shelf.held THEN shelf.desired ELSE Documents!Blank(node.cfg)
            desired == [Documents!Decode(rep, over) EXCEPT !.rev = plan.rev, !.local = FALSE]
            applied == IF node.cfg.espnow /\ ~node.cfg.local THEN node.cfg.rev ELSE plan.applied
            f       == [held |-> TRUE, desired |-> desired, rev |-> plan.rev, applied |-> applied,
                        told |-> Documents!Noted(IF shelf.held THEN shelf.told ELSE 0, plan.applied),
                        status |-> Documents!statusAfterApplied("pending", plan.rev, applied),
                        known |-> {s \in DOMAIN rep.set : rep.set[s]}, dirty |-> {}]
            named   == [f.desired EXCEPT !.fields["name"] = docTable.name,
                                         !.fields["interval_s"] = docTable.interval_s]
<1>1. DOMAIN over = ConfigFields /\ over.espnow = node.cfg.espnow /\ DOMAIN over.secret = DOMAIN may
  <2>1. CASE shelf = Documents!NoFile
    <3>1. over = Documents!Blank(node.cfg)
        BY <2>1 DEF Documents!NoFile
    <3>2. DOMAIN Documents!Blank(node.cfg) = ConfigFields /\ Documents!Blank(node.cfg).espnow = node.cfg.espnow
          /\ Documents!Blank(node.cfg).secret = [s \in DOMAIN node.cfg.secret |-> ""]
        BY DEF DocTypes, Documents!Blank, ConfigFields
    <3>. QED BY <3>1, <3>2 DEF DocTypes
  <2>2. CASE FileType
      BY <2>2 DEF FileType
  <2>. QED BY <2>1, <2>2 DEF DocTypes
<1>. HIDE DEF over
<1>2. /\ DOMAIN Documents!Decode(rep, over) = ConfigFields
      /\ Documents!Decode(rep, over).espnow = over.espnow
      /\ DOMAIN Documents!Decode(rep, over).secret = DOMAIN over.secret
    BY <1>1, DecodeShape
<1>3. DOMAIN desired = ConfigFields /\ desired.espnow = node.cfg.espnow /\ DOMAIN desired.secret = DOMAIN may
    BY <1>1, <1>2 DEF ConfigFields
<1>. HIDE DEF desired, applied
<1>4. DOMAIN f = FileFields /\ f.held = TRUE /\ f.desired = desired /\ f.dirty = {}
    BY DEF FileFields
<1>. HIDE DEF f
<1>5. DOMAIN named = ConfigFields /\ named.espnow = desired.espnow /\ named.secret = desired.secret
    BY <1>3, <1>4 DEF ConfigFields
<1>6. DEFINE h == [f EXCEPT !.desired = named]
<1>7. DOMAIN h = FileFields /\ h.held = TRUE /\ h.desired = named /\ h.dirty = {}
    BY <1>4 DEF FileFields
<1>8. Documents!Identity(f) = f \/ Documents!Identity(f) = Documents!Bump(h)
    BY DEF Documents!Identity
<1>9. Documents!Adopted(rep, plan) \in {f, Documents!Bump(h)}
    BY <1>8 DEF Documents!Adopted, f, desired, applied, over
<1>. HIDE DEF h, named
<1>10. /\ DOMAIN Documents!Bump(h) = FileFields
       /\ Documents!Bump(h).held = TRUE /\ Documents!Bump(h).dirty = {}
       /\ DOMAIN Documents!Bump(h).desired = ConfigFields
       /\ Documents!Bump(h).desired.espnow = desired.espnow
       /\ Documents!Bump(h).desired.secret = desired.secret
    BY <1>5, <1>7, BumpShape
<1>. QED BY <1>3, <1>4, <1>9, <1>10

\* Each operation keeps DocInv: the pages opened, their forms saved, ...
LEMMA OpenKeeps ==
    ASSUME DocInv, Documents!OpenPortal \/ Documents!OpenPage
    PROVE  DocInv'
<1>1. UNCHANGED <<node, shelf, may>>
    BY DEF Documents!OpenPortal, Documents!OpenPage
<1>2. /\ DOMAIN base' = {"portal", "page"}
      /\ base'["page"] # Documents!Unread => DOMAIN base'["page"].secret = Travels
  <2>1. CASE Documents!OpenPortal
      BY <2>1 DEF Documents!OpenPortal, DocInv, DocTypes
  <2>2. CASE Documents!OpenPage
    <3>1. FileType
        BY <2>2 DEF Documents!OpenPage, DocInv, DocTypes, Documents!NoFile
    <3>2. base' = [base EXCEPT !["page"] =
             [Documents!Encode(shelf.desired, FALSE, Documents!Travelling(shelf.desired))
                EXCEPT !.set = [s \in DOMAIN @ |-> s \in shelf.known]]]
        BY <2>2 DEF Documents!OpenPage
    <3>3. Documents!Travelling(shelf.desired) = Travels
        BY <3>1 DEF FileType, Travels, Documents!Travelling
    <3>4. base'["page"].secret = Documents!Encode(shelf.desired, FALSE, Travels).secret
        BY <3>2, <3>3 DEF DocInv, DocTypes, Documents!Encode
    <3>5. DOMAIN base'["page"].secret = Travels
        BY <3>4 DEF Documents!Encode
    <3>. QED BY <3>2, <3>5 DEF DocInv, DocTypes
  <2>. QED BY <2>1, <2>2
<1>3. FileType => FileType'
    BY <1>1 DEF FileType, Travels
<1>4. Travels' = Travels
    BY <1>1 DEF Travels
<1>5. DocTypes'
    BY <1>1, <1>2, <1>3, <1>4 DEF DocInv, DocTypes
<1>. QED BY <1>1, <1>5 DEF DocInv, ChangesWanted, Documents!SecretsKept

\* The form of the node's own page: what it leaves is the one value wanted.
LEMMA PostPortalKeeps ==
    ASSUME DocInv, NEW ch, Documents!PostPortal(ch)
    PROVE  DocInv'
<1>. DEFINE d   == Documents!Payload(base["portal"], ch)
            new == [Documents!Decode(d, node.cfg) EXCEPT !.local = TRUE]
            ok  == Documents!Readable(d) /\ Documents!Validates(new)
<1>0. UNCHANGED <<shelf>> /\ DocTypes
    BY DEF Documents!PostPortal, DocInv
<1>1. CASE ~ok
  <2>1. UNCHANGED <<node, shelf, may, base>>
      BY <1>0, <1>1 DEF Documents!PostPortal
  <2>. QED BY <2>1 DEF DocInv, DocTypes, FileType, Travels, ChangesWanted, Documents!SecretsKept
<1>2. CASE ok
  <2>1. /\ node' = [node EXCEPT !.cfg = new, !.reported = FALSE, !.rejected = node.err]
        /\ may' = [s \in DOMAIN may |-> {new.secret[s]}]
        /\ base' = [base EXCEPT !["portal"] = Documents!Unread]
      BY <1>2 DEF Documents!PostPortal
  <2>2. /\ DOMAIN Documents!Decode(d, node.cfg) = ConfigFields
        /\ Documents!Decode(d, node.cfg).espnow = node.cfg.espnow
        /\ DOMAIN Documents!Decode(d, node.cfg).secret = DOMAIN node.cfg.secret
      BY <1>0, DecodeShape DEF DocTypes
  <2>3. /\ DOMAIN new = ConfigFields /\ new.espnow = node.cfg.espnow /\ new.local = TRUE
        /\ DOMAIN new.secret = DOMAIN may
      BY <1>0, <2>2 DEF DocTypes, ConfigFields
  <2>. HIDE DEF new
  <2>4. node'.cfg = new /\ DOMAIN node' = DOMAIN node
      BY <1>0, <2>1 DEF DocTypes
  <2>5. DOMAIN may' = DOMAIN may /\ \A s \in DOMAIN may : may'[s] = {new.secret[s]}
      BY <2>1
  <2>6. DOMAIN base' = DOMAIN base /\ base'["page"] = base["page"]
      BY <1>0, <2>1 DEF DocTypes
  <2>7. Travels' = Travels
      BY <2>3, <2>4 DEF Travels, Documents!Travelling
  <2>8. FileType => FileType'
      BY <1>0, <2>3, <2>4, <2>5, <2>7 DEF FileType
  <2>9. DocTypes'
      BY <1>0, <2>3, <2>4, <2>5, <2>6, <2>7, <2>8 DEF DocTypes
  <2>. QED BY <2>3, <2>4, <2>5, <2>9 DEF DocInv, ChangesWanted, Documents!SecretsKept
<1>. QED BY <1>1, <1>2

\* The form of the collector's page: what it changed is wanted from now on.
LEMMA PostPageKeeps ==
    ASSUME DocInv, NEW ch, Documents!PostPage(ch)
    PROVE  DocInv'
<1>. DEFINE d       == Documents!Partial(base["page"], ch)
            new     == Documents!Decode(d, shelf.desired)
            changed == Documents!Differ(shelf.desired, new)
            ok      == Documents!Readable(d) /\ Documents!Validates(new)
            f       == [shelf EXCEPT !.desired = new, !.dirty = @ \cup changed,
                                     !.known = (@ \ changed) \cup (Documents!Set(new) \cap changed)]
<1>0. /\ UNCHANGED node /\ DocTypes /\ FileType
      /\ base["page"] # Documents!Unread
    BY DEF Documents!PostPage, DocInv, DocTypes, Documents!NoFile
<1>1. CASE ~ok
  <2>1. UNCHANGED <<node, shelf, may, base>>
      BY <1>0, <1>1 DEF Documents!PostPage
  <2>. QED BY <2>1 DEF DocInv, DocTypes, FileType, Travels, ChangesWanted, Documents!SecretsKept
<1>2. CASE ok
  <2>1. /\ shelf' = Documents!Bump(f)
        /\ may' = [s \in DOMAIN may |-> IF s \in changed THEN may[s] \cup {new.secret[s]} ELSE may[s]]
        /\ base' = [base EXCEPT !["page"] = Documents!Unread]
      BY <1>2 DEF Documents!PostPage
  <2>2. /\ DOMAIN new = ConfigFields /\ new.espnow = node.cfg.espnow /\ DOMAIN new.secret = DOMAIN may
        /\ \A s \in DOMAIN may : new.secret[s] = Documents!DecodeSecret(d, s, shelf.desired.secret[s])
      BY <1>0, DecodeShape DEF FileType
  <2>3. DOMAIN d.secret \subseteq Travels
      BY <1>0 DEF Documents!Partial, DocTypes
  <2>. HIDE DEF d
  <2>4. \A s \in DOMAIN may : s \notin Travels => new.secret[s] = shelf.desired.secret[s]
      BY <2>2, <2>3 DEF Documents!DecodeSecret
  <2>. HIDE DEF new
  <2>5. /\ changed \subseteq DOMAIN may /\ changed \subseteq Travels
        /\ \A s \in DOMAIN may : s \notin changed => new.secret[s] = shelf.desired.secret[s]
      BY <1>0, <2>4 DEF Documents!Differ, FileType
  <2>. HIDE DEF changed
  <2>6. DOMAIN f = FileFields /\ f.held = TRUE /\ f.desired = new /\ f.dirty = shelf.dirty \cup changed
      BY <1>0 DEF FileType, FileFields
  <2>. HIDE DEF f
  <2>7. /\ DOMAIN shelf' = FileFields /\ shelf'.held = TRUE
        /\ DOMAIN shelf'.desired = ConfigFields /\ shelf'.desired.espnow = node.cfg.espnow
        /\ shelf'.desired.secret = new.secret /\ shelf'.dirty = shelf.dirty \cup changed
      BY <2>1, <2>2, <2>6, BumpShape
  <2>8. /\ DOMAIN may' = DOMAIN may
        /\ \A s \in DOMAIN may : may[s] \subseteq may'[s] /\ (s \in changed => new.secret[s] \in may'[s])
      BY <2>1
  <2>9. DOMAIN base' = DOMAIN base /\ base'["page"] = Documents!Unread
      BY <1>0, <2>1 DEF DocTypes
  <2>10. Travels' = Travels
      BY <1>0 DEF Travels
  <2>11. FileType'
      BY <1>0, <2>2, <2>5, <2>7, <2>8, <2>10 DEF FileType
  <2>12. DocTypes'
      BY <1>0, <2>8, <2>9, <2>10, <2>11 DEF DocTypes
  <2>13. ChangesWanted'
    <3>. SUFFICES ASSUME ~node.cfg.local, NEW s \in shelf.dirty \cup changed
                  PROVE  new.secret[s] \in may'[s]
        BY <1>0, <2>7 DEF ChangesWanted
    <3>1. s \in DOMAIN may
        BY <1>0, <2>5 DEF FileType, DocTypes, Travels, Documents!Travelling
    <3>2. CASE s \in changed
        BY <3>1, <3>2, <2>8
    <3>3. CASE s \notin changed
      <4>1. new.secret[s] = shelf.desired.secret[s] /\ s \in shelf.dirty
          BY <2>5, <3>1, <3>3
      <4>2. shelf.desired.secret[s] \in may[s]
          BY <1>0, <4>1 DEF DocInv, ChangesWanted, FileType
      <4>. QED BY <2>8, <3>1, <4>1, <4>2
    <3>. QED BY <3>2, <3>3
  <2>14. Documents!SecretsKept'
      BY <1>0, <2>8 DEF DocInv, Documents!SecretsKept
  <2>. QED BY <2>12, <2>13, <2>14 DEF DocInv
<1>. QED BY <1>1, <1>2

\* A restart and a node forgotten.
LEMMA ForgetfulKeeps ==
    ASSUME DocInv, Documents!Restart \/ Documents!Forget
    PROVE  DocInv'
<1>1. /\ node'.cfg = node.cfg /\ DOMAIN node' = DOMAIN node /\ UNCHANGED may
      /\ shelf' = shelf \/ shelf' = Documents!NoFile
      /\ DOMAIN base' = DOMAIN base /\ base'["page"] = base["page"]
  <2>1. CASE Documents!Restart
      BY <2>1 DEF Documents!Restart, DocInv, DocTypes
  <2>2. CASE Documents!Forget
      BY <2>2 DEF Documents!Forget
  <2>. QED BY <2>1, <2>2
<1>2. Travels' = Travels
    BY <1>1 DEF Travels
<1>3. shelf' = Documents!NoFile => ~shelf'.held
    BY DEF Documents!NoFile
<1>4. shelf' = shelf /\ FileType => FileType'
    BY <1>1, <1>2 DEF FileType
<1>5. DocTypes'
    BY <1>1, <1>2, <1>4 DEF DocInv, DocTypes
<1>6. ChangesWanted'
    BY <1>1, <1>3 DEF DocInv, ChangesWanted
<1>7. Documents!SecretsKept'
    BY <1>1 DEF DocInv, Documents!SecretsKept
<1>. QED BY <1>5, <1>6, <1>7 DEF DocInv

\* ... and an exchange with the node, heard or not.
LEMMA ExchangeKeeps ==
    ASSUME DocInv, NEW answered \in BOOLEAN, Documents!Exchange(answered)
    PROVE  DocInv'
<1>. DEFINE adopted == Documents!Reports /\ Documents!Plan.adopt
            heard   == [node EXCEPT !.err = 0, !.reported = shelf'.held]
<1>0. /\ UNCHANGED base /\ DocTypes
      /\ shelf' = Documents!Taken
      /\ IF ~answered THEN node' = node
         ELSE node' = IF adopted THEN Documents!Confirmed(heard, Documents!Plan.rev)
                      ELSE IF shelf'.held /\ Documents!Wanted(shelf')
                           THEN Documents!Given(heard, shelf') ELSE heard
      /\ may' = IF node'.cfg = node.cfg THEN may
                ELSE [s \in DOMAIN may |-> IF node'.cfg.secret[s] \in may[s]
                                           THEN {node'.cfg.secret[s]} ELSE may[s]]
    BY DEF Documents!Exchange, DocInv
<1>1. FileType /\ node.cfg.local => adopted
  <2>. SUFFICES ASSUME FileType, node.cfg.local PROVE adopted
      OBVIOUS
  <2>1. Documents!Reports
      BY DEF Documents!Reports
  <2>2. Documents!Plan = Documents!AdoptedAt(Documents!revAfter(shelf.rev, node.cfg.rev))
      BY DEF FileType, Documents!Plan, Documents!planReport
  <2>. QED BY <2>1, <2>2 DEF Documents!AdoptedAt
\* The file once the report is taken in: of its secrets nothing new is to be sent.
<1>2. \/ /\ shelf' = shelf /\ shelf = Documents!NoFile
      \/ /\ DOMAIN shelf' = FileFields /\ shelf'.held = TRUE
         /\ DOMAIN shelf'.desired = ConfigFields
         /\ shelf'.desired.espnow = node.cfg.espnow
         /\ DOMAIN shelf'.desired.secret = DOMAIN may
         /\ \/ shelf'.dirty = {}
            \/ /\ ~adopted /\ FileType /\ shelf'.desired = shelf.desired
               /\ shelf'.dirty \subseteq shelf.dirty
  <2>1. CASE adopted
    <3>1. PICK rep, plan : shelf' = Documents!Adopted(rep, plan)
        BY <1>0, <2>1 DEF Documents!Taken
    <3>. QED BY <1>0, <3>1, AdoptedShape
  <2>2. CASE ~adopted /\ shelf = Documents!NoFile
      BY <1>0, <2>2 DEF Documents!Taken, Documents!NoFile
  <2>3. CASE ~adopted /\ FileType
    <3>1. shelf' = Documents!Runs(Documents!Refused(shelf), node.cfg.rev)
        BY <1>0, <2>3 DEF Documents!Taken, FileType
    <3>2. /\ DOMAIN shelf' = FileFields /\ shelf'.held = shelf.held
          /\ shelf'.desired = shelf.desired /\ shelf'.dirty \subseteq shelf.dirty
        BY <2>3, <3>1, RunsShape DEF FileType
    <3>. QED BY <2>3, <3>2 DEF FileType
  <2>. QED BY <1>0, <2>1, <2>2, <2>3 DEF DocTypes
\* What it changed and the node does not have yet is still wanted.
<1>3. \A s \in DOMAIN may : shelf'.held /\ s \in shelf'.dirty =>
          /\ ~node.cfg.local /\ s \in Travels
          /\ shelf'.desired.secret[s] \in may[s]
  <2>. SUFFICES ASSUME NEW s \in DOMAIN may, shelf'.held, s \in shelf'.dirty
                PROVE  /\ ~node.cfg.local /\ s \in Travels
                       /\ shelf'.desired.secret[s] \in may[s]
      OBVIOUS
  <2>1. ~adopted /\ FileType /\ shelf'.desired = shelf.desired /\ s \in shelf.dirty
      BY <1>2 DEF Documents!NoFile
  <2>2. ~node.cfg.local /\ shelf.held /\ s \in Travels
      BY <1>1, <2>1 DEF FileType
  <2>3. shelf.desired.secret[s] \in may[s]
      BY <2>1, <2>2 DEF DocInv, ChangesWanted
  <2>. QED BY <2>1, <2>2, <2>3
\* The node keeps its secrets or takes the changed ones.
<1>4. /\ DOMAIN node' = DOMAIN node /\ DOMAIN node'.cfg = ConfigFields
      /\ node'.cfg.espnow = node.cfg.espnow /\ node'.cfg.local \in {FALSE, node.cfg.local}
      /\ DOMAIN node'.cfg.secret = DOMAIN may
      /\ \/ node'.cfg.secret = node.cfg.secret /\ (node'.cfg = node.cfg \/ adopted)
         \/ /\ shelf'.held /\ ~adopted
            /\ \A s \in DOMAIN may : node'.cfg.secret[s] =
                  IF s \in Travels /\ s \in shelf'.dirty THEN shelf'.desired.secret[s] ELSE node.cfg.secret[s]
  <2>0. DOMAIN heard = DOMAIN node /\ heard.cfg = node.cfg
      BY <1>0 DEF DocTypes
  <2>. HIDE DEF heard
  <2>1. CASE node'.cfg = node.cfg /\ DOMAIN node' = DOMAIN node
      BY <1>0, <2>1 DEF DocTypes
  <2>2. CASE answered /\ adopted
    <3>1. node' = [heard EXCEPT !.cfg.rev = Documents!Plan.rev, !.cfg.local = FALSE]
        BY <1>0, <2>2 DEF Documents!Confirmed
    <3>2. DOMAIN node' = DOMAIN node
          /\ node'.cfg = [node.cfg EXCEPT !.rev = Documents!Plan.rev, !.local = FALSE]
        BY <1>0, <2>0, <3>1 DEF DocTypes
    <3>3. /\ DOMAIN node'.cfg = ConfigFields /\ node'.cfg.local = FALSE
          /\ node'.cfg.espnow = node.cfg.espnow /\ node'.cfg.secret = node.cfg.secret
        BY <1>0, <3>2 DEF DocTypes, ConfigFields
    <3>. QED BY <1>0, <2>2, <3>2, <3>3 DEF DocTypes
  <2>3. CASE answered /\ ~adopted /\ shelf'.held /\ node' = Documents!Given(heard, shelf')
    <3>. DEFINE d   == Documents!ForNode(shelf')
                new == [Documents!Decode(d, heard.cfg) EXCEPT !.rev = shelf'.rev, !.local = FALSE]
    <3>1. CASE node' = heard
        BY <2>0, <2>1, <3>1
    <3>2. CASE node' = [heard EXCEPT !.err = shelf'.rev, !.rejected = shelf'.rev]
      <4>1. node'.cfg = node.cfg /\ DOMAIN node' = DOMAIN node
          BY <1>0, <2>0, <3>2 DEF DocTypes
      <4>. QED BY <2>1, <4>1
    <3>3. CASE node' = [heard EXCEPT !.cfg = new, !.reported = ~Documents!Restarts(heard.cfg, new)]
      <4>1. node'.cfg = new /\ DOMAIN node' = DOMAIN node
          BY <1>0, <2>0, <3>3 DEF DocTypes
      <4>2. /\ DOMAIN Documents!Decode(d, heard.cfg) = ConfigFields
            /\ Documents!Decode(d, heard.cfg).espnow = node.cfg.espnow
            /\ DOMAIN Documents!Decode(d, heard.cfg).secret = DOMAIN may
          BY <1>0, <2>0, DecodeShape DEF DocTypes
      <4>3. /\ DOMAIN new = ConfigFields /\ new.espnow = node.cfg.espnow /\ new.local = FALSE
            /\ new.secret = Documents!Decode(d, heard.cfg).secret
          BY <4>2 DEF ConfigFields
      <4>4. Documents!Travelling(shelf'.desired) = Travels
          BY <1>2, <2>3 DEF Travels, Documents!Travelling, Documents!NoFile
      <4>5. \A s \in DOMAIN may : new.secret[s] =
                IF s \in Travels /\ s \in shelf'.dirty THEN shelf'.desired.secret[s] ELSE node.cfg.secret[s]
          BY <1>0, <2>0, <4>3, <4>4, OnlyChangesTravel DEF DocTypes
      <4>. HIDE DEF new
      <4>. QED BY <2>3, <4>1, <4>2, <4>3, <4>5
    <3>. QED BY <2>3, <3>1, <3>2, <3>3 DEF Documents!Given
  <2>4. CASE node' = node \/ node' = heard
      BY <2>0, <2>1, <2>4
  <2>. QED BY <1>0, <2>2, <2>3, <2>4
<1>5. \A s \in DOMAIN may : node'.cfg.secret[s] \in may[s]
    BY <1>3, <1>4 DEF DocInv, Documents!SecretsKept
<1>6. DOMAIN may' = DOMAIN may
    BY <1>0
<1>7. \A s \in DOMAIN may : 
          IF node'.cfg = node.cfg THEN may'[s] = may[s] ELSE may'[s] = {node'.cfg.secret[s]}
    BY <1>0, <1>5
<1>8. Travels' = Travels
    BY <1>4 DEF Travels, Documents!Travelling
<1>9. shelf' = Documents!NoFile \/ FileType'
  <2>1. shelf'.held = TRUE => shelf'.dirty \subseteq Travels
    <3>. SUFFICES ASSUME shelf'.held = TRUE, NEW s \in shelf'.dirty PROVE s \in Travels
        OBVIOUS
    <3>1. FileType /\ s \in shelf.dirty
        BY <1>2 DEF Documents!NoFile
    <3>. QED BY <3>1 DEF FileType
  <2>. QED BY <1>2, <1>4, <1>6, <1>8, <2>1 DEF FileType
<1>10. DocTypes'
  <2>1. node'.cfg.local \in BOOLEAN
      BY <1>0, <1>4 DEF DocTypes
  <2>. QED BY <1>0, <1>4, <1>6, <1>8, <1>9, <2>1 DEF DocTypes
<1>11. Documents!SecretsKept'
    BY <1>5, <1>6, <1>7 DEF Documents!SecretsKept
<1>12. ChangesWanted'
  <2>. SUFFICES ASSUME shelf'.held, NEW s \in shelf'.dirty
                PROVE  shelf'.desired.secret[s] \in may'[s]
      BY DEF ChangesWanted
  <2>1. FileType'
      BY <1>9 DEF Documents!NoFile
  <2>2. s \in DOMAIN may
      BY <1>0, <1>8, <2>1 DEF FileType, DocTypes, Travels, Documents!Travelling
  <2>3. s \in Travels /\ shelf'.desired.secret[s] \in may[s] /\ ~adopted
      BY <1>2, <1>3, <2>2 DEF Documents!NoFile
  <2>4. CASE node'.cfg = node.cfg
      BY <1>7, <2>2, <2>3, <2>4
  <2>5. CASE node'.cfg # node.cfg
    <3>1. node'.cfg.secret[s] = shelf'.desired.secret[s]
        BY <1>4, <2>2, <2>3, <2>5
    <3>2. may'[s] = {node'.cfg.secret[s]}
        BY <1>7, <2>2, <2>5
    <3>. QED BY <3>1, <3>2
  <2>. QED BY <2>4, <2>5
<1>. QED BY <1>10, <1>11, <1>12 DEF DocInv

\* No secret of a node is lost, and none given up comes back, whatever is typed
\* on either page and whichever answers, nodes and files are lost.
THEOREM NoSecretLost == Spec => []SecretsKept
<1>. DEFINE Inv == part = "documents" => DocInv
<1>1. Init => Inv
    BY DocsBegin DEF Init
<1>2. Inv /\ [Next]_vars => Inv'
  <2>. SUFFICES ASSUME Inv, [Next]_vars, part' = "documents" PROVE DocInv'
      OBVIOUS
  <2>1. part = "documents" /\ [Documents!DocsNext]_Documents!docVars /\ DocInv
      BY PartsMoveAlone
  <2>2. CASE Documents!DocsNext
      BY <2>1, <2>2, OpenKeeps, PostPortalKeeps, PostPageKeeps, ForgetfulKeeps, ExchangeKeeps
      DEF Documents!DocsNext
  <2>3. CASE UNCHANGED Documents!docVars
      BY <2>1, <2>3 DEF Documents!docVars, DocInv, DocTypes, FileType, Travels, ChangesWanted,
         Documents!SecretsKept
  <2>. QED BY <2>1, <2>2, <2>3
<1>3. Inv => SecretsKept
    BY DEF SecretsKept, DocInv
<1>. QED BY <1>1, <1>2, <1>3, PTL DEF Spec

-----------------------------------------------------------------------------
(* Sensors: the hours of a sensor's health are its own.                    *)

\* Quotient and remainder.
LEMMA Divided ==
    ASSUME NEW n \in Nat \ {0}, NEW a \in Int
    PROVE  /\ a \div n \in Int /\ a % n \in 0..(n - 1)
           /\ a = n * (a \div n) + (a % n)
OBVIOUS

\* ... are the only ones.
LEMMA DividedOnce ==
    ASSUME NEW n \in Nat \ {0}, NEW q \in Int, NEW r \in 0..(n - 1)
    PROVE  (n * q + r) % n = r /\ (n * q + r) \div n = q
<1>. DEFINE a == n * q + r
            p == a \div n
            s == a % n
<1>1. a \in Int /\ p \in Int /\ s \in 0..(n - 1) /\ a = n * p + s
    BY Divided
<1>2. n * q + r = n * p + s
    BY <1>1
<1>. HIDE DEF a, p, s
<1>3. n * (p - q) = r - s
    BY <1>1, <1>2
<1>4. CASE p - q <= -1
  <2>1. n * (p - q) <= -n
      BY <1>1, <1>4
  <2>. QED BY <1>1, <1>3, <2>1
<1>5. CASE p - q >= 1
  <2>1. n * (p - q) >= n
      BY <1>1, <1>5
  <2>. QED BY <1>1, <1>3, <2>1
<1>6. CASE p = q
  <2>1. n * (p - q) = 0
      BY <1>1, <1>6
  <2>2. r = s
      BY <1>1, <1>3, <2>1
  <2>. QED BY <1>6, <2>2 DEF a, p, s
<1>. QED BY <1>1, <1>4, <1>5, <1>6

\* Whole turns of a ring lead nowhere.
LEMMA WholeTurns ==
    ASSUME NEW n \in Nat \ {0}, NEW a \in Int, NEW q \in Int
    PROVE  (n * q + a) % n = a % n
<1>1. /\ a \div n \in Int /\ a % n \in 0..(n - 1)
      /\ a = n * (a \div n) + (a % n)
    BY Divided
<1>. DEFINE p == a \div n
            r == a % n
<1>2. p \in Int /\ r \in 0..(n - 1) /\ a = n * p + r
    BY <1>1
<1>. HIDE DEF p, r
<1>3. n * q + a = n * (q + p) + r
    BY <1>2
<1>4. (n * (q + p) + r) % n = r
    BY <1>2, DividedOnce
<1>. QED BY <1>3, <1>4 DEF r

\* Going on round the ring from a slot or from the hour that has it is the same.
LEMMA OnwardFromSlot ==
    ASSUME NEW n \in Nat \ {0}, NEW a \in Int, NEW i \in Int
    PROVE  ((a % n) + i) % n = (a + i) % n
<1>1. /\ a \div n \in Int /\ a % n \in 0..(n - 1)
      /\ a = n * (a \div n) + (a % n)
    BY Divided
<1>. DEFINE p == a \div n
            r == a % n
<1>2. p \in Int /\ r \in Int /\ a = n * p + r
    BY <1>1
<1>. HIDE DEF p, r
<1>3. a + i = n * p + (r + i) /\ r + i \in Int
    BY <1>2
<1>4. (n * p + (r + i)) % n = (r + i) % n
    BY <1>2, <1>3, WholeTurns
<1>. QED BY <1>3, <1>4 DEF r

\* Numbers less than a turn apart have slots of their own.
LEMMA OwnSlots ==
    ASSUME NEW n \in Nat \ {0}, NEW a \in Int, NEW b \in Int, a < b, b - a < n
    PROVE  a % n # b % n
<1>1. (n * 0 + (b - a)) % n = b - a
    BY DividedOnce
<1>2. n * 0 + (b - a) = b - a
    OBVIOUS
<1>3. (b - a) % n = b - a
    BY <1>1, <1>2
<1>4. ASSUME a % n = b % n PROVE FALSE
  <2>0. PICK m \in Int : m = 0 - a
      OBVIOUS
  <2>1. ((a % n) + m) % n = (a + m) % n
      BY OnwardFromSlot
  <2>2. ((b % n) + m) % n = (b + m) % n
      BY OnwardFromSlot
  <2>3. (n * 0 + 0) % n = 0 /\ n * 0 + 0 = 0
      BY DividedOnce
  <2>4. a + m = 0 /\ b + m = b - a
      BY <2>0
  <2>5. 0 % n = 0
      BY <2>3
  <2>6. 0 % n = (b - a) % n
      BY <1>4, <2>1, <2>2, <2>4
  <2>. QED BY <1>3, <2>5, <2>6
<1>. QED BY <1>4

Slot(h) == (h % HealthHours) + 1
HealthFields == {"reads", "errors", "cur", "start", "first", "lastError"}

\* The places of c that hold g.
At(c, g) == {i \in DOMAIN c : c[i] = g}

\* A health whose hour, counted from the first read, is k, of a sensor whose good
\* reads were made in the hours c.
HoursOf(h, c, k) ==
    /\ k \in Nat
    /\ h.start = h.first + k * HealthHour /\ h.cur = Slot(k)
    /\ \A i \in DOMAIN c : c[i] <= k
    /\ \A g \in Nat : g <= k /\ k - g < HealthHours => h.reads[Slot(g)] = Cardinality(At(c, g))

HealthOf(h, c, now) ==
    /\ DOMAIN h = HealthFields /\ DOMAIN h.reads = 1..HealthHours
    /\ h.start \in Nat /\ h.first \in Nat /\ h.start <= now
    /\ h.first = Sensing!Never => h.start = Sensing!Never
    /\ c \in Seq(Nat)
    /\ \E k \in Nat : HoursOf(h, c, k)

RunFields == {"e", "who", "last", "failing", "health"}
SensorInv ==
    /\ upTime \in Nat \ {0}
    /\ DOMAIN mgr = {"list", "port", "addrs", "buses"}
    /\ DOMAIN counted = DOMAIN mgr.list
    /\ \A p \in DOMAIN mgr.list :
          DOMAIN mgr.list[p] = RunFields /\ HealthOf(mgr.list[p].health, counted[p], upTime)

LEMMA SlotInHealth ==
    ASSUME NEW g \in Int PROVE Slot(g) \in 1..HealthHours
<1>1. g % HealthHours \in 0..(HealthHours - 1)
    BY HealthAssumption, Divided
<1>. QED BY <1>1, HealthAssumption DEF Slot

LEMMA SlotsApart ==
    ASSUME NEW a \in Int, NEW b \in Int, a < b, b - a < HealthHours
    PROVE  Slot(a) # Slot(b)
<1>1. a % HealthHours # b % HealthHours
    BY HealthAssumption, OwnSlots
<1>2. a % HealthHours \in Int /\ b % HealthHours \in Int
    BY HealthAssumption, Divided
<1>. QED BY <1>1, <1>2 DEF Slot

\* A sensor just loaded has read nothing.
LEMMA NewIsExact == HealthOf(Sensing!NewHealth, <<>>, upTime) \/ ~(upTime \in Nat)
<1>. SUFFICES ASSUME upTime \in Nat PROVE HealthOf(Sensing!NewHealth, <<>>, upTime)
    OBVIOUS
<1>. DEFINE h == Sensing!NewHealth
<1>1. /\ DOMAIN h = HealthFields /\ h.reads = [i \in 1..HealthHours |-> 0]
      /\ h.start = 0 /\ h.first = 0 /\ h.cur = 1
    BY DEF Sensing!NewHealth, HealthFields, Sensing!Never
<1>. HIDE DEF h
<1>2. (HealthHours * 0 + 0) % HealthHours = 0 /\ HealthHours * 0 + 0 = 0
    BY HealthAssumption, DividedOnce
<1>3. Slot(0) = 1
    BY <1>2 DEF Slot
<1>4. h.start = h.first + 0 * HealthHour
    BY <1>1, HealthAssumption
<1>5. ASSUME NEW g \in Nat PROVE h.reads[Slot(g)] = Cardinality(At(<<>>, g))
  <2>1. Slot(g) \in 1..HealthHours
      BY SlotInHealth
  <2>2. At(<<>>, g) = {}
      BY DEF At
  <2>. QED BY <1>1, <2>1, <2>2, FS_EmptySet
<1>6. HoursOf(h, <<>>, 0)
  <2>1. 0 \in Nat /\ DOMAIN <<>> = {} /\ h.cur = Slot(0)
      BY <1>1, <1>3
  <2>. QED BY <1>4, <1>5, <2>1, Zenon DEF HoursOf
<1>7. <<>> \in Seq(Nat)
    OBVIOUS
<1>. QED BY <1>1, <1>6, <1>7 DEF HealthOf, h

\* The hours that passed since the last read are empty, however many (the loop
\* over them in tickFiltered()).
LEMMA RolledHours ==
    ASSUME NEW h, NEW c, HealthOf(h, c, upTime), upTime \in Nat, NEW k \in Nat, HoursOf(h, c, k)
    PROVE  LET n == (upTime - h.start) \div HealthHour
               r == Sensing!Rolled(h)
           IN  /\ n \in Nat
               /\ DOMAIN r = HealthFields /\ DOMAIN r.reads = 1..HealthHours
               /\ r.first = h.first /\ r.start = h.start + n * HealthHour
               /\ r.start \in Nat /\ r.start <= upTime /\ upTime - r.start < HealthHour
               /\ HoursOf(r, c, k + n)
<1>. DEFINE n    == (upTime - h.start) \div HealthHour
            gap  == {((h.cur + i - 1) % HealthHours) + 1 : i \in 1..n}
            r    == Sensing!Rolled(h)
<1>0. /\ DOMAIN h = HealthFields /\ DOMAIN h.reads = 1..HealthHours
      /\ h.start \in Nat /\ h.first \in Nat /\ upTime - h.start \in Nat
      /\ c \in Seq(Nat) /\ HealthHour \in Nat \ {0} /\ HealthHours \in Nat \ {0}
      /\ h.start = h.first + k * HealthHour /\ h.cur = Slot(k)
      /\ \A i \in DOMAIN c : c[i] <= k
    BY HealthAssumption DEF HealthOf, HoursOf
<1>1. /\ n \in Nat /\ n * HealthHour \in Nat
      /\ n * HealthHour <= upTime - h.start /\ upTime - h.start < n * HealthHour + HealthHour
  <2>. DEFINE d == upTime - h.start
              m == d % HealthHour
  <2>0. HealthHour \in Nat \ {0} /\ d \in Int
      BY <1>0
  <2>1. d \div HealthHour \in Int /\ m \in 0..(HealthHour - 1) /\ d = HealthHour * (d \div HealthHour) + m
      BY <2>0, Divided
  <2>2. n \in Int /\ m \in 0..(HealthHour - 1) /\ d = HealthHour * n + m /\ d \in Nat
      BY <1>0, <2>1
  <2>. HIDE DEF n, m, d
  <2>3. n >= 0
    <3>1. CASE n <= -1
      <4>1. PICK x \in Int : x = HealthHour * n
          BY <1>0, <2>2
      <4>2. x <= -HealthHour
          BY <1>0, <2>2, <3>1, <4>1
      <4>3. d = x + m
          BY <2>2, <4>1
      <4>4. d \in Nat /\ m \in Int /\ m < HealthHour /\ HealthHour \in Int
          BY <1>0, <2>2
      <4>. QED BY <4>2, <4>3, <4>4
    <3>. QED BY <2>2, <3>1
  <2>4. n * HealthHour = HealthHour * n /\ n * HealthHour \in Nat
      BY <1>0, <2>2, <2>3
  <2>5. PICK e \in Nat : e = n * HealthHour
      BY <2>4
  <2>6. d = e + m /\ d = upTime - h.start /\ HealthHour \in Nat
      BY <1>0, <2>2, <2>4, <2>5 DEF d
  <2>7. e <= upTime - h.start /\ upTime - h.start < e + HealthHour
      BY <2>2, <2>6
  <2>8. n \in Nat
      BY <2>2, <2>3
  <2>. QED BY <2>5, <2>7, <2>8
<1>2. r = [h EXCEPT !.cur = ((@ + n - 1) % HealthHours) + 1, !.start = @ + n * HealthHour,
                    !.reads = [x \in DOMAIN @ |-> IF x \in gap THEN 0 ELSE @[x]],
                    !.errors = [x \in DOMAIN @ |-> IF x \in gap THEN 0 ELSE @[x]]]
    BY DEF Sensing!Rolled
<1>. HIDE DEF n, gap, r
<1>3. /\ DOMAIN r = HealthFields /\ r.first = h.first /\ r.start = h.start + n * HealthHour
      /\ r.cur = ((h.cur + n - 1) % HealthHours) + 1
      /\ r.reads = [x \in 1..HealthHours |-> IF x \in gap THEN 0 ELSE h.reads[x]]
    BY <1>0, <1>2 DEF HealthFields
<1>4. ASSUME NEW i \in Int PROVE ((h.cur + i - 1) % HealthHours) + 1 = Slot(k + i)
  <2>1. k % HealthHours \in Int /\ h.cur + i - 1 = (k % HealthHours) + i
    <3>1. k % HealthHours \in Int
        BY <1>0, Divided
    <3>2. h.cur = (k % HealthHours) + 1
        BY <1>0 DEF Slot
    <3>. QED BY <3>1, <3>2
  <2>2. HealthHours \in Nat \ {0} /\ k \in Int
      BY <1>0
  <2>3. ((k % HealthHours) + i) % HealthHours = (k + i) % HealthHours
      BY <2>2, OnwardFromSlot
  <2>. QED BY <2>1, <2>3 DEF Slot
<1>5. r.cur = Slot(k + n)
    BY <1>1, <1>3, <1>4
<1>6. gap = {Slot(k + i) : i \in 1..n}
  <2>1. \A i \in 1..n : ((h.cur + i - 1) % HealthHours) + 1 = Slot(k + i)
      BY <1>4
  <2>. QED BY <2>1 DEF gap
<1>7. r.start = r.first + (k + n) * HealthHour
    BY <1>0, <1>1, <1>3
<1>8. ASSUME NEW g \in Nat, g <= k + n, (k + n) - g < HealthHours
      PROVE  r.reads[Slot(g)] = Cardinality(At(c, g))
  <2>0. Slot(g) \in 1..HealthHours
      BY SlotInHealth
  <2>1. CASE g > k
    <3>1. g - k \in 1..n /\ k + (g - k) = g
        BY <1>1, <1>8, <2>1
    <3>2. Slot(g) \in gap
        BY <1>6, <3>1
    <3>3. At(c, g) = {}
      <4>1. ASSUME NEW i \in DOMAIN c, c[i] = g PROVE FALSE
        <5>1. c[i] <= k
            BY <1>0
        <5>. QED BY <2>1, <4>1, <5>1
      <4>. QED BY <4>1 DEF At
    <3>. QED BY <1>3, <2>0, <3>2, <3>3, FS_EmptySet
  <2>2. CASE g <= k
    <3>1. k - g < HealthHours
      <4>1. n \in Nat /\ HealthHours \in Nat
          BY <1>0, <1>1
      <4>. QED BY <1>8, <4>1
    <3>2. Slot(g) \notin gap
      <4>1. ASSUME NEW i \in 1..n, Slot(g) = Slot(k + i) PROVE FALSE
        <5>1. n \in Nat /\ HealthHours \in Nat
            BY <1>0, <1>1
        <5>. HIDE DEF n
        <5>2. i \in Nat /\ 1 <= i /\ i <= n
            BY <4>1, <5>1
        <5>3. k + i \in Int /\ g < k + i /\ (k + i) - g < HealthHours
            BY <1>8, <2>2, <5>1, <5>2
        <5>. QED BY <4>1, <5>3, SlotsApart
      <4>. QED BY <1>6, <4>1
    <3>3. h.reads[Slot(g)] = Cardinality(At(c, g))
        BY <2>2, <3>1 DEF HoursOf
    <3>. QED BY <1>3, <2>0, <3>2, <3>3
  <2>. QED BY <1>1, <2>1, <2>2
<1>9. \A i \in DOMAIN c : c[i] <= k + n
  <2>1. n \in Nat /\ c \in Seq(Nat)
      BY <1>0, <1>1
  <2>2. \A i \in DOMAIN c : c[i] \in Nat
      BY <2>1
  <2>3. \A i \in DOMAIN c : c[i] <= k
      BY <1>0, Zenon
  <2>. QED BY <2>1, <2>2, <2>3
<1>10. k + n \in Nat
  <2>1. n \in Nat
      BY <1>1
  <2>. QED BY <2>1
<1>11. HoursOf(r, c, k + n)
    BY <1>5, <1>7, <1>8, <1>9, <1>10 DEF HoursOf
<1>12. DOMAIN r.reads = 1..HealthHours
    BY <1>3
<1>13. r.start \in Nat /\ r.start <= upTime /\ upTime - r.start < HealthHour
  <2>1. PICK m \in Nat : m = n * HealthHour
      BY <1>1
  <2>2. upTime \in Nat /\ h.start \in Nat /\ m <= upTime - h.start /\ upTime - h.start < m + HealthHour
        /\ r.start = h.start + m /\ HealthHour \in Nat
      BY <1>0, <1>1, <1>3, <2>1
  <2>. HIDE DEF r
  <2>. QED BY <2>2
<1>. QED BY <1>1, <1>3, <1>11, <1>12, <1>13 DEF n, r

\* One more place holds m, and no other number has one more.
LEMMA OneMore ==
    ASSUME NEW c \in Seq(Nat), NEW m \in Nat, NEW g \in Nat
    PROVE  Cardinality(At(Append(c, m), g)) = Cardinality(At(c, g)) + (IF g = m THEN 1 ELSE 0)
<1>1. /\ DOMAIN c = 1..Len(c) /\ Len(c) \in Nat
      /\ DOMAIN Append(c, m) = 1..(Len(c) + 1) /\ Append(c, m)[Len(c) + 1] = m
      /\ \A i \in 1..Len(c) : Append(c, m)[i] = c[i]
  <2>1. DOMAIN c = 1..Len(c) /\ Len(c) \in Nat
      OBVIOUS
  <2>2. DOMAIN Append(c, m) = 1..(Len(c) + 1)
      OBVIOUS
  <2>3. Append(c, m)[Len(c) + 1] = m
      OBVIOUS
  <2>4. \A i \in 1..Len(c) : Append(c, m)[i] = c[i]
      OBVIOUS
  <2>. QED BY <2>1, <2>2, <2>3, <2>4
<1>2. IsFiniteSet(At(c, g)) /\ Cardinality(At(c, g)) \in Nat
  <2>1. At(c, g) \subseteq 1..Len(c)
      BY <1>1 DEF At
  <2>2. IsFiniteSet(1..Len(c))
      BY <1>1, FS_Interval
  <2>. QED BY <2>1, <2>2, FS_Subset, FS_CardinalityType
<1>3. CASE g = m
  <2>1. At(Append(c, m), g) = At(c, g) \cup {Len(c) + 1}
      BY <1>1, <1>3 DEF At
  <2>2. Len(c) + 1 \notin At(c, g)
      BY <1>1 DEF At
  <2>. QED BY <1>2, <1>3, <2>1, <2>2, FS_AddElement
<1>4. CASE g # m
  <2>1. At(Append(c, m), g) = At(c, g)
      BY <1>1, <1>4 DEF At
  <2>. QED BY <1>2, <1>4, <2>1
<1>. QED BY <1>3, <1>4

\* A read is counted in the hour in which it was made.
LEMMA TickedExact ==
    ASSUME upTime \in Nat \ {0}, NEW s, DOMAIN s = RunFields,
           NEW c, HealthOf(s.health, c, upTime), NEW h, h = Sensing!Rolled(Sensing!Begun(s.health)),
           NEW m, m = (upTime - Sensing!Begun(s.health).first) \div HealthHour
    PROVE  /\ DOMAIN Sensing!Good(s, h) = RunFields /\ HealthOf(Sensing!Good(s, h).health, Append(c, m), upTime)
           /\ DOMAIN Sensing!Bad(s, h) = RunFields /\ HealthOf(Sensing!Bad(s, h).health, c, upTime)
<1>. DEFINE b == Sensing!Begun(s.health)
<1>1. /\ HealthOf(b, c, upTime) /\ b.first # 0
  <2>0. /\ DOMAIN s.health = HealthFields /\ s.health.start \in Nat /\ s.health.first \in Nat
        /\ s.health.first = 0 => s.health.start = 0
      BY DEF HealthOf, Sensing!Never
  <2>1. PICK k \in Nat : HoursOf(s.health, c, k)
      BY DEF HealthOf
  <2>2. k * HealthHour \in Nat /\ (k # 0 => k * HealthHour # 0)
      BY HealthAssumption
  <2>3. s.health.start = s.health.first + k * HealthHour
      BY <2>1 DEF HoursOf
  <2>4. s.health.start = 0 => s.health.first = 0 /\ k = 0
      BY <2>0, <2>2, <2>3
  <2>5. /\ DOMAIN b = HealthFields /\ b.reads = s.health.reads /\ b.cur = s.health.cur
        /\ b.start = IF s.health.start = 0 THEN upTime ELSE s.health.start
        /\ b.first = IF s.health.first = 0 THEN upTime ELSE s.health.first
      BY <2>0 DEF Sensing!Begun, Sensing!Never, HealthFields
  <2>. HIDE DEF b
  <2>6. b.start = b.first + k * HealthHour
    <3>1. CASE s.health.start = 0
      <4>1. 0 * HealthHour = 0
          BY HealthAssumption
      <4>. QED BY <2>4, <2>5, <3>1, <4>1
    <3>2. CASE s.health.start # 0
        BY <2>0, <2>3, <2>5, <3>2
    <3>. QED BY <3>1, <3>2
  <2>7. HoursOf(b, c, k)
      BY <2>1, <2>5, <2>6 DEF HoursOf
  <2>8. b.start \in Nat /\ b.first \in Nat \ {0} /\ b.start <= upTime
      BY <2>0, <2>5 DEF HealthOf
  <2>. QED BY <2>5, <2>7, <2>8 DEF HealthOf, Sensing!Never
<1>2. PICK k \in Nat : HoursOf(b, c, k)
    BY <1>1 DEF HealthOf
<1>3. h = Sensing!Rolled(b) /\ m = (upTime - b.first) \div HealthHour
    OBVIOUS
<1>. HIDE DEF b
<1>. DEFINE n == (upTime - b.start) \div HealthHour
<1>4. /\ n \in Nat
      /\ DOMAIN h = HealthFields /\ DOMAIN h.reads = 1..HealthHours
      /\ h.first = b.first
      /\ h.start \in Nat /\ h.start <= upTime /\ upTime - h.start < HealthHour
      /\ HoursOf(h, c, k + n)
    BY <1>1, <1>2, <1>3, RolledHours
<1>. HIDE DEF n
<1>5. PICK j \in Nat : j = k + n
    BY <1>4
<1>6. HoursOf(h, c, j) /\ c \in Seq(Nat) /\ h.first \in Nat
    BY <1>1, <1>4, <1>5 DEF HealthOf
<1>7. m = j
  <2>1. h.start = h.first + j * HealthHour /\ j * HealthHour \in Nat /\ j * HealthHour = HealthHour * j
      BY <1>6, HealthAssumption DEF HoursOf
  <2>2. HealthHour \in Nat \ {0}
      BY HealthAssumption
  <2>3. PICK i \in 0..(HealthHour - 1) : i = upTime - h.start
      BY <1>4, <2>2
  <2>4. upTime - b.first = HealthHour * j + i
    <3>1. PICK e \in Nat : e = j * HealthHour /\ e = HealthHour * j
        BY <2>1
    <3>2. h.start = b.first + e /\ b.first \in Nat /\ h.start \in Nat /\ i \in Int
        BY <1>4, <1>6, <2>1, <2>2, <2>3, <3>1
    <3>3. upTime - b.first = e + i
        BY <1>1, <2>3, <3>2
    <3>. QED BY <3>1, <3>3
  <2>5. (HealthHour * j + i) \div HealthHour = j
      BY <2>2, DividedOnce
  <2>. QED BY <1>3, <2>4, <2>5
<1>8. ASSUME NEW x, DOMAIN x = HealthFields, x.reads = h.reads, x.cur = h.cur, x.start = h.start, x.first = h.first
      PROVE  HealthOf(x, c, upTime)
  <2>1. HoursOf(x, c, j)
      BY <1>6, <1>8 DEF HoursOf
  <2>. QED BY <1>1, <1>4, <1>6, <1>8, <2>1 DEF HealthOf, Sensing!Never
<1>9. DOMAIN Sensing!Bad(s, h) = RunFields /\ HealthOf(Sensing!Bad(s, h).health, c, upTime)
  <2>1. CASE Sensing!CountsError(s, h)
    <3>. DEFINE x == [h EXCEPT !.errors[h.cur] = @ + 1, !.lastError = upTime]
    <3>1. DOMAIN x = HealthFields /\ x.reads = h.reads /\ x.cur = h.cur /\ x.start = h.start /\ x.first = h.first
        BY <1>4 DEF HealthFields
    <3>2. Sensing!Bad(s, h) = [s EXCEPT !.failing = TRUE, !.health = x]
        BY <2>1 DEF Sensing!Bad
    <3>. HIDE DEF x
    <3>3. DOMAIN Sensing!Bad(s, h) = RunFields /\ Sensing!Bad(s, h).health = x
        BY <3>2 DEF RunFields
    <3>. QED BY <1>8, <3>1, <3>3
  <2>2. CASE ~Sensing!CountsError(s, h)
    <3>1. DOMAIN Sensing!Bad(s, h) = RunFields /\ Sensing!Bad(s, h).health = h
        BY <2>2 DEF Sensing!Bad, RunFields
    <3>. QED BY <1>4, <1>8, <3>1
  <2>. QED BY <2>1, <2>2
<1>10. DOMAIN Sensing!Good(s, h) = RunFields /\ HealthOf(Sensing!Good(s, h).health, Append(c, m), upTime)
  <2>. DEFINE x == [h EXCEPT !.reads[h.cur] = @ + 1]
  <2>1. h.cur = Slot(j) /\ Slot(j) \in 1..HealthHours
      BY <1>6, SlotInHealth DEF HoursOf
  <2>2. /\ DOMAIN x = HealthFields /\ x.cur = h.cur /\ x.start = h.start /\ x.first = h.first
        /\ DOMAIN x.reads = 1..HealthHours
        /\ \A i \in 1..HealthHours : x.reads[i] = IF i = Slot(j) THEN h.reads[i] + 1 ELSE h.reads[i]
      BY <1>4, <2>1 DEF HealthFields
  <2>3. Sensing!Good(s, h) = [s EXCEPT !.last = upTime, !.failing = FALSE, !.health = x]
      BY DEF Sensing!Good
  <2>. HIDE DEF x
  <2>4. DOMAIN Sensing!Good(s, h) = RunFields /\ Sensing!Good(s, h).health = x
      BY <2>3 DEF RunFields
  <2>5. ASSUME NEW g \in Nat, g <= j, j - g < HealthHours
        PROVE  x.reads[Slot(g)] = Cardinality(At(Append(c, j), g))
    <3>0. g \in Int /\ Slot(g) \in 1..HealthHours
        BY SlotInHealth
    <3>1. h.reads[Slot(g)] = Cardinality(At(c, g)) /\ Slot(g) \in 1..HealthHours
        BY <1>6, <2>5, <3>0, Zenon DEF HoursOf
    <3>2. Cardinality(At(c, g)) \in Nat
      <4>1. At(c, g) \subseteq 1..Len(c) /\ Len(c) \in Nat
          BY <1>6 DEF At
      <4>2. IsFiniteSet(1..Len(c))
          BY <4>1, FS_Interval
      <4>. QED BY <4>1, <4>2, FS_Subset, FS_CardinalityType
    <3>3. Cardinality(At(Append(c, j), g)) = Cardinality(At(c, g)) + (IF g = j THEN 1 ELSE 0)
        BY <1>6, OneMore
    <3>4. CASE g = j
        BY <2>2, <3>1, <3>2, <3>3, <3>4
    <3>5. CASE g # j
      <4>1. Slot(g) # Slot(j)
        <5>1. g < j /\ g \in Int /\ j \in Int
            BY <2>5, <3>5
        <5>. QED BY <2>5, <5>1, SlotsApart
      <4>. QED BY <2>2, <3>1, <3>2, <3>3, <3>5, <4>1
    <3>. QED BY <3>4, <3>5
  <2>6. Append(c, j) \in Seq(Nat) /\ \A i \in DOMAIN Append(c, j) : Append(c, j)[i] <= j
    <3>1. \A i \in DOMAIN c : c[i] <= j
        BY <1>6 DEF HoursOf
    <3>2. /\ DOMAIN Append(c, j) = 1..(Len(c) + 1) /\ Append(c, j)[Len(c) + 1] = j
          /\ \A i \in 1..Len(c) : Append(c, j)[i] = c[i]
          /\ Append(c, j) \in Seq(Nat) /\ Len(c) \in Nat /\ DOMAIN c = 1..Len(c)
        BY <1>6
    <3>3. ASSUME NEW i \in 1..(Len(c) + 1) PROVE Append(c, j)[i] <= j
      <4>1. CASE i = Len(c) + 1
          BY <3>2, <4>1
      <4>2. CASE i # Len(c) + 1
        <5>1. i \in 1..Len(c)
            BY <3>2, <4>2
        <5>. QED BY <3>1, <3>2, <5>1
      <4>. QED BY <4>1, <4>2
    <3>. QED BY <3>2, <3>3
  <2>7. x.start = x.first + j * HealthHour
      BY <1>6, <2>2 DEF HoursOf
  <2>8. HoursOf(x, Append(c, j), j)
      BY <2>1, <2>2, <2>5, <2>6, <2>7, Zenon DEF HoursOf
  <2>9. /\ x.start \in Nat /\ x.first \in Nat /\ x.start <= upTime
        /\ x.first = Sensing!Never => x.start = Sensing!Never
    <3>1. b.first # Sensing!Never
        BY <1>1 DEF Sensing!Never
    <3>. QED BY <1>4, <1>6, <2>2, <3>1
  <2>10. HealthOf(x, Append(c, j), upTime)
      BY <2>2, <2>6, <2>8, <2>9 DEF HealthOf
  <2>. QED BY <1>7, <2>4, <2>10
<1>. QED BY <1>9, <1>10

\* What is loaded fits what is counted: nothing.
LEMMA LoadedExact ==
    ASSUME upTime \in Nat \ {0}, NEW f, NEW present, NEW m, m = Sensing!Loaded(f, present),
           NEW c, c = Sensing!Uncounted(m)
    PROVE  /\ DOMAIN m = {"list", "port", "addrs", "buses"} /\ DOMAIN c = DOMAIN m.list
           /\ \A p \in DOMAIN m.list : DOMAIN m.list[p] = RunFields /\ HealthOf(m.list[p].health, c[p], upTime)
<1>. DEFINE after[n \in 0..Len(f)] ==
                IF n = 0 THEN Sensing!Empty
                ELSE Sensing!Tried(after[n - 1], f[n], n, n \in present)
            loaded == after[Len(f)]
<1>1. m = [list |-> [p \in DOMAIN loaded.list |->
                        [e |-> loaded.list[p].e, who |-> loaded.list[p].who, last |-> Sensing!Never,
                         failing |-> FALSE, health |-> Sensing!NewHealth]],
           port |-> loaded.port, addrs |-> loaded.addrs, buses |-> loaded.buses]
    BY Zenon DEF Sensing!Loaded
<1>. HIDE DEF loaded
<1>2. /\ DOMAIN m = {"list", "port", "addrs", "buses"} /\ DOMAIN m.list = DOMAIN loaded.list
      /\ \A p \in DOMAIN loaded.list : DOMAIN m.list[p] = RunFields /\ m.list[p].health = Sensing!NewHealth
    BY <1>1 DEF RunFields
<1>3. c = [p \in DOMAIN m.list |-> <<>>]
    BY DEF Sensing!Uncounted
<1>4. HealthOf(Sensing!NewHealth, <<>>, upTime)
    BY NewIsExact
<1>. QED BY <1>2, <1>3, <1>4, Zenon

\* Every step keeps the hours of every sensor.
LEMMA SensorsStep ==
    ASSUME SensorInv, [Sensing!SensorsNext]_Sensing!sensorVars
    PROVE  SensorInv'
<1>1. CASE Sensing!PassReads
  <2>. DEFINE due == {p \in Sensing!Mine(mutex) : Sensing!Due(mgr.list[p])}
  <2>0. PICK read \in (IF mutex = "fast" THEN {due, {}} ELSE {due}) :
          \E gave \in {f \in [read -> BOOLEAN] : \A p \in read : f[p] \in mgr.list[p].e.gives} :
            /\ mgr' = [mgr EXCEPT !.list = [p \in DOMAIN @ |->
                          IF p \notin read THEN @[p]
                          ELSE LET h == Sensing!Rolled(Sensing!Begun(@[p].health)) IN
                               IF gave[p] THEN Sensing!Good(@[p], h) ELSE Sensing!Bad(@[p], h)]]
            /\ counted' = [p \in DOMAIN counted |->
                   IF p \in read /\ gave[p]
                   THEN Append(counted[p], (upTime - Sensing!Begun(mgr.list[p].health).first) \div HealthHour)
                   ELSE counted[p]]
      BY <1>1, Zenon DEF Sensing!PassReads
  <2>1. PICK gave \in {f \in [read -> BOOLEAN] : \A p \in read : f[p] \in mgr.list[p].e.gives} :
            /\ mgr' = [mgr EXCEPT !.list = [p \in DOMAIN @ |->
                          IF p \notin read THEN @[p]
                          ELSE LET h == Sensing!Rolled(Sensing!Begun(@[p].health)) IN
                               IF gave[p] THEN Sensing!Good(@[p], h) ELSE Sensing!Bad(@[p], h)]]
            /\ counted' = [p \in DOMAIN counted |->
                   IF p \in read /\ gave[p]
                   THEN Append(counted[p], (upTime - Sensing!Begun(mgr.list[p].health).first) \div HealthHour)
                   ELSE counted[p]]
      BY <2>0
  <2>2. UNCHANGED upTime
      BY <1>1 DEF Sensing!PassReads
  <2>. DEFINE new(p) == IF p \notin read THEN mgr.list[p]
                        ELSE LET h == Sensing!Rolled(Sensing!Begun(mgr.list[p].health)) IN
                             IF gave[p] THEN Sensing!Good(mgr.list[p], h) ELSE Sensing!Bad(mgr.list[p], h)
  <2>3. /\ DOMAIN mgr' = DOMAIN mgr /\ DOMAIN mgr'.list = DOMAIN mgr.list
        /\ \A p \in DOMAIN mgr.list : mgr'.list[p] = new(p)
      BY <2>1 DEF SensorInv
  <2>4. DOMAIN counted' = DOMAIN counted
      BY <2>1
  <2>5. ASSUME NEW p \in DOMAIN mgr.list
        PROVE  DOMAIN mgr'.list[p] = RunFields /\ HealthOf(mgr'.list[p].health, counted'[p], upTime')
    <3>. DEFINE s == mgr.list[p]
                h == Sensing!Rolled(Sensing!Begun(s.health))
                m == (upTime - Sensing!Begun(s.health).first) \div HealthHour
    <3>1. DOMAIN s = RunFields /\ HealthOf(s.health, counted[p], upTime) /\ upTime \in Nat \ {0} /\ p \in DOMAIN counted
        BY DEF SensorInv
    <3>2. upTime' = upTime
        BY <2>2
    <3>3. /\ DOMAIN Sensing!Good(s, h) = RunFields /\ HealthOf(Sensing!Good(s, h).health, Append(counted[p], m), upTime)
          /\ DOMAIN Sensing!Bad(s, h) = RunFields /\ HealthOf(Sensing!Bad(s, h).health, counted[p], upTime)
        BY <3>1, TickedExact
    <3>4. CASE p \notin read
      <4>1. mgr'.list[p] = s /\ counted'[p] = counted[p]
          BY <2>1, <2>3, <3>1, <3>4
      <4>. QED BY <3>1, <3>2, <4>1
    <3>5. CASE p \in read /\ gave[p]
      <4>1. mgr'.list[p] = Sensing!Good(s, h) /\ counted'[p] = Append(counted[p], m)
          BY <2>1, <2>3, <3>1, <3>5
      <4>. QED BY <3>2, <3>3, <4>1
    <3>6. CASE p \in read /\ ~gave[p]
      <4>1. mgr'.list[p] = Sensing!Bad(s, h) /\ counted'[p] = counted[p]
          BY <2>1, <2>3, <3>1, <3>6
      <4>. QED BY <3>2, <3>3, <4>1
    <3>. QED BY <3>4, <3>5, <3>6
  <2>. QED BY <2>2, <2>3, <2>4, <2>5 DEF SensorInv
<1>2. CASE Sensing!ReadNow
  <2>1. PICK p \in DOMAIN mgr.list : mgr' = [mgr EXCEPT !.list[p].failing = TRUE]
      BY <1>2 DEF Sensing!ReadNow, Sensing!Mine
  <2>2. /\ DOMAIN mgr' = DOMAIN mgr /\ DOMAIN mgr'.list = DOMAIN mgr.list
        /\ \A q \in DOMAIN mgr.list : /\ mgr'.list[q].health = mgr.list[q].health
                                      /\ DOMAIN mgr'.list[q] = RunFields
      BY <2>1 DEF SensorInv, RunFields
  <2>3. UNCHANGED <<upTime, counted>>
      BY <1>2 DEF Sensing!ReadNow
  <2>4. \A q \in DOMAIN mgr.list : HealthOf(mgr'.list[q].health, counted'[q], upTime')
      BY <2>2, <2>3 DEF SensorInv
  <2>. QED BY <2>2, <2>3, <2>4 DEF SensorInv
<1>3. CASE Sensing!TimePasses
  <2>1. UNCHANGED <<mgr, counted>>
      BY <1>3 DEF Sensing!TimePasses
  <2>2. upTime \in Nat \ {0} /\ upTime' \in Nat \ {0} /\ upTime <= upTime'
      BY <1>3, HealthAssumption DEF Sensing!TimePasses, SensorInv
  <2>3. ASSUME NEW h, NEW c, HealthOf(h, c, upTime) PROVE HealthOf(h, c, upTime')
    <3>1. h.start \in Nat /\ h.start <= upTime'
        BY <2>2, <2>3 DEF HealthOf
    <3>. QED BY <2>3, <3>1 DEF HealthOf, HoursOf
  <2>. QED BY <2>1, <2>2, <2>3 DEF SensorInv
<1>4. CASE Sensing!ReloadEnds /\ mgr' # mgr
  <2>1. PICK present : mgr' = Sensing!Loaded(platform_, present) /\ counted' = Sensing!Uncounted(mgr')
      BY <1>4 DEF Sensing!ReloadEnds
  <2>2. UNCHANGED upTime
      BY <1>4 DEF Sensing!ReloadEnds
  <2>4. upTime \in Nat \ {0}
      BY DEF SensorInv
  <2>5. /\ DOMAIN mgr' = {"list", "port", "addrs", "buses"} /\ DOMAIN counted' = DOMAIN mgr'.list
        /\ \A p \in DOMAIN mgr'.list : DOMAIN mgr'.list[p] = RunFields /\ HealthOf(mgr'.list[p].health, counted'[p], upTime)
      BY <2>1, <2>4, LoadedExact
  <2>. QED BY <2>2, <2>4, <2>5 DEF SensorInv
<1>5. CASE UNCHANGED <<mgr, counted, upTime>>
    BY <1>5 DEF SensorInv, HealthOf, HoursOf
<1>6. CASE Sensing!ReloadEnds /\ mgr' = mgr
  <2>1. UNCHANGED upTime
      BY <1>6 DEF Sensing!ReloadEnds
  <2>2. CASE counted' = counted
      BY <1>5, <1>6, <2>1, <2>2
  <2>3. CASE counted' # counted
    <3>1. PICK present : mgr' = Sensing!Loaded(platform_, present) /\ counted' = Sensing!Uncounted(mgr')
        BY <1>6, <2>3 DEF Sensing!ReloadEnds
    <3>3. upTime \in Nat \ {0}
        BY DEF SensorInv
    <3>4. /\ DOMAIN mgr' = {"list", "port", "addrs", "buses"} /\ DOMAIN counted' = DOMAIN mgr'.list
          /\ \A p \in DOMAIN mgr'.list : DOMAIN mgr'.list[p] = RunFields /\ HealthOf(mgr'.list[p].health, counted'[p], upTime)
        BY <3>1, <3>3, LoadedExact
    <3>. QED BY <2>1, <3>3, <3>4 DEF SensorInv
  <2>. QED BY <2>2, <2>3
<1>7. CASE Sensing!PassBegins \/ Sensing!StorePlatform \/ Sensing!ReloadBegins \/ UNCHANGED Sensing!sensorVars
    BY <1>5, <1>7 DEF Sensing!PassBegins, Sensing!StorePlatform, Sensing!ReloadBegins, Sensing!sensorVars
<1>. QED BY <1>1, <1>2, <1>3, <1>4, <1>6, <1>7 DEF Sensing!SensorsNext

\* The module Sensors counts as this one does.
LEMMA SameCount == \A those : Sensing!Cardinality(those) = Cardinality(those)
BY Zenon DEF Sensing!Cardinality, Cardinality

\* What is shown of an hour is what was read in it, because its slot is its own.
LEMMA ShownIsExact == SensorInv => Sensing!HealthExact
<1>. SUFFICES ASSUME SensorInv PROVE Sensing!HealthExact
    OBVIOUS
<1>1. ASSUME NEW p \in DOMAIN mgr.list, NEW back \in 0..(HealthHours - 1),
             (mgr.list[p].health.start - mgr.list[p].health.first) \div HealthHour >= back
      PROVE  Sensing!Shown(mgr.list[p].health)[back] =
               Cardinality({i \in DOMAIN counted[p] : counted[p][i] =
                  (mgr.list[p].health.start - mgr.list[p].health.first) \div HealthHour - back})
  <2>. DEFINE h == mgr.list[p].health
              now == (h.start - h.first) \div HealthHour
  <2>1. PICK k \in Nat : HoursOf(h, counted[p], k)
      BY DEF SensorInv, HealthOf
  <2>2. now = k /\ now >= back
    <3>1. h.start = h.first + k * HealthHour /\ h.first \in Nat /\ HealthHour \in Nat \ {0}
        BY <2>1, HealthAssumption DEF HoursOf, SensorInv, HealthOf
    <3>2. h.start - h.first = HealthHour * k + 0
        BY <3>1
    <3>3. 0 \in 0..(HealthHour - 1)
        BY <3>1
    <3>4. (HealthHour * k + 0) \div HealthHour = k
        BY <3>1, <3>3, DividedOnce
    <3>5. now = k
        BY <3>2, <3>4
    <3>. QED BY <1>1, <3>5
  <2>. HIDE DEF h, now
  <2>3. PICK g \in Nat : g = k - back
      BY <2>2, HealthAssumption
  <2>4. g <= k /\ k - g < HealthHours /\ back \in Int /\ HealthHours \in Nat \ {0}
      BY <2>3, HealthAssumption
  <2>5. h.reads[Slot(g)] = Cardinality(At(counted[p], g))
      BY <2>1, <2>4 DEF HoursOf
  <2>6. Sensing!Shown(h)[back] = h.reads[((h.cur + HealthHours - back - 1) % HealthHours) + 1]
      BY DEF Sensing!Shown
  <2>7. (h.cur + HealthHours - back - 1) % HealthHours = g % HealthHours
    <3>. DEFINE d == HealthHours - back
    <3>1. k % HealthHours \in Int /\ k \in Int /\ d \in Int
        BY <2>4, Divided
    <3>2. h.cur = (k % HealthHours) + 1
        BY <2>1 DEF HoursOf, Slot
    <3>3. h.cur + HealthHours - back - 1 = (k % HealthHours) + d
        BY <2>4, <3>1, <3>2
    <3>. HIDE DEF d
    <3>4. ((k % HealthHours) + d) % HealthHours = (k + d) % HealthHours
        BY <2>4, <3>1, OnwardFromSlot
    <3>. DEFINE q == 1
    <3>5. k + d = HealthHours * q + g /\ q \in Int
        BY <2>3, <2>4 DEF d
    <3>. HIDE DEF q
    <3>6. (HealthHours * q + g) % HealthHours = g % HealthHours
      <4>1. HealthHours \in Nat \ {0} /\ q \in Int /\ g \in Int
          BY <2>4, <3>5
      <4>. QED BY <4>1, WholeTurns
    <3>. QED BY <3>3, <3>4, <3>5, <3>6
  <2>8. Sensing!Shown(h)[back] = Cardinality(At(counted[p], g))
      BY <2>5, <2>6, <2>7 DEF Slot
  <2>9. now - back = g
      BY <2>2, <2>3
  <2>. QED BY <2>8, <2>9 DEF At, h, now
<1>. QED BY <1>1, SameCount, Zenon DEF Sensing!HealthExact

\* For any platform, jump of the clock and number of hours remembered: the hours
\* shown of a sensor's health are the reads made in them.
THEOREM HealthIsItsOwn == Spec => []HealthExact
<1>. DEFINE Inv == part = "sensors" => SensorInv
<1>1. Init => Inv
  <2>. SUFFICES ASSUME Init, part = "sensors" PROVE SensorInv
      OBVIOUS
  <2>1. PICK present : mgr = Sensing!Loaded(platform_, present)
      BY DEF Init, Sensing!SensorsInit
  <2>2. upTime = 1 /\ counted = Sensing!Uncounted(mgr)
      BY DEF Init, Sensing!SensorsInit
  <2>. QED BY <2>1, <2>2, LoadedExact DEF SensorInv
<1>2. Inv /\ [Next]_vars => Inv'
    BY PartsMoveAlone, SensorsStep
<1>3. Inv => HealthExact
    BY ShownIsExact DEF HealthExact
<1>. QED BY <1>1, <1>2, <1>3, PTL DEF Spec

-----------------------------------------------------------------------------
(* NodeSensors: dust is read warm.                                         *)

DriverFields == {"up", "awake", "woke", "cmd", "frame", "pm", "warmed", "asked", "pending"}
DriverType(d) ==
    /\ DOMAIN d = DriverFields
    /\ d.up \in BOOLEAN /\ d.awake \in BOOLEAN /\ d.warmed \in BOOLEAN
    /\ d.woke \in Nat /\ d.frame \in Nat /\ d.pm \in Nat /\ d.asked \in Nat

SensorsOf(s) == {i \in DOMAIN s.sensors : s.sensors[i].type = "sds011"}

MeasuredTypes ==
    /\ setup \in Setups
    /\ DOMAIN luck = {"miss", "plug", "reboot"}
    /\ luck.miss \in Int /\ luck.miss <= setup.troubles.miss
    /\ luck.plug \in Int /\ luck.plug <= setup.troubles.plug
    /\ DriverType(drv) /\ port \in Seq(Nat)
    /\ DOMAIN dust = {"works", "ran", "there"} /\ dust.works \in BOOLEAN /\ dust.ran \in Nat
    /\ DOMAIN loop = {"at", "left", "tick", "held", "idled", "retry"}
    /\ loop.left \in Nat /\ loop.held \in Nat /\ loop.idled \in BOOLEAN

\* A driver that is up drives the sensors of the wiring it was set up with.
UpIsLive ==
    /\ entry.wiring \in {"none", setup.wiring}
    /\ loop.at = "setup" => entry.wiring = "none" /\ ~drv.up
    /\ drv.up => entry.wiring = setup.wiring /\ SensorsOf(setup) \subseteq entry.ok /\ SensorsOf(setup) # {}

\* The driver d knows of the sensor u, and of the frames waiting for it, what it
\* relies on: the fan has run as long as the wake-up lasts, the newest frame is of
\* now, and a value taken now came from a fan that had run the whole warm-up.
Knows(d, u, frames) ==
    /\ u.works = d.awake
    /\ d.awake => u.ran >= d.woke /\ (d.warmed => u.ran >= d.asked)
    /\ d.awake /\ d.warmed /\ d.pm # Measuring!None /\ d.frame = 0 => d.pm >= d.asked
    /\ frames # <<>> => d.awake /\ frames[Len(frames)] = u.ran

\* Where the loop is: how many frames may wait there.
InTime ==
    /\ loop.at = "busy" => \/ loop.held <= setup.block /\ loop.left + loop.held = setup.interval
                           \/ loop.held <= setup.block /\ loop.left = 0 /\ Measuring!sensorDue(loop.tick) /\ ~setup.radio
    /\ drv.up /\ loop.at = "busy" => Len(port) <= loop.held
    /\ drv.up /\ loop.at = "idle" /\ loop.idled => port = <<>>
    /\ drv.up /\ loop.at \in {"send", "read"} /\ port # <<>> => Measuring!sensorDue(loop.tick)

Quiet == Measuring!Obeyed /\ Measuring!Calm
WarmInv ==
    /\ MeasuredTypes /\ UpIsLive
    /\ Quiet => /\ dust.there
                /\ InTime
                /\ drv.up => Knows(drv, dust, port)
                /\ lastRead.got => lastRead.value >= lastRead.asked

\* What the list of sensors says is a number.
LEMMA SetupNumbers ==
    ASSUME setup \in Setups
    PROVE  /\ Measuring!Warmup \in Nat /\ Measuring!Every \in Nat \ {0}
           /\ Measuring!Dust = SensorsOf(setup)
<1>1. Measuring!Dust = SensorsOf(setup)
    BY DEF Measuring!Dust, Measuring!List, SensorsOf
<1>2. \A i \in Measuring!Dust : setup.sensors[i].warmup \in Nat /\ setup.sensors[i].every \in Nat \ {0}
    BY SetupsAssumption DEF Measuring!Dust, Measuring!List
<1>3. CASE Measuring!Dust = {}
    BY <1>1, <1>3 DEF Measuring!Warmup, Measuring!Every
<1>4. CASE Measuring!Dust # {}
  <2>1. (CHOOSE i \in Measuring!Dust : TRUE) \in Measuring!Dust
      BY <1>4
  <2>. QED BY <1>1, <1>2, <1>4, <2>1 DEF Measuring!Warmup, Measuring!Every, Measuring!List
<1>. QED BY <1>3, <1>4

\* Ages grow, each past the other no more than before.
LEMMA Older ==
    ASSUME NEW n \in Nat, NEW m \in Nat
    PROVE  /\ Measuring!Aged(n) \in Nat /\ Measuring!Aged(n) >= n /\ Measuring!Aged(n) # 0
           /\ n >= m => Measuring!Aged(n) >= Measuring!Aged(m)
BY DEF Measuring!Aged, Measuring!Far

\* An obeyed command is one that was heard.
LEMMA HeardWhenObeyed ==
    ASSUME MeasuredTypes, NEW work \in BOOLEAN, Measuring!Hears(work), setup'.troubles = setup.troubles,
           Measuring!Obeyed'
    PROVE  /\ luck' = luck
           /\ dust' = [dust EXCEPT !.works = work, !.ran = IF work /\ ~dust.works THEN 0 ELSE @]
<1>1. ASSUME Measuring!Trouble("miss") PROVE FALSE
  <2>1. luck'.miss = luck.miss - 1
      BY <1>1 DEF Measuring!Trouble, MeasuredTypes
  <2>2. luck'.miss = setup.troubles.miss
      BY DEF Measuring!Obeyed
  <2>3. setup.troubles.miss \in Nat
      BY SetupsAssumption DEF MeasuredTypes
  <2>. QED BY <2>1, <2>2, <2>3 DEF MeasuredTypes
<1>. QED BY <1>1 DEF Measuring!Hears

\* Commands may be missed, and nothing else of luck changes.
LEMMA HearsTypes ==
    ASSUME MeasuredTypes, NEW work \in BOOLEAN, Measuring!Hears(work)
    PROVE  /\ DOMAIN luck' = {"miss", "plug", "reboot"}
           /\ luck'.miss \in Int /\ luck'.miss <= setup.troubles.miss
           /\ luck'.plug = luck.plug
           /\ DOMAIN dust' = {"works", "ran", "there"} /\ dust'.works \in BOOLEAN /\ dust'.ran \in Nat
           /\ dust'.there = dust.there
<1>0. setup.troubles.miss \in Nat
    BY SetupsAssumption DEF MeasuredTypes
<1>1. CASE luck' = luck /\ dust' = [dust EXCEPT !.works = work, !.ran = IF work /\ ~dust.works THEN 0 ELSE @]
    BY <1>1 DEF MeasuredTypes
<1>2. CASE Measuring!Trouble("miss") /\ dust' = dust
  <2>1. DOMAIN luck' = DOMAIN luck /\ luck'.miss = luck.miss - 1 /\ luck'.plug = luck.plug
      BY <1>2 DEF Measuring!Trouble, MeasuredTypes
  <2>. QED BY <1>0, <1>2, <2>1 DEF MeasuredTypes
<1>. QED BY <1>1, <1>2 DEF Measuring!Hears

\* sdsSetWorking() keeps a record of the driver one.
LEMMA ToldType ==
    ASSUME NEW d, DriverType(d), NEW work \in BOOLEAN
    PROVE  LET e == Measuring!Told(d, work) IN
           /\ DriverType(e) /\ e.up = d.up /\ e.awake = work
           /\ e.woke = IF work /\ ~d.awake THEN 0 ELSE d.woke
           /\ e.warmed = (d.warmed /\ ~(work /\ ~d.awake))
           /\ e.pm = IF work THEN d.pm ELSE Measuring!None
           /\ e.frame = d.frame /\ e.asked = d.asked /\ e.pending = d.pending
<1>. DEFINE e == Measuring!Told(d, work)
            wakes == work /\ ~d.awake
<1>1. e = [d EXCEPT !.cmd = 0, !.awake = work, !.woke = IF wakes THEN 0 ELSE @,
                    !.warmed = @ /\ ~wakes, !.pm = IF work THEN @ ELSE Measuring!None]
    BY DEF Measuring!Told
<1>. HIDE DEF e
<1>2. /\ DOMAIN e = DriverFields /\ e.up = d.up /\ e.awake = work
      /\ e.frame = d.frame /\ e.asked = d.asked /\ e.pending = d.pending
    BY <1>1 DEF DriverType, DriverFields
<1>3. e.woke = (IF wakes THEN 0 ELSE d.woke) /\ e.pm = (IF work THEN d.pm ELSE Measuring!None)
    BY <1>1 DEF DriverType, DriverFields
<1>4. e.warmed = (d.warmed /\ ~wakes)
    BY <1>1 DEF DriverType, DriverFields
<1>5. DriverType(e)
    BY <1>2, <1>3, <1>4 DEF DriverType, Measuring!None
<1>. QED BY <1>2, <1>3, <1>4, <1>5 DEF e

\* A command that is heard: driver and sensor agree, and no frame waits.
LEMMA ToldKnows ==
    ASSUME NEW d, DriverType(d), NEW u, DOMAIN u = {"works", "ran", "there"}, u.ran \in Nat, u.works \in BOOLEAN,
           Knows(d, u, <<>>), NEW work \in BOOLEAN
    PROVE  Knows(Measuring!Told(d, work),
                 [u EXCEPT !.works = work, !.ran = IF work /\ ~u.works THEN 0 ELSE @], <<>>)
<1>. DEFINE e == Measuring!Told(d, work)
            v == [u EXCEPT !.works = work, !.ran = IF work /\ ~u.works THEN 0 ELSE @]
<1>1. /\ e.awake = work /\ e.woke = (IF work /\ ~d.awake THEN 0 ELSE d.woke)
      /\ e.warmed = (d.warmed /\ ~(work /\ ~d.awake))
      /\ e.pm = (IF work THEN d.pm ELSE Measuring!None)
      /\ e.frame = d.frame /\ e.asked = d.asked
    BY ToldType
<1>2. v.works = work /\ v.ran = IF work /\ ~u.works THEN 0 ELSE u.ran
    OBVIOUS
<1>. HIDE DEF e, v
<1>3. Knows(e, v, <<>>)
  <2>1. CASE ~work
      BY <1>1, <1>2, <2>1 DEF Knows
  <2>2. CASE work /\ d.awake
      BY <1>1, <1>2, <2>2 DEF Knows, DriverType
  <2>3. CASE work /\ ~d.awake
      BY <1>1, <1>2, <2>3 DEF Knows, DriverType
  <2>. QED BY <2>1, <2>2, <2>3
<1>. QED BY <1>3 DEF e, v

\* drainSds(): what waits is of now, so what it gives is as warm as the fan is.
LEMMA DrainedKnows ==
    ASSUME MeasuredTypes
    PROVE  LET d == Measuring!Drained(drv) IN
           /\ DriverType(d) /\ d.up = drv.up /\ d.awake = drv.awake
           /\ Knows(drv, dust, port) => Knows(d, dust, <<>>)
<1>. DEFINE d == Measuring!Drained(drv)
            reached == drv.awake /\ drv.woke >= Measuring!Warmup
<1>0. Measuring!Warmup \in Nat /\ DriverType(drv) /\ port \in Seq(Nat) /\ dust.ran \in Nat
    BY SetupNumbers DEF MeasuredTypes
<1>1. CASE port = <<>>
  <2>1. d = drv
      BY <1>1 DEF Measuring!Drained
  <2>. QED BY <1>0, <1>1, <2>1
<1>2. CASE port # <<>>
  <2>1. d = [drv EXCEPT !.pm = port[Len(port)], !.frame = 0, !.warmed = @ \/ reached,
                        !.asked = IF reached /\ ~drv.warmed THEN Measuring!Warmup ELSE @]
      BY <1>2 DEF Measuring!Drained
  <2>. HIDE DEF d
  <2>2. /\ DOMAIN d = DriverFields /\ d.up = drv.up /\ d.awake = drv.awake /\ d.woke = drv.woke
        /\ d.pm = port[Len(port)] /\ d.frame = 0
      BY <1>0, <2>1 DEF DriverType, DriverFields
  <2>3. /\ d.warmed = (drv.warmed \/ reached)
        /\ d.asked = IF reached /\ ~drv.warmed THEN Measuring!Warmup ELSE drv.asked
      BY <1>0, <2>1 DEF DriverType, DriverFields
  <2>4. port[Len(port)] \in Nat
      BY <1>0, <1>2
  <2>5. DriverType(d)
      BY <1>0, <2>2, <2>3, <2>4 DEF DriverType
  <2>6. ASSUME Knows(drv, dust, port) PROVE Knows(d, dust, <<>>)
    <3>1. drv.awake /\ port[Len(port)] = dust.ran /\ dust.ran >= drv.woke /\ dust.works = drv.awake
        BY <1>2, <2>6 DEF Knows
    <3>2. d.warmed => dust.ran >= d.asked
      <4>1. CASE reached /\ ~drv.warmed
          BY <1>0, <2>3, <3>1, <4>1 DEF DriverType
      <4>2. CASE ~(reached /\ ~drv.warmed)
          BY <2>3, <2>6, <3>1, <4>2 DEF Knows
      <4>. QED BY <4>1, <4>2
    <3>. QED BY <2>2, <3>1, <3>2 DEF Knows
  <2>. QED BY <2>2, <2>5, <2>6 DEF d
<1>. QED BY <1>1, <1>2

\* What Down, NotReady and a driver just set up are.
LEMMA FreshRecords ==
    /\ DriverType(Measuring!Down) /\ ~Measuring!Down.up
    /\ LET e == Measuring!Told([Measuring!Down EXCEPT !.up = TRUE], TRUE) IN
       DriverType(e) /\ e.up /\ e.awake /\ e.woke = 0 /\ ~e.warmed
<1>1. DriverType(Measuring!Down) /\ ~Measuring!Down.up /\ ~Measuring!Down.awake /\ ~Measuring!Down.warmed
    BY DEF Measuring!Down, Measuring!Far, Measuring!None, DriverType, DriverFields
<1>. DEFINE d == [Measuring!Down EXCEPT !.up = TRUE]
<1>2. DriverType(d) /\ d.up /\ ~d.awake /\ ~d.warmed
    BY <1>1 DEF DriverType, DriverFields
<1>. HIDE DEF d
<1>3. DriverType(Measuring!Told(d, TRUE)) /\ Measuring!Told(d, TRUE).up = d.up
    BY <1>2, ToldType
<1>4. LET e == Measuring!Told(d, TRUE) IN e.awake = TRUE /\ e.woke = 0 /\ e.warmed = FALSE
    BY <1>2, ToldType
<1>. QED BY <1>1, <1>2, <1>3, <1>4 DEF d

\* A driver that has just woken its sensor has nothing to be wrong about.
LEMMA JustWoken ==
    ASSUME NEW d, NEW u, u.works = d.awake, d.woke = 0, ~d.warmed, u.ran \in Nat
    PROVE  Knows(d, u, <<>>)
BY DEF Knows

\* nodeSensorsBegin(): the driver stays as it is, is gone, or has just been woken;
\* the sensors it is for are among the entries that are up.
LEMMA BeginOutcomes ==
    ASSUME NEW new \in Setups, Measuring!Begin(new)
    PROVE  /\ entry'.wiring = new.wiring /\ SensorsOf(new) \subseteq entry'.ok
           /\ \/ drv' = drv /\ entry.wiring = new.wiring /\ UNCHANGED <<port, dust, luck>>
              \/ drv' = Measuring!Down /\ UNCHANGED <<port, dust, luck>>
              \/ /\ drv' = Measuring!Told([Measuring!Down EXCEPT !.up = TRUE], TRUE) /\ port' = <<>>
                 /\ Measuring!Hears(TRUE) /\ SensorsOf(new) # {}
<1>. DEFINE kept == IF Measuring!sameSetup(new) THEN entry.ok ELSE {}
            ok == kept \cup Measuring!Ups(new)
            starts == \E i \in ok \ kept : new.sensors[i].type = "sds011"
<1>1. entry' = [ok |-> ok, wiring |-> new.wiring]
    BY DEF Measuring!Begin
<1>2. IF starts
      THEN /\ drv' = Measuring!Told([Measuring!Down EXCEPT !.up = TRUE], TRUE)
           /\ port' = <<>> /\ Measuring!Hears(TRUE)
      ELSE /\ drv' = IF Measuring!sameSetup(new) THEN drv ELSE Measuring!Down
           /\ UNCHANGED <<port, dust, luck>>
    BY DEF Measuring!Begin
<1>3. SensorsOf(new) \subseteq Measuring!Ups(new)
    BY DEF SensorsOf, Measuring!Ups
<1>4. starts => SensorsOf(new) # {}
  <2>. SUFFICES ASSUME starts PROVE SensorsOf(new) # {}
      OBVIOUS
  <2>1. PICK i \in Measuring!Ups(new) : new.sensors[i].type = "sds011"
      OBVIOUS
  <2>2. i \in DOMAIN new.sensors
      BY DEF Measuring!Ups
  <2>. QED BY <2>1, <2>2 DEF SensorsOf
<1>5. entry'.wiring = new.wiring /\ SensorsOf(new) \subseteq entry'.ok
    BY <1>1, <1>3
<1>6. CASE starts
    BY <1>2, <1>4, <1>5, <1>6
<1>7. CASE ~starts
    BY <1>2, <1>5, <1>7 DEF Measuring!sameSetup
<1>. QED BY <1>6, <1>7

\* One wiring has its dust sensors in the same places.
LEMMA SameSensors ==
    ASSUME NEW s \in Setups, NEW t \in Setups, s.wiring = t.wiring
    PROVE  SensorsOf(s) = SensorsOf(t)
<1>1. Fitted(s) = Fitted(t)
    BY SetupsAssumption
<1>2. DOMAIN s.sensors = DOMAIN t.sensors /\ \A i \in DOMAIN s.sensors : s.sensors[i].type = t.sensors[i].type
  <2>1. DOMAIN Fitted(s) = DOMAIN s.sensors /\ DOMAIN Fitted(t) = DOMAIN t.sensors
      BY DEF Fitted
  <2>2. \A i \in DOMAIN s.sensors : Fitted(s)[i] = s.sensors[i].type
      BY DEF Fitted
  <2>3. \A i \in DOMAIN t.sensors : Fitted(t)[i] = t.sensors[i].type
      BY DEF Fitted
  <2>. QED BY <1>1, <2>1, <2>2, <2>3
<1>. QED BY <1>2 DEF SensorsOf

\* What bringing the sensors up keeps, for the configuration it leaves the node with.
LEMMA BeginKeeps ==
    ASSUME MeasuredTypes, UpIsLive, NEW new \in Setups, new.troubles = setup.troubles,
           setup' = new, Measuring!Begin(new),
           DOMAIN loop' = {"at", "left", "tick", "held", "idled", "retry"},
           loop'.left \in Nat, loop'.held \in Nat, loop'.idled \in BOOLEAN, loop'.at # "setup"
    PROVE  /\ MeasuredTypes' /\ UpIsLive'
           /\ Measuring!Obeyed' =>
                /\ luck' = luck /\ dust'.there = dust.there
                /\ drv'.up => port' = <<>> \/ (drv.up /\ port' = port)
                /\ (drv.up => Knows(drv, dust, port)) => (drv'.up => Knows(drv', dust', port'))
<1>1. new.wiring # "none"
    BY SetupsAssumption
<1>2. /\ entry'.wiring = new.wiring /\ SensorsOf(new) \subseteq entry'.ok
      /\ \/ drv' = drv /\ entry.wiring = new.wiring /\ UNCHANGED <<port, dust, luck>>
         \/ drv' = Measuring!Down /\ UNCHANGED <<port, dust, luck>>
         \/ /\ drv' = Measuring!Told([Measuring!Down EXCEPT !.up = TRUE], TRUE) /\ port' = <<>>
            /\ Measuring!Hears(TRUE) /\ SensorsOf(new) # {}
    BY BeginOutcomes
<1>3. SensorsOf(setup)' = SensorsOf(new)
    OBVIOUS
<1>4. setup \in Setups /\ (drv.up => setup.wiring = entry.wiring /\ SensorsOf(setup) # {})
    BY DEF MeasuredTypes, UpIsLive
<1>5. CASE drv' = drv /\ entry.wiring = new.wiring /\ UNCHANGED <<port, dust, luck>>
  <2>1. drv.up => SensorsOf(new) # {}
      BY <1>4, <1>5, SameSensors
  <2>2. UpIsLive'
      BY <1>2, <1>3, <1>5, <2>1 DEF UpIsLive
  <2>3. MeasuredTypes'
      BY <1>5 DEF MeasuredTypes
  <2>. QED BY <1>5, <2>2, <2>3
<1>6. CASE drv' = Measuring!Down /\ UNCHANGED <<port, dust, luck>>
  <2>1. ~drv'.up /\ DriverType(drv')
      BY <1>6, FreshRecords
  <2>2. UpIsLive'
      BY <1>2, <2>1 DEF UpIsLive
  <2>3. MeasuredTypes'
      BY <1>6, <2>1 DEF MeasuredTypes
  <2>. QED BY <1>6, <2>1, <2>2, <2>3
<1>7. CASE /\ drv' = Measuring!Told([Measuring!Down EXCEPT !.up = TRUE], TRUE) /\ port' = <<>>
           /\ Measuring!Hears(TRUE) /\ SensorsOf(new) # {}
  <2>1. DriverType(drv') /\ drv'.up /\ drv'.awake /\ drv'.woke = 0 /\ ~drv'.warmed
      BY <1>7, FreshRecords
  <2>2. UpIsLive'
      BY <1>2, <1>3, <1>7 DEF UpIsLive
  <2>3. /\ DOMAIN luck' = {"miss", "plug", "reboot"}
        /\ luck'.miss \in Int /\ luck'.miss <= setup.troubles.miss
        /\ luck'.plug = luck.plug
        /\ DOMAIN dust' = {"works", "ran", "there"} /\ dust'.works \in BOOLEAN /\ dust'.ran \in Nat
        /\ dust'.there = dust.there
      BY <1>7, HearsTypes
  <2>4. port' \in Seq(Nat)
      BY <1>7
  <2>5. luck'.plug \in Int /\ luck'.plug <= setup'.troubles.plug /\ luck'.miss <= setup'.troubles.miss
      BY <2>3 DEF MeasuredTypes
  <2>6. MeasuredTypes'
      BY <2>1, <2>3, <2>4, <2>5 DEF MeasuredTypes
  <2>7. ASSUME Measuring!Obeyed' PROVE luck' = luck /\ Knows(drv', dust', port')
    <3>1. luck' = luck /\ dust' = [dust EXCEPT !.works = TRUE, !.ran = IF ~dust.works THEN 0 ELSE @]
        BY <1>7, <2>7, HeardWhenObeyed
    <3>2. dust'.works = TRUE /\ dust'.ran \in Nat
        BY <2>3, <3>1 DEF MeasuredTypes
    <3>3. drv'.awake \in BOOLEAN
        BY <2>1 DEF DriverType
    <3>4. dust'.works = drv'.awake
        BY <2>1, <3>2, <3>3
    <3>5. Knows(drv', dust', <<>>)
        BY <2>1, <3>2, <3>4, JustWoken
    <3>6. port' = <<>>
        BY <1>7
    <3>. QED BY <3>1, <3>5, <3>6
  <2>. QED BY <1>7, <2>2, <2>3, <2>6, <2>7
<1>. QED BY <1>2, <1>5, <1>6, <1>7

\* What depends on the configuration alone stays with it.
LEMMA SameSetup ==
    ASSUME setup' = setup
    PROVE  /\ Measuring!Every' = Measuring!Every /\ Measuring!Calm' = Measuring!Calm
           /\ luck'.miss = luck.miss /\ luck'.plug = luck.plug => (Quiet' <=> Quiet)
<1>1. Measuring!Every' = Measuring!Every
    BY DEF Measuring!Every, Measuring!Dust, Measuring!List
<1>2. Measuring!Calm' = Measuring!Calm
    BY DEF Measuring!Calm, Measuring!MayBecome
<1>. QED BY <1>1, <1>2 DEF Quiet, Measuring!Obeyed

\* The first reading is due: 0 is a multiple of everything.
LEMMA FirstIsDue ==
    ASSUME setup \in Setups
    PROVE  Measuring!sensorDue(0)
<1>1. Measuring!Every \in Nat \ {0}
    BY SetupNumbers
<1>2. \A n \in Nat \ {0} : 0 % n = 0
    OBVIOUS
<1>. QED BY <1>1, <1>2 DEF Measuring!sensorDue

\* setup(): what comes up has nothing to read yet, and the first read is due.
LEMMA SetupWarm ==
    ASSUME WarmInv, Measuring!Setup
    PROVE  WarmInv'
<1>1. /\ loop.at = "setup" /\ Measuring!Begin(setup)
      /\ loop' = [Measuring!NotReady EXCEPT !.at = IF setup.radio THEN "send" ELSE "busy"]
      /\ setup' = setup /\ lastRead' = lastRead
    BY DEF Measuring!Setup
<1>2. /\ DOMAIN loop' = {"at", "left", "tick", "held", "idled", "retry"}
      /\ loop'.left = 0 /\ loop'.held = 0 /\ loop'.idled = TRUE /\ loop'.tick = 0
      /\ loop'.at = IF setup.radio THEN "send" ELSE "busy"
    BY <1>1 DEF Measuring!NotReady
<1>3. MeasuredTypes /\ UpIsLive /\ setup \in Setups /\ ~drv.up
    BY <1>1 DEF WarmInv, UpIsLive, MeasuredTypes
<1>4. /\ MeasuredTypes' /\ UpIsLive'
      /\ Measuring!Obeyed' =>
           /\ luck' = luck /\ dust'.there = dust.there
           /\ drv'.up => port' = <<>> \/ (drv.up /\ port' = port)
           /\ (drv.up => Knows(drv, dust, port)) => (drv'.up => Knows(drv', dust', port'))
  <2>1. loop'.left \in Nat /\ loop'.held \in Nat
      BY <1>2
  <2>2. loop'.at # "setup"
      BY <1>2
  <2>3. loop'.idled \in BOOLEAN
      BY <1>2
  <2>4. setup.troubles = setup.troubles
      OBVIOUS
  <2>. QED BY <1>1, <1>2, <1>3, <2>1, <2>2, <2>3, <2>4, BeginKeeps
<1>5. ASSUME Quiet'
      PROVE  dust'.there /\ InTime' /\ (drv'.up => Knows(drv', dust', port'))
             /\ (lastRead'.got => lastRead'.value >= lastRead'.asked)
  <2>1. Measuring!Obeyed'
      BY <1>5 DEF Quiet
  <2>2. Quiet
      BY <1>1, <1>4, <1>5, <2>1, SameSetup
  <2>3. dust.there /\ (lastRead.got => lastRead.value >= lastRead.asked)
      BY <2>2 DEF WarmInv
  <2>4. drv'.up => port' = <<>>
      BY <1>3, <1>4, <2>1
  <2>5. Measuring!sensorDue(loop'.tick) /\ setup.block \in Nat /\ setup.radio \in BOOLEAN
      BY <1>2, <1>3, FirstIsDue, SetupsAssumption
  <2>6. Measuring!Every' = Measuring!Every
      BY <1>1, SameSetup
  <2>7. Measuring!sensorDue(loop.tick)'
      BY <2>5, <2>6 DEF Measuring!sensorDue
  <2>8. drv'.up => Len(port') <= loop'.held
      BY <1>2, <2>4
  <2>9. loop'.held <= setup'.block /\ loop'.left = 0 /\ (loop'.at = "busy" => ~setup'.radio)
      BY <1>1, <1>2, <2>5
  <2>10. loop'.at # "idle"
      BY <1>2
  <2>11. InTime'
      BY <2>7, <2>8, <2>9, <2>10 DEF InTime
  <2>. QED BY <1>1, <1>3, <1>4, <2>1, <2>3, <2>11
<1>. QED BY <1>4, <1>5 DEF WarmInv

\* Looking for the missing sensors: a dust sensor that is up stays as it is.
LEMMA RetryWarm ==
    ASSUME WarmInv, Measuring!Retry
    PROVE  WarmInv'
<1>1. /\ loop.at = "send" /\ setup' = setup /\ lastRead' = lastRead
      /\ \/ loop' = [loop EXCEPT !.at = "read", !.retry = @ + 1] /\ UNCHANGED <<entry, pulse, drv, port, dust, luck>>
         \/ Measuring!Begin(setup) /\ loop' = [loop EXCEPT !.at = "read", !.retry = 0]
    BY DEF Measuring!Retry
<1>2. MeasuredTypes /\ UpIsLive /\ setup \in Setups
    BY DEF WarmInv, MeasuredTypes
<1>3. /\ DOMAIN loop' = {"at", "left", "tick", "held", "idled", "retry"}
      /\ loop'.left = loop.left /\ loop'.held = loop.held /\ loop'.idled = loop.idled /\ loop'.tick = loop.tick
      /\ loop'.at = "read"
    BY <1>1, <1>2 DEF MeasuredTypes
<1>4. loop'.left \in Nat /\ loop'.held \in Nat /\ loop'.idled \in BOOLEAN /\ loop'.at # "setup"
    BY <1>2, <1>3 DEF MeasuredTypes
<1>5. /\ MeasuredTypes' /\ UpIsLive'
      /\ Measuring!Obeyed' =>
           /\ luck' = luck /\ dust'.there = dust.there
           /\ drv'.up => port' = <<>> \/ (drv.up /\ port' = port)
           /\ (drv.up => Knows(drv, dust, port)) => (drv'.up => Knows(drv', dust', port'))
  <2>1. CASE UNCHANGED <<entry, pulse, drv, port, dust, luck>>
    <3>1. MeasuredTypes'
        BY <1>1, <1>2, <1>3, <1>4, <2>1 DEF MeasuredTypes
    <3>2. UpIsLive'
        BY <1>1, <1>2, <1>4, <2>1 DEF UpIsLive, SensorsOf
    <3>. QED BY <2>1, <3>1, <3>2
  <2>2. CASE Measuring!Begin(setup)
      BY <1>1, <1>2, <1>3, <1>4, <2>2, BeginKeeps
  <2>. QED BY <1>1, <2>1, <2>2
<1>6. ASSUME Quiet'
      PROVE  dust'.there /\ InTime' /\ (drv'.up => Knows(drv', dust', port'))
             /\ (lastRead'.got => lastRead'.value >= lastRead'.asked)
  <2>1. Measuring!Obeyed'
      BY <1>6 DEF Quiet
  <2>2. Quiet
      BY <1>1, <1>5, <1>6, <2>1, SameSetup
  <2>3. /\ dust.there /\ (lastRead.got => lastRead.value >= lastRead.asked)
        /\ InTime /\ (drv.up => Knows(drv, dust, port))
      BY <2>2 DEF WarmInv
  <2>4. drv'.up /\ port' # <<>> => Measuring!sensorDue(loop.tick)
      BY <1>1, <1>5, <2>1, <2>3 DEF InTime
  <2>5. Measuring!Every' = Measuring!Every
      BY <1>1, SameSetup
  <2>6. drv'.up /\ port' # <<>> => Measuring!sensorDue(loop.tick)'
      BY <1>3, <2>4, <2>5 DEF Measuring!sensorDue
  <2>7. InTime'
      BY <1>3, <2>6 DEF InTime
  <2>. QED BY <1>1, <1>5, <2>1, <2>3, <2>7
<1>. QED BY <1>5, <1>6 DEF WarmInv

\* The post is over: a send that follows at once reads the sensor.
LEMMA PostedWarm ==
    ASSUME WarmInv, Measuring!Posted
    PROVE  WarmInv'
<1>1. /\ loop.at = "busy"
      /\ loop' = [loop EXCEPT !.at = IF loop.left = 0 THEN "send" ELSE "idle", !.held = 0, !.idled = FALSE]
      /\ setup' = setup /\ entry' = entry /\ dust' = dust /\ port' = port /\ drv' = drv
      /\ lastRead' = lastRead /\ luck' = luck
    BY DEF Measuring!Posted
<1>2. MeasuredTypes /\ UpIsLive /\ setup \in Setups
    BY DEF WarmInv, MeasuredTypes
<1>3. /\ DOMAIN loop' = {"at", "left", "tick", "held", "idled", "retry"}
      /\ loop'.left = loop.left /\ loop'.held = 0 /\ loop'.idled = FALSE /\ loop'.tick = loop.tick
      /\ loop'.at = IF loop.left = 0 THEN "send" ELSE "idle"
    BY <1>1, <1>2 DEF MeasuredTypes
<1>4. MeasuredTypes'
    BY <1>1, <1>2, <1>3 DEF MeasuredTypes
<1>5. UpIsLive'
    BY <1>1, <1>2, <1>3 DEF UpIsLive, SensorsOf
<1>6. ASSUME Quiet'
      PROVE  dust'.there /\ InTime' /\ (drv'.up => Knows(drv', dust', port'))
             /\ (lastRead'.got => lastRead'.value >= lastRead'.asked)
  <2>1. Quiet
      BY <1>1, <1>6, SameSetup
  <2>2. /\ dust.there /\ (lastRead.got => lastRead.value >= lastRead.asked)
        /\ InTime /\ (drv.up => Knows(drv, dust, port))
      BY <2>1 DEF WarmInv
  <2>3. setup.block < setup.interval /\ setup.block \in Nat /\ setup.interval \in Nat /\ loop.held \in Nat
      BY <1>2, <2>1, SetupsAssumption DEF Quiet, Measuring!Calm, MeasuredTypes
  <2>4. loop.left = 0 => Measuring!sensorDue(loop.tick)
      BY <1>1, <2>2, <2>3 DEF InTime
  <2>5. Measuring!Every' = Measuring!Every
      BY <1>1, SameSetup
  <2>6. loop'.at = "send" => Measuring!sensorDue(loop.tick)'
      BY <1>3, <2>4, <2>5 DEF Measuring!sensorDue
  <2>7. InTime'
      BY <1>3, <2>6 DEF InTime
  <2>. QED BY <1>1, <2>2, <2>7
<1>. QED BY <1>4, <1>5, <1>6 DEF WarmInv

\* A command the driver gives after a read or between reads: types, and what is known.
LEMMA CommandKeeps ==
    ASSUME MeasuredTypes, NEW d, DriverType(d), d.up = drv.up, NEW work \in BOOLEAN, setup' = setup,
           drv' = Measuring!Told(d, work), Measuring!Hears(work)
    PROVE  /\ DriverType(drv') /\ drv'.up = drv.up
           /\ DOMAIN luck' = {"miss", "plug", "reboot"}
           /\ luck'.miss \in Int /\ luck'.miss <= setup.troubles.miss /\ luck'.plug = luck.plug
           /\ DOMAIN dust' = {"works", "ran", "there"} /\ dust'.works \in BOOLEAN /\ dust'.ran \in Nat
           /\ Measuring!Obeyed' =>
                /\ luck' = luck /\ dust'.there = dust.there
                /\ Knows(d, dust, <<>>) => Knows(drv', dust', <<>>)
<1>1. DriverType(drv') /\ drv'.up = drv.up
    BY ToldType
<1>2. /\ DOMAIN luck' = {"miss", "plug", "reboot"}
      /\ luck'.miss \in Int /\ luck'.miss <= setup.troubles.miss /\ luck'.plug = luck.plug
      /\ DOMAIN dust' = {"works", "ran", "there"} /\ dust'.works \in BOOLEAN /\ dust'.ran \in Nat
      /\ dust'.there = dust.there
    BY HearsTypes
<1>3. ASSUME Measuring!Obeyed'
      PROVE  luck' = luck /\ (Knows(d, dust, <<>>) => Knows(drv', dust', <<>>))
  <2>1. setup'.troubles = setup.troubles
      OBVIOUS
  <2>2. luck' = luck /\ dust' = [dust EXCEPT !.works = work, !.ran = IF work /\ ~dust.works THEN 0 ELSE @]
      BY <1>3, <2>1, HeardWhenObeyed
  <2>3. DOMAIN dust = {"works", "ran", "there"} /\ dust.ran \in Nat /\ dust.works \in BOOLEAN
      BY DEF MeasuredTypes
  <2>4. Knows(d, dust, <<>>) =>
            Knows(Measuring!Told(d, work),
                  [dust EXCEPT !.works = work, !.ran = IF work /\ ~dust.works THEN 0 ELSE @], <<>>)
      BY <2>3, ToldKnows
  <2>. QED BY <2>2, <2>4
<1>. QED BY <1>1, <1>2, <1>3

\* A read that takes nothing, and what is taken: the driver as the next frames find it.
LEMMA ReadLeaves ==
    ASSUME NEW d, DriverType(d), NEW b \in BOOLEAN, NEW u, Knows(d, u, <<>>)
    PROVE  /\ Knows([d EXCEPT !.pending = b], u, <<>>)
           /\ Knows(Measuring!Taken(d), u, <<>>)
<1>. DEFINE e == [d EXCEPT !.pending = b]
            g == Measuring!Taken(d)
<1>1. /\ e.awake = d.awake /\ e.warmed = d.warmed /\ e.woke = d.woke /\ e.asked = d.asked
      /\ e.pm = d.pm /\ e.frame = d.frame
    BY DEF DriverType, DriverFields
<1>2. g.awake = d.awake /\ g.warmed = d.warmed /\ g.woke = d.woke /\ g.asked = d.asked /\ g.pm = Measuring!None
    BY DEF Measuring!Taken, DriverType, DriverFields
<1>. HIDE DEF e, g
<1>3. Knows(e, u, <<>>)
    BY <1>1 DEF Knows
<1>4. Knows(g, u, <<>>)
    BY <1>2 DEF Knows
<1>. QED BY <1>3, <1>4 DEF e, g

\* The same of their types.
LEMMA ReadLeavesTypes ==
    ASSUME NEW d, DriverType(d), NEW b \in BOOLEAN
    PROVE  /\ DriverType([d EXCEPT !.pending = b]) /\ [d EXCEPT !.pending = b].up = d.up
           /\ DriverType(Measuring!Taken(d)) /\ Measuring!Taken(d).up = d.up
<1>. DEFINE e == [d EXCEPT !.pending = b]
            g == Measuring!Taken(d)
<1>1. /\ e.awake = d.awake /\ e.warmed = d.warmed /\ e.woke = d.woke /\ e.asked = d.asked
      /\ e.pm = d.pm /\ e.frame = d.frame /\ e.up = d.up /\ DOMAIN e = DOMAIN d
    BY DEF DriverType, DriverFields
<1>2. /\ g.awake = d.awake /\ g.warmed = d.warmed /\ g.woke = d.woke /\ g.asked = d.asked /\ g.pm = Measuring!None
      /\ g.frame = d.frame /\ g.up = d.up /\ DOMAIN g = DOMAIN d
    BY DEF Measuring!Taken, DriverType, DriverFields
<1>. HIDE DEF e, g
<1>3. DriverType(e)
    BY <1>1 DEF DriverType
<1>4. DriverType(g)
    BY <1>2 DEF DriverType, Measuring!None
<1>. QED BY <1>1, <1>2, <1>3, <1>4 DEF e, g

\* readEntry() of the dust sensor: it gives only what was measured warm, and empties the port.
LEMMA ReadDustWarm ==
    ASSUME MeasuredTypes, UpIsLive, setup' = setup, Measuring!ReadDust
    PROVE  /\ DriverType(drv') /\ drv'.up = drv.up /\ port' \in Seq(Nat)
           /\ DOMAIN luck' = {"miss", "plug", "reboot"}
           /\ luck'.miss \in Int /\ luck'.miss <= setup.troubles.miss /\ luck'.plug = luck.plug
           /\ DOMAIN dust' = {"works", "ran", "there"} /\ dust'.works \in BOOLEAN /\ dust'.ran \in Nat
           /\ Measuring!Obeyed' =>
                /\ luck' = luck /\ dust'.there = dust.there
                /\ drv.up /\ (port # <<>> => Measuring!sensorDue(loop.tick)) => port' = <<>>
                /\ drv.up /\ Knows(drv, dust, port) /\ (port # <<>> => Measuring!sensorDue(loop.tick))
                     => Knows(drv', dust', port')
                /\ (drv.up => Knows(drv, dust, port)) /\ (lastRead.got => lastRead.value >= lastRead.asked)
                     => (lastRead'.got => lastRead'.value >= lastRead'.asked)
<1>. DEFINE d == Measuring!Drained(drv)
            got == Measuring!sdsWarm(d)
            g == Measuring!Taken(d)
            n == [d EXCEPT !.pending = ~Measuring!sdsGiveUp(d)]
            e == IF got THEN g ELSE n
            due == Measuring!sensorDue(loop.tick)
<1>1. /\ DriverType(d) /\ d.up = drv.up /\ d.awake = drv.awake
      /\ Knows(drv, dust, port) => Knows(d, dust, <<>>)
    BY DrainedKnows
<1>2. (~Measuring!sdsGiveUp(d)) \in BOOLEAN
    BY DEF Measuring!sdsGiveUp
<1>3. /\ DriverType(n) /\ n.up = d.up /\ DriverType(g) /\ g.up = d.up
      /\ Knows(d, dust, <<>>) => Knows(n, dust, <<>>) /\ Knows(g, dust, <<>>)
    BY <1>1, <1>2, ReadLeaves, ReadLeavesTypes
<1>4. IF ~(Measuring!Live /\ (due \/ drv.pending)) THEN UNCHANGED <<drv, dust, port, luck, lastRead>>
      ELSE /\ port' = <<>>
           /\ lastRead' = [due |-> due, got |-> got, value |-> IF got THEN d.pm ELSE Measuring!None, asked |-> d.asked,
                           first |-> lastRead.first /\ ~got, waited |-> IF drv.awake THEN drv.woke ELSE 0]
           /\ IF ~e.pending /\ Measuring!sdsSleeps /\ e.awake
              THEN drv' = Measuring!Told(e, FALSE) /\ Measuring!Hears(FALSE)
              ELSE drv' = e /\ UNCHANGED <<dust, luck>>
    BY DEF Measuring!ReadDust
<1>5. drv.up => Measuring!Live
    BY SetupNumbers DEF UpIsLive, MeasuredTypes, Measuring!Live
<1>6. got /\ Knows(d, dust, <<>>) => d.pm >= d.asked
    BY DEF Measuring!sdsWarm, Knows
<1>. HIDE DEF d, got, g, n, due
<1>7. DriverType(e) /\ e.up = drv.up /\ (Knows(d, dust, <<>>) => Knows(e, dust, <<>>))
    BY <1>1, <1>3
<1>. HIDE DEF e
<1>8. CASE ~(Measuring!Live /\ (due \/ drv.pending))
  <2>1. UNCHANGED <<drv, dust, port, luck, lastRead>>
      BY <1>4, <1>8
  <2>2. /\ DriverType(drv') /\ drv'.up = drv.up /\ port' \in Seq(Nat)
        /\ DOMAIN luck' = {"miss", "plug", "reboot"}
        /\ luck'.miss \in Int /\ luck'.miss <= setup.troubles.miss /\ luck'.plug = luck.plug
        /\ DOMAIN dust' = {"works", "ran", "there"} /\ dust'.works \in BOOLEAN /\ dust'.ran \in Nat
      BY <2>1 DEF MeasuredTypes
  <2>3. drv.up => ~due
      BY <1>5, <1>8
  <2>. QED BY <2>1, <2>2, <2>3 DEF due
<1>9. CASE Measuring!Live /\ (due \/ drv.pending)
  <2>1. /\ port' = <<>>
        /\ lastRead' = [due |-> due, got |-> got, value |-> IF got THEN d.pm ELSE Measuring!None, asked |-> d.asked,
                        first |-> lastRead.first /\ ~got, waited |-> IF drv.awake THEN drv.woke ELSE 0]
        /\ IF ~e.pending /\ Measuring!sdsSleeps /\ e.awake
           THEN drv' = Measuring!Told(e, FALSE) /\ Measuring!Hears(FALSE)
           ELSE drv' = e /\ UNCHANGED <<dust, luck>>
      BY <1>4, <1>9
  <2>2. lastRead'.got = got /\ (got => lastRead'.value = d.pm) /\ lastRead'.asked = d.asked
      BY <2>1
  <2>3. drv.up
      BY <1>9 DEF Measuring!Live
  <2>4. /\ DriverType(drv') /\ drv'.up = drv.up
        /\ DOMAIN luck' = {"miss", "plug", "reboot"}
        /\ luck'.miss \in Int /\ luck'.miss <= setup.troubles.miss /\ luck'.plug = luck.plug
        /\ DOMAIN dust' = {"works", "ran", "there"} /\ dust'.works \in BOOLEAN /\ dust'.ran \in Nat
        /\ Measuring!Obeyed' =>
             /\ luck' = luck /\ dust'.there = dust.there
             /\ Knows(e, dust, <<>>) => Knows(drv', dust', <<>>)
    <3>1. CASE drv' = Measuring!Told(e, FALSE) /\ Measuring!Hears(FALSE)
        BY <1>7, <3>1, CommandKeeps
    <3>2. CASE drv' = e /\ UNCHANGED <<dust, luck>>
        BY <1>7, <3>2 DEF MeasuredTypes
    <3>. QED BY <2>1, <3>1, <3>2
  <2>5. port' \in Seq(Nat)
      BY <2>1
  <2>6. Knows(drv, dust, port) => (lastRead'.got => lastRead'.value >= lastRead'.asked)
      BY <1>1, <1>6, <2>2
  <2>. QED BY <1>1, <1>7, <2>1, <2>3, <2>4, <2>5, <2>6
<1>. QED BY <1>8, <1>9

\* Before a send the port is empty, or the sensor is read now.
LEMMA ReadWarm ==
    ASSUME WarmInv, Measuring!Read
    PROVE  WarmInv'
<1>1. /\ loop.at = "read" \/ loop.at = "send"
      /\ Measuring!ReadDust
      /\ loop' = [loop EXCEPT !.at = "busy", !.held = 0, !.left = setup.interval, !.tick = (@ + 1) % Measuring!Every]
      /\ setup' = setup /\ entry' = entry
    BY DEF Measuring!Read
<1>2. MeasuredTypes /\ UpIsLive /\ setup \in Setups
    BY DEF WarmInv, MeasuredTypes
<1>3. /\ DOMAIN loop' = {"at", "left", "tick", "held", "idled", "retry"}
      /\ loop'.left = setup.interval /\ loop'.held = 0 /\ loop'.idled = loop.idled /\ loop'.at = "busy"
    BY <1>1, <1>2 DEF MeasuredTypes
<1>4. /\ DriverType(drv') /\ drv'.up = drv.up /\ port' \in Seq(Nat)
      /\ DOMAIN luck' = {"miss", "plug", "reboot"}
      /\ luck'.miss \in Int /\ luck'.miss <= setup.troubles.miss /\ luck'.plug = luck.plug
      /\ DOMAIN dust' = {"works", "ran", "there"} /\ dust'.works \in BOOLEAN /\ dust'.ran \in Nat
      /\ Measuring!Obeyed' =>
           /\ luck' = luck /\ dust'.there = dust.there
           /\ drv.up /\ (port # <<>> => Measuring!sensorDue(loop.tick)) => port' = <<>>
           /\ drv.up /\ Knows(drv, dust, port) /\ (port # <<>> => Measuring!sensorDue(loop.tick))
                => Knows(drv', dust', port')
           /\ (drv.up => Knows(drv, dust, port)) /\ (lastRead.got => lastRead.value >= lastRead.asked)
                => (lastRead'.got => lastRead'.value >= lastRead'.asked)
    BY <1>1, <1>2, ReadDustWarm
<1>5. setup.interval \in Nat /\ setup.block \in Nat
    BY <1>2, SetupsAssumption
<1>6. MeasuredTypes'
    BY <1>1, <1>2, <1>3, <1>4, <1>5 DEF MeasuredTypes
<1>7. UpIsLive'
    BY <1>1, <1>2, <1>3, <1>4 DEF UpIsLive, SensorsOf
<1>8. ASSUME Quiet'
      PROVE  dust'.there /\ InTime' /\ (drv'.up => Knows(drv', dust', port'))
             /\ (lastRead'.got => lastRead'.value >= lastRead'.asked)
  <2>1. Measuring!Obeyed'
      BY <1>8 DEF Quiet
  <2>2. Quiet
      BY <1>1, <1>4, <1>8, <2>1, SameSetup
  <2>3. /\ dust.there /\ (lastRead.got => lastRead.value >= lastRead.asked)
        /\ InTime /\ (drv.up => Knows(drv, dust, port))
      BY <2>2 DEF WarmInv
  <2>4. drv.up => (port # <<>> => Measuring!sensorDue(loop.tick))
      BY <1>1, <2>3 DEF InTime
  <2>5. drv'.up => port' = <<>> /\ Knows(drv', dust', port')
      BY <1>4, <2>1, <2>3, <2>4
  <2>6. loop'.held <= setup'.block /\ loop'.left + loop'.held = setup'.interval
      BY <1>1, <1>3, <1>5
  <2>7. drv'.up => Len(port') <= loop'.held
      BY <1>3, <2>5
  <2>8. InTime'
      BY <1>3, <2>6, <2>7 DEF InTime
  <2>. QED BY <1>4, <2>1, <2>3, <2>5, <2>8
<1>. QED BY <1>6, <1>7, <1>8 DEF WarmInv

\* The rounds between sends: what came is taken, and the commands go out.
LEMMA IdleWarm ==
    ASSUME WarmInv, Measuring!Idle
    PROVE  WarmInv'
<1>. DEFINE d == IF drv.awake THEN Measuring!Drained(drv) ELSE drv
            wanted == ~Measuring!sdsSleeps \/ d.pending \/ Measuring!dueSoon
            asks == wanted /\ (~d.awake \/ (d.frame > 1 /\ d.cmd > 1))
<1>1. /\ loop.at = "idle"
      /\ IF ~Measuring!Live THEN UNCHANGED <<drv, port, dust, luck>>
         ELSE /\ port' = IF drv.awake THEN <<>> ELSE port
              /\ CASE asks -> drv' = Measuring!Told(d, TRUE) /\ Measuring!Hears(TRUE)
                   [] ~wanted /\ d.awake -> drv' = Measuring!Told(d, FALSE) /\ Measuring!Hears(FALSE)
                   [] OTHER -> drv' = d /\ UNCHANGED <<dust, luck>>
      /\ loop' = [loop EXCEPT !.idled = TRUE, !.at = IF loop.left = 0 THEN "send" ELSE @]
      /\ setup' = setup /\ entry' = entry /\ lastRead' = lastRead
    BY DEF Measuring!Idle
<1>2. MeasuredTypes /\ UpIsLive /\ setup \in Setups
    BY DEF WarmInv, MeasuredTypes
<1>3. /\ DOMAIN loop' = {"at", "left", "tick", "held", "idled", "retry"}
      /\ loop'.left = loop.left /\ loop'.held = loop.held /\ loop'.idled = TRUE
      /\ loop'.at = IF loop.left = 0 THEN "send" ELSE "idle"
    BY <1>1, <1>2 DEF MeasuredTypes
<1>4. /\ DriverType(d) /\ d.up = drv.up /\ d.awake = drv.awake
      /\ Knows(drv, dust, port) => Knows(d, dust, <<>>)
  <2>1. CASE drv.awake
      BY <1>2, <2>1, DrainedKnows
  <2>2. CASE ~drv.awake
    <3>1. d = drv /\ DriverType(drv)
        BY <1>2, <2>2 DEF MeasuredTypes
    <3>2. Knows(drv, dust, port) => Knows(drv, dust, <<>>)
        BY DEF Knows
    <3>. QED BY <3>1, <3>2
  <2>. QED BY <2>1, <2>2
<1>5. drv.up <=> Measuring!Live
  <2>1. drv.up => Measuring!Live
      BY <1>2, SetupNumbers DEF UpIsLive, Measuring!Live
  <2>2. Measuring!Live => drv.up
      BY DEF Measuring!Live
  <2>. QED BY <2>1, <2>2
<1>. HIDE DEF d, wanted, asks
<1>6. /\ DriverType(drv') /\ drv'.up = drv.up /\ port' \in Seq(Nat)
      /\ DOMAIN luck' = {"miss", "plug", "reboot"}
      /\ luck'.miss \in Int /\ luck'.miss <= setup.troubles.miss /\ luck'.plug = luck.plug
      /\ DOMAIN dust' = {"works", "ran", "there"} /\ dust'.works \in BOOLEAN /\ dust'.ran \in Nat
      /\ Measuring!Obeyed' =>
           /\ luck' = luck /\ dust'.there = dust.there
           /\ drv.up /\ Knows(drv, dust, port) => port' = <<>> /\ Knows(drv', dust', <<>>)
  <2>1. CASE ~Measuring!Live
      BY <1>1, <1>2, <1>5, <2>1 DEF MeasuredTypes
  <2>2. CASE Measuring!Live
    <3>1. /\ port' = IF drv.awake THEN <<>> ELSE port
          /\ CASE asks -> drv' = Measuring!Told(d, TRUE) /\ Measuring!Hears(TRUE)
               [] ~wanted /\ d.awake -> drv' = Measuring!Told(d, FALSE) /\ Measuring!Hears(FALSE)
               [] OTHER -> drv' = d /\ UNCHANGED <<dust, luck>>
        BY <1>1, <2>2
    <3>2. port' \in Seq(Nat) /\ (Knows(drv, dust, port) => port' = <<>>)
        BY <1>2, <3>1 DEF MeasuredTypes, Knows
    <3>3. \/ drv' = Measuring!Told(d, TRUE) /\ Measuring!Hears(TRUE)
          \/ drv' = Measuring!Told(d, FALSE) /\ Measuring!Hears(FALSE)
          \/ drv' = d /\ UNCHANGED <<dust, luck>>
        BY <3>1
    <3>4. /\ DriverType(drv') /\ drv'.up = drv.up
          /\ DOMAIN luck' = {"miss", "plug", "reboot"}
          /\ luck'.miss \in Int /\ luck'.miss <= setup.troubles.miss /\ luck'.plug = luck.plug
          /\ DOMAIN dust' = {"works", "ran", "there"} /\ dust'.works \in BOOLEAN /\ dust'.ran \in Nat
          /\ Measuring!Obeyed' =>
               /\ luck' = luck /\ dust'.there = dust.there
               /\ Knows(d, dust, <<>>) => Knows(drv', dust', <<>>)
      <4>1. CASE drv' = Measuring!Told(d, TRUE) /\ Measuring!Hears(TRUE)
          BY <1>1, <1>2, <1>4, <4>1, CommandKeeps
      <4>2. CASE drv' = Measuring!Told(d, FALSE) /\ Measuring!Hears(FALSE)
          BY <1>1, <1>2, <1>4, <4>2, CommandKeeps
      <4>3. CASE drv' = d /\ UNCHANGED <<dust, luck>>
          BY <1>2, <1>4, <4>3 DEF MeasuredTypes
      <4>. QED BY <3>3, <4>1, <4>2, <4>3
    <3>. QED BY <1>4, <3>2, <3>4
  <2>. QED BY <2>1, <2>2
<1>7. MeasuredTypes'
  <2>1. loop'.left \in Nat /\ loop'.held \in Nat
      BY <1>2, <1>3 DEF MeasuredTypes
  <2>2. loop'.idled \in BOOLEAN
      BY <1>3
  <2>3. setup' \in Setups /\ luck'.plug \in Int /\ luck'.plug <= setup'.troubles.plug
      BY <1>1, <1>2, <1>6 DEF MeasuredTypes
  <2>. QED BY <1>1, <1>3, <1>6, <2>1, <2>2, <2>3 DEF MeasuredTypes
<1>8. UpIsLive'
    BY <1>1, <1>2, <1>3, <1>6 DEF UpIsLive, SensorsOf
<1>9. ASSUME Quiet'
      PROVE  dust'.there /\ InTime' /\ (drv'.up => Knows(drv', dust', port'))
             /\ (lastRead'.got => lastRead'.value >= lastRead'.asked)
  <2>1. Measuring!Obeyed'
      BY <1>9 DEF Quiet
  <2>2. Quiet
      BY <1>1, <1>6, <1>9, <2>1, SameSetup
  <2>3. /\ dust.there /\ (lastRead.got => lastRead.value >= lastRead.asked)
        /\ (drv.up => Knows(drv, dust, port))
      BY <2>2 DEF WarmInv
  <2>4. drv'.up => port' = <<>> /\ Knows(drv', dust', port')
      BY <1>6, <2>1, <2>3
  <2>5. loop'.at # "busy"
      BY <1>3
  <2>6. InTime'
      BY <2>4, <2>5 DEF InTime
  <2>. QED BY <1>1, <1>6, <2>1, <2>3, <2>4, <2>6
<1>. QED BY <1>7, <1>8, <1>9 DEF WarmInv

\* Five seconds pass: the fan runs as the wake-up gets older, and nothing runs over.
LEMMA TimeWarm ==
    ASSUME WarmInv, Measuring!TimePasses
    PROVE  WarmInv'
<1>. DEFINE ran == Measuring!Aged(dust.ran)
            sends == dust.works /\ dust.there /\ drv.up /\ Len(port) < Buffer
<1>1. /\ (loop.at = "idle" /\ loop.idled) \/ (loop.at = "busy" /\ loop.held < setup.block)
      /\ dust' = IF dust.works THEN [dust EXCEPT !.ran = ran] ELSE dust
      /\ port' = IF sends THEN Append(port, ran) ELSE port
      /\ drv' = [drv EXCEPT !.woke = Measuring!Aged(@), !.cmd = Measuring!Aged(@), !.frame = Measuring!Aged(@)]
      /\ loop' = [loop EXCEPT !.left = IF @ = 0 THEN 0 ELSE @ - 1, !.held = IF loop.at = "busy" THEN @ + 1 ELSE @,
                              !.idled = FALSE]
      /\ setup' = setup /\ entry' = entry /\ lastRead' = lastRead /\ luck' = luck
    BY DEF Measuring!TimePasses
<1>2. MeasuredTypes /\ UpIsLive /\ setup \in Setups
    BY DEF WarmInv, MeasuredTypes
<1>3. /\ DOMAIN loop' = {"at", "left", "tick", "held", "idled", "retry"}
      /\ loop'.left = (IF loop.left = 0 THEN 0 ELSE loop.left - 1) /\ loop'.idled = FALSE
      /\ loop'.held = (IF loop.at = "busy" THEN loop.held + 1 ELSE loop.held)
      /\ loop'.at = loop.at /\ loop'.tick = loop.tick
    BY <1>1, <1>2 DEF MeasuredTypes
<1>4. /\ drv'.up = drv.up /\ drv'.awake = drv.awake /\ drv'.warmed = drv.warmed /\ drv'.pm = drv.pm
      /\ drv'.asked = drv.asked /\ DOMAIN drv' = DriverFields
      /\ drv'.woke = Measuring!Aged(drv.woke) /\ drv'.frame = Measuring!Aged(drv.frame)
    BY <1>1, <1>2 DEF MeasuredTypes, DriverType, DriverFields
<1>5. /\ DOMAIN dust' = {"works", "ran", "there"} /\ dust'.works = dust.works /\ dust'.there = dust.there
      /\ dust'.ran = IF dust.works THEN ran ELSE dust.ran
    BY <1>1, <1>2 DEF MeasuredTypes
<1>6. ran \in Nat /\ dust.ran \in Nat /\ ran >= dust.ran
    BY <1>2, Older DEF MeasuredTypes
<1>7. /\ drv.woke \in Nat /\ drv.frame \in Nat /\ drv'.woke \in Nat /\ drv'.frame \in Nat /\ drv'.frame # 0
      /\ dust.ran >= drv.woke => ran >= drv'.woke
  <2>1. drv.woke \in Nat /\ drv.frame \in Nat
      BY <1>2 DEF MeasuredTypes, DriverType
  <2>2. /\ Measuring!Aged(drv.woke) \in Nat /\ (dust.ran >= drv.woke => ran >= Measuring!Aged(drv.woke))
        /\ Measuring!Aged(drv.frame) \in Nat /\ Measuring!Aged(drv.frame) # 0
      BY <1>6, <2>1, Older
  <2>. QED BY <1>4, <2>1, <2>2
<1>. HIDE DEF ran
<1>8. port \in Seq(Nat) /\ port' \in Seq(Nat)
    BY <1>1, <1>2, <1>6 DEF MeasuredTypes
<1>9. MeasuredTypes'
  <2>1. DriverType(drv')
      BY <1>2, <1>4, <1>7 DEF MeasuredTypes, DriverType
  <2>2. dust'.works \in BOOLEAN /\ dust'.ran \in Nat
      BY <1>2, <1>5, <1>6 DEF MeasuredTypes
  <2>3. loop'.left \in Nat /\ loop'.held \in Nat
      BY <1>2, <1>3 DEF MeasuredTypes
  <2>4. loop'.idled \in BOOLEAN
      BY <1>3
  <2>. QED BY <1>1, <1>2, <1>3, <1>5, <1>8, <2>1, <2>2, <2>3, <2>4 DEF MeasuredTypes
<1>10. UpIsLive'
    BY <1>1, <1>2, <1>3, <1>4 DEF UpIsLive, SensorsOf
<1>11. ASSUME Quiet'
       PROVE  dust'.there /\ InTime' /\ (drv'.up => Knows(drv', dust', port'))
              /\ (lastRead'.got => lastRead'.value >= lastRead'.asked)
  <2>1. Quiet
      BY <1>1, <1>11, SameSetup
  <2>2. /\ dust.there /\ (lastRead.got => lastRead.value >= lastRead.asked)
        /\ InTime /\ (drv.up => Knows(drv, dust, port))
      BY <2>1 DEF WarmInv
  <2>3. /\ setup.block \in Nat /\ setup.interval \in Nat /\ Buffer \in Nat /\ loop.held \in Nat /\ loop.left \in Nat
        /\ setup.block <= Buffer /\ setup.block < setup.interval
      BY <1>2, <2>1, SetupsAssumption DEF Quiet, Measuring!Calm, MeasuredTypes
  <2>4. drv.up => \/ loop.at = "idle" /\ port = <<>>
                  \/ loop.at = "busy" /\ Len(port) <= loop.held /\ loop.held < setup.block
      BY <1>1, <2>2 DEF InTime
  <2>5. Len(port') <= Len(port) + 1
      BY <1>1, <1>8
  <2>6. InTime'
    <3>1. loop'.at = "busy" =>
              \/ loop'.held <= setup'.block /\ loop'.left + loop'.held = setup'.interval
              \/ loop'.held <= setup'.block /\ loop'.left = 0 /\ Measuring!sensorDue(loop.tick)' /\ ~setup'.radio
      <4>. SUFFICES ASSUME loop.at = "busy"
                    PROVE  \/ loop'.held <= setup'.block /\ loop'.left + loop'.held = setup'.interval
                           \/ loop'.held <= setup'.block /\ loop'.left = 0 /\ Measuring!sensorDue(loop.tick)' /\ ~setup'.radio
          BY <1>3
      <4>1. loop'.held = loop.held + 1 /\ loop.held < setup.block /\ setup' = setup
          BY <1>1, <1>3
      <4>2. CASE loop.left + loop.held = setup.interval
          BY <1>3, <2>3, <4>1, <4>2
      <4>3. CASE loop.left = 0 /\ Measuring!sensorDue(loop.tick) /\ ~setup.radio
        <5>1. Measuring!sensorDue(loop.tick)'
            BY <1>1, <1>3, <4>3, SameSetup DEF Measuring!sensorDue
        <5>2. loop'.left = 0 /\ loop'.held <= setup'.block
            BY <1>3, <2>3, <4>1, <4>3
        <5>. QED BY <4>1, <4>3, <5>1, <5>2
      <4>. QED BY <2>2, <4>2, <4>3 DEF InTime
    <3>2. drv'.up /\ loop'.at = "busy" => Len(port') <= loop'.held
      <4>1. Len(port) \in Nat /\ Len(port') \in Nat
          BY <1>8
      <4>. QED BY <1>3, <1>4, <2>3, <2>4, <2>5, <4>1
    <3>3. loop'.at \in {"idle", "busy"}
        BY <1>1, <1>3
    <3>. QED BY <1>3, <3>1, <3>2, <3>3 DEF InTime
  <2>7. ASSUME drv'.up PROVE Knows(drv', dust', port')
    <3>1. drv.up /\ Knows(drv, dust, port)
        BY <1>4, <2>2, <2>7
    <3>2. dust'.works = drv'.awake
        BY <1>4, <1>5, <3>1 DEF Knows
    <3>3. drv'.awake => dust'.ran >= drv'.woke /\ (drv'.warmed => dust'.ran >= drv'.asked)
      <4>. SUFFICES ASSUME drv.awake
                    PROVE  dust'.ran >= drv'.woke /\ (drv'.warmed => dust'.ran >= drv'.asked)
          BY <1>4
      <4>1. dust'.ran = ran
          BY <1>5, <3>1 DEF Knows
      <4>2. dust.ran >= drv.woke /\ (drv.warmed => dust.ran >= drv.asked) /\ drv.asked \in Nat
          BY <1>2, <3>1 DEF Knows, MeasuredTypes, DriverType
      <4>3. drv.warmed => ran >= drv.asked
          BY <1>6, <4>2
      <4>. QED BY <1>4, <1>7, <4>1, <4>2, <4>3
    <3>4. ASSUME port' # <<>> PROVE drv'.awake /\ port'[Len(port')] = dust'.ran
      <4>1. CASE sends
        <5>1. port'[Len(port')] = ran
            BY <1>1, <1>6, <1>8, <4>1
        <5>2. dust'.ran = ran /\ drv'.awake
            BY <1>4, <1>5, <3>1, <4>1 DEF Knows
        <5>. QED BY <5>1, <5>2
      <4>2. CASE ~sends
        <5>1. port # <<>>
            BY <1>1, <3>4, <4>2
        <5>2. dust.works
            BY <3>1, <5>1 DEF Knows
        <5>3. Len(port) >= Buffer
          <6>1. Len(port) \in Nat /\ ~(Len(port) < Buffer)
              BY <1>8, <2>2, <3>1, <4>2, <5>2
          <6>. QED BY <2>3, <6>1
        <5>4. Len(port) \in Nat
            BY <1>8
        <5>5. loop.at = "busy" /\ Len(port) <= loop.held /\ loop.held < setup.block
            BY <2>4, <3>1, <5>1
        <5>. QED BY <2>3, <5>3, <5>4, <5>5
      <4>. QED BY <4>1, <4>2
    <3>. QED BY <1>7, <3>2, <3>3, <3>4 DEF Knows
  <2>. QED BY <1>1, <1>5, <2>2, <2>6, <2>7
<1>. QED BY <1>9, <1>10, <1>11 DEF WarmInv

\* A step that leaves the sensor, its driver and the loop alone keeps what is known.
LEMMA AsideWarm ==
    ASSUME WarmInv, setup' = setup, entry' = entry, dust' = dust, port' = port, drv' = drv, loop' = loop,
           lastRead' = lastRead, luck' = luck
    PROVE  WarmInv'
<1>1. MeasuredTypes /\ UpIsLive
    BY DEF WarmInv
<1>2. MeasuredTypes'
    BY <1>1 DEF MeasuredTypes
<1>3. UpIsLive'
    BY <1>1 DEF UpIsLive, SensorsOf
<1>4. ASSUME Quiet'
      PROVE  dust'.there /\ InTime' /\ (drv'.up => Knows(drv', dust', port'))
             /\ (lastRead'.got => lastRead'.value >= lastRead'.asked)
  <2>1. Quiet
      BY <1>4, SameSetup
  <2>2. InTime /\ dust.there /\ (drv.up => Knows(drv, dust, port)) /\ (lastRead.got => lastRead.value >= lastRead.asked)
      BY <2>1 DEF WarmInv
  <2>3. Measuring!sensorDue(loop.tick)' = Measuring!sensorDue(loop.tick)
      BY SameSetup DEF Measuring!sensorDue
  <2>4. InTime'
      BY <2>2, <2>3 DEF InTime
  <2>. QED BY <2>2, <2>4
<1>. QED BY <1>2, <1>3, <1>4 DEF WarmInv

\* Pulses are none of the dust sensor's business.
LEMMA EdgeWarm ==
    ASSUME WarmInv, Measuring!Edge
    PROVE  WarmInv'
BY AsideWarm DEF Measuring!Edge

\* A cable that comes off is trouble: nothing is promised after it.
LEMMA PlugWarm ==
    ASSUME WarmInv, Measuring!Plug
    PROVE  WarmInv'
<1>1. MeasuredTypes /\ UpIsLive
    BY DEF WarmInv
<1>2. /\ setup' = setup /\ entry' = entry /\ port' = port /\ drv' = drv /\ loop' = loop
      /\ dust' = dust \/ dust' = [there |-> ~dust.there, works |-> ~dust.there, ran |-> 0]
      /\ luck' = [luck EXCEPT !["plug"] = @ - 1]
    BY DEF Measuring!Plug, Measuring!Trouble
<1>3. /\ DOMAIN luck' = {"miss", "plug", "reboot"} /\ luck'.miss = luck.miss /\ luck'.plug = luck.plug - 1
      /\ luck.plug \in Int /\ luck.plug <= setup.troubles.plug /\ setup.troubles.plug \in Nat
    BY <1>1, <1>2, SetupsAssumption DEF MeasuredTypes
<1>4. DOMAIN dust' = {"works", "ran", "there"} /\ dust'.works \in BOOLEAN /\ dust'.ran \in Nat
  <2>1. CASE dust' = dust
      BY <1>1, <2>1 DEF MeasuredTypes
  <2>2. CASE dust' = [there |-> ~dust.there, works |-> ~dust.there, ran |-> 0]
    <3>1. dust'.works = (~dust.there) /\ dust'.ran = 0 /\ DOMAIN dust' = {"works", "ran", "there"}
        BY <2>2
    <3>2. (~dust.there) \in BOOLEAN
        OBVIOUS
    <3>. QED BY <3>1, <3>2
  <2>. QED BY <1>2, <2>1, <2>2
<1>5. luck'.plug \in Int /\ luck'.plug < setup.troubles.plug
    BY <1>3
<1>6. ~Quiet'
    BY <1>2, <1>5 DEF Quiet, Measuring!Obeyed
<1>7. MeasuredTypes'
  <2>1. luck'.plug <= setup'.troubles.plug
      BY <1>2, <1>3, <1>5
  <2>. QED BY <1>1, <1>2, <1>3, <1>4, <1>5, <2>1 DEF MeasuredTypes
<1>8. UpIsLive'
    BY <1>1, <1>2 DEF UpIsLive, SensorsOf
<1>. QED BY <1>6, <1>7, <1>8 DEF WarmInv

\* A restart: the driver knows nothing, whatever the sensor goes on doing.
LEMMA RebootWarm ==
    ASSUME WarmInv, Measuring!Reboot
    PROVE  WarmInv'
<1>1. MeasuredTypes /\ UpIsLive
    BY DEF WarmInv
<1>2. /\ setup' = setup /\ entry' = [ok |-> {}, wiring |-> "none"] /\ port' = <<>> /\ drv' = Measuring!Down
      /\ loop' = Measuring!NotReady /\ lastRead' = Measuring!Never /\ dust' = dust
      /\ luck' = [luck EXCEPT !["reboot"] = @ - 1]
    BY DEF Measuring!Reboot, Measuring!Trouble
<1>3. DOMAIN luck' = {"miss", "plug", "reboot"} /\ luck'.miss = luck.miss /\ luck'.plug = luck.plug
    BY <1>1, <1>2 DEF MeasuredTypes
<1>4. DriverType(drv') /\ ~drv'.up
    BY <1>2, FreshRecords
<1>5. /\ DOMAIN loop' = {"at", "left", "tick", "held", "idled", "retry"} /\ loop'.at = "setup"
      /\ loop'.left = 0 /\ loop'.held = 0 /\ loop'.idled = TRUE
    BY <1>2 DEF Measuring!NotReady
<1>6. MeasuredTypes'
  <2>1. loop'.left \in Nat /\ loop'.held \in Nat /\ port' \in Seq(Nat)
      BY <1>2, <1>5
  <2>2. loop'.idled \in BOOLEAN
      BY <1>5
  <2>. QED BY <1>1, <1>2, <1>3, <1>4, <1>5, <2>1, <2>2 DEF MeasuredTypes
<1>7. UpIsLive'
    BY <1>2, <1>4 DEF UpIsLive
<1>8. ~lastRead'.got
    BY <1>2 DEF Measuring!Never
<1>9. InTime'
    BY <1>4, <1>5 DEF InTime
<1>10. Quiet' => dust'.there
    BY <1>2, <1>3, SameSetup DEF WarmInv
<1>. QED BY <1>4, <1>6, <1>7, <1>8, <1>9, <1>10 DEF WarmInv

\* The configurations a radio node may be given next are those it might have been
\* given before, and nothing holds the loop too long under any of them.
LEMMA CalmStays ==
    ASSUME MeasuredTypes, NEW new \in Setups, Measuring!MayBecome(new), setup' = new, Measuring!Calm'
    PROVE  Measuring!Calm /\ setup.block < new.interval
<1>1. /\ setup.radio /\ new.radio /\ new.block = setup.block /\ new.troubles = setup.troubles /\ setup \in Setups
    BY DEF MeasuredTypes, Measuring!MayBecome
<1>2. /\ new.block <= Buffer /\ new.block < new.interval
      /\ \A n \in Setups : n.radio /\ n.block = new.block /\ n.troubles = new.troubles => new.block < n.interval
    BY <1>1 DEF Measuring!Calm, Measuring!MayBecome
<1>3. setup.block < setup.interval
    BY <1>1, <1>2
<1>. QED BY <1>1, <1>2, <1>3 DEF Measuring!Calm, Measuring!MayBecome

\* A radio node takes a configuration as it runs: what was due stays in time.
LEMMA ReconfigureWarm ==
    ASSUME WarmInv, Measuring!Reconfigure
    PROVE  WarmInv'
<1>1. loop.at = "busy" /\ lastRead' = Measuring!Never
    BY DEF Measuring!Reconfigure
<1>2. MeasuredTypes /\ UpIsLive /\ setup \in Setups
    BY DEF WarmInv, MeasuredTypes
<1>3. PICK new \in {n \in Setups \ {setup} : Measuring!MayBecome(n)}, tick \in {0, 1} :
          /\ setup' = new /\ Measuring!Begin(new)
          /\ loop' = [loop EXCEPT !.left = IF new.interval > setup.interval - loop.left
                                           THEN new.interval - (setup.interval - loop.left) ELSE 0,
                                  !.tick = tick]
    BY DEF Measuring!Reconfigure
<1>4. new \in Setups /\ Measuring!MayBecome(new)
    OBVIOUS
<1>5. setup.radio /\ new.radio /\ new.block = setup.block /\ new.troubles = setup.troubles
    BY <1>4 DEF Measuring!MayBecome
<1>6. /\ setup.interval \in Nat /\ new.interval \in Nat /\ setup.block \in Nat
      /\ loop.left \in Nat /\ loop.held \in Nat /\ loop.idled \in BOOLEAN
    BY <1>2, <1>4, SetupsAssumption DEF MeasuredTypes
<1>7. /\ DOMAIN loop' = {"at", "left", "tick", "held", "idled", "retry"} /\ loop'.at = "busy"
      /\ loop'.held = loop.held /\ loop'.idled = loop.idled
      /\ loop'.left = IF new.interval > setup.interval - loop.left
                      THEN new.interval - (setup.interval - loop.left) ELSE 0
    BY <1>1, <1>2, <1>3 DEF MeasuredTypes
<1>8. loop'.left \in Nat
    BY <1>6, <1>7
<1>9. /\ MeasuredTypes' /\ UpIsLive'
      /\ Measuring!Obeyed' =>
           /\ luck' = luck /\ dust'.there = dust.there
           /\ drv'.up => port' = <<>> \/ (drv.up /\ port' = port)
           /\ (drv.up => Knows(drv, dust, port)) => (drv'.up => Knows(drv', dust', port'))
  <2>1. loop'.held \in Nat /\ loop'.idled \in BOOLEAN /\ loop'.at # "setup"
      BY <1>6, <1>7
  <2>. QED BY <1>2, <1>3, <1>4, <1>5, <1>7, <1>8, <2>1, BeginKeeps
<1>10. ASSUME Quiet'
       PROVE  dust'.there /\ InTime' /\ (drv'.up => Knows(drv', dust', port'))
  <2>1. Measuring!Obeyed' /\ Measuring!Calm'
      BY <1>10 DEF Quiet
  <2>2. Measuring!Calm /\ setup.block < new.interval
      BY <1>2, <1>3, <1>4, <2>1, CalmStays
  <2>3. Measuring!Obeyed
      BY <1>3, <1>5, <1>9, <2>1 DEF Measuring!Obeyed
  <2>4. /\ dust.there /\ InTime /\ (drv.up => Knows(drv, dust, port))
      BY <2>2, <2>3 DEF WarmInv, Quiet
  <2>5. loop.held <= setup.block /\ loop.left + loop.held = setup.interval
      BY <1>1, <1>5, <2>4 DEF InTime
  <2>6. loop'.held <= new.block /\ loop'.left + loop'.held = new.interval
      BY <1>5, <1>6, <1>7, <2>2, <2>5
  <2>7. drv'.up => Len(port') <= loop'.held
    <3>1. drv'.up => port' = <<>> \/ (drv.up /\ port' = port)
        BY <1>9, <2>1
    <3>2. drv.up => Len(port) <= loop.held
        BY <1>1, <2>4 DEF InTime
    <3>3. 0 <= loop.held
        BY <1>6
    <3>. QED BY <1>7, <3>1, <3>2, <3>3
  <2>8. InTime'
      BY <1>3, <1>7, <2>6, <2>7 DEF InTime
  <2>. QED BY <1>9, <2>1, <2>4, <2>8
<1>11. ~lastRead'.got
    BY <1>1 DEF Measuring!Never
<1>. QED BY <1>9, <1>10, <1>11 DEF WarmInv

\* The invariant holds when a node starts.
LEMMA WarmInit ==
    ASSUME Measuring!NodeInit
    PROVE  WarmInv
<1>1. /\ setup \in Setups /\ entry = [ok |-> {}, wiring |-> "none"] /\ port = <<>> /\ drv = Measuring!Down
      /\ loop = Measuring!NotReady /\ lastRead = Measuring!Never /\ luck = setup.troubles
      /\ dust \in {[works |-> w, ran |-> 0, there |-> TRUE] : w \in BOOLEAN}
    BY DEF Measuring!NodeInit
<1>2. DriverType(drv) /\ ~drv.up
    BY <1>1, FreshRecords
<1>3. /\ DOMAIN luck = {"miss", "plug", "reboot"} /\ luck.miss \in Int /\ luck.plug \in Int
      /\ luck.miss <= setup.troubles.miss /\ luck.plug <= setup.troubles.plug
    BY <1>1, SetupsAssumption
<1>4. PICK w \in BOOLEAN : dust = [works |-> w, ran |-> 0, there |-> TRUE]
    BY <1>1
<1>5. DOMAIN dust = {"works", "ran", "there"} /\ dust.works \in BOOLEAN /\ dust.ran \in Nat /\ dust.there
    BY <1>4
<1>6. /\ DOMAIN loop = {"at", "left", "tick", "held", "idled", "retry"} /\ loop.at = "setup"
      /\ loop.left = 0 /\ loop.held = 0 /\ loop.idled = TRUE
    BY <1>1 DEF Measuring!NotReady
<1>7. MeasuredTypes
  <2>1. loop.left \in Nat /\ loop.held \in Nat /\ port \in Seq(Nat)
      BY <1>1, <1>6
  <2>2. loop.idled \in BOOLEAN
      BY <1>6
  <2>. QED BY <1>1, <1>2, <1>3, <1>5, <1>6, <2>1, <2>2 DEF MeasuredTypes
<1>8. UpIsLive
    BY <1>1, <1>2 DEF UpIsLive
<1>9. InTime
    BY <1>2, <1>6 DEF InTime
<1>10. ~lastRead.got
    BY <1>1 DEF Measuring!Never
<1>. QED BY <1>2, <1>5, <1>7, <1>8, <1>9, <1>10 DEF WarmInv

\* A dust value that a node sends was measured when the fan had run the warm-up that
\* was configured when it came to its end: through sleeps, retries, restarts and
\* changes of the configuration, whatever the sensors, intervals and warm-ups are.
THEOREM DustIsReadWarm == Spec => []DustIsWarm
<1>. DEFINE WInv == part = "node" => WarmInv
<1>1. Init => WInv
    BY WarmInit DEF Init
<1>2. WInv /\ [Next]_vars => WInv'
  <2>. SUFFICES ASSUME WInv, [Next]_vars, part' = "node" PROVE WarmInv'
      OBVIOUS
  <2>1. part = "node" /\ [Measuring!NodeNext]_Measuring!nodeVars
      BY PartsMoveAlone
  <2>2. WarmInv
      BY <2>1
  <2>3. CASE Measuring!NodeNext
      BY <2>2, <2>3, SetupWarm, RetryWarm, ReadWarm, PostedWarm, IdleWarm, TimeWarm, EdgeWarm, PlugWarm,
         RebootWarm, ReconfigureWarm
         DEF Measuring!NodeNext
  <2>4. CASE UNCHANGED Measuring!nodeVars
      BY <2>2, <2>4, AsideWarm DEF Measuring!nodeVars
  <2>. QED BY <2>1, <2>3, <2>4
<1>3. WInv => DustIsWarm
    BY DEF WarmInv, Quiet, DustIsWarm, Measuring!DustIsWarm
<1>. QED BY <1>1, <1>2, <1>3, PTL DEF Spec

-----------------------------------------------------------------------------
(* EspNowReadings: a reading is stored with the time it was taken.         *)

\* What a radio node measures, and the readings of its pool.
Metrics == {"battery"} \cup UNION {{p.sensors[i][1] : i \in DOMAIN p.sensors} : p \in Plans}
Reads   == [metric : Metrics, index : Nat, value : Nat]
Entries == [at : Nat, v : Seq(Reads)]
OfSensor(r) == r.metric \in {"temp", "probe"}

\* By time t: what is dated was taken then, and nothing was taken later.
InItsTime(e, t) ==
    /\ e.at <= t
    /\ \A k \in DOMAIN e.v : OfSensor(e.v[k]) => e.v[k].value <= t /\ (e.at # 0 => e.v[k].value = e.at)

\* The pool of a node; one that had the time from the start dates everything, in order.
PoolInv(p, t, timed) ==
    /\ p \in Seq(Entries)
    /\ \A i \in DOMAIN p : InItsTime(p[i], t)
    /\ timed => /\ \A i \in DOMAIN p : p[i].at # 0
                /\ \A i, j \in DOMAIN p : i < j => p[i].at <= p[j].at

RadioInv ==
    /\ outfit \in Plans /\ theTime \in Nat \ {0} /\ inTime \in BOOLEAN
    /\ outfit.clock => inTime
    /\ PoolInv(pool, theTime, outfit.clock)
    /\ Arriving!StampedAsTaken

\* The module EspNowReadings counts as this one does.
LEMMA AlikeCounted == \A those : Arriving!Cardinality(those) = Cardinality(those)
BY Zenon DEF Arriving!Cardinality, Cardinality

\* The lesser of two numbers.
LEMMA LesserOfTwo ==
    ASSUME NEW a \in Int, NEW b \in Int
    PROVE  Arriving!Min({a, b}) = IF a <= b THEN a ELSE b
<1>. DEFINE m == IF a <= b THEN a ELSE b
<1>1. m \in {a, b} /\ \A y \in {a, b} : m <= y
    OBVIOUS
<1>2. \E x \in {a, b} : \A y \in {a, b} : x <= y
    BY <1>1
<1>3. Arriving!Min({a, b}) \in {a, b} /\ \A y \in {a, b} : Arriving!Min({a, b}) <= y
    BY <1>2 DEF Arriving!Min
<1>. QED BY <1>1, <1>3

\* The age of a reading, and the date the collector makes of it.
LEMMA AgeIs ==
    ASSUME NEW from \in Nat, NEW at \in Nat
    PROVE  Arriving!ageOf(from, at) =
             IF from = 0 \/ at = 0 \/ from <= at THEN 0
             ELSE IF from - at <= OldestAge THEN from - at ELSE OldestAge
<1>1. CASE from = 0 \/ at = 0 \/ from <= at
    BY <1>1 DEF Arriving!ageOf
<1>2. CASE ~(from = 0 \/ at = 0 \/ from <= at)
    BY <1>2, LesserOfTwo, PlansAssumption DEF Arriving!ageOf
<1>. QED BY <1>1, <1>2

DateAt(from, t, at) == Arriving!Date(t, Arriving!ageOf(from, at))

LEMMA DateIs ==
    ASSUME NEW t \in Nat \ {0}, NEW from \in {0, t}, NEW at \in Nat, at <= t
    PROVE  /\ DateAt(from, t, at) \in Nat /\ DateAt(from, t, at) <= t
           /\ at # 0 => DateAt(from, t, at) >= at
           /\ at = 0 => DateAt(from, t, at) = t
           /\ at # 0 /\ from = t /\ t - at <= OldestAge => DateAt(from, t, at) = at
           /\ at # 0 /\ from = t /\ t - at > OldestAge =>
                 DateAt(from, t, at) = t - OldestAge
<1>. DEFINE age == Arriving!ageOf(from, at)
<1>1. age = IF from = 0 \/ at = 0 \/ from <= at THEN 0
            ELSE IF from - at <= OldestAge THEN from - at ELSE OldestAge
    BY AgeIs
<1>2. DateAt(from, t, at) = IF t > age THEN t - age ELSE t
    BY DEF DateAt, Arriving!Date
<1>. HIDE DEF age
<1>. QED BY <1>1, <1>2, PlansAssumption

LEMMA DatesInOrder ==
    ASSUME NEW t \in Nat \ {0}, NEW at \in Nat, NEW later \in Nat, at # 0, at <= later, later <= t
    PROVE  DateAt(t, t, at) <= DateAt(t, t, later)
<1>1. /\ DateAt(t, t, at) \in Nat /\ DateAt(t, t, later) \in Nat
      /\ t - at <= OldestAge => DateAt(t, t, at) = at
      /\ t - at > OldestAge => DateAt(t, t, at) = t - OldestAge
      /\ t - later <= OldestAge => DateAt(t, t, later) = later
      /\ t - later > OldestAge => DateAt(t, t, later) = t - OldestAge
  <2>1. t \in {0, t} /\ at \in Nat /\ at <= t /\ later # 0
      OBVIOUS
  <2>2. \A a \in Nat : a <= t /\ a # 0 =>
           /\ DateAt(t, t, a) \in Nat
           /\ t - a <= OldestAge => DateAt(t, t, a) = a
           /\ t - a > OldestAge => DateAt(t, t, a) = t - OldestAge
      BY <2>1, DateIs
  <2>. QED BY <2>1, <2>2
<1>. QED BY <1>1, PlansAssumption

\* What is measured now.
LEMMA LiveIs ==
    ASSUME NEW p \in Plans, NEW mv \in p.volts, NEW t \in Nat
    PROVE  /\ Arriving!Live(p.sensors, mv, t) \in Seq(Reads)
           /\ \A k \in DOMAIN Arriving!Live(p.sensors, mv, t) :
                 OfSensor(Arriving!Live(p.sensors, mv, t)[k]) => Arriving!Live(p.sensors, mv, t)[k].value = t
<1>. DEFINE list == p.sensors
            n    == Len(list) + IF mv = 0 THEN 0 ELSE 1
            v    == Arriving!Live(list, mv, t)
<1>1. list \in Seq(STRING \X Nat) /\ mv \in Nat
    BY PlansAssumption
<1>. HIDE DEF list
<1>2. n \in Nat /\ n <= Len(list) + 1
  <2>1. Len(list) \in Nat
      BY <1>1
  <2>. QED BY <2>1
<1>3. v = [i \in 1..n |-> IF i <= Len(list) THEN [metric |-> list[i][1], index |-> list[i][2], value |-> t]
                          ELSE [metric |-> "battery", index |-> 0, value |-> mv]]
    BY DEF Arriving!Live
<1>. HIDE DEF n, v
<1>4. ASSUME NEW i \in 1..n
      PROVE  v[i] \in Reads /\ (OfSensor(v[i]) => v[i].value = t)
  <2>1. CASE i <= Len(list)
    <3>1. v[i] = [metric |-> list[i][1], index |-> list[i][2], value |-> t]
        BY <1>3, <2>1
    <3>2. list[i] \in STRING \X Nat
        BY <1>1, <1>2, <2>1
    <3>3. list[i][2] \in Nat
        BY <3>2
    <3>4. list[i][1] \in Metrics
      <4>1. i \in DOMAIN p.sensors
          BY <1>1, <1>2, <2>1 DEF list
      <4>. QED BY <4>1 DEF list, Metrics
    <3>. QED BY <3>1, <3>3, <3>4 DEF Reads
  <2>2. CASE ~(i <= Len(list))
    <3>1. v[i] = [metric |-> "battery", index |-> 0, value |-> mv]
        BY <1>3, <2>2
    <3>2. v[i] \in Reads
      <4>1. "battery" \in Metrics
          BY DEF Metrics
      <4>. QED BY <1>1, <3>1, <4>1 DEF Reads
    <3>3. ~OfSensor(v[i])
        BY <3>1 DEF OfSensor
    <3>. QED BY <3>2, <3>3
  <2>. QED BY <2>1, <2>2
<1>5. v \in Seq(Reads) /\ DOMAIN v = 1..n
    BY <1>2, <1>3, <1>4
<1>. QED BY <1>4, <1>5 DEF v, list

\* Time passes.
LEMMA PoolLater ==
    ASSUME NEW p, NEW t \in Nat, NEW u \in Nat, NEW timed \in BOOLEAN, PoolInv(p, t, timed), t <= u
    PROVE  PoolInv(p, u, timed)
<1>1. ASSUME NEW i \in DOMAIN p
      PROVE  InItsTime(p[i], u)
  <2>1. p[i] \in Entries /\ InItsTime(p[i], t)
      BY DEF PoolInv
  <2>2. p[i].at \in Nat /\ p[i].v \in Seq(Reads)
      BY <2>1 DEF Entries
  <2>3. \A k \in DOMAIN p[i].v : p[i].v[k] \in Reads
      BY <2>2
  <2>4. \A r \in Reads : r.value \in Nat
      BY DEF Reads
  <2>. QED BY <2>1, <2>2, <2>3, <2>4 DEF InItsTime
<1>. QED BY <1>1 DEF PoolInv

\* The oldest leave.
LEMMA PoolDropped ==
    ASSUME NEW p, NEW t, NEW timed, PoolInv(p, t, timed), NEW n \in Nat
    PROVE  PoolInv(SubSeq(p, n + 1, Len(p)), t, timed)
<1>1. PICK l \in Nat : l = Len(p) /\ p \in Seq(Entries) /\ DOMAIN p = 1..l
    BY DEF PoolInv
<1>. DEFINE q == SubSeq(p, n + 1, l)
<1>2. q \in Seq(Entries)
    BY <1>1
<1>3. q = [i \in 1..(l - n) |-> p[i + n]]
    BY <1>1
<1>. HIDE DEF q
<1>a. DOMAIN q = 1..(l - n) /\ \A i \in DOMAIN q : i + n \in DOMAIN p /\ q[i] = p[i + n]
    BY <1>1, <1>3
<1>4. /\ \A i \in DOMAIN q : InItsTime(q[i], t)
      /\ timed => \A i \in DOMAIN q : q[i].at # 0
    BY <1>a DEF PoolInv
<1>5. timed => \A i, j \in DOMAIN q : i < j => q[i].at <= q[j].at
  <2>. SUFFICES ASSUME timed, NEW i \in DOMAIN q, NEW j \in DOMAIN q, i < j PROVE q[i].at <= q[j].at
      OBVIOUS
  <2>1. /\ i + n \in DOMAIN p /\ j + n \in DOMAIN p /\ i + n < j + n
        /\ q[i] = p[i + n] /\ q[j] = p[j + n]
      BY <1>a
  <2>. QED BY <2>1 DEF PoolInv
<1>6. PoolInv(q, t, timed)
    BY <1>2, <1>4, <1>5 DEF PoolInv
<1>. QED BY <1>1, <1>6 DEF q

\* A new reading joins.
LEMMA PoolPushed ==
    ASSUME NEW p, NEW t \in Nat, NEW timed, PoolInv(p, t, timed), NEW e \in Entries, InItsTime(e, t),
           timed => e.at = t /\ t # 0
    PROVE  PoolInv(Arriving!Pushed(p, e), t, timed)
<1>1. PICK n \in Nat : Arriving!Pushed(p, e) = Append(SubSeq(p, n + 1, Len(p)), e)
  <2>. DEFINE Room(j) == /\ Arriving!Used(SubSeq(p, j + 1, Len(p))) + 5 + 6 * Len(e.v) <= PoolBytes
                         /\ Len(p) - j < 255
              drops   == {j \in 0..Len(p) : ~Room(j)}
  <2>1. Arriving!Pushed(p, e) = Append(SubSeq(p, Arriving!Cardinality(drops) + 1, Len(p)), e)
      BY DEF Arriving!Pushed
  <2>2. Arriving!Cardinality(drops) = Cardinality(drops)
      BY AlikeCounted
  <2>3. Cardinality(drops) \in Nat
    <3>1. Len(p) \in Nat
        BY DEF PoolInv
    <3>2. IsFiniteSet(0..Len(p))
        BY <3>1, FS_Interval
    <3>. QED BY <3>2, FS_Subset, FS_CardinalityType
  <2>. QED BY <2>1, <2>2, <2>3
<1>. DEFINE q == SubSeq(p, n + 1, Len(p))
            r == Append(q, e)
<1>2. PoolInv(q, t, timed)
    BY PoolDropped
<1>. HIDE DEF q
<1>3. q \in Seq(Entries) /\ Len(q) \in Nat /\ DOMAIN q = 1..Len(q)
    BY <1>2 DEF PoolInv
<1>4. /\ r \in Seq(Entries) /\ DOMAIN r = 1..(Len(q) + 1) /\ r[Len(q) + 1] = e
      /\ \A i \in 1..Len(q) : r[i] = q[i]
    BY <1>3
<1>. HIDE DEF r
<1>5. \A i \in DOMAIN r : InItsTime(r[i], t)
    BY <1>2, <1>3, <1>4 DEF PoolInv
<1>6. timed => \A i \in DOMAIN r : r[i].at # 0
    BY <1>2, <1>3, <1>4 DEF PoolInv
<1>7. timed => \A i, j \in DOMAIN r : i < j => r[i].at <= r[j].at
  <2>. SUFFICES ASSUME timed, NEW i \in DOMAIN r, NEW j \in DOMAIN r, i < j PROVE r[i].at <= r[j].at
      OBVIOUS
  <2>1. i \in 1..Len(q) /\ r[i] = q[i]
      BY <1>3, <1>4
  <2>2. CASE j \in 1..Len(q)
      BY <1>2, <1>3, <1>4, <2>1, <2>2 DEF PoolInv
  <2>3. CASE j = Len(q) + 1
      BY <1>2, <1>3, <1>4, <2>1, <2>3 DEF PoolInv, InItsTime
  <2>. QED BY <1>3, <1>4, <2>2, <2>3
<1>8. PoolInv(r, t, timed)
    BY <1>4, <1>5, <1>6, <1>7 DEF PoolInv
<1>. QED BY <1>1, <1>8 DEF q, r

LEMMA TakenIs ==
    ASSUME NEW p \in Seq(Entries), NEW v
    PROVE  Arriving!Taken(p, v) \in 0..Len(p)
<1>. DEFINE Fits(k) == Arriving!Data2Len(Append(Arriving!Sizes(SubSeq(p, 1, k)), Len(v))) <= Arriving!Min({FrameBytes, Arriving!Frame250})
            fit     == {k \in 1..Len(p) : Fits(k)}
<1>1. Arriving!Taken(p, v) = Arriving!Cardinality(fit)
    BY DEF Arriving!Taken
<1>2. Arriving!Cardinality(fit) = Cardinality(fit)
    BY AlikeCounted
<1>. HIDE DEF Fits
<1>3. Len(p) \in Nat /\ IsFiniteSet(1..Len(p)) /\ Cardinality(1..Len(p)) = Len(p)
  <2>1. Len(p) \in Nat
      OBVIOUS
  <2>. QED BY <2>1, FS_Interval
<1>4. fit \in SUBSET (1..Len(p))
    OBVIOUS
<1>. HIDE DEF fit
<1>5. IsFiniteSet(fit) /\ Cardinality(fit) <= Len(p)
    BY <1>3, <1>4, FS_Subset
<1>6. Cardinality(fit) \in Nat
    BY <1>5, FS_CardinalityType
<1>. QED BY <1>1, <1>2, <1>3, <1>5, <1>6

\* A frame: the oldest of the pool with their ages, and what was measured now.
LEMMA FrameIs ==
    ASSUME NEW p \in Seq(Entries), NEW v, NEW from
    PROVE  /\ Arriving!Built(p, v, from).epoch = from
           /\ \E k \in 0..Len(p) :
                 /\ Len(Arriving!Built(p, v, from).s) = k + 1 /\ DOMAIN Arriving!Built(p, v, from).s = 1..(k + 1)
                 /\ \A i \in 1..k : Arriving!Built(p, v, from).s[i] = [age |-> Arriving!ageOf(from, p[i].at), v |-> p[i].v]
                 /\ Arriving!Built(p, v, from).s[k + 1] = [age |-> 0, v |-> v]
<1>1. PICK k \in 0..Len(p) : k = Arriving!Taken(p, v)
    BY TakenIs
<1>2. k \in Nat
    OBVIOUS
<1>. DEFINE Sent(i) == [age |-> Arriving!ageOf(from, p[i].at), v |-> p[i].v]
            old     == [i \in 1..k |-> Sent(i)]
            s       == Append(old, [age |-> 0, v |-> v])
            f       == Arriving!Built(p, v, from)
<1>3. f = [epoch |-> from, s |-> s]
    BY <1>1 DEF Arriving!Built
<1>4. DOMAIN old = 1..k /\ \A i \in 1..k : old[i] = Sent(i)
    OBVIOUS
<1>5. old \in Seq({Sent(i) : i \in 1..k}) /\ Len(old) = k
    BY <1>2
<1>. HIDE DEF Sent, old, f
<1>6. /\ Len(s) = k + 1 /\ DOMAIN s = 1..(k + 1) /\ s[k + 1] = [age |-> 0, v |-> v]
      /\ \A i \in 1..k : s[i] = old[i]
    BY <1>2, <1>4, <1>5
<1>. HIDE DEF s
<1>7. f.epoch = from /\ f.s = s
    BY <1>3
<1>. QED BY <1>4, <1>6, <1>7 DEF f, Sent

\* The first k of the pool p, with the dates of their ages, and v with that of now.
StoredAs(all, k, p, v, from, t) ==
    /\ DOMAIN all = 1..(k + 1)
    /\ \A i \in 1..k : /\ all[i].at = DateAt(from, t, p[i].at) /\ all[i].newest = FALSE
                       /\ \A r \in all[i].readings : \E x \in DOMAIN p[i].v : r = p[i].v[x]
    /\ all[k + 1].at = t /\ all[k + 1].newest = TRUE
    /\ \A r \in all[k + 1].readings : \E x \in DOMAIN v : r = v[x]

\* What arrives is stored with the date of its age, and the last is of now.
LEMMA StoredAt ==
    ASSUME NEW p \in Seq(Entries), NEW v, NEW t \in Nat \ {0}, NEW from \in {0, t},
           NEW f, f = Arriving!Built(p, v, from), NEW all, all = Arriving!Landing(f, t)
    PROVE  \E k \in 0..Len(p) : StoredAs(all, k, p, v, from, t)
<1>2. PICK k \in 0..Len(p) :
        /\ Len(f.s) = k + 1 /\ DOMAIN f.s = 1..(k + 1)
        /\ \A i \in 1..k : f.s[i] = [age |-> Arriving!ageOf(from, p[i].at), v |-> p[i].v]
        /\ f.s[k + 1] = [age |-> 0, v |-> v]
    BY FrameIs
<1>4. /\ DOMAIN all = 1..(k + 1)
      /\ \A i \in 1..(k + 1) : all[i] = [at |-> Arriving!Date(t, f.s[i].age), newest |-> (i = k + 1),
                                         readings |-> Arriving!Named(f.s[i].v)]
    BY <1>2 DEF Arriving!Landing
<1>5. \A w : \A r \in Arriving!Named(w) : \E x \in DOMAIN w : r = w[x]
    BY DEF Arriving!Named
<1>6. ASSUME NEW i \in 1..k
      PROVE  /\ all[i].at = DateAt(from, t, p[i].at) /\ all[i].newest = FALSE
             /\ \A r \in all[i].readings : \E x \in DOMAIN p[i].v : r = p[i].v[x]
  <2>1. i \in 1..(k + 1) /\ i # k + 1
      OBVIOUS
  <2>2. f.s[i].age = Arriving!ageOf(from, p[i].at) /\ f.s[i].v = p[i].v
    <3>1. f.s[i] = [age |-> Arriving!ageOf(from, p[i].at), v |-> p[i].v]
        BY <1>2
    <3>. QED BY <3>1
  <2>3. /\ all[i].at = Arriving!Date(t, f.s[i].age) /\ all[i].newest = (i = k + 1)
        /\ all[i].readings = Arriving!Named(f.s[i].v)
      BY <1>4, <2>1
  <2>4. all[i].at = DateAt(from, t, p[i].at)
      BY <2>2, <2>3, Zenon DEF DateAt
  <2>5. all[i].newest = FALSE
      BY <2>1, <2>3
  <2>6. \A r \in all[i].readings : \E x \in DOMAIN p[i].v : r = p[i].v[x]
    <3>1. all[i].readings = Arriving!Named(p[i].v)
        BY <2>2, <2>3
    <3>. QED BY <1>5, <3>1
  <2>. QED BY <2>4, <2>5, <2>6
<1>7. /\ all[k + 1].at = t /\ all[k + 1].newest = TRUE
      /\ \A r \in all[k + 1].readings : \E x \in DOMAIN v : r = v[x]
  <2>1. k + 1 \in 1..(k + 1)
      OBVIOUS
  <2>2. f.s[k + 1].age = 0 /\ f.s[k + 1].v = v
      BY <1>2
  <2>3. /\ all[k + 1].at = Arriving!Date(t, f.s[k + 1].age) /\ all[k + 1].newest = (k + 1 = k + 1)
        /\ all[k + 1].readings = Arriving!Named(f.s[k + 1].v)
      BY <1>4, <2>1
  <2>4. Arriving!Date(t, 0) = t
      BY DEF Arriving!Date
  <2>5. all[k + 1].at = t
      BY <2>2, <2>3, <2>4
  <2>6. all[k + 1].newest = TRUE
      BY <2>3
  <2>7. \A r \in all[k + 1].readings : \E x \in DOMAIN v : r = v[x]
    <3>1. all[k + 1].readings = Arriving!Named(v)
        BY <2>2, <2>3
    <3>. QED BY <1>5, <3>1
  <2>. QED BY <2>5, <2>6, <2>7
<1>. QED BY <1>4, <1>6, <1>7 DEF StoredAs

\* Samples that arrive at time t are stamped as they were taken.
Stamped(all, t) ==
    \A i \in DOMAIN all : \A r \in Arriving!Measured(all[i]) :
        /\ all[i].at >= r.value
        /\ all[i].newest => all[i].at = r.value /\ all[i].at = t
        /\ ~all[i].newest /\ outfit.clock =>
              /\ t - r.value <= OldestAge => all[i].at = r.value
              /\ \A j \in DOMAIN all : i < j => all[i].at <= all[j].at

LEMMA FrameStamped ==
    ASSUME RadioInv, NEW t \in Nat \ {0}, theTime <= t, NEW v, \A k \in DOMAIN v : OfSensor(v[k]) => v[k].value = t,
           NEW all, all = Arriving!Landing(Arriving!Built(pool, v, IF inTime THEN t ELSE 0), t)
    PROVE  Stamped(all, t)
<1>. DEFINE from == IF inTime THEN t ELSE 0
<1>1. /\ pool \in Seq(Entries) /\ theTime \in Nat /\ from \in {0, t} /\ outfit.clock \in BOOLEAN
      /\ outfit.clock => from = t
    BY PlansAssumption DEF RadioInv, PoolInv
<1>a. all = Arriving!Landing(Arriving!Built(pool, v, from), t)
    OBVIOUS
<1>. HIDE DEF from
<1>b. PICK k \in 0..Len(pool) : StoredAs(all, k, pool, v, from, t)
  <2>1. pool \in Seq(Entries) /\ from \in {0, t}
      BY <1>1
  <2>. QED BY <1>a, <2>1, StoredAt, Zenon
<1>2. /\ DOMAIN all = 1..(k + 1)
      /\ \A i \in 1..k : /\ all[i].at = DateAt(from, t, pool[i].at) /\ all[i].newest = FALSE
                 /\ \A r \in all[i].readings : \E x \in DOMAIN pool[i].v : r = pool[i].v[x]
      /\ all[k + 1].at = t /\ all[k + 1].newest = TRUE
      /\ \A r \in all[k + 1].readings : \E x \in DOMAIN v : r = v[x]
    BY <1>b DEF StoredAs
<1>3. k \in Nat /\ 1..k \subseteq DOMAIN pool
    BY <1>1
<1>4. PoolInv(pool, t, outfit.clock)
    BY <1>1, PoolLater DEF RadioInv
<1>5. ASSUME NEW i \in 1..k
      PROVE  /\ pool[i].at \in Nat /\ pool[i].at <= t /\ InItsTime(pool[i], t)
             /\ outfit.clock => pool[i].at # 0
  <2>1. i \in DOMAIN pool /\ pool[i] \in Entries
      BY <1>1, <1>3
  <2>2. pool[i].at \in Nat
      BY <2>1 DEF Entries
  <2>. QED BY <1>4, <2>1, <2>2 DEF PoolInv, InItsTime
<1>6. ASSUME NEW i \in 1..k, NEW r \in Arriving!Measured(all[i])
      PROVE  /\ r.value \in Nat /\ r.value <= t
             /\ pool[i].at # 0 => r.value = pool[i].at
  <2>1. OfSensor(r) /\ r \in all[i].readings
      BY DEF Arriving!Measured, OfSensor
  <2>2. PICK x \in DOMAIN pool[i].v : r = pool[i].v[x]
      BY <1>2, <2>1
  <2>3. pool[i] \in Entries
      BY <1>1, <1>3
  <2>4. pool[i].v \in Seq(Reads)
      BY <2>3 DEF Entries
  <2>5. r \in Reads
      BY <2>2, <2>4
  <2>6. r.value \in Nat
      BY <2>5 DEF Reads
  <2>. QED BY <1>5, <2>1, <2>2, <2>6 DEF InItsTime
<1>7. ASSUME NEW i \in 1..k
      PROVE  all[i].at \in Nat /\ all[i].at <= t
  <2>1. all[i].at = DateAt(from, t, pool[i].at)
      BY <1>2
  <2>2. pool[i].at \in Nat /\ pool[i].at <= t
      BY <1>5
  <2>3. from \in {0, t}
      BY <1>1
  <2>4. DateAt(from, t, pool[i].at) \in Nat /\ DateAt(from, t, pool[i].at) <= t
      BY <2>2, <2>3, DateIs
  <2>. QED BY <2>1, <2>4
<1>8. ASSUME NEW i \in 1..k, NEW r \in Arriving!Measured(all[i])
      PROVE  /\ all[i].at >= r.value
             /\ outfit.clock /\ t - r.value <= OldestAge => all[i].at = r.value
  <2>1. all[i].at = DateAt(from, t, pool[i].at)
      BY <1>2
  <2>2. CASE pool[i].at = 0
    <3>1. all[i].at = t
      <4>1. DateAt(from, t, pool[i].at) = t
          BY <2>2 DEF DateAt, Arriving!ageOf, Arriving!Date
      <4>. QED BY <2>1, <4>1
    <3>. QED BY <1>5, <1>6, <2>2, <3>1
  <2>3. CASE pool[i].at # 0
    <3>1. /\ all[i].at >= pool[i].at
          /\ from = t /\ t - pool[i].at <= OldestAge => all[i].at = pool[i].at
      <4>1. pool[i].at \in Nat /\ pool[i].at <= t
          BY <1>5
      <4>2. from \in {0, t}
          BY <1>1
      <4>3. /\ DateAt(from, t, pool[i].at) >= pool[i].at
            /\ from = t /\ t - pool[i].at <= OldestAge => DateAt(from, t, pool[i].at) = pool[i].at
          BY <2>3, <4>1, <4>2, DateIs
      <4>. QED BY <2>1, <4>3
    <3>2. r.value = pool[i].at
        BY <1>6, <2>3
    <3>. QED BY <1>1, <3>1, <3>2
  <2>. QED BY <2>2, <2>3
<1>9. ASSUME outfit.clock, NEW i \in 1..k, NEW j \in 1..(k + 1), i < j
      PROVE  all[i].at <= all[j].at
  <2>1. CASE j = k + 1
      BY <1>2, <1>7, <2>1
  <2>2. CASE j \in 1..k
    <3>1. pool[i].at <= pool[j].at
        BY <1>3, <1>4, <1>9, <2>2 DEF PoolInv
    <3>2. DateAt(t, t, pool[i].at) <= DateAt(t, t, pool[j].at)
        BY <1>5, <1>9, <2>2, <3>1, DatesInOrder
    <3>. QED BY <1>1, <1>2, <1>9, <2>2, <3>2
  <2>. QED BY <2>1, <2>2, <1>3
<1>10. ASSUME NEW r \in Arriving!Measured(all[k + 1])
       PROVE  r.value = t
  <2>1. OfSensor(r) /\ r \in all[k + 1].readings
      BY DEF Arriving!Measured, OfSensor
  <2>. QED BY <1>2, <2>1
<1>. QED
  <2>. SUFFICES ASSUME NEW i \in DOMAIN all, NEW r \in Arriving!Measured(all[i])
       PROVE  /\ all[i].at >= r.value
              /\ all[i].newest => all[i].at = r.value /\ all[i].at = t
              /\ ~all[i].newest /\ outfit.clock =>
                    /\ t - r.value <= OldestAge => all[i].at = r.value
                    /\ \A j \in DOMAIN all : i < j => all[i].at <= all[j].at
      BY Zenon DEF Stamped
  <2>1. CASE i = k + 1
      BY <1>2, <1>10, <2>1
  <2>2. CASE i \in 1..k
    <3>1. all[i].newest = FALSE
        BY <1>2, <2>2
    <3>. QED BY <1>2, <1>8, <1>9, <2>2, <3>1
  <2>. QED BY <2>1, <2>2, <1>2, <1>3

LEMMA RadioInit ==
    ASSUME Arriving!ReadingsInit
    PROVE  RadioInv
<1>1. /\ outfit \in Plans /\ theTime = outfit.start /\ inTime = outfit.clock /\ pool = <<>>
      /\ landed = Arriving!NothingLanded
    BY DEF Arriving!ReadingsInit
<1>2. theTime \in Nat \ {0} /\ inTime \in BOOLEAN /\ (outfit.clock => inTime)
    BY <1>1, PlansAssumption
<1>3. PoolInv(pool, theTime, outfit.clock)
    BY <1>1 DEF PoolInv
<1>4. DOMAIN landed.samples = {}
    BY <1>1 DEF Arriving!NothingLanded
<1>5. Arriving!StampedAsTaken
    BY <1>4 DEF Arriving!StampedAsTaken
<1>. QED BY <1>1, <1>2, <1>3, <1>5 DEF RadioInv

\* A wake, whatever becomes of its frame.
LEMMA WakeKeeps ==
    ASSUME RadioInv, NEW sleep \in outfit.sleeps, NEW mv \in outfit.volts, NEW outcome, Arriving!Wake(sleep, mv, outcome)
    PROVE  /\ outfit' = outfit /\ theTime' = theTime + sleep /\ theTime' \in Nat \ {0} /\ theTime <= theTime'
           /\ inTime' \in BOOLEAN /\ (outfit.clock => inTime')
           /\ PoolInv(pool', theTime', outfit.clock)
<1>1. /\ outfit \in Plans /\ sleep \in Nat /\ theTime \in Nat \ {0} /\ inTime \in BOOLEAN /\ outfit.clock \in BOOLEAN
      /\ outfit.clock => inTime
    BY PlansAssumption DEF RadioInv
<1>2. outfit' = outfit /\ theTime' = theTime + sleep /\ inTime' = (inTime \/ outcome = "acked")
    BY DEF Arriving!Wake
<1>3. theTime' \in Nat \ {0} /\ theTime <= theTime' /\ inTime' \in BOOLEAN /\ (outfit.clock => inTime')
    BY <1>1, <1>2
<1>. DEFINE t == theTime + sleep
            v == Arriving!Live(outfit.sensors, mv, t)
            e == [at |-> IF inTime THEN t ELSE 0, v |-> v]
<1>4. PoolInv(pool, t, outfit.clock)
    BY <1>1, <1>2, <1>3, PoolLater DEF RadioInv
<1>5. v \in Seq(Reads) /\ \A k \in DOMAIN v : OfSensor(v[k]) => v[k].value = t
    BY <1>1, <1>2, <1>3, LiveIs
<1>6. CASE outcome = "acked"
  <2>1. pool' = SubSeq(pool, Arriving!Taken(pool, v) + 1, Len(pool))
      BY <1>6 DEF Arriving!Wake
  <2>2. Arriving!Taken(pool, v) \in Nat
      BY TakenIs DEF RadioInv, PoolInv
  <2>. QED BY <1>2, <1>3, <1>4, <2>1, <2>2, PoolDropped
<1>7. CASE outcome # "acked"
  <2>1. pool' = Arriving!Pushed(pool, e)
      BY <1>7 DEF Arriving!Wake
  <2>. HIDE DEF v
  <2>2. e \in Entries /\ e.at \in {0, t} /\ e.v = v /\ (outfit.clock => e.at = t)
      BY <1>1, <1>5 DEF Entries
  <2>3. InItsTime(e, t)
      BY <1>1, <1>5, <2>2 DEF InItsTime
  <2>4. t \in Nat \ {0}
      BY <1>1
  <2>. HIDE DEF e, t
  <2>5. PoolInv(pool', t, outfit.clock)
      BY <1>1, <1>4, <2>1, <2>2, <2>3, <2>4, PoolPushed
  <2>. QED BY <1>2, <1>3, <2>5 DEF t
<1>. QED BY <1>2, <1>3, <1>6, <1>7

LEMMA HeardStamped ==
    ASSUME RadioInv, NEW sleep \in outfit.sleeps, NEW mv \in outfit.volts, NEW outcome, Arriving!Heard(sleep, mv, outcome)
    PROVE  RadioInv'
<1>. DEFINE t == theTime + sleep
            v == Arriving!Live(outfit.sensors, mv, t)
            f == Arriving!Built(pool, v, IF inTime THEN t ELSE 0)
<1>1. /\ outfit' = outfit /\ theTime' = t /\ theTime' \in Nat \ {0} /\ theTime <= theTime'
      /\ inTime' \in BOOLEAN /\ (outfit.clock => inTime')
      /\ PoolInv(pool', theTime', outfit.clock)
  <2>1. Arriving!Wake(sleep, mv, outcome)
      BY DEF Arriving!Heard
  <2>. QED BY <2>1, WakeKeeps
<1>2. outfit \in Plans /\ inTime \in BOOLEAN /\ pool \in Seq(Entries)
    BY DEF RadioInv, PoolInv
<1>3. \A k \in DOMAIN v : OfSensor(v[k]) => v[k].value = t
    BY <1>1, <1>2, LiveIs
<1>4. t \in Nat \ {0} /\ theTime <= t
    BY <1>1
<1>5. landed'.samples = Arriving!Landing(f, t)
  <2>1. f.epoch = IF inTime THEN t ELSE 0
      BY Zenon DEF Arriving!Built
  <2>2. (IF f.epoch # 0 THEN f.epoch ELSE t) = t
      BY <1>4, <2>1
  <2>3. Arriving!Arrived(f, t)
      BY DEF Arriving!Heard
  <2>. HIDE DEF f
  <2>4. \E x : landed' = [samples |-> Arriving!Landing(f, IF f.epoch # 0 THEN f.epoch ELSE t), own |-> x]
      BY <2>3, Zenon DEF Arriving!Arrived
  <2>. QED BY <2>2, <2>4
<1>. HIDE DEF t, v
<1>. DEFINE all == landed'.samples
<1>. HIDE DEF all
<1>6. Stamped(all, t)
  <2>1. all = Arriving!Landing(Arriving!Built(pool, v, IF inTime THEN t ELSE 0), t)
      BY <1>5 DEF all
  <2>. QED BY <1>3, <1>4, <2>1, FrameStamped, Zenon
<1>7. Arriving!StampedAsTaken'
    BY <1>1, <1>6 DEF Stamped, all, t, Arriving!StampedAsTaken, Arriving!Measured
<1>. QED BY <1>1, <1>2, <1>7 DEF RadioInv

LEMMA UnheardStamped ==
    ASSUME RadioInv, NEW sleep \in outfit.sleeps, NEW mv \in outfit.volts, Arriving!Unheard(sleep, mv)
    PROVE  RadioInv'
<1>1. /\ outfit' = outfit /\ theTime' \in Nat \ {0} /\ inTime' \in BOOLEAN /\ (outfit.clock => inTime')
      /\ PoolInv(pool', theTime', outfit.clock)
  <2>1. Arriving!Wake(sleep, mv, "lost")
      BY DEF Arriving!Unheard
  <2>. QED BY <2>1, WakeKeeps
<1>2. DOMAIN landed'.samples = {}
  <2>1. landed' = Arriving!NothingLanded
      BY DEF Arriving!Unheard
  <2>. QED BY <2>1 DEF Arriving!NothingLanded
<1>3. Arriving!StampedAsTaken'
    BY <1>2 DEF Arriving!StampedAsTaken
<1>. QED BY <1>1, <1>3 DEF RadioInv

\* A reading that a radio node sends is stored with the time it was taken, and never
\* with an earlier one, whatever the pool, the ages and the losses are; with the very
\* time when the node had a clock and the age fits; in the order they were taken; and
\* only the live sample becomes the current values.
THEOREM ReadingsKeepTheirTime == Spec => []StampedAsTaken
<1>. DEFINE RInv == part = "radio" => RadioInv
<1>1. Init => RInv
    BY RadioInit DEF Init
<1>2. RInv /\ [Next]_vars => RInv'
  <2>. SUFFICES ASSUME RInv, [Next]_vars, part' = "radio" PROVE RadioInv'
      OBVIOUS
  <2>1. part = "radio" /\ [Arriving!ReadingsNext]_Arriving!readingVars
      BY PartsMoveAlone
  <2>2. RadioInv
      BY <2>1
  <2>3. CASE Arriving!ReadingsNext
    <3>1. CASE Arriving!Exchange
      <4>1. UNCHANGED <<outfit, theTime, inTime, pool, landed>>
          BY <3>1 DEF Arriving!Exchange
      <4>. QED BY <2>2, <4>1 DEF RadioInv, PoolInv, Arriving!StampedAsTaken
    <3>. QED BY <2>2, <2>3, <3>1, HeardStamped, UnheardStamped DEF Arriving!ReadingsNext
  <2>4. CASE UNCHANGED Arriving!readingVars
      BY <2>2, <2>4 DEF Arriving!readingVars, RadioInv, PoolInv, Arriving!StampedAsTaken
  <2>. QED BY <2>1, <2>3, <2>4
<1>3. RInv => StampedAsTaken
    BY DEF RadioInv, StampedAsTaken
<1>. QED BY <1>1, <1>2, <1>3, PTL DEF Spec
=============================================================================
