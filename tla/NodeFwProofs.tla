---------------------------- MODULE NodeFwProofs ----------------------------
(***************************************************************************)
(* For any nodes, images and scenarios of either link: a node that is shown *)
(* as done has run the image the page shows.                               *)
(***************************************************************************)
EXTENDS NodeFirmware, SequenceTheorems, TLAPS

-----------------------------------------------------------------------------
(* The inductive invariant, in parts.                                      *)

\* The records and functions the argument is about are there.
StoreShape ==
    /\ plan.nodes \subseteq Nodes
    /\ DOMAIN img = {"have", "id", "serial", "attempt", "floor"} /\ img.have \in BOOLEAN
    /\ DOMAIN tgt = Nodes
    /\ DOMAIN disk = {"bin", "meta", "roll"} /\ DOMAIN disk.roll = {"attempt", "tgt"}
    /\ DOMAIN disk.roll.tgt = Nodes
    /\ DOMAIN seen = {"ran", "refused", "back", "tried", "torn", "lostAttempt", "unheard", "broke"}
    /\ DOMAIN seen.ran = Nodes /\ seen.torn \in BOOLEAN

\* A device of two slots, which runs from one and has the other to go back to.
Sane(d) ==
    /\ DOMAIN d = {"slot", "boot", "run", "trial", "miss", "rb", "prog", "failed", "skip", "mains", "pc",
                   "want", "misses", "gained", "cold", "rtc"}
    /\ DOMAIN d.slot = Slots /\ d.run \in Slots /\ d.boot \in Slots
    /\ DOMAIN d.trial = {"prev", "img", "att", "boots"} /\ d.trial.prev \in Slots \cup {None}

DeviceShape == DOMAIN dev = Nodes /\ \A n \in Nodes : Sane(dev[n])

\* There are targets only of an image that is there.
Targets == \A n \in Nodes : tgt[n] # "none" => img.have

\* The card's description is of the image there is, and whom the card has as
\* done has run that one.
Described ==
    ~seen.torn =>
        /\ img.have => disk.meta = img.id
        /\ \A n \in Nodes : disk.roll.tgt[n] = "done" => disk.meta \in seen.ran[n]

\* A node that is on has run what it runs, and says so of no other image.
Said(q) == {q[k] : k \in DOMAIN q}
Runs == \A n \in Nodes : dev[n].pc # "off" => Running(n) \in seen.ran[n]
Reports ==
    /\ ring \in Seq(Said(ring))
    /\ \A f \in Said(ring) : f.n \in Nodes /\ (f.status = "running" => f.img \in seen.ran[f.n])

FwInv == StoreShape /\ DeviceShape /\ Targets /\ Described /\ Runs /\ Reports /\ DoneMeansRan

-----------------------------------------------------------------------------
(* Lists of reports.                                                       *)

\* One report more.
LEMMA SaidMore ==
    ASSUME NEW q, q \in Seq(Said(q)), NEW f
    PROVE  Append(q, f) \in Seq(Said(Append(q, f))) /\ Said(Append(q, f)) = Said(q) \cup {f}
<1>1. PICK m \in Nat : m = Len(q) /\ DOMAIN q = 1..m
    OBVIOUS
<1> DEFINE T == Said(q) \cup {f}
           j == Append(q, f)
<1>2. q \in Seq(T) /\ f \in T
    OBVIOUS
<1>3. j \in Seq(T) /\ DOMAIN j = 1..(m + 1) /\ j[m + 1] = f /\ \A i \in 1..m : j[i] = q[i]
    BY <1>1, <1>2
<1> HIDE DEF j
<1>4. \A x : x \in Said(j) <=> x \in T
  <2>1. ASSUME NEW x \in Said(j) PROVE x \in T
      BY <1>3 DEF Said
  <2>2. ASSUME NEW x \in Said(q) PROVE x \in Said(j)
    <3>1. PICK i \in 1..m : x = q[i]
        BY <1>1 DEF Said
    <3>2. i \in 1..(m + 1)
        BY <1>1
    <3> QED BY <1>3, <3>1, <3>2 DEF Said
  <2>3. f \in Said(j)
    <3>1. m + 1 \in 1..(m + 1)
        BY <1>1
    <3> QED BY <1>3, <3>1 DEF Said
  <2> QED BY <2>1, <2>2, <2>3
<1>5. Said(j) = T
    BY <1>4
<1> QED BY <1>3, <1>5 DEF j

\* The first report taken.
LEMMA SaidLess ==
    ASSUME NEW q, q \in Seq(Said(q)), q # <<>>
    PROVE  Tail(q) \in Seq(Said(Tail(q))) /\ Said(Tail(q)) \subseteq Said(q) /\ Head(q) \in Said(q)
<1>1. PICK m \in Nat : m = Len(q) /\ DOMAIN q = 1..m /\ m > 0
    OBVIOUS
<1> DEFINE j == Tail(q)
<1>2. /\ j \in Seq(Said(q)) /\ DOMAIN j = 1..(m - 1) /\ Len(j) = m - 1
      /\ \A i \in 1..(m - 1) : j[i] = q[i + 1]
      /\ Head(q) = q[1] /\ 1 \in 1..m
    BY <1>1
<1> HIDE DEF j
<1>3. Said(j) \subseteq Said(q)
    BY <1>2 DEF Said
<1>4. j \in Seq(Said(j))
  <2> DEFINE k == m - 1
  <2>1. k \in Nat /\ DOMAIN j = 1..k
      BY <1>1, <1>2
  <2> HIDE DEF k
  <2>2. \A i \in 1..k : j[i] \in Said(j)
      BY <2>1 DEF Said
  <2>3. j = [i \in 1..k |-> j[i]]
      BY <1>2, <2>1
  <2> QED BY <2>1, <2>2, <2>3
<1>5. Head(q) \in Said(q)
    BY <1>1, <1>2 DEF Said
<1> QED BY <1>3, <1>4, <1>5 DEF j

-----------------------------------------------------------------------------
(* What the node's own steps leave of it.                                  *)

\* It runs from the same slot, and that slot holds what it held.
Kin(d, e) == Sane(e) /\ e.run = d.run /\ e.slot[e.run] = d.slot[d.run]

LEMMA KinChain == \A d, e, g : Kin(d, e) /\ Kin(e, g) => Kin(d, g)
BY DEF Kin

\* Sleeping, backing off, counting, confirming and forgetting.
LEMMA KinSmall ==
    ASSUME NEW d, Sane(d)
    PROVE  Kin(d, d) /\ Kin(d, Rest(d)) /\ Kin(d, Held(d)) /\ Kin(d, Miss(d)) /\ Kin(d, Confirm(d)) /\ Kin(d, Cold(d))
<1>1. Kin(d, d)
    BY DEF Kin
<1>2. Kin(d, Rest(d))
    BY DEF Kin, Sane, Rest
<1>3. Kin(d, Held(d)) /\ Kin(d, Miss(d))
    BY DEF Kin, Sane, Held, Miss
<1>4. Kin(d, Confirm(d))
    BY DEF Kin, Sane, Confirm, NoTrial
<1>5. Kin(d, Cold(d))
    BY DEF Kin, Sane, Cold
<1> QED BY <1>1, <1>2, <1>3, <1>4, <1>5

\* Going back changes the slot of the next boot, not this one.
LEMMA KinBack ==
    ASSUME NEW d, Sane(d), d.trial.prev # None
    PROVE  Kin(d, RolledBack(d))
BY DEF Kin, Sane, RolledBack, NoTrial

LEMMA KinBoot ==
    ASSUME NEW d, Sane(d)
    PROVE  Kin(d, OnBoot(d)) /\ OnBoot(d).pc \in {d.pc, "off"}
<1>1. CASE d.trial.prev = None
    BY <1>1, KinSmall DEF OnBoot
<1>2. CASE d.trial.prev # None /\ d.run = d.trial.prev
    BY <1>2 DEF OnBoot, Kin, Sane, NoTrial
<1>3. CASE d.trial.prev # None /\ d.run # d.trial.prev /\ TooMany(d.trial)
  <2>1. RolledBack(d).pc \in {d.pc, "off"}
      BY DEF RolledBack, Sane
  <2> QED BY <1>3, <2>1, KinBack DEF OnBoot
<1>4. CASE d.trial.prev # None /\ d.run # d.trial.prev /\ ~TooMany(d.trial)
    BY <1>4 DEF OnBoot, Kin, Sane
<1> QED BY <1>1, <1>2, <1>3, <1>4

LEMMA KinWake ==
    ASSUME NEW d, Sane(d), NEW acked \in BOOLEAN
    PROVE  Kin(d, AfterWake(d, acked))
<1>1. CASE d.trial.prev = None
    BY <1>1, KinSmall DEF AfterWake
<1>2. CASE d.trial.prev # None /\ acked
    BY <1>2, KinSmall DEF AfterWake
<1>3. CASE d.trial.prev # None /\ ~acked /\ ManyMissed(d)
    BY <1>3, KinBack DEF AfterWake
<1>4. CASE d.trial.prev # None /\ ~acked /\ ~ManyMissed(d)
    BY <1>4 DEF AfterWake, Kin, Sane
<1> QED BY <1>1, <1>2, <1>3, <1>4

LEMMA KinPending ==
    ASSUME NEW d, Sane(d)
    PROVE  Kin(d, Pending(d))
<1>1. CASE d.skip > 0
  <2>1. Kin(d, [d EXCEPT !.skip = @ - 1])
      BY DEF Kin, Sane
  <2> QED BY <1>1, <2>1, KinSmall, KinChain DEF Pending, Kin
<1>2. CASE ~(d.skip > 0)
    BY <1>2 DEF Pending, Kin, Sane
<1> QED BY <1>1, <1>2

\* Whatever the verdict, its memory is in RTC.
LEMMA KinVerdict ==
    ASSUME NEW d, Sane(d), NEW status, NEW i, NEW att
    PROVE  Kin(d, Keeps(d, status, i, att))
<1> DEFINE e == IF status \in {"bad", "flash"}
                THEN [d EXCEPT !.failed = [img |-> i, att |-> att], !.prog = NoneGot] ELSE d
           g == IF status = "running" THEN [e EXCEPT !.skip = 0] ELSE Held(e)
<1>1. Kin(d, e)
    BY DEF Kin, Sane
<1> HIDE DEF e
<1>2. Kin(e, g)
  <2>1. Sane(e)
      BY <1>1 DEF Kin
  <2>2. Kin(e, [e EXCEPT !.skip = 0])
      BY <2>1 DEF Kin, Sane
  <2> QED BY <2>1, <2>2, KinSmall
<1> HIDE DEF g
<1>3. Kin(g, Rest(g))
    BY <1>2, KinSmall DEF Kin
<1>4. Keeps(d, status, i, att) = Rest(g)
    BY DEF Keeps, e, g
<1> QED BY <1>1, <1>2, <1>3, <1>4, KinChain

-----------------------------------------------------------------------------
(* Steps that leave the store alone.                                       *)

\* What a node is known to have run is never forgotten.
SeenGrows ==
    /\ DOMAIN seen' = DOMAIN seen /\ DOMAIN seen'.ran = Nodes
    /\ seen'.torn \in BOOLEAN /\ (seen.torn => seen'.torn)
    /\ \A n \in Nodes : seen.ran[n] \subseteq seen'.ran[n]

\* What the store says stays true.
LEMMA StoreStays ==
    ASSUME FwInv, UNCHANGED <<img, tgt, disk, plan>>, SeenGrows, DeviceShape', Runs', Reports'
    PROVE  FwInv'
<1>1. /\ img' = img /\ tgt' = tgt /\ disk' = disk /\ plan' = plan
      /\ DOMAIN seen' = DOMAIN seen /\ DOMAIN seen'.ran = Nodes
      /\ seen'.torn \in BOOLEAN /\ (~seen'.torn => ~seen.torn)
      /\ \A n \in Nodes : seen.ran[n] \subseteq seen'.ran[n]
    BY DEF SeenGrows, FwInv, StoreShape
<1>2. StoreShape' /\ Targets'
    BY <1>1 DEF FwInv, StoreShape, Targets
<1>3. Described'
    BY <1>1 DEF FwInv, Described
<1>4. DoneMeansRan'
    BY <1>1 DEF FwInv, DoneMeansRan
<1> QED BY <1>2, <1>3, <1>4 DEF FwInv

\* One node came to another state.
LEMMA OneMoved ==
    ASSUME FwInv, SeenGrows, NEW n \in Nodes, NEW e, dev' = [dev EXCEPT ![n] = e], Sane(e),
           e.pc # "off" => ImageOf(e.slot[e.run]) \in seen'.ran[n]
    PROVE  DeviceShape' /\ Runs'
<1>1. DOMAIN dev' = Nodes /\ dev'[n] = e /\ \A m \in Nodes : m # n => dev'[m] = dev[m]
    BY DEF FwInv, DeviceShape
<1>2. DeviceShape'
    BY <1>1 DEF FwInv, DeviceShape, Sane
<1>3. ASSUME NEW m \in Nodes, dev'[m].pc # "off" PROVE ImageOf(dev'[m].slot[dev'[m].run]) \in seen'.ran[m]
  <2>1. CASE m = n
      BY <1>1, <1>3, <2>1
  <2>2. CASE m # n
    <3>1. Running(m) \in seen.ran[m]
        BY <1>1, <1>3, <2>2 DEF FwInv, Runs
    <3>2. Running(m) \in seen'.ran[m]
        BY <3>1 DEF SeenGrows
    <3> QED BY <1>1, <2>2, <3>2 DEF Running
  <2> QED BY <2>1, <2>2
<1>4. Runs'
    BY <1>3 DEF Runs, Running
<1> QED BY <1>2, <1>4

\* A node that goes on from the same slot.
LEMMA KinMoved ==
    ASSUME FwInv, SeenGrows, NEW n \in Nodes, NEW e, dev' = [dev EXCEPT ![n] = e],
           Kin(dev[n], e), dev[n].pc # "off" \/ e.pc = "off"
    PROVE  DeviceShape' /\ Runs'
<1>1. dev[n].pc # "off" => ImageOf(e.slot[e.run]) \in seen'.ran[n]
  <2>1. dev[n].pc # "off" => Running(n) \in seen.ran[n]
      BY DEF FwInv, Runs
  <2>2. ImageOf(e.slot[e.run]) = Running(n)
      BY DEF Kin, Running
  <2> QED BY <2>1, <2>2 DEF SeenGrows
<1> QED BY <1>1, OneMoved DEF Kin

\* No node moved.
LEMMA NoneMoved ==
    ASSUME FwInv, SeenGrows, dev' = dev
    PROVE  DeviceShape' /\ Runs'
<1>1. DeviceShape'
    BY DEF FwInv, DeviceShape, Sane
<1>2. ASSUME NEW m \in Nodes, dev'[m].pc # "off" PROVE ImageOf(dev'[m].slot[dev'[m].run]) \in seen'.ran[m]
  <2>1. Running(m) \in seen.ran[m]
      BY <1>2 DEF FwInv, Runs
  <2> QED BY <2>1 DEF SeenGrows, Running
<1> QED BY <1>1, <1>2 DEF Runs, Running

\* The reports that wait are the same, or one fewer.
LEMMA ReportsStay ==
    ASSUME FwInv, SeenGrows, ring' = ring \/ (ring # <<>> /\ ring' = Tail(ring))
    PROVE  Reports'
<1>1. ring' \in Seq(Said(ring')) /\ Said(ring') \subseteq Said(ring)
    BY SaidLess DEF FwInv, Reports
<1>2. ASSUME NEW f \in Said(ring'), f.status = "running" PROVE f.img \in seen'.ran[f.n]
    BY <1>1, <1>2 DEF FwInv, Reports, SeenGrows
<1> QED BY <1>1, <1>2 DEF Reports, FwInv

\* One report more: of a verdict, or of the image that runs.
LEMMA ReportMade ==
    ASSUME FwInv, SeenGrows, NEW n \in Nodes, NEW i, NEW status, NEW att,
           ring' = Append(ring, Done(n, i, status, att)),
           status = "running" => i \in seen.ran[n]
    PROVE  Reports'
<1> DEFINE g == Done(n, i, status, att)
<1>1. g.n = n /\ g.img = i /\ g.status = status
    BY DEF Done
<1> HIDE DEF g
<1>2. ring' \in Seq(Said(ring')) /\ Said(ring') = Said(ring) \cup {g}
    BY SaidMore DEF FwInv, Reports, g
<1>3. ASSUME NEW f \in Said(ring') PROVE f.n \in Nodes /\ (f.status = "running" => f.img \in seen'.ran[f.n])
    BY <1>1, <1>2 DEF FwInv, Reports, SeenGrows
<1> QED BY <1>2, <1>3 DEF Reports

-----------------------------------------------------------------------------
(* The node's steps.                                                       *)

\* Notes of what was tried, refused or gone back from say nothing of what ran.
LEMMA SeenStays ==
    ASSUME FwInv, NEW n \in Nodes, NEW t, NEW r, NEW b,
           \/ seen' = seen
           \/ seen' = [seen EXCEPT !.tried[n] = t]
           \/ seen' = [seen EXCEPT !.refused[n] = r]
           \/ seen' = [seen EXCEPT !.tried[n] = t, !.refused[n] = r]
           \/ seen' = [seen EXCEPT !.back[n] = b]
           \/ seen' = [seen EXCEPT !.broke = b]
    PROVE  SeenGrows
BY DEF FwInv, StoreShape, SeenGrows

LEMMA BootKeeps ==
    ASSUME FwInv, UNCHANGED plan, NEW n \in Nodes, Boot(n)
    PROVE  FwInv'
<1> DEFINE d0 == dev[n]
           d1 == [d0 EXCEPT !.run = IF Loads(d0.slot[d0.boot]) THEN d0.boot ELSE 1 - d0.boot,
                            !.miss = 0, !.pc = "up"]
           d2 == OnBoot(d1)
           i  == ImageOf(d1.slot[d1.run])
           new == d0.cold \/ d0.rtc # i
           d3 == IF new THEN [Cold(d2) EXCEPT !.rtc = i] ELSE d2
           e  == IF d2.pc = "off" THEN d2
                 ELSE IF i \in Crashing THEN [d3 EXCEPT !.pc = "off", !.cold = TRUE]
                 ELSE d3
<1>1. /\ d0.pc = "off" /\ dev' = [dev EXCEPT ![n] = e]
      /\ \E bb, rr : seen' = [seen EXCEPT !.ran[n] = IF dev'[n].pc = "up" THEN @ \cup {i} ELSE @,
                                          !.back[n] = bb, !.refused[n] = rr]
      /\ UNCHANGED <<ring, storeOps>>
    BY DEF Boot
<1>2. Sane(d1) /\ d1.pc = "up"
    BY DEF FwInv, DeviceShape, Sane, Slots
<1>3. i = ImageOf(d1.slot[d1.run])
    OBVIOUS
<1> HIDE DEF d1, i, new
<1>4. Kin(d1, d2) /\ d2.pc \in {"up", "off"}
    BY <1>2, KinBoot
<1> HIDE DEF d2
<1>5. Kin(d2, d3) /\ d3.pc = d2.pc
  <2>1. Kin(d2, d2) /\ Kin(d2, Cold(d2)) /\ Cold(d2).pc = d2.pc
      BY <1>4, KinSmall DEF Kin, Cold, Sane
  <2>2. Kin(Cold(d2), [Cold(d2) EXCEPT !.rtc = i]) /\ [Cold(d2) EXCEPT !.rtc = i].pc = Cold(d2).pc
      BY <2>1 DEF Kin, Sane
  <2>3. CASE new
      BY <2>1, <2>2, <2>3, KinChain
  <2>4. CASE ~new
      BY <2>1, <2>4
  <2> QED BY <2>3, <2>4
<1> HIDE DEF d3
<1>6. Kin(d1, e) /\ e.pc \in {"up", "off"}
  <2>1. Kin(d3, [d3 EXCEPT !.pc = "off", !.cold = TRUE]) /\ [d3 EXCEPT !.pc = "off", !.cold = TRUE].pc = "off"
      BY <1>5 DEF Kin, Sane
  <2>2. CASE d2.pc = "off"
      BY <2>2, <1>4
  <2>3. CASE d2.pc # "off" /\ i \in Crashing
      BY <2>3, <2>1, <1>4, <1>5, KinChain
  <2>4. CASE d2.pc # "off" /\ ~(i \in Crashing)
      BY <2>4, <1>4, <1>5, KinChain
  <2> QED BY <2>2, <2>3, <2>4
<1> HIDE DEF e
<1>7. dev'[n] = e
    BY <1>1 DEF FwInv, DeviceShape
<1>8. SeenGrows /\ (e.pc = "up" => i \in seen'.ran[n])
    BY <1>1, <1>7 DEF FwInv, StoreShape, SeenGrows
<1>9. e.pc # "off" => ImageOf(e.slot[e.run]) \in seen'.ran[n]
    BY <1>3, <1>6, <1>8 DEF Kin
<1>10. DeviceShape' /\ Runs'
    BY <1>1, <1>6, <1>8, <1>9, OneMoved DEF Kin
<1>11. Reports'
    BY <1>1, <1>8, ReportsStay
<1> QED BY <1>1, <1>8, <1>10, <1>11, StoreStays DEF storeOps

LEMMA WakeKeeps ==
    ASSUME FwInv, UNCHANGED plan, NEW n \in Nodes, Wake(n)
    PROVE  FwInv'
<1>1. PICK acked \in BOOLEAN :
        LET d == AfterWake(dev[n], acked) IN
        /\ dev[n].pc = "up"
        /\ dev' = [dev EXCEPT ![n] = IF d.pc = "off" THEN d
                                     ELSE IF acked /\ ackFlag(mir.st[n]) THEN Pending(d) ELSE Rest(d)]
        /\ \/ seen' = [seen EXCEPT !.back[n] = @ \cup {<<dev[n].trial.img, dev[n].trial.att>>}]
           \/ seen' = seen
        /\ UNCHANGED <<ring, storeOps>>
    BY DEF Wake
<1> DEFINE d == AfterWake(dev[n], acked)
           e == IF d.pc = "off" THEN d ELSE IF acked /\ ackFlag(mir.st[n]) THEN Pending(d) ELSE Rest(d)
<1>2. Kin(dev[n], d)
    BY KinWake DEF FwInv, DeviceShape
<1>3. Kin(d, e)
    BY <1>2, KinSmall, KinPending DEF Kin
<1>4. SeenGrows
    BY <1>1, SeenStays
<1>5. dev' = [dev EXCEPT ![n] = e] /\ dev[n].pc # "off"
    BY <1>1
<1>6. Kin(dev[n], e)
    BY <1>2, <1>3, KinChain
<1> HIDE DEF d, e
<1>7. DeviceShape' /\ Runs'
    BY <1>4, <1>5, <1>6, KinMoved
<1>8. Reports'
    BY <1>1, <1>4, ReportsStay
<1> QED BY <1>1, <1>4, <1>7, <1>8, StoreStays DEF storeOps

-----------------------------------------------------------------------------
(* The download.                                                           *)

\* The node goes on from the slot it runs from, and reports no other image.
Proceeds(n) ==
    /\ SeenGrows
    /\ \E e : dev' = [dev EXCEPT ![n] = e] /\ Kin(dev[n], e)
    /\ Reports'

LEMMA ProceedsKeeps ==
    ASSUME FwInv, UNCHANGED <<storeOps, plan>>, NEW n \in Nodes, dev[n].pc # "off", Proceeds(n)
    PROVE  FwInv'
BY KinMoved, StoreStays DEF Proceeds, storeOps

LEMMA GoesOn ==
    ASSUME FwInv, NEW n \in Nodes, NEW d, Kin(dev[n], d), Goes(n, d)
    PROVE  Proceeds(n)
<1>1. dev' = [dev EXCEPT ![n] = d] /\ ring' = ring /\ seen' = seen
    BY DEF Goes
<1>2. SeenGrows
    BY <1>1, SeenStays
<1> QED BY <1>1, <1>2, ReportsStay DEF Proceeds

\* A verdict, told or lost.
LEMMA VerdictTold ==
    ASSUME FwInv, NEW n \in Nodes, NEW d, Kin(dev[n], d), NEW status, NEW i, NEW att,
           dev' = [dev EXCEPT ![n] = Keeps(d, status, i, att)], SeenGrows,
           status = "running" => i \in seen.ran[n],
           ring' = ring \/ ring' = Append(ring, Done(n, i, status, att))
    PROVE  Proceeds(n)
<1>1. Kin(dev[n], Keeps(d, status, i, att))
  <2>1. Sane(d)
      BY DEF Kin
  <2> QED BY <2>1, KinVerdict, KinChain
<1>2. Reports'
    BY ReportsStay, ReportMade
<1> QED BY <1>1, <1>2 DEF Proceeds

LEMMA ReportKeeps ==
    ASSUME FwInv, NEW n \in Nodes, NEW d, Kin(dev[n], d), NEW status, NEW i, NEW att,
           status = "running" => i \in seen.ran[n], Report(n, d, status, i, att)
    PROVE  Proceeds(n)
<1>1. /\ dev' = [dev EXCEPT ![n] = Keeps(d, status, i, att)]
      /\ ring' = ring \/ ring' = Append(ring, Done(n, i, status, att))
      /\ seen' = seen \/ seen' = [seen EXCEPT !.refused[n] = @ \cup {<<i, att>>}]
    BY DEF Report, SendDone
<1>2. SeenGrows
    BY <1>1, SeenStays
<1> QED BY <1>1, <1>2, VerdictTold

\* A download or an upload goes into the slot the node does not run from.
LEMMA PartIsOther ==
    ASSUME FwInv, NEW n \in Nodes
    PROVE  Sane(dev[n]) /\ Kin(dev[n], dev[n]) /\ Part(n) \in Slots /\ Part(n) # dev[n].run
<1>1. Sane(dev[n])
    BY DEF FwInv, DeviceShape
<1>2. dev[n].run \in {0, 1}
    BY <1>1 DEF Sane, Slots
<1>3. Part(n) \in Slots /\ Part(n) # dev[n].run
    BY <1>2 DEF Slots, Part
<1> QED BY <1>1, <1>3, KinSmall

\* A slice is written into the slot the node does not run from.
LEMMA KinWritten ==
    ASSUME FwInv, NEW n \in Nodes, NEW d, Kin(dev[n], d), NEW c, NEW p, NEW g
    PROVE  /\ Kin(dev[n], [d EXCEPT !.slot[Part(n)] = c])
           /\ Kin(dev[n], [d EXCEPT !.slot[Part(n)] = c, !.prog = p, !.misses = 0, !.gained = TRUE])
<1>1. Part(n) \in Slots /\ Part(n) # dev[n].run
    BY PartIsOther
<1>2. Sane(d) /\ d.run = dev[n].run /\ d.slot[d.run] = dev[n].slot[dev[n].run]
    BY DEF Kin
<1>3. Kin(dev[n], [d EXCEPT !.slot[Part(n)] = c])
    BY <1>1, <1>2 DEF Kin, Sane
<1>4. Kin(dev[n], [d EXCEPT !.slot[Part(n)] = c, !.prog = p, !.misses = 0, !.gained = TRUE])
    BY <1>1, <1>2 DEF Kin, Sane
<1> QED BY <1>3, <1>4

LEMMA WriteKeeps ==
    ASSUME FwInv, NEW n \in Nodes, NEW d, Kin(dev[n], d), NEW f, Write(n, d, f)
    PROVE  Proceeds(n)
<1> DEFINE e == [d EXCEPT !.slot[Part(n)][d.prog.got] = f.of, !.prog.got = @ + 1,
                          !.misses = 0, !.gained = TRUE]
<1>1. CASE /\ dev' = [dev EXCEPT ![n] = [e EXCEPT !.pc = IF e.prog.got = Size THEN "full" ELSE "ask"]]
           /\ seen' = [seen EXCEPT !.tried[n] = TRUE]
           /\ UNCHANGED ring
  <2> DEFINE c == [d.slot[Part(n)] EXCEPT ![d.prog.got] = f.of]
             p == [d.prog EXCEPT !.got = @ + 1]
             k == IF e.prog.got = Size THEN "full" ELSE "ask"
  <2>1. Kin(dev[n], e)
    <3>1. e = [d EXCEPT !.slot[Part(n)] = c, !.prog = p, !.misses = 0, !.gained = TRUE]
        BY DEF Kin, Sane
    <3> QED BY <3>1, KinWritten
  <2>2. dev' = [dev EXCEPT ![n] = [e EXCEPT !.pc = k]]
      BY <1>1
  <2> HIDE DEF e, k
  <2>3. Kin(dev[n], [e EXCEPT !.pc = k])
      BY <2>1 DEF Kin, Sane
  <2>4. SeenGrows
      BY <1>1, SeenStays
  <2> QED BY <1>1, <2>2, <2>3, <2>4, ReportsStay DEF Proceeds
<1>2. CASE /\ dev' = [dev EXCEPT ![n] = Keeps(d, "flash", d.prog.img, d.prog.att)]
           /\ ring' = Append(ring, Done(n, d.prog.img, "flash", d.prog.att))
           /\ seen' = [seen EXCEPT !.tried[n] = TRUE, !.refused[n] = @ \cup {<<d.prog.img, d.prog.att>>}]
  <2>1. SeenGrows
      BY <1>2, SeenStays
  <2>2. "flash" = "running" => d.prog.img \in seen.ran[n]
      OBVIOUS
  <2> QED BY <1>2, <2>1, <2>2, VerdictTold
<1> HIDE DEF e
<1>3. Write(n, d, f) =>
        \/ /\ dev' = [dev EXCEPT ![n] = [e EXCEPT !.pc = IF e.prog.got = Size THEN "full" ELSE "ask"]]
           /\ seen' = [seen EXCEPT !.tried[n] = TRUE]
           /\ UNCHANGED ring
        \/ /\ dev' = [dev EXCEPT ![n] = Keeps(d, "flash", d.prog.img, d.prog.att)]
           /\ ring' = Append(ring, Done(n, d.prog.img, "flash", d.prog.att))
           /\ seen' = [seen EXCEPT !.tried[n] = TRUE, !.refused[n] = @ \cup {<<d.prog.img, d.prog.att>>}]
    BY DEF Write, e
<1> QED BY <1>1, <1>2, <1>3

LEMMA SliceKeeps ==
    ASSUME FwInv, NEW n \in Nodes, NEW d, Kin(dev[n], d), NEW f, Slice(n, d, f)
    PROVE  Proceeds(n)
<1>1. Kin(dev[n], Miss(d))
  <2>1. Sane(d)
      BY DEF Kin
  <2> QED BY <2>1, KinSmall, KinChain
<1> QED BY <1>1, GoesOn, WriteKeeps DEF Slice

\* The first answer of a wake: what is known of the image is known to run, or
\* is not.
LEMMA FirstKeeps ==
    ASSUME FwInv, NEW n \in Nodes, dev[n].pc # "off", NEW f, First(n, dev[n], f)
    PROVE  Proceeds(n)
<1> DEFINE d == dev[n]
<1>1. Sane(d) /\ Kin(d, d) /\ Kin(d, Miss(d))
    BY KinSmall DEF FwInv, DeviceShape
<1>2. CASE f.off # 0
    BY <1>1, <1>2, GoesOn DEF First
<1>3. CASE f.off = 0 /\ Knows(n, d, f) # "unknown"
  <2>1. Knows(n, d, f) = "running" => f.img = Running(n)
      BY DEF Knows
  <2>2. Running(n) \in seen.ran[n]
      BY DEF FwInv, Runs
  <2>3. Report(n, d, Knows(n, d, f), f.img, f.att)
      BY <1>3 DEF First
  <2> QED BY <1>1, <2>1, <2>2, <2>3, ReportKeeps
<1>4. CASE f.off = 0 /\ Knows(n, d, f) = "unknown"
  <2>1. CASE /\ dev' = [dev EXCEPT ![n] = Keeps(d, "low", f.img, f.att)]
             /\ ring' = Append(ring, Done(n, f.img, "low", f.att))
             /\ UNCHANGED seen
    <3>1. SeenGrows
        BY <2>1, SeenStays
    <3>2. "low" = "running" => f.img \in seen.ran[n]
        OBVIOUS
    <3> QED BY <1>1, <2>1, <3>1, <3>2, VerdictTold
  <2> DEFINE e == [Takes(n, d, f) EXCEPT !.want = f.img, !.misses = 0]
             k == IF e.prog.got = Size THEN "full" ELSE "ask"
  <2>2. Kin(d, e)
    <3>1. Kin(d, Takes(n, d, f))
        BY <1>1 DEF Takes, Kin, Sane
    <3>2. Kin(Takes(n, d, f), e)
        BY <3>1 DEF Kin, Sane
    <3> QED BY <3>1, <3>2, KinChain
  <2>3. CASE Goes(n, [e EXCEPT !.pc = k])
    <3> HIDE DEF k, e
    <3>1. Kin(d, [e EXCEPT !.pc = k])
        BY <2>2 DEF Kin, Sane
    <3> QED BY <2>3, <3>1, GoesOn
  <2>4. CASE Slice(n, e, f)
    <3> HIDE DEF e
    <3> QED BY <2>2, <2>4, SliceKeeps
  <2>5. \/ /\ dev' = [dev EXCEPT ![n] = Keeps(d, "low", f.img, f.att)]
           /\ ring' = Append(ring, Done(n, f.img, "low", f.att))
           /\ UNCHANGED seen
        \/ Goes(n, [e EXCEPT !.pc = k])
        \/ Slice(n, e, f)
      BY <1>4 DEF First
  <2> QED BY <2>1, <2>3, <2>4, <2>5
<1> QED BY <1>2, <1>3, <1>4

LEMMA OnReplyKeeps ==
    ASSUME FwInv, NEW n \in Nodes, dev[n].pc # "off", NEW f, OnReply(n, f)
    PROVE  Proceeds(n)
<1> DEFINE d == dev[n]
<1>1. Sane(d) /\ Kin(d, d) /\ Kin(d, Miss(d))
    BY KinSmall DEF FwInv, DeviceShape
<1>2. Kin(d, Rest(Held(d)))
  <2>1. Kin(d, Held(d))
      BY <1>1, KinSmall
  <2> QED BY <2>1, KinSmall, KinChain DEF Kin
<1>3. Kin(d, Rest([d EXCEPT !.prog = NoneGot, !.skip = 0]))
  <2>1. Kin(d, [d EXCEPT !.prog = NoneGot, !.skip = 0])
      BY <1>1 DEF Kin, Sane
  <2> QED BY <2>1, KinSmall, KinChain DEF Kin
<1>4. Kin(d, Miss([d EXCEPT !.want = None]))
  <2>1. Kin(d, [d EXCEPT !.want = None])
      BY <1>1 DEF Kin, Sane
  <2> QED BY <2>1, KinSmall, KinChain DEF Kin
<1>5. \/ Goes(n, Miss(d)) \/ Goes(n, Rest(Held(d))) \/ Goes(n, Rest([d EXCEPT !.prog = NoneGot, !.skip = 0]))
      \/ First(n, d, f) \/ Goes(n, Miss([d EXCEPT !.want = None])) \/ Slice(n, d, f)
    BY DEF OnReply
<1> HIDE DEF d
<1>6. d = dev[n]
    BY DEF d
<1> QED BY <1>1, <1>2, <1>3, <1>4, <1>5, <1>6, GoesOn, FirstKeeps, SliceKeeps

LEMMA ExchangeKeeps ==
    ASSUME FwInv, UNCHANGED plan, NEW n \in Nodes, Exchange(n)
    PROVE  FwInv'
<1>1. dev[n].pc # "off" /\ UNCHANGED storeOps
    BY DEF Exchange
<1>2. \/ \E f : OnReply(n, f)
      \/ dev' = [dev EXCEPT ![n] = Miss(dev[n])] /\ UNCHANGED <<ring, seen>>
    BY DEF Exchange
<1>3. CASE \E f : OnReply(n, f)
    BY <1>1, <1>3, OnReplyKeeps, ProceedsKeeps
<1>4. CASE dev' = [dev EXCEPT ![n] = Miss(dev[n])] /\ UNCHANGED <<ring, seen>>
  <2>1. SeenGrows
      BY <1>4, SeenStays
  <2>2. Kin(dev[n], Miss(dev[n]))
      BY KinSmall DEF FwInv, DeviceShape
  <2>3. Proceeds(n)
      BY <1>4, <2>1, <2>2, ReportsStay DEF Proceeds
  <2> QED BY <1>1, <2>3, ProceedsKeeps
<1> QED BY <1>2, <1>3, <1>4

LEMMA StopsKeeps ==
    ASSUME FwInv, UNCHANGED plan, NEW n \in Nodes, Stops(n)
    PROVE  FwInv'
<1> DEFINE d == dev[n]
           e == IF d.gained THEN Rest([d EXCEPT !.skip = 0]) ELSE Rest(Held(d))
<1>1. dev[n].pc # "off" /\ dev' = [dev EXCEPT ![n] = e] /\ UNCHANGED <<storeOps, ring, seen>>
    BY DEF Stops
<1>2. Kin(d, e)
  <2>1. Sane(d)
      BY DEF FwInv, DeviceShape
  <2>2. Kin(d, [d EXCEPT !.skip = 0]) /\ Kin(d, Held(d))
      BY <2>1, KinSmall DEF Kin, Sane
  <2>3. Kin(d, Rest([d EXCEPT !.skip = 0])) /\ Kin(d, Rest(Held(d)))
      BY <2>2, KinSmall, KinChain DEF Kin
  <2> QED BY <2>3
<1> HIDE DEF e
<1>3. SeenGrows
    BY <1>1, SeenStays
<1>4. Proceeds(n)
    BY <1>1, <1>2, <1>3, ReportsStay DEF Proceeds
<1> QED BY <1>1, <1>4, ProceedsKeeps

LEMMA StageKeeps ==
    ASSUME FwInv, UNCHANGED plan, NEW n \in Nodes, Stage(n)
    PROVE  FwInv'
<1> DEFINE d == dev[n]
           e == [d EXCEPT !.boot = Part(n), !.pc = "switched"]
<1>1. dev[n].pc # "off" /\ UNCHANGED storeOps /\ (Goes(n, e) \/ Report(n, d, "bad", d.prog.img, d.prog.att))
    BY DEF Stage
<1>2. Sane(d) /\ Kin(d, d) /\ Part(n) \in Slots
    BY PartIsOther
<1>3. Kin(d, e)
    BY <1>2 DEF Kin, Sane
<1>4. "bad" = "running" => d.prog.img \in seen.ran[n]
    OBVIOUS
<1> HIDE DEF e
<1>5. Proceeds(n)
    BY <1>1, <1>2, <1>3, <1>4, GoesOn, ReportKeeps
<1> QED BY <1>1, <1>5, ProceedsKeeps

LEMMA ArmKeeps ==
    ASSUME FwInv, UNCHANGED plan, NEW n \in Nodes, Arm(n)
    PROVE  FwInv'
<1> DEFINE d == dev[n]
           e == [d EXCEPT !.trial = [prev |-> d.run, img |-> d.prog.img, att |-> d.prog.att, boots |-> 0],
                          !.prog = NoneGot, !.pc = "off", !.want = None, !.misses = 0, !.gained = FALSE]
<1>1. dev[n].pc # "off" /\ UNCHANGED storeOps
    BY DEF Arm
<1>2. Sane(d)
    BY DEF FwInv, DeviceShape
<1>3. CASE /\ dev' = [dev EXCEPT ![n] = e]
           /\ SendDone(Done(n, d.prog.img, "staged", d.prog.att))
           /\ UNCHANGED seen
  <2>1. Kin(d, e)
      BY <1>2 DEF Kin, Sane
  <2>2. SeenGrows
      BY <1>3, SeenStays
  <2>3. "staged" = "running" => d.prog.img \in seen.ran[n]
      OBVIOUS
  <2>4. Reports'
      BY <1>3, <2>2, <2>3, ReportsStay, ReportMade DEF SendDone
  <2>5. Proceeds(n)
      BY <1>3, <2>1, <2>2, <2>4 DEF Proceeds
  <2> QED BY <1>1, <2>5, ProceedsKeeps
<1>4. CASE /\ dev' = [dev EXCEPT ![n] = Keeps([d EXCEPT !.boot = d.run], "flash", d.prog.img, d.prog.att)]
           /\ ring' = Append(ring, Done(n, d.prog.img, "flash", d.prog.att))
           /\ seen' = [seen EXCEPT !.refused[n] = @ \cup {<<d.prog.img, d.prog.att>>}]
  <2>1. Kin(d, [d EXCEPT !.boot = d.run])
      BY <1>2 DEF Kin, Sane
  <2>2. SeenGrows
      BY <1>4, SeenStays
  <2>3. "flash" = "running" => d.prog.img \in seen.ran[n]
      OBVIOUS
  <2>4. Proceeds(n)
      BY <1>4, <2>1, <2>2, <2>3, VerdictTold
  <2> QED BY <1>1, <2>4, ProceedsKeeps
<1> HIDE DEF e
<1>5. Arm(n) =>
        \/ /\ dev' = [dev EXCEPT ![n] = e]
           /\ SendDone(Done(n, d.prog.img, "staged", d.prog.att))
           /\ UNCHANGED seen
        \/ /\ dev' = [dev EXCEPT ![n] = Keeps([d EXCEPT !.boot = d.run], "flash", d.prog.img, d.prog.att)]
           /\ ring' = Append(ring, Done(n, d.prog.img, "flash", d.prog.att))
           /\ seen' = [seen EXCEPT !.refused[n] = @ \cup {<<d.prog.img, d.prog.att>>}]
    BY DEF Arm, e
<1> QED BY <1>3, <1>4, <1>5

-----------------------------------------------------------------------------
(* Power cuts, and the node's own page.                                    *)

LEMMA PowerCutKeeps ==
    ASSUME FwInv, UNCHANGED plan, NEW n \in Nodes, PowerCut(n)
    PROVE  FwInv'
<1> DEFINE e == [dev[n] EXCEPT !.pc = "off", !.cold = TRUE, !.want = None, !.misses = 0, !.gained = FALSE]
<1>1. dev' = [dev EXCEPT ![n] = e] /\ UNCHANGED <<storeOps, ring, seen>>
    BY DEF PowerCut, FwInv, DeviceShape
<1>2. Kin(dev[n], e) /\ e.pc = "off"
    BY DEF Kin, Sane, FwInv, DeviceShape
<1>3. SeenGrows
    BY <1>1, SeenStays
<1> HIDE DEF e
<1>4. DeviceShape' /\ Runs' /\ Reports'
    BY <1>1, <1>2, <1>3, KinMoved, ReportsStay
<1> QED BY <1>1, <1>3, <1>4, StoreStays DEF storeOps

\* An upload takes the slot the node does not run from.
LEMMA LocalUploadKeeps ==
    ASSUME FwInv, UNCHANGED plan, NEW n \in Nodes, NEW i, LocalUpload(n, i)
    PROVE  FwInv'
<1> DEFINE c == [b \in Blocks |-> i]
           g == [dev[n] EXCEPT !.slot[Part(n)] = c]
           e == [g EXCEPT !.boot = Part(n), !.trial = NoTrial, !.miss = 0, !.pc = "off"]
<1>1. Part(n) \in Slots /\ Sane(dev[n]) /\ Kin(dev[n], dev[n])
    BY PartIsOther
<1>2. dev' = [dev EXCEPT ![n] = e] /\ UNCHANGED <<storeOps, ring, seen>>
  <2>1. e = [dev[n] EXCEPT !.slot[Part(n)] = c, !.boot = Part(n), !.trial = NoTrial, !.miss = 0, !.pc = "off"]
      BY <1>1 DEF Sane
  <2> QED BY <2>1 DEF LocalUpload
<1> HIDE DEF c
<1>3. Kin(dev[n], g)
    BY <1>1, KinWritten
<1> HIDE DEF g
<1>4. Kin(dev[n], e) /\ e.pc = "off"
    BY <1>1, <1>3 DEF Kin, Sane, NoTrial
<1>5. SeenGrows
    BY <1>2, SeenStays
<1> HIDE DEF e
<1>6. DeviceShape' /\ Runs' /\ Reports'
    BY <1>2, <1>4, <1>5, KinMoved, ReportsStay
<1> QED BY <1>2, <1>5, <1>6, StoreStays DEF storeOps

LEMMA LocalBreaksOffKeeps ==
    ASSUME FwInv, UNCHANGED plan, NEW n \in Nodes, LocalBreaksOff(n)
    PROVE  FwInv'
<1> DEFINE c == [dev[n].slot[Part(n)] EXCEPT ![0] = None]
           g == [dev[n] EXCEPT !.slot[Part(n)] = c]
           e == [g EXCEPT !.pc = "off"]
<1>1. Part(n) \in Slots /\ Sane(dev[n]) /\ Kin(dev[n], dev[n])
    BY PartIsOther
<1>2. dev' = [dev EXCEPT ![n] = e] /\ UNCHANGED <<storeOps, ring>> /\ seen' = [seen EXCEPT !.broke = TRUE]
  <2>1. e = [dev[n] EXCEPT !.slot[Part(n)][0] = None, !.pc = "off"]
      BY <1>1 DEF Sane
  <2> QED BY <2>1 DEF LocalBreaksOff
<1> HIDE DEF c
<1>3. Kin(dev[n], g)
    BY <1>1, KinWritten
<1> HIDE DEF g
<1>4. Kin(dev[n], e) /\ e.pc = "off"
    BY <1>3 DEF Kin, Sane
<1>5. SeenGrows
    BY <1>2, SeenStays
<1> HIDE DEF e
<1>6. DeviceShape' /\ Runs' /\ Reports'
    BY <1>2, <1>4, <1>5, KinMoved, ReportsStay
<1> QED BY <1>2, <1>5, <1>6, StoreStays DEF storeOps

-----------------------------------------------------------------------------
(* What the store's steps do to the targets.                               *)

\* A target is lost, or keeps its status, or becomes one of the image there
\* is; "done" only for a node that has run it.  The card follows, or not.
LEMMA TargetsMoved ==
    ASSUME FwInv, SeenGrows, UNCHANGED plan,
           DOMAIN img' = DOMAIN img, img'.have = img.have, img'.id = img.id,
           DOMAIN tgt' = Nodes,
           \A m \in Nodes :
               \/ tgt'[m] = "none" \/ tgt'[m] = tgt[m]
               \/ img.have /\ (tgt'[m] = "done" => img.id \in seen'.ran[m]),
           \/ disk' = disk
           \/ \E a : disk' = [disk EXCEPT !.roll = [attempt |-> a, tgt |-> tgt']]
    PROVE  StoreShape' /\ Targets' /\ Described' /\ DoneMeansRan'
<1>1. StoreShape'
    BY DEF FwInv, StoreShape, SeenGrows
<1>2. Targets'
    BY DEF FwInv, Targets
<1>3. ASSUME ~seen'.torn, NEW m \in Nodes, tgt'[m] = "done" PROVE img.id \in seen'.ran[m]
  <2>1. CASE tgt'[m] = tgt[m]
    <3>1. ~seen.torn
        BY <1>3 DEF SeenGrows
    <3> QED BY <1>3, <2>1, <3>1 DEF FwInv, DoneMeansRan, SeenGrows
  <2> QED BY <1>3, <2>1
<1>4. DoneMeansRan'
    BY <1>3 DEF DoneMeansRan
<1>5. ASSUME ~seen'.torn PROVE img'.have => disk'.meta = img'.id
  <2>1. ~seen.torn
      BY <1>5 DEF SeenGrows
  <2>2. disk'.meta = disk.meta
      BY DEF FwInv, StoreShape
  <2> QED BY <2>1, <2>2 DEF FwInv, Described
<1>6. ASSUME ~seen'.torn, NEW m \in Nodes, disk'.roll.tgt[m] = "done" PROVE disk'.meta \in seen'.ran[m]
  <2>1. CASE disk' = disk
    <3>1. ~seen.torn
        BY <1>6 DEF SeenGrows
    <3> QED BY <1>6, <2>1, <3>1 DEF FwInv, Described, SeenGrows
  <2>2. CASE \E a : disk' = [disk EXCEPT !.roll = [attempt |-> a, tgt |-> tgt']]
    <3>1. disk'.roll.tgt = tgt'
        BY <2>2 DEF FwInv, StoreShape
    <3>2. tgt'[m] = "done" /\ img'.have
        BY <1>2, <1>6, <3>1 DEF Targets
    <3> QED BY <1>3, <1>5, <1>6, <3>2
  <2> QED BY <2>1, <2>2
<1>7. Described'
    BY <1>5, <1>6 DEF Described
<1> QED BY <1>1, <1>2, <1>4, <1>7

\* No step of a device came between.
LEMMA LinkStays ==
    ASSUME FwInv, SeenGrows, dev' = dev, ring' = ring \/ (ring # <<>> /\ ring' = Tail(ring)),
           StoreShape', Targets', Described', DoneMeansRan'
    PROVE  FwInv'
BY NoneMoved, ReportsStay DEF FwInv

LEMMA NothingStored ==
    ASSUME FwInv, SeenGrows, UNCHANGED <<img, tgt, disk, plan, dev>>,
           ring' = ring \/ (ring # <<>> /\ ring' = Tail(ring))
    PROVE  FwInv'
BY NoneMoved, ReportsStay, StoreStays

LEMMA StatusSet ==
    ASSUME FwInv, SeenGrows, UNCHANGED <<plan, dev>>, ring' = ring \/ (ring # <<>> /\ ring' = Tail(ring)),
           NEW n, NEW st, img.have, SetStatus(n, st), st = "done" => n \in Nodes /\ img.id \in seen'.ran[n]
    PROVE  FwInv'
<1>1. /\ tgt' = [tgt EXCEPT ![n] = st] /\ img' = img
      /\ disk' = disk \/ \E a : disk' = [disk EXCEPT !.roll = [attempt |-> a, tgt |-> tgt']]
    BY DEF SetStatus, SaveRollout, Rollout
<1>2. DOMAIN tgt' = Nodes /\ \A m \in Nodes : tgt'[m] = tgt[m] \/ (m = n /\ tgt'[m] = st)
    BY <1>1 DEF FwInv, StoreShape
<1>3. \A m \in Nodes :
        \/ tgt'[m] = "none" \/ tgt'[m] = tgt[m]
        \/ img.have /\ (tgt'[m] = "done" => img.id \in seen'.ran[m])
    BY <1>2
<1>4. StoreShape' /\ Targets' /\ Described' /\ DoneMeansRan'
    BY <1>1, <1>2, <1>3, TargetsMoved
<1> QED BY <1>4, LinkStays

-----------------------------------------------------------------------------
(* The tick.                                                               *)

LEMMA SeenSame == ASSUME FwInv, seen' = seen PROVE SeenGrows
BY DEF FwInv, StoreShape, SeenGrows

LEMMA ProgressKeeps ==
    ASSUME FwInv, UNCHANGED plan, Progress
    PROVE  FwInv'
<1>1. EspnowGet(owner.id, mir.img.id) /\ UNCHANGED <<dev, ring, seen>>
    BY DEF Progress
<1>2. SeenGrows
    BY <1>1, SeenSame
<1>3. CASE img.have /\ SetStatus(owner.id, "sending")
    BY <1>1, <1>2, <1>3, StatusSet
<1>4. CASE UNCHANGED <<img, tgt, disk>>
    BY <1>1, <1>2, <1>4, NothingStored
<1> QED BY <1>1, <1>3, <1>4 DEF EspnowGet

\* A report makes a target done only when it names the image there is.
LEMMA HandleFwDoneKeeps ==
    ASSUME FwInv, UNCHANGED plan, HandleFwDone
    PROVE  FwInv'
<1> DEFINE f == Head(ring)
           st == afterDone(tgt[f.n], ImageIs(f.img), f.status, f.att, img.attempt)
<1>1. /\ ring # <<>> /\ ring' = Tail(ring) /\ UNCHANGED <<dev, seen>>
      /\ \/ st # "none" /\ SetStatus(f.n, st)
         \/ UNCHANGED <<img, tgt, disk>>
    BY DEF HandleFwDone, EspnowDone, storeOps
<1>2. SeenGrows
    BY <1>1, SeenSame
<1>3. f.n \in Nodes /\ (f.status = "running" => f.img \in seen.ran[f.n])
    BY <1>1, SaidLess DEF FwInv, Reports
<1>4. st # "none" => img.have /\ (st = "done" => f.status = "running" /\ f.img = img.id)
  <2>1. CASE tgt[f.n] = "none" \/ ~ImageIs(f.img)
      BY <2>1 DEF afterDone
  <2>2. CASE tgt[f.n] # "none" /\ ImageIs(f.img) /\ f.status = "running"
      BY <2>2 DEF ImageIs
  <2>3. CASE tgt[f.n] # "none" /\ ImageIs(f.img) /\ f.status # "running"
    <3>1. st # "done"
        BY <2>3 DEF afterDone
    <3> QED BY <2>3, <3>1 DEF ImageIs
  <2> QED BY <2>1, <2>2, <2>3
<1> HIDE DEF st, f
<1>5. CASE st # "none" /\ SetStatus(f.n, st)
  <2>1. st = "done" => f.n \in Nodes /\ img.id \in seen'.ran[f.n]
      BY <1>1, <1>3, <1>4, <1>5
  <2> QED BY <1>1, <1>2, <1>4, <1>5, <2>1, StatusSet
<1>6. CASE UNCHANGED <<img, tgt, disk>>
    BY <1>1, <1>2, <1>6, NothingStored
<1> QED BY <1>1, <1>5, <1>6

LEMMA TickKeeps ==
    ASSUME FwInv, UNCHANGED plan, Syncs \/ Serves \/ HandleFwDone
    PROVE  FwInv'
<1>1. CASE SyncStatuses \/ SyncImage \/ DropsIdle \/ Take \/ Load
  <2>1. UNCHANGED <<img, tgt, disk, dev, ring, seen>>
      BY <1>1 DEF SyncStatuses, SyncImage, DropsIdle, Take, Load, storeOps, storeVars
  <2> QED BY <2>1, SeenSame, NothingStored
<1> QED BY <1>1, ProgressKeeps, HandleFwDoneKeeps DEF Syncs, Serves

LEMMA RadioKeeps ==
    ASSUME FwInv, RadioStep
    PROVE  FwInv'
<1>1. UNCHANGED plan
    BY DEF RadioStep
<1>2. CASE Syncs \/ Serves \/ HandleFwDone
    BY <1>1, <1>2, TickKeeps
<1>3. CASE \E n \in plan.nodes : NodeWorks(n) \/ PowerCut(n) \/ Local(n)
  <2>1. PICK n \in Nodes : NodeWorks(n) \/ PowerCut(n) \/ Local(n)
      BY <1>3 DEF FwInv, StoreShape
  <2>2. CASE NodeWorks(n)
      BY <1>1, <2>2, BootKeeps, WakeKeeps, ExchangeKeeps, StopsKeeps, StageKeeps, ArmKeeps DEF NodeWorks
  <2>3. CASE PowerCut(n)
      BY <1>1, <2>3, PowerCutKeeps
  <2>4. CASE Local(n)
      BY <1>1, <2>4, LocalUploadKeeps, LocalBreaksOffKeeps DEF Local
  <2> QED BY <2>1, <2>2, <2>3, <2>4
<1> QED BY <1>2, <1>3 DEF RadioStep

-----------------------------------------------------------------------------
(* The Nodes page, and restarts of the collector.                          *)

\* Nothing is left of the rollout, or every target is to be tried again.
LEMMA NoneDone ==
    ASSUME FwInv, UNCHANGED plan, SeenGrows, dev' = dev, ring' = ring,
           DOMAIN img' = DOMAIN img, img'.have \in BOOLEAN,
           DOMAIN tgt' = Nodes, \A m \in Nodes : tgt'[m] # "done" /\ (tgt'[m] # "none" => img'.have),
           NEW b, NEW d, NEW a, disk' = [bin |-> b, meta |-> d, roll |-> [attempt |-> a, tgt |-> tgt']],
           img'.have => d = img'.id
    PROVE  FwInv'
<1>1. StoreShape' /\ Targets' /\ DoneMeansRan'
    BY DEF FwInv, StoreShape, Targets, DoneMeansRan, SeenGrows
<1>2. Described'
    BY DEF Described
<1> QED BY <1>1, <1>2, LinkStays

\* What the card says of a broken upload is no longer relied on.
LEMMA TornKeeps ==
    ASSUME FwInv, UNCHANGED plan, SeenGrows, seen'.torn = TRUE, StoreShape', Targets'
    PROVE  Described' /\ DoneMeansRan'
BY DEF Described, DoneMeansRan

LEMMA UploadKeeps ==
    ASSUME FwInv, UNCHANGED <<plan, dev, ring>>, NEW i, Upload(i)
    PROVE  FwInv'
<1>1. /\ img' = [img EXCEPT !.have = TRUE, !.id = i, !.serial = @ + 1, !.attempt = nextAttempt(@)]
      /\ tgt' = [n \in Nodes |-> IF n \in Chosen THEN "pending" ELSE "none"]
    BY DEF Upload
<1>2. /\ DOMAIN img' = DOMAIN img /\ img'.have = TRUE /\ img'.id = i /\ DOMAIN tgt' = Nodes
      /\ \A m \in Nodes : tgt'[m] # "done" /\ (tgt'[m] # "none" => img'.have)
    BY <1>1 DEF FwInv, StoreShape
<1>3. CASE disk' = [bin |-> i, meta |-> i, roll |-> [attempt |-> img'.attempt, tgt |-> tgt']] /\ Untried(Chosen)
  <2>1. SeenGrows
      BY <1>3 DEF Untried, FwInv, StoreShape, SeenGrows
  <2> QED BY <1>2, <1>3, <2>1, NoneDone
<1>4. CASE /\ \E m \in {i, disk.meta} : disk' = [disk EXCEPT !.bin = i, !.meta = m]
           /\ seen' = [seen EXCEPT !.tried = [n \in Nodes |-> @[n] /\ n \notin Chosen],
                                   !.torn = TRUE, !.lostAttempt = TRUE]
  <2>1. SeenGrows /\ seen'.torn = TRUE
      BY <1>4 DEF FwInv, StoreShape, SeenGrows
  <2>2. StoreShape'
      BY <1>2, <1>4, <2>1 DEF FwInv, StoreShape, SeenGrows
  <2>3. Targets'
      BY <1>2 DEF Targets
  <2> QED BY <2>1, <2>2, <2>3, TornKeeps, LinkStays
<1> QED BY <1>3, <1>4 DEF Upload

LEMMA StartKeeps ==
    ASSUME FwInv, UNCHANGED <<plan, dev, ring>>, NEW K, Start(K)
    PROVE  FwInv'
<1>1. /\ img.have /\ img' = [img EXCEPT !.attempt = nextAttempt(@)]
      /\ tgt' = [n \in Nodes |-> IF n \in K THEN "pending" ELSE tgt[n]]
      /\ disk' = disk \/ \E a : disk' = [disk EXCEPT !.roll = [attempt |-> a, tgt |-> tgt']]
      /\ \/ seen' = [seen EXCEPT !.tried = [n \in Nodes |-> @[n] /\ n \notin K]]
         \/ seen' = [seen EXCEPT !.tried = [n \in Nodes |-> @[n] /\ n \notin K], !.lostAttempt = TRUE]
    BY DEF Start, Rollout, Untried
<1>2. SeenGrows
    BY <1>1 DEF FwInv, StoreShape, SeenGrows
<1>3. DOMAIN img' = DOMAIN img /\ img'.have = img.have /\ img'.id = img.id
    BY <1>1 DEF FwInv, StoreShape
<1>4. StoreShape' /\ Targets' /\ Described' /\ DoneMeansRan'
    BY <1>1, <1>2, <1>3, TargetsMoved
<1> QED BY <1>2, <1>4, LinkStays

LEMMA PageKeeps ==
    ASSUME FwInv, Page
    PROVE  FwInv'
<1>1. UNCHANGED <<plan, dev, ring>>
    BY DEF Page, linkVars, radioVars
<1>2. CASE UploadFails
  <2>1. SeenGrows
      BY <1>2, SeenSame DEF UploadFails
  <2>2. CASE img' = [img EXCEPT !.serial = @ + 1] /\ UNCHANGED <<tgt, disk>>
    <3>1. DOMAIN img' = DOMAIN img /\ img'.have = img.have /\ img'.id = img.id
        BY <2>2 DEF FwInv, StoreShape
    <3>2. DOMAIN tgt' = Nodes
        BY <2>2 DEF FwInv, StoreShape
    <3>3. StoreShape' /\ Targets' /\ Described' /\ DoneMeansRan'
        BY <1>1, <2>1, <2>2, <3>1, <3>2, TargetsMoved
    <3> QED BY <1>1, <2>1, <3>3, LinkStays
  <2>3. CASE /\ img' = [img EXCEPT !.have = FALSE, !.serial = @ + 1]
             /\ tgt' = [n \in Nodes |-> "none"]
             /\ disk' = [bin |-> None, meta |-> None, roll |-> [attempt |-> img.attempt, tgt |-> tgt']]
    <3>1. DOMAIN img' = DOMAIN img /\ img'.have = FALSE
        BY <2>3 DEF FwInv, StoreShape
    <3>2. DOMAIN tgt' = Nodes /\ \A m \in Nodes : tgt'[m] = "none"
        BY <2>3
    <3> QED BY <1>1, <2>1, <2>3, <3>1, <3>2, NoneDone
  <2> QED BY <1>2, <2>2, <2>3 DEF UploadFails
<1>3. ASSUME NEW n, Cancel({n}) PROVE FwInv'
  <2>1. /\ img' = img /\ seen' = seen /\ tgt' = [m \in Nodes |-> IF m \in {n} THEN "none" ELSE tgt[m]]
        /\ \E a : disk' = [disk EXCEPT !.roll = [attempt |-> a, tgt |-> tgt']]
      BY <1>3 DEF Cancel, Rollout
  <2>2. SeenGrows
      BY <2>1, SeenSame
  <2>3. StoreShape' /\ Targets' /\ Described' /\ DoneMeansRan'
      BY <1>1, <2>1, <2>2, TargetsMoved
  <2> QED BY <1>1, <2>2, <2>3, LinkStays
<1>4. CASE Delete
  <2>1. /\ img' = [img EXCEPT !.have = FALSE, !.serial = @ + 1]
        /\ tgt' = [n \in Nodes |-> "none"]
        /\ disk' = [bin |-> None, meta |-> None, roll |-> [attempt |-> img.attempt, tgt |-> tgt']]
        /\ seen' = seen
      BY <1>4 DEF Delete
  <2>2. DOMAIN img' = DOMAIN img /\ img'.have = FALSE
      BY <2>1 DEF FwInv, StoreShape
  <2>3. DOMAIN tgt' = Nodes /\ \A m \in Nodes : tgt'[m] = "none"
      BY <2>1
  <2> QED BY <1>1, <2>1, <2>2, <2>3, SeenSame, NoneDone
<1>5. CASE SetFloor(~img.floor)
  <2>1. img' = [img EXCEPT !.floor = ~img.floor] /\ UNCHANGED <<tgt, disk, seen>>
      BY <1>5 DEF SetFloor
  <2>2. DOMAIN img' = DOMAIN img /\ img'.have = img.have /\ img'.id = img.id /\ DOMAIN tgt' = Nodes
      BY <2>1 DEF FwInv, StoreShape
  <2>3. SeenGrows
      BY <2>1, SeenSame
  <2>4. StoreShape' /\ Targets' /\ Described' /\ DoneMeansRan'
      BY <1>1, <2>1, <2>2, <2>3, TargetsMoved
  <2> QED BY <1>1, <2>3, <2>4, LinkStays
<1> QED BY <1>1, <1>2, <1>3, <1>4, <1>5, UploadKeeps, StartKeeps DEF Page

\* What a restart finds on the card is what the card was known to say.
LEMMA RestartsKeep ==
    ASSUME FwInv, Restarts
    PROVE  FwInv'
<1>1. dev' = dev /\ ring' = <<>> /\ plan' = plan
    BY DEF Restarts, RadioRestarts
<1>2. Reports'
  <2>1. Said(ring') = {}
      BY <1>1 DEF Said
  <2> QED BY <1>1, <2>1 DEF Reports
<1>3. ASSUME NEW d, Boots(d), DOMAIN d.roll.tgt = Nodes
      PROVE  /\ DOMAIN img' = {"have", "id", "serial", "attempt", "floor"} /\ img'.have \in BOOLEAN
             /\ img'.id = d.meta /\ DOMAIN tgt' = Nodes /\ Targets'
             /\ \A n \in Nodes : tgt'[n] = "done" => d.roll.tgt[n] = "done"
  <2>1. /\ img' = [have |-> d.bin # None /\ d.meta # None, id |-> d.meta, serial |-> 1, attempt |-> d.roll.attempt,
                   floor |-> img.floor]
        /\ tgt' = [n \in Nodes |-> IF ~(d.bin # None /\ d.meta # None) THEN "none"
                                   ELSE IF d.roll.tgt[n] = "sending" THEN "pending" ELSE d.roll.tgt[n]]
      BY <1>3 DEF Boots, Loaded
  <2> QED BY <2>1 DEF Targets
<1>4. CASE StoreRestarts /\ UNCHANGED seen
  <2>1. disk' = disk /\ Boots(disk) /\ DOMAIN disk.roll.tgt = Nodes /\ SeenGrows
      BY <1>4, SeenSame DEF StoreRestarts, FwInv, StoreShape
  <2>2. StoreShape' /\ Targets'
      BY <1>1, <1>3, <1>4, <2>1 DEF FwInv, StoreShape
  <2>3. Described' /\ DoneMeansRan'
      BY <1>3, <1>4, <2>1 DEF FwInv, Described, DoneMeansRan
  <2> QED BY <1>1, <1>2, <2>1, <2>2, <2>3, NoneMoved DEF FwInv
<1>5. ASSUME NEW i, CommitTorn(i), seen' = [seen EXCEPT !.torn = TRUE, !.lostAttempt = TRUE] PROVE FwInv'
  <2>1. PICK d : /\ disk' = d /\ Boots(d)
                 /\ d \in {[disk EXCEPT !.bin = None], [disk EXCEPT !.bin = i],
                           [disk EXCEPT !.bin = i, !.meta = None], [disk EXCEPT !.bin = i, !.meta = i]}
      BY <1>5 DEF CommitTorn
  <2>2. DOMAIN d = DOMAIN disk /\ d.roll = disk.roll
      BY <2>1 DEF FwInv, StoreShape
  <2>3. SeenGrows /\ seen'.torn = TRUE
      BY <1>5 DEF FwInv, StoreShape, SeenGrows
  <2>4. StoreShape' /\ Targets'
    <3>1. DOMAIN d.roll.tgt = Nodes
        BY <2>2 DEF FwInv, StoreShape
    <3> QED BY <1>1, <1>3, <2>1, <2>2, <2>3, <3>1 DEF FwInv, StoreShape, SeenGrows
  <2> QED BY <1>1, <1>2, <2>3, <2>4, TornKeeps, NoneMoved DEF FwInv
<1> QED BY <1>4, <1>5 DEF Restarts

-----------------------------------------------------------------------------
(* The WiFi node.                                                          *)

\* A POST names the sketch that runs; only that one makes its target done.
LEMMA PostKeeps ==
    ASSUME FwInv, UNCHANGED <<plan, dev, ring>>, NEW n \in Nodes, Post(n)
    PROVE  FwInv'
<1> DEFINE s == sta[n]
           err == IF s.pending # 0 THEN s.report ELSE None
           act == wifiIngest(tgt[n], s.runs, err)
<1>1. \E u : seen' = [seen EXCEPT !.ran[n] = @ \cup {s.runs}, !.unheard = u]
    BY DEF Post
<1>2. SeenGrows /\ s.runs \in seen'.ran[n]
    BY <1>1 DEF FwInv, StoreShape, SeenGrows
<1>3. \/ Ingest(n, s.runs, err)
      \/ UNCHANGED <<img, tgt, disk>>
      \/ /\ \/ act \in {"done", "failed"} /\ tgt' = [tgt EXCEPT ![n] = act]
            \/ act = "offer" /\ tgt' = [tgt EXCEPT ![n] = "sending"]
            \/ act = "nothing" /\ UNCHANGED tgt
         /\ Rollout(img, tgt') /\ UNCHANGED img
    BY DEF Post
<1>4. /\ act = "done" => img.have /\ s.runs = img.id
      /\ act \in {"failed", "offer"} => img.have
  <2>1. CASE tgt[n] = "none" \/ ~img.have
      BY <2>1 DEF wifiIngest
  <2>2. CASE tgt[n] # "none" /\ img.have /\ s.runs = img.id
      BY <2>2
  <2>3. CASE tgt[n] # "none" /\ img.have /\ s.runs # img.id
      BY <2>3 DEF wifiIngest
  <2> QED BY <2>1, <2>2, <2>3 DEF FwInv, StoreShape
<1>5. CASE Ingest(n, s.runs, err)
  <2>1. \/ act \in {"done", "failed"} /\ SetStatus(n, act)
        \/ act = "offer" /\ SetStatus(n, "sending")
        \/ UNCHANGED <<img, tgt, disk>>
      BY <1>5 DEF Ingest
  <2> HIDE DEF act, err, s
  <2>2. CASE act \in {"done", "failed"} /\ SetStatus(n, act)
      BY <1>2, <1>4, <2>2, StatusSet
  <2>3. CASE act = "offer" /\ SetStatus(n, "sending")
      BY <1>2, <1>4, <2>3, StatusSet
  <2>4. CASE UNCHANGED <<img, tgt, disk>>
      BY <1>2, <2>4, NothingStored
  <2> QED BY <2>1, <2>2, <2>3, <2>4
<1>6. CASE UNCHANGED <<img, tgt, disk>>
    BY <1>2, <1>6, NothingStored
<1>7. CASE /\ \/ act \in {"done", "failed"} /\ tgt' = [tgt EXCEPT ![n] = act]
              \/ act = "offer" /\ tgt' = [tgt EXCEPT ![n] = "sending"]
              \/ act = "nothing" /\ UNCHANGED tgt
           /\ Rollout(img, tgt') /\ UNCHANGED img
  <2> HIDE DEF act, err, s
  <2>1. DOMAIN tgt' = Nodes
      BY <1>7 DEF FwInv, StoreShape
  <2>2. \A m \in Nodes :
          \/ tgt'[m] = "none" \/ tgt'[m] = tgt[m]
          \/ img.have /\ (tgt'[m] = "done" => img.id \in seen'.ran[m])
    <3> SUFFICES ASSUME NEW m \in Nodes, tgt'[m] # tgt[m]
                 PROVE  img.have /\ (tgt'[m] = "done" => img.id \in seen'.ran[m])
        OBVIOUS
    <3>1. m = n /\ (tgt'[m] = act \/ tgt'[m] = "sending") /\ act \in {"done", "failed", "offer"}
        BY <1>7 DEF FwInv, StoreShape
    <3> QED BY <1>2, <1>4, <1>7, <3>1 DEF FwInv, StoreShape
  <2>3. \E a : disk' = [disk EXCEPT !.roll = [attempt |-> a, tgt |-> tgt']]
      BY <1>7 DEF Rollout
  <2>4. StoreShape' /\ Targets' /\ Described' /\ DoneMeansRan'
      BY <1>2, <1>7, <2>1, <2>2, <2>3, TargetsMoved
  <2> QED BY <1>2, <2>4, LinkStays
<1> QED BY <1>3, <1>5, <1>6, <1>7

LEMMA WifiKeeps ==
    ASSUME FwInv, WifiStep
    PROVE  FwInv'
<1>1. UNCHANGED <<plan, dev, ring>>
    BY DEF WifiStep, radioVars
<1>2. PICK n \in Nodes : StationWorks(n) \/ NodeRestarts(n)
    BY DEF WifiStep, FwInv, StoreShape
<1>3. CASE Post(n)
    BY <1>1, <1>3, PostKeeps
<1>4. CASE Decide(n) \/ Get(n) \/ Body(n) \/ Finish(n) \/ Restart(n) \/ NodeRestarts(n)
  <2>1. UNCHANGED <<img, tgt, disk>>
      BY <1>4 DEF Decide, Get, Body, Finish, Restart, NodeRestarts, wifiStore
  <2>2. seen' = seen \/ seen' = [seen EXCEPT !.tried[n] = TRUE]
      BY <1>4 DEF Decide, Get, Body, Finish, Restart, NodeRestarts, wifiStore
  <2>3. SeenGrows
      BY <2>2, SeenStays
  <2> QED BY <1>1, <2>1, <2>3, NothingStored
<1> QED BY <1>2, <1>3, <1>4 DEF StationWorks

-----------------------------------------------------------------------------
(* The whole.                                                              *)

LEMMA InitFw == Init => FwInv
<1> SUFFICES ASSUME Init PROVE FwInv
    OBVIOUS
<1>1. StoreShape
    BY ScenarioAssumption DEF Init, StoreShape
<1>2. DeviceShape
  <2>1. Sane(NewDevice(plan.mains))
      BY DEF NewDevice, Sane, Slots, NoTrial
  <2> QED BY <2>1 DEF Init, DeviceShape
<1>3. Targets /\ Described /\ DoneMeansRan
    BY DEF Init, Targets, Described, DoneMeansRan
<1>4. Runs
    BY DEF Init, Runs, NewDevice
<1>5. Reports
  <2>1. ring = <<>> /\ Said(ring) = {}
      BY DEF Init, Said
  <2> QED BY <2>1 DEF Reports
<1> QED BY <1>1, <1>2, <1>3, <1>4, <1>5 DEF FwInv

LEMMA StepFw == FwInv /\ [Next]_fwVars => FwInv'
<1> SUFFICES ASSUME FwInv, [Next]_fwVars PROVE FwInv'
    OBVIOUS
<1>1. CASE Next
    BY <1>1, PageKeeps, RestartsKeep, RadioKeeps, WifiKeeps DEF Next
<1>2. CASE UNCHANGED fwVars
  <2>1. UNCHANGED <<img, tgt, disk, plan, dev, ring, seen>>
      BY <1>2 DEF fwVars, radioVars, storeVars
  <2> QED BY <2>1, SeenSame, NothingStored
<1> QED BY <1>1, <1>2

\* A node that is shown as done has run the image that is shown: over either
\* link, whatever was uploaded, cancelled, retried, lost, told late or
\* restarted meanwhile (afterDone(), wifiIngest(), nodeFwBegin()).
THEOREM DoneHasRun == Spec => []DoneMeansRan
<1>1. FwInv => DoneMeansRan
    BY DEF FwInv
<1> QED BY InitFw, StepFw, <1>1, PTL DEF Spec
=============================================================================
