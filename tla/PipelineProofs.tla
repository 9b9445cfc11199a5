--------------------------- MODULE PipelineProofs ---------------------------
(***************************************************************************)
(* The way to the data log, for any lists, settings, queue depths, batch   *)
(* sizes and limits: a flush somebody waited for covers what the task      *)
(* held, a reading that was measured is somewhere or counted, and a row is *)
(* under the header it was combined by.                                    *)
(***************************************************************************)
EXTENDS Pipeline, FiniteSetTheorems, SequenceTheorems, WellFoundedInduction, TLAPS

-----------------------------------------------------------------------------
(* The inductive invariant, in parts.                                      *)

\* The readings there are, and what is made of them.
Samples    == {Readings[i] : i \in DOMAIN Readings}
Cell  == [of : SUBSET Samples, agg : Modes]
Label == [m : Metrics, agg : Modes]
Heads == [layout : Layouts, cols : Seq(Label)]
OnWay == [day : Nat, vals : Seq(Cell), wantRev : Nat, head : Heads \cup {None}, mixed : BOOLEAN]
Row   == [layout : Layouts, vals : Seq(Cell), day : Nat, mixed : BOOLEAN]
Lines == [kind : {"head", "row", "half", "glued", "spoilt"}, head : Heads \cup {None}, row : Row \cup {None}]
File  == [lines : Seq(Lines), day : Nat, unmoved : BOOLEAN]
Discs == [files : [Filesystems -> File], past : [Filesystems -> SUBSET File],
          counts : [Filesystems -> Int \cup {None}]]
Pcs   == {"none", "top", "drain", "flag", "window", "answer", "last", "gone"} \cup Rowing \cup Flushing
List  == {list \in Seq(Col) : onCount(list) <= MaxCols}
Task  == [pc : Pcs, then : {"run", "exit", "row", "answer"}, writing : BOOLEAN, colsRev : Nat \ {0},
          req : BOOLEAN, k : Int, mirror : BOOLEAN]

\* The task's own variables.
TaskTypes ==
    /\ window \in [1..MaxCols -> SUBSET Samples]
    /\ row \in OnWay
    /\ batch \in [rows : Seq(Row), head : Heads \cup {None}, first : Nat, day : Nat]
    /\ st \in Task

\* The log, and what the web task may change.
LogTypes ==
    /\ cols \in List /\ auto \in BOOLEAN /\ rev \in Nat \ {0} /\ setup \in Setup /\ Disk \in Discs
    /\ colsFile = None \/ colsFile \in [cols : Seq(Col), auto : BOOLEAN]
    /\ flush \in BOOLEAN /\ today \in Nat

\* The queues, and the tasks around them.
QueueTypes ==
    /\ storageQ \in Seq(Samples) /\ sensorQ \in Seq(Samples) /\ hand \in Samples \cup {None}
    /\ waiter \in [at : {"idle", "waits", "answered", "given up"}, owes : SUBSET Samples]
    /\ measured \in SUBSET Samples /\ IsFiniteSet(measured)
LoopTypes ==
    /\ tasks \in [Tasks -> {"none", "parked", "run", "stuck", "gone"}]
    /\ loop \in [at : {"queues", "tasks", "loop", "safe", "restart", "off", "draining", "waiting"}, k : Int]

Types == TaskTypes /\ LogTypes /\ QueueTypes /\ LoopTypes

\* Before its gate the task has touched nothing; no gate is open before every
\* task exists.
Parked ==
    /\ tasks["storage"] \in {"none", "parked"} => st.pc = "none"
    /\ loop.at = "queues" \/ (loop.at = "tasks" /\ loop.k < 5) => ~gate /\ tasks["storage"] \in {"none", "parked"}
    /\ loop.at = "queues" => tasks["storage"] = "none"

\* What the task cannot hold where it stands, and what it must.
Stages ==
    /\ st.pc \in {"none", "flush", "answer", "exitflush", "last"} => window = NoWindow
    /\ st.pc \in Rowing \cup {"full"} => st.then # "answer" /\ (st.then # "run" => window = NoWindow)
    /\ st.pc \notin Rowing => row = NoRow
    /\ ~st.writing => window = NoWindow
    /\ st.pc \in {"none", "answer", "last"} => batch.rows = <<>>
    /\ st.pc \in {"before", "room", "format"} => row.head \in Heads
    /\ batch.rows # <<>> => batch.head \in Heads

\* As long as the list was not replaced, what is summed up in a column is of
\* the metric logged there.
Agrees(c, x) == c <= onCount(cols) /\ numbering(cols)[c].m = x.m
Summed ==
    /\ st.colsRev <= rev
    /\ rev = st.colsRev => \A c \in 1..MaxCols : \A x \in window[c] : Agrees(c, x)

Base == Types /\ Parked /\ Stages /\ Summed

\* Readings are in the queues in the order they were taken, each once, and
\* none of them is with the storage task or was.
Before(S, T) == \A x \in S : \A y \in T : x.n < y.n
Ascending(q) == \A i, j \in DOMAIN q : i < j => q[i].n < q[j].n
Waiting == ToSet(storageQ) \cup InHand \cup ToSet(sensorQ)
Ordered ==
    /\ \A x \in measured : x.n <= Cardinality(measured)
    /\ Waiting \cup TaskHolds \cup waiter.owes \subseteq measured
    /\ Ascending(storageQ) /\ Ascending(sensorQ)
    /\ Before(ToSet(storageQ), InHand \cup ToSet(sensorQ)) /\ Before(InHand, ToSet(sensorQ))
    /\ Before(TaskHolds \cup waiter.owes, Waiting)

\* A waiter is owed nothing any more when the flag is gone.
Covered == waiter.at = "answered" \/ (waiter.at = "waits" /\ ~flush) => waiter.owes \cap TaskHolds = {}

FlushInv == Base /\ Ordered /\ Covered

\* What is written once more to the mirror was written to the log.
Copied == st.mirror => st.pc \in Flushing /\ batch.rows # <<>> /\ OfRows(batch.rows) \subseteq ended \cup OnDisk(Main)

\* Where a reading is that no queue has.
Settled == ended \cup TaskHolds \cup OnDisk(Main)
Good(S) == {x \in S : x.good}
AccountInv == Base /\ Copied /\ (forced \/ Good(measured) \subseteq Waiting \cup Settled)

\* The values of a row agree with a header's columns.
Under(vals, cs) ==
    /\ Len(vals) <= Len(cs)
    /\ \A i \in DOMAIN vals : vals[i].of # {} => vals[i].agg = cs[i].agg /\ \A x \in vals[i].of : x.m = cs[i].m

\* A row on its way: first it agrees with the list of its revision, then with
\* the header it goes under.
RowFits ==
    /\ st.pc = "header" /\ ~row.mixed /\ row.vals # <<>> => row.wantRev # 0 /\ setup.csv
    /\ st.pc = "header" => row.wantRev <= rev
    /\ st.pc = "header" /\ row.wantRev = rev => Under(row.vals, numbering(cols))
    /\ st.pc \in {"before", "room", "format"} /\ ~row.mixed =>
          row.head.layout = setup.layout /\ Under(row.vals, row.head.cols)
    /\ st.pc = "format" /\ batch.rows # <<>> => batch.head = row.head

Fit(head, rows) == \A i \in DOMAIN rows : ~rows[i].mixed => Labelled(head, rows[i])
BatchFits == Fit(batch.head, batch.rows)

\* A file begins with its header, has no other, and its rows are under it.
Sound(f) ==
    f.lines # <<>> /\ ~f.unmoved =>
        /\ f.lines[1].kind = "head"
        /\ \A i \in DOMAIN f.lines : i > 1 => f.lines[i].kind # "head"
        /\ \A i \in DOMAIN f.lines : f.lines[i].kind = "row" /\ ~f.lines[i].row.mixed => Labelled(f.lines[1].head, f.lines[i].row)
FilesFit == \A fs \in Filesystems : \A f \in Files(fs) : Sound(f)

HeaderInv == Base /\ RowFits /\ BatchFits /\ FilesFit

-----------------------------------------------------------------------------
(* Lists of columns.                                                       *)

\* The logged entries up to one are finitely many.
LEMMA OnUpToFinite ==
    ASSUME NEW list \in Seq(Col), NEW i \in Int
    PROVE  IsFiniteSet(OnUpTo(list, i)) /\ Place(list, i) \in Nat
<1>1. OnUpTo(list, i) \in SUBSET (1..Len(list))
    BY DEF OnUpTo
<1>2. IsFiniteSet(1..Len(list))
    BY FS_Interval
<1>3. IsFiniteSet(OnUpTo(list, i))
    BY <1>1, <1>2, FS_Subset
<1> QED BY <1>3, FS_CardinalityType DEF Place

\* A later entry has no smaller place, a later logged one a larger one.
LEMMA PlaceGrows ==
    ASSUME NEW list \in Seq(Col), NEW i \in Int, NEW j \in Int, i <= j
    PROVE  /\ Place(list, i) <= Place(list, j)
           /\ i < j /\ j \in DOMAIN list /\ list[j].on => Place(list, i) < Place(list, j)
<1>1. IsFiniteSet(OnUpTo(list, j)) /\ Place(list, i) \in Nat /\ Place(list, j) \in Nat
    BY OnUpToFinite
<1>2. OnUpTo(list, i) \in SUBSET OnUpTo(list, j)
    BY DEF OnUpTo
<1>3. Place(list, i) <= Place(list, j) /\ (Place(list, i) = Place(list, j) => OnUpTo(list, i) = OnUpTo(list, j))
    BY <1>1, <1>2, FS_Subset DEF Place
<1>4. ASSUME i < j, j \in DOMAIN list, list[j].on PROVE OnUpTo(list, i) # OnUpTo(list, j)
  <2>1. j \in OnUpTo(list, j) /\ j \notin OnUpTo(list, i)
      BY <1>4 DEF OnUpTo
  <2> QED BY <2>1
<1> QED BY <1>1, <1>3, <1>4

\* A logged entry is in one of the columns.
LEMMA PlaceInRange ==
    ASSUME NEW list \in Seq(Col), NEW i \in DOMAIN list, list[i].on
    PROVE  Place(list, i) \in 1..onCount(list)
<1>1. i \in Int /\ i <= Len(list) /\ Len(list) \in Int
    OBVIOUS
<1>2. Place(list, i) <= onCount(list) /\ onCount(list) \in Nat /\ Place(list, i) \in Nat
    BY <1>1, PlaceGrows, OnUpToFinite DEF onCount
<1>3. i \in OnUpTo(list, i)
    BY DEF OnUpTo
<1>4. Place(list, i) # 0
    BY <1>1, <1>3, OnUpToFinite, FS_EmptySet DEF Place
<1> QED BY <1>2, <1>4

\* Two logged entries are not in one column, so the entry of a column is the
\* one that has it.
LEMMA EntryOfPlace ==
    ASSUME NEW list \in Seq(Col), NEW i \in DOMAIN list, list[i].on
    PROVE  Entry(list, Place(list, i)) = i
<1> DEFINE e == Entry(list, Place(list, i))
<1>1. e \in DOMAIN list /\ list[e].on /\ Place(list, e) = Place(list, i)
    BY DEF Entry
<1>2. e \in Int /\ i \in Int /\ Place(list, i) \in Nat /\ Place(list, e) \in Nat
    BY <1>1, OnUpToFinite
<1>3. ~(e < i)
    BY <1>1, <1>2, PlaceGrows
<1>4. ~(i < e)
    BY <1>1, <1>2, PlaceGrows
<1> QED BY <1>2, <1>3, <1>4

\* Distinct logged entries have distinct places.
LEMMA PlacesDiffer ==
    ASSUME NEW list \in Seq(Col), NEW i \in DOMAIN list, NEW j \in DOMAIN list,
           list[i].on, list[j].on, Place(list, i) = Place(list, j)
    PROVE  i = j
BY EntryOfPlace

\* There is an entry for every column.
LEMMA EveryColumn ==
    ASSUME NEW list \in Seq(Col), NEW c \in 1..onCount(list)
    PROVE  /\ Entry(list, c) \in DOMAIN list
           /\ list[Entry(list, c)].on /\ Place(list, Entry(list, c)) = c
<1> DEFINE S == OnUpTo(list, Len(list))
           T == 1..onCount(list)
           f == [i \in S |-> Place(list, i)]
<1>1. IsFiniteSet(S) /\ Cardinality(S) = onCount(list) /\ onCount(list) \in Nat
    BY OnUpToFinite DEF onCount, Place
<1>2. S = {i \in DOMAIN list : list[i].on}
    BY DEF OnUpTo
<1>3. f \in [S -> T]
    BY <1>2, PlaceInRange
<1>4. ASSUME NEW i \in S, NEW j \in S, f[i] = f[j] PROVE i = j
    BY <1>2, <1>4, PlacesDiffer
<1>5. f \in Injection(S, T)
    BY <1>3, <1>4 DEF Injection, IsInjective
<1>6. IsFiniteSet(T) /\ Cardinality(T) = onCount(list)
    BY <1>1, FS_Interval
<1>7. f \in Surjection(S, T)
    BY <1>1, <1>5, <1>6, FS_Injection
<1>8. \E i \in S : f[i] = c
    BY <1>7 DEF Surjection
<1>9. \E i \in DOMAIN list : list[i].on /\ Place(list, i) = c
    BY <1>2, <1>8
<1> QED BY <1>9 DEF Entry

\* A listed metric has a first entry.
LEMMA FirstListed ==
    ASSUME NEW list \in Seq(Col), NEW m, Listed(list, m)
    PROVE  First(list, m) \in DOMAIN list /\ list[First(list, m)].m = m
<1> DEFINE T == {i \in DOMAIN list : list[i].m = m}
<1>1. T \subseteq Nat /\ T # {}
    BY DEF Listed
<1>2. PICK i \in T : \A j \in T : <<j, i>> \notin OpToRel(<, Nat)
    BY <1>1, NatLessThanWellFounded, WFMin
<1>3. \A j \in T : ~(j < i)
    BY <1>1, <1>2 DEF OpToRel
<1>4. \A k \in 1..(i - 1) : list[k].m # m
    BY <1>3
<1> QED BY <1>4 DEF First

\* A reading's column is one of its metric, if it has any.
LEMMA ColumnOfMetric ==
    ASSUME NEW list \in Seq(Col), NEW m
    PROVE  /\ ColumnOf(list, m) \in 0..onCount(list)
           /\ ColumnOf(list, m) # 0 => numbering(list)[ColumnOf(list, m)].m = m
<1>1. onCount(list) \in Nat
    BY OnUpToFinite DEF onCount
<1>2. CASE Listed(list, m) /\ list[First(list, m)].on
  <2>1. First(list, m) \in DOMAIN list /\ list[First(list, m)].m = m
      BY <1>2, FirstListed
  <2>2. ColumnOf(list, m) = Place(list, First(list, m)) /\ ColumnOf(list, m) \in 1..onCount(list)
      BY <1>2, <2>1, PlaceInRange DEF ColumnOf
  <2>3. Entry(list, ColumnOf(list, m)) = First(list, m)
      BY <1>2, <2>1, <2>2, EntryOfPlace
  <2> QED BY <2>1, <2>2, <2>3 DEF numbering
<1>3. CASE ~(Listed(list, m) /\ list[First(list, m)].on)
    BY <1>1, <1>3 DEF ColumnOf
<1> QED BY <1>2, <1>3

\* The columns of a list are labelled by metric and mode.
LEMMA NumberingType ==
    ASSUME NEW list \in Seq(Col)
    PROVE  numbering(list) \in Seq(Label) /\ Len(numbering(list)) = onCount(list)
<1>1. onCount(list) \in Nat
    BY OnUpToFinite DEF onCount
<1>2. \A c \in 1..onCount(list) : list[Entry(list, c)] \in Col
    BY EveryColumn
<1>3. numbering(list) \in [1..onCount(list) -> Label]
    BY <1>2 DEF numbering, Label, Col
<1> QED BY <1>1, <1>3

\* A list that is taken over logs no more than there is room for.
LEMMA ParsedList ==
    ASSUME NEW list \in Seq(Col)
    PROVE  parsed(list) \in List
<1> DEFINE n == IF MaxListed < Len(list) THEN MaxListed ELSE Len(list)
           S == OnUpTo(parsed(list), Len(parsed(list)))
           f == [i \in S |-> Place(list, i)]
<1> USE DatalogAssumption
<1>1. {k \in DOMAIN list : k <= MaxListed} = 1..n /\ n \in Nat
    OBVIOUS
<1>2. \A i \in 1..n : list[i] \in Col
    OBVIOUS
<1>3. parsed(list) \in [1..n -> Col]
    BY <1>1, <1>2 DEF parsed, Col
<1>4. parsed(list) \in Seq(Col)
    BY <1>1, <1>3
<1>5. \A i \in S : i \in DOMAIN list /\ list[i].on /\ Place(list, i) <= MaxCols
    BY <1>1 DEF OnUpTo, parsed
<1>6. \A i \in S : Place(list, i) \in 1..MaxCols
  <2> TAKE i \in S
  <2>1. Place(list, i) \in 1..onCount(list)
      BY <1>5, PlaceInRange
  <2> QED BY <1>5, <2>1
<1>7. ASSUME NEW i \in S, NEW j \in S, f[i] = f[j] PROVE i = j
    BY <1>5, <1>7, PlacesDiffer
<1>8. f \in [S -> 1..MaxCols]
    BY <1>6
<1>9. f \in Injection(S, 1..MaxCols)
    BY <1>7, <1>8 DEF Injection, IsInjective
<1>10. IsFiniteSet(1..MaxCols) /\ Cardinality(1..MaxCols) = MaxCols
    BY FS_Interval
<1>11. Cardinality(S) <= MaxCols
    BY <1>9, <1>10, FS_Injection
<1> QED BY <1>4, <1>11 DEF List, onCount, Place

\* Learning a metric leaves the columns there are where they were.
LEMMA LearnKeeps ==
    ASSUME NEW list \in List, NEW keep, NEW m \in Metrics
    PROVE  /\ Learn(list, keep, m) \in List
           /\ onCount(list) <= onCount(Learn(list, keep, m))
           /\ \A c \in 1..onCount(list) : numbering(Learn(list, keep, m))[c] = numbering(list)[c]
<1> DEFINE e == [m |-> m, on |-> onCount(list) < MaxCols, agg |-> Avg]
           new == Append(list, e)
<1> USE DatalogAssumption
<1>1. list \in Seq(Col) /\ onCount(list) <= MaxCols /\ onCount(list) \in Nat
    BY OnUpToFinite DEF List, onCount
<1>2. CASE Learn(list, keep, m) = list
    BY <1>1, <1>2
<1>3. CASE Learn(list, keep, m) = new
  <2>1. e \in Col
      BY <1>1 DEF Col
  <2>2. new \in Seq(Col) /\ Len(new) = Len(list) + 1 /\ new[Len(list) + 1] = e
        /\ \A i \in 1..Len(list) : new[i] = list[i]
      BY <1>1, <2>1
  <2>3. \A i \in 0..Len(list) : OnUpTo(new, i) = OnUpTo(list, i)
      BY <1>1, <2>2 DEF OnUpTo
  <2>4. \A i \in 0..Len(list) : Place(new, i) = Place(list, i)
      BY <2>3 DEF Place
  <2>5. IsFiniteSet(OnUpTo(list, Len(list))) /\ Len(list) + 1 \notin OnUpTo(list, Len(list))
      BY <1>1, OnUpToFinite DEF OnUpTo
  <2>6. OnUpTo(new, Len(new)) = IF e.on THEN OnUpTo(list, Len(list)) \cup {Len(list) + 1} ELSE OnUpTo(list, Len(list))
      BY <1>1, <2>2 DEF OnUpTo
  <2>7. onCount(new) = IF e.on THEN onCount(list) + 1 ELSE onCount(list)
      BY <2>5, <2>6, FS_AddElement DEF onCount, Place
  <2>8. new \in List /\ onCount(list) <= onCount(new)
    <3>1. e.on => onCount(list) < MaxCols
        OBVIOUS
    <3>2. onCount(new) <= MaxCols /\ onCount(list) <= onCount(new)
        BY <1>1, <2>7, <3>1
    <3> QED BY <2>2, <3>2 DEF List
  <2>9. ASSUME NEW c \in 1..onCount(list) PROVE numbering(new)[c] = numbering(list)[c]
    <3> DEFINE i == Entry(list, c)
    <3>1. i \in DOMAIN list /\ list[i].on /\ Place(list, i) = c
        BY <1>1, EveryColumn
    <3>2. i \in DOMAIN new /\ new[i] = list[i] /\ Place(new, i) = c
        BY <1>1, <2>2, <2>4, <3>1
    <3>3. Entry(new, c) = i
        BY <2>2, <3>1, <3>2, EntryOfPlace
    <3>4. c \in 1..onCount(new)
        BY <1>1, <2>7
    <3> QED BY <3>2, <3>3, <3>4 DEF numbering
  <2> QED BY <1>3, <2>8, <2>9
<1> QED BY <1>2, <1>3 DEF Learn

-----------------------------------------------------------------------------
(* Files.                                                                  *)

\* All that is on a disk is under its headers.
Kept(d, fs) == \A f \in FilesOf(d, fs) : Sound(f)

\* A row's readings are in a file when one of its lines has the row.
Has(f, r) == \E k \in DOMAIN f.lines : IsRow(f.lines[k]) /\ f.lines[k].row = r

\* A file that is moved aside, or could not be.
LEMMA ArchiveKeeps ==
    ASSUME NEW fs \in Filesystems, NEW d \in Discs, NEW how
    PROVE  LET a == archive(fs, d, how) IN
           /\ a \in Discs
           /\ \A o \in Filesystems \ {fs} : a.files[o] = d.files[o] /\ a.past[o] = d.past[o]
           /\ a.files[fs].unmoved \/ a.files[fs].lines = <<>>
           /\ Kept(d, fs) => Kept(a, fs)
<1>1. NoFile \in File /\ Sound(NoFile)
    BY DEF NoFile, File, Sound
<1>2. d.files \in [Filesystems -> File] /\ d.past \in [Filesystems -> SUBSET File]
      /\ d.counts \in [Filesystems -> Int \cup {None}] /\ d = [files |-> d.files, past |-> d.past, counts |-> d.counts]
    BY DEF Discs
<1>3. CASE how = "norename"
  <2> DEFINE f == [d.files[fs] EXCEPT !.unmoved = TRUE]
             a == [d EXCEPT !.files[fs].unmoved = TRUE, !.counts[fs] = None]
  <2>1. f \in File /\ f.unmoved /\ Sound(f)
      BY <1>2 DEF File, Sound
  <2>2. archive(fs, d, how) = a
      BY <1>3 DEF archive
  <2> DEFINE b == [d EXCEPT !.files = [d.files EXCEPT ![fs] = f]]
  <2>a. b \in Discs /\ b.files = [d.files EXCEPT ![fs] = f] /\ b.past = d.past
      BY <1>2, <2>1 DEF Discs
  <2>b. a = [b EXCEPT !.counts = [b.counts EXCEPT ![fs] = None]]
      OBVIOUS
  <2>4. a \in Discs
      BY <2>a, <2>b DEF Discs
  <2>3. a.files = [d.files EXCEPT ![fs] = f] /\ a.past = d.past
      BY <2>a, <2>b DEF Discs
  <2> HIDE DEF f, a, b
  <2>5. Kept(d, fs) => Kept(a, fs)
      BY <1>2, <2>1, <2>3 DEF Kept, FilesOf
  <2> QED BY <1>2, <2>1, <2>2, <2>3, <2>4, <2>5
<1>4. CASE how # "norename"
  <2> DEFINE a == [d EXCEPT !.files[fs] = NoFile, !.past[fs] = @ \cup {d.files[fs]}, !.counts[fs] = None]
  <2>1. archive(fs, d, how) = a
      BY <1>4 DEF archive
  <2> DEFINE b == [d EXCEPT !.files = [d.files EXCEPT ![fs] = NoFile]]
             c == [b EXCEPT !.past = [b.past EXCEPT ![fs] = b.past[fs] \cup {d.files[fs]}]]
  <2>a. b \in Discs /\ b.files = [d.files EXCEPT ![fs] = NoFile] /\ b.past = d.past
      BY <1>1, <1>2 DEF Discs
  <2>c. a = [c EXCEPT !.counts = [c.counts EXCEPT ![fs] = None]]
      OBVIOUS
  <2> HIDE DEF a, b
  <2>d. [b.past EXCEPT ![fs] = b.past[fs] \cup {d.files[fs]}] \in [Filesystems -> SUBSET File]
      BY <1>2, <2>a
  <2>b. c \in Discs /\ c.files = b.files /\ c.past = [d.past EXCEPT ![fs] = d.past[fs] \cup {d.files[fs]}]
      BY <2>a, <2>d DEF Discs
  <2>3. a \in Discs
      BY <2>b, <2>c DEF Discs
  <2>2. a.files = [d.files EXCEPT ![fs] = NoFile] /\ a.past = [d.past EXCEPT ![fs] = d.past[fs] \cup {d.files[fs]}]
      BY <2>a, <2>b, <2>c DEF Discs
  <2> HIDE DEF a, b, c
  <2>4. Kept(d, fs) => Kept(a, fs)
      BY <1>1, <1>2, <2>2 DEF Kept, FilesOf
  <2>5. a.files[fs].lines = <<>>
      BY <1>2, <2>2 DEF NoFile
  <2> QED BY <1>2, <2>1, <2>2, <2>3, <2>4, <2>5
<1> QED BY <1>3, <1>4

\* Lines that are counted, or known, are a number.
LEMMA CountsLines ==
    ASSUME NEW fs \in Filesystems, NEW d \in Discs
    PROVE  countLines(fs, d) \in Int
<1>1. d.counts[fs] \in Int \cup {None} /\ d.files[fs].lines \in Seq(Lines)
    BY DEF Discs, File
<1> DEFINE S == {i \in DOMAIN d.files[fs].lines : d.files[fs].lines[i].kind # "half"}
<1>2. S \in SUBSET (1..Len(d.files[fs].lines)) /\ Len(d.files[fs].lines) \in Int
    BY <1>1
<1>5. IsFiniteSet(1..Len(d.files[fs].lines))
    BY <1>2, FS_Interval
<1> HIDE DEF S
<1>3. IsFiniteSet(S)
    BY <1>2, <1>5, FS_Subset
<1>4. Cardinality(S) \in Nat
    BY <1>3, FS_CardinalityType
<1> QED BY <1>1, <1>4 DEF countLines, S

\* Lines behind the header taken out of a file leave it under the header.
LEMMA CutIsSound ==
    ASSUME NEW f \in File, f.lines # <<>>, Sound(f), NEW k \in Int, k > 1, NEW g \in File,
           g.unmoved = f.unmoved, g.lines = <<Head(f.lines)>> \o SubSeq(f.lines, k, Len(f.lines))
    PROVE  Sound(g)
<1> DEFINE s == SubSeq(f.lines, k, Len(f.lines))
<1>1. f.lines \in Seq(Lines) /\ Len(f.lines) \in Nat /\ Len(f.lines) > 0 /\ Head(f.lines) = f.lines[1]
    BY DEF File
<1>2. s \in Seq(Lines) /\ \A i \in DOMAIN s : s[i] = f.lines[i + k - 1] /\ i + k - 1 \in DOMAIN f.lines /\ i + k - 1 > 1
    BY <1>1
<1>3. g.lines \in Seq(Lines) /\ g.lines # <<>> /\ g.lines[1] = f.lines[1]
      /\ \A i \in DOMAIN g.lines : i > 1 => i - 1 \in DOMAIN s /\ g.lines[i] = s[i - 1]
    BY <1>1, <1>2
<1> HIDE DEF s
<1>4. \A i \in DOMAIN g.lines : i > 1 => \E j \in DOMAIN f.lines : j > 1 /\ g.lines[i] = f.lines[j]
  <2> TAKE i \in DOMAIN g.lines
  <2> HAVE i > 1
  <2>1. i - 1 \in DOMAIN s /\ g.lines[i] = s[i - 1]
      BY <1>3
  <2> QED BY <1>2, <2>1
<1>5. \A i \in DOMAIN g.lines : \E j \in DOMAIN f.lines : g.lines[i] = f.lines[j]
  <2> TAKE i \in DOMAIN g.lines
  <2>1. i = 1 \/ i > 1
      BY <1>3
  <2>2. CASE i = 1
    <3>1. 1 \in DOMAIN f.lines
        BY <1>1
    <3> QED BY <1>3, <2>2, <3>1
  <2>3. CASE i > 1
      BY <1>4, <2>3
  <2> QED BY <2>1, <2>2, <2>3
<1> QED BY <1>1, <1>3, <1>4, <1>5 DEF Sound

\* A file that is trimmed keeps its header and, under it, rows it had.
LEMMA TrimKeeps ==
    ASSUME NEW fs \in Filesystems, NEW d \in Discs, NEW adding \in Int, d.files[fs].lines # <<>>
    PROVE  LET a == trim(fs, d, adding) IN
           /\ a \in Discs
           /\ \A o \in Filesystems \ {fs} : a.files[o] = d.files[o] /\ a.past[o] = d.past[o]
           /\ a.files[fs].lines # <<>> /\ a.files[fs].lines[1] = d.files[fs].lines[1]
           /\ a.files[fs].unmoved = d.files[fs].unmoved
           /\ Kept(d, fs) => Kept(a, fs)
<1> USE DatalogAssumption
<1> DEFINE rows == countLines(fs, d) - 1
           drop == IF rows + adding - TrimTo > rows THEN rows ELSE rows + adding - TrimTo
           old  == d.files[fs].lines
           f    == [d.files[fs] EXCEPT !.lines = <<Head(old)>> \o SubSeq(old, drop + 2, Len(old))]
           a    == [d EXCEPT !.files[fs].lines = <<Head(old)>> \o SubSeq(old, drop + 2, Len(old)), !.counts[fs] = None]
<1>1. rows \in Int
    BY CountsLines
<1>2. TrimTo \in Int
    BY DEF TrimTo
<1>3. drop \in Int
    BY <1>1, <1>2
<1>4. d.files \in [Filesystems -> File] /\ d.past \in [Filesystems -> SUBSET File]
      /\ d.counts \in [Filesystems -> Int \cup {None}] /\ d.files[fs] \in File /\ old \in Seq(Lines) /\ old # <<>>
    BY DEF Discs, File
<1>5. CASE ~TooMany(rows, adding) \/ drop <= 0
  <2>1. trim(fs, d, adding) = d
      BY <1>5 DEF trim
  <2> QED BY <1>4, <2>1
<1>6. CASE ~(~TooMany(rows, adding) \/ drop <= 0)
  <2>1. trim(fs, d, adding) = a
      BY <1>6 DEF trim
  <2> DEFINE k == drop + 2
             b == [d EXCEPT !.files = [d.files EXCEPT ![fs] = f]]
  <2>2. k \in Int /\ k > 1
      BY <1>3, <1>6
  <2>3. a = [b EXCEPT !.counts = [b.counts EXCEPT ![fs] = None]]
      OBVIOUS
  <2>4. f = [d.files[fs] EXCEPT !.lines = <<Head(old)>> \o SubSeq(old, k, Len(old))]
      OBVIOUS
  <2> HIDE DEF a, b, drop, rows, k, f
  <2>5. <<Head(old)>> \o SubSeq(old, k, Len(old)) \in Seq(Lines) /\ <<Head(old)>> \o SubSeq(old, k, Len(old)) # <<>>
        /\ (<<Head(old)>> \o SubSeq(old, k, Len(old)))[1] = old[1]
      BY <1>4, <2>2
  <2>6. f \in File /\ f.unmoved = d.files[fs].unmoved /\ f.lines = <<Head(old)>> \o SubSeq(old, k, Len(old))
      BY <1>4, <2>4, <2>5 DEF File
  <2>7. b \in Discs /\ b.files = [d.files EXCEPT ![fs] = f] /\ b.past = d.past
      BY <1>4, <2>6 DEF Discs, b
  <2>8. a \in Discs /\ a.files = [d.files EXCEPT ![fs] = f] /\ a.past = d.past
      BY <2>3, <2>7 DEF Discs
  <2>9. Sound(d.files[fs]) => Sound(f)
      BY <1>4, <2>2, <2>6, CutIsSound
  <2>10. Kept(d, fs) => Kept(a, fs)
      BY <1>4, <2>6, <2>8, <2>9 DEF Kept, FilesOf
  <2> QED BY <1>4, <2>1, <2>5, <2>6, <2>8, <2>10
<1> QED BY <1>5, <1>6

\* New lines behind old ones, the first perhaps glued to a half one: every line
\* is an old or a new one or not a row any more, and every new row is there.
LEMMA GluedLines ==
    ASSUME NEW old \in Seq(Lines), NEW new \in Seq(Lines)
    PROVE  LET g == Glued(old, new) IN
           /\ g \in Seq(Lines)
           /\ old # <<>> => g # <<>> /\ (old[1].kind = "head" => g[1] = old[1])
           /\ old = <<>> => g = new
           /\ \A i \in DOMAIN g : \/ i \in DOMAIN old /\ g[i] = old[i]
                                  \/ \E j \in DOMAIN new : g[i] = new[j]
                                  \/ g[i].kind \in {"glued", "spoilt"}
           /\ \A j \in DOMAIN new : new[j].kind = "row" => \E k \in DOMAIN g : IsRow(g[k]) /\ g[k].row = new[j].row
<1>1. CASE old = <<>> \/ Last(old) # Half \/ new = <<>>
  <2> DEFINE g == old \o new
  <2>1. Glued(old, new) = g
      BY <1>1 DEF Glued
  <2>2. g \in Seq(Lines) /\ (old = <<>> => g = new)
      OBVIOUS
  <2>3. \A j \in DOMAIN new : Len(old) + j \in DOMAIN g /\ g[Len(old) + j] = new[j]
      OBVIOUS
  <2>4. \A i \in DOMAIN g : \/ i \in DOMAIN old /\ g[i] = old[i]
                            \/ \E j \in DOMAIN new : g[i] = new[j]
                            \/ g[i].kind \in {"glued", "spoilt"}
      OBVIOUS
  <2>5. old # <<>> => g # <<>> /\ g[1] = old[1]
      OBVIOUS
  <2> HIDE DEF g
  <2>6. ASSUME NEW j \in DOMAIN new, new[j].kind = "row"
        PROVE  \E k \in DOMAIN g : IsRow(g[k]) /\ g[k].row = new[j].row
    <3>1. IsRow(g[Len(old) + j]) /\ g[Len(old) + j].row = new[j].row
        BY <2>3, <2>6 DEF IsRow
    <3> QED BY <2>3, <3>1
  <2>7. \A j \in DOMAIN new : new[j].kind = "row" => \E k \in DOMAIN g : IsRow(g[k]) /\ g[k].row = new[j].row
      BY <2>6
  <2>8. old # <<>> => g # <<>> /\ (old[1].kind = "head" => g[1] = old[1])
      BY <2>5
  <2> QED BY ONLY <2>1, <2>2, <2>4, <2>7, <2>8
<1>2. CASE ~(old = <<>> \/ Last(old) # Half \/ new = <<>>)
  <2> DEFINE j == Joined(Head(new))
             g == Front(old) \o <<j>> \o Tail(new)
  <2>n. PICK n \in Nat : n = Len(old)
      OBVIOUS
  <2>p. PICK p \in Nat : p = Len(new)
      OBVIOUS
  <2>1. Glued(old, new) = g
      BY <1>2 DEF Glued
  <2>2. n > 0 /\ p > 0 /\ old[n] = Half /\ Head(new) \in Lines /\ new # <<>> /\ Head(new) = new[1]
        /\ DOMAIN old = 1..n /\ DOMAIN new = 1..p
      BY <1>2, <2>n, <2>p DEF Last
  <2>3. j \in Lines /\ j.kind \in {"glued", "spoilt"}
        /\ (new[1].kind = "row" => j.kind = "glued" /\ j.row = new[1].row)
      BY <2>2 DEF Joined, Line, Lines
  <2>4. Half.kind # "head"
      BY DEF Half, Line
  <2>5. old[1].kind = "head" => n > 1
      BY <2>2, <2>4
  <2> HIDE DEF j
  <2> DEFINE s == Front(old)
             t == Tail(new)
  <2>6. s \in Seq(Lines) /\ Len(s) = n - 1 /\ \A i \in 1..(n - 1) : s[i] = old[i]
    <3>1. \A i \in 1..(n - 1) : old[i] \in Lines
        BY <2>2
    <3>2. s = SubSeq(old, 1, n - 1)
        BY <2>n DEF Front
    <3> HIDE DEF s
    <3>3. /\ SubSeq(old, 1, n - 1) \in Seq(Lines) /\ Len(SubSeq(old, 1, n - 1)) = (IF 1 <= n - 1 THEN n - 1 - 1 + 1 ELSE 0)
          /\ \A i \in 1..(n - 1 - 1 + 1) : SubSeq(old, 1, n - 1)[i] = old[1 + i - 1]
        BY <3>1, SubSeqProperties
    <3> QED BY <2>2, <3>2, <3>3
  <2>7. t \in Seq(Lines) /\ Len(t) = p - 1 /\ \A i \in 1..(p - 1) : t[i] = new[i + 1]
      BY <2>2, <2>p, HeadTailProperties
  <2> HIDE DEF s, t
  <2>8. s \o <<j>> \in Seq(Lines) /\ Len(s \o <<j>>) = n /\ (s \o <<j>>)[n] = j
        /\ \A i \in 1..(n - 1) : (s \o <<j>>)[i] = old[i]
      BY <2>2, <2>3, <2>6
  <2> DEFINE u == s \o <<j>>
  <2>u. u \in Seq(Lines)
      BY <2>8
  <2>b. g = u \o t
      BY DEF s, t
  <2> HIDE DEF u, g
  <2>a. /\ u \o t \in Seq(Lines) /\ Len(u \o t) = Len(u) + Len(t)
        /\ \A i \in 1..(Len(u) + Len(t)) : (u \o t)[i] = IF i <= Len(u) THEN u[i] ELSE t[i - Len(u)]
      BY <2>7, <2>u, ConcatProperties
  <2>c. Len(u) = n /\ u[n] = j /\ (\A i \in 1..(n - 1) : u[i] = old[i])
      BY <2>8 DEF u
  <2>9. g \in Seq(Lines) /\ Len(g) = n + (p - 1) /\ DOMAIN g = 1..(n + (p - 1))
      BY <2>7, <2>a, <2>b, <2>c
  <2>e. \A i \in 1..(n + (p - 1)) : g[i] = IF i <= n THEN u[i] ELSE t[i - n]
      BY <2>7, <2>a, <2>b, <2>c
  <2>f. \A i \in 1..(n - 1) : g[i] = old[i]
    <3> TAKE i \in 1..(n - 1)
    <3>1. i \in 1..(n + (p - 1)) /\ i <= n
        BY <2>2
    <3> QED BY <2>c, <2>e, <3>1
  <2>g. g[n] = j
    <3>1. n \in 1..(n + (p - 1))
        BY <2>2
    <3> QED BY <2>c, <2>e, <3>1
  <2>10. \A m \in 2..p : m + n - 1 \in DOMAIN g /\ g[m + n - 1] = new[m]
    <3> TAKE m \in 2..p
    <3>1. m + n - 1 \in 1..(n + (p - 1)) /\ ~(m + n - 1 <= n) /\ m + n - 1 - n = m - 1 /\ m - 1 \in 1..(p - 1) /\ m - 1 + 1 = m
        BY <2>2
    <3>2. g[m + n - 1] = t[m - 1]
        BY <2>e, <3>1
    <3> QED BY <2>7, <2>9, <3>1, <3>2
  <2>11. ASSUME NEW i \in DOMAIN g
         PROVE  (i \in DOMAIN old /\ g[i] = old[i]) \/ (\E m \in DOMAIN new : g[i] = new[m]) \/ g[i].kind \in {"glued", "spoilt"}
    <3>1. CASE i < n
      <4>1. i \in 1..(n - 1) /\ i \in 1..n
          BY <2>9, <3>1
      <4> QED BY <2>2, <2>f, <4>1
    <3>2. CASE i = n
        BY <2>3, <2>g, <3>2
    <3>3. CASE i > n
      <4>1. i - n + 1 \in 2..p /\ i - n + 1 + n - 1 = i /\ i - n + 1 \in 1..p
          BY <2>9, <3>3
      <4>2. g[i] = new[i - n + 1]
          BY <2>10, <4>1
      <4> QED BY <2>2, <4>1, <4>2
    <3> QED BY <2>9, <3>1, <3>2, <3>3
  <2>12. ASSUME NEW m \in DOMAIN new, new[m].kind = "row"
         PROVE  \E k \in DOMAIN g : IsRow(g[k]) /\ g[k].row = new[m].row
    <3>1. CASE m = 1
      <4>1. n \in DOMAIN g /\ g[n].kind = "glued" /\ g[n].row = new[m].row
          BY <2>2, <2>3, <2>9, <2>12, <2>g, <3>1
      <4> QED BY <4>1 DEF IsRow
    <3>2. CASE m # 1
      <4>1. m \in 2..p
          BY <2>2, <3>2
      <4>2. m + n - 1 \in DOMAIN g /\ g[m + n - 1] = new[m]
          BY <2>10, <4>1
      <4> QED BY <2>12, <4>2 DEF IsRow
    <3> QED BY <3>1, <3>2
  <2>13. g # <<>> /\ (old[1].kind = "head" => g[1] = old[1])
    <3>1. Len(g) > 0
        BY <2>2, <2>9
    <3>2. g # <<>>
        BY <2>9, <3>1
    <3>3. old[1].kind = "head" => 1 \in 1..(n - 1)
        BY <2>5
    <3> QED BY <2>f, <3>2, <3>3
  <2>14. old # <<>>
      BY <1>2
  <2>15. \A i \in DOMAIN g : \/ i \in DOMAIN old /\ g[i] = old[i]
                             \/ \E m \in DOMAIN new : g[i] = new[m]
                             \/ g[i].kind \in {"glued", "spoilt"}
      BY <2>11
  <2>16. \A m \in DOMAIN new : new[m].kind = "row" => \E k \in DOMAIN g : IsRow(g[k]) /\ g[k].row = new[m].row
      BY <2>12
  <2> HIDE DEF j
  <2> QED BY ONLY <2>1, <2>9, <2>13, <2>14, <2>15, <2>16
<1> QED BY <1>1, <1>2

\* The lines a write adds: a header first if the file is new, then the rows.
NewLines(full, header, rows, n) ==
    (IF full THEN <<>> ELSE <<Line("head", header, None)>>) \o [i \in 1..n |-> Line("row", None, rows[i])]

\* They are rows, except the first of a new file.
LEMMA NewLinesAre ==
    ASSUME NEW full \in BOOLEAN, NEW header \in Heads, NEW rows \in Seq(Row), NEW n \in 0..Len(rows)
    PROVE  LET new == NewLines(full, header, rows, n) IN
           /\ new \in Seq(Lines)
           /\ \A j \in DOMAIN new : \/ \E m \in 1..n : new[j] = Line("row", None, rows[m])
                                    \/ ~full /\ j = 1
           /\ ~full => new # <<>> /\ new[1] = Line("head", header, None)
           /\ \A m \in 1..n : \E j \in DOMAIN new : new[j] = Line("row", None, rows[m])
<1> DEFINE h == Line("head", header, None)
           r == [i \in 1..n |-> Line("row", None, rows[i])]
<1>1. h \in Lines
    BY DEF Line, Lines
<1>2. \A i \in 1..n : rows[i] \in Row
    OBVIOUS
<1>3. \A i \in 1..n : Line("row", None, rows[i]) \in Lines
    BY <1>2 DEF Line, Lines
<1>4. r \in [1..n -> Lines] /\ n \in Nat
    BY <1>3
<1>5. r \in Seq(Lines) /\ Len(r) = n /\ \A i \in 1..n : r[i] = Line("row", None, rows[i])
    BY <1>4
<1> HIDE DEF h, r
<1>6. NewLines(full, header, rows, n) = (IF full THEN <<>> ELSE <<h>>) \o r
    BY DEF NewLines, h, r
<1>7. CASE full
  <2>1. NewLines(full, header, rows, n) = r
      BY <1>5, <1>6, <1>7, ConcatEmptySeq
  <2>2. DOMAIN r = 1..n
      BY <1>4
  <2>3. \A j \in DOMAIN r : \E m \in 1..n : r[j] = Line("row", None, rows[m])
      BY <1>5, <2>2
  <2>4. \A m \in 1..n : \E j \in DOMAIN r : r[j] = Line("row", None, rows[m])
      BY <1>5, <2>2
  <2>5. r \in Seq(Lines)
      BY <1>5
  <2> QED BY <1>7, <2>1, <2>3, <2>4, <2>5
<1>8. CASE ~full
  <2> DEFINE new == <<h>> \o r
  <2>1. new \in Seq(Lines) /\ new # <<>> /\ new[1] = h /\ Len(new) = n + 1 /\ DOMAIN new = 1..(n + 1)
      BY <1>1, <1>5
  <2>2. \A m \in 1..n : new[m + 1] = r[m]
      BY <1>1, <1>5
  <2>3. NewLines(full, header, rows, n) = new
      BY <1>6, <1>8
  <2> HIDE DEF new
  <2>4. \A m \in 1..n : m + 1 \in DOMAIN new /\ new[m + 1] = Line("row", None, rows[m])
      BY <1>5, <2>1, <2>2
  <2>5. ASSUME NEW j \in DOMAIN new, j # 1 PROVE \E m \in 1..n : new[j] = Line("row", None, rows[m])
    <3>1. j - 1 \in 1..n /\ j - 1 + 1 = j
        BY <2>1, <2>5
    <3> QED BY <2>4, <3>1
  <2>6. \A j \in DOMAIN new : \/ \E m \in 1..n : new[j] = Line("row", None, rows[m])
                              \/ ~full /\ j = 1
      BY <1>8, <2>5
  <2>7. \A m \in 1..n : \E j \in DOMAIN new : new[j] = Line("row", None, rows[m])
      BY <2>4
  <2>8. new \in Seq(Lines) /\ (~full => new # <<>> /\ new[1] = Line("head", header, None))
      BY <2>1 DEF h
  <2> QED BY <2>3, <2>6, <2>7, <2>8, Zenon
<1> QED BY <1>7, <1>8

\* What is written is on the file, and under its header.
LEMMA WriteKeeps ==
    ASSUME NEW f \in File, NEW full \in BOOLEAN, NEW header \in Heads, NEW rows \in Seq(Row), NEW n \in 0..Len(rows),
           NEW stub \in {<<>>, <<Half>>}
    PROVE  LET L == Glued(f.lines, NewLines(full, header, rows, n)) \o stub IN
           /\ L \in Seq(Lines)
           /\ \A g \in File : g.lines = L /\ g.unmoved = f.unmoved =>
                 /\ \A m \in 1..n : Has(g, rows[m])
                 /\ /\ Sound(f) /\ Fit(header, rows)
                    /\ IF full THEN f.lines # <<>> /\ f.lines[1].head = header ELSE f.unmoved \/ f.lines = <<>>
                    => Sound(g)
<1> DEFINE new == NewLines(full, header, rows, n)
           G   == Glued(f.lines, new)
<1>1. /\ new \in Seq(Lines)
      /\ \A j \in DOMAIN new : (\E m \in 1..n : new[j] = Line("row", None, rows[m])) \/ (~full /\ j = 1)
      /\ ~full => new # <<>> /\ new[1] = Line("head", header, None)
      /\ \A m \in 1..n : \E j \in DOMAIN new : new[j] = Line("row", None, rows[m])
    BY NewLinesAre
<1>2. f.lines \in Seq(Lines) /\ f.unmoved \in BOOLEAN
    BY DEF File
<1> HIDE DEF new
<1>3. /\ G \in Seq(Lines)
      /\ f.lines # <<>> => G # <<>> /\ (f.lines[1].kind = "head" => G[1] = f.lines[1])
      /\ f.lines = <<>> => G = new
      /\ \A i \in DOMAIN G : (i \in DOMAIN f.lines /\ G[i] = f.lines[i]) \/ (\E j \in DOMAIN new : G[i] = new[j])
                             \/ G[i].kind \in {"glued", "spoilt"}
      /\ \A j \in DOMAIN new : new[j].kind = "row" => \E k \in DOMAIN G : IsRow(G[k]) /\ G[k].row = new[j].row
    BY <1>1, <1>2, GluedLines
<1>4. Glued(f.lines, NewLines(full, header, rows, n)) = G
    BY DEF new
<1> HIDE DEF G
<1>5. Half \in Lines /\ Half.kind = "half"
    BY DEF Half, Line, Lines
<1>6. /\ G \o stub \in Seq(Lines) /\ (G # <<>> => G \o stub # <<>> /\ (G \o stub)[1] = G[1])
      /\ \A i \in DOMAIN G : i \in DOMAIN (G \o stub) /\ (G \o stub)[i] = G[i]
      /\ \A i \in DOMAIN (G \o stub) : (i \in DOMAIN G /\ (G \o stub)[i] = G[i]) \/ (G \o stub)[i] = Half
  <2>1. CASE stub = <<>>
    <3>1. G \o stub = G
        BY <1>3, <2>1
    <3> QED BY <1>3, <3>1
  <2>2. CASE stub = <<Half>>
      BY <1>3, <1>5, <2>2
  <2> QED BY <2>1, <2>2
<1>8. ASSUME NEW m \in 1..n, NEW g \in File, g.lines = G \o stub PROVE Has(g, rows[m])
  <2>1. PICK j \in DOMAIN new : new[j] = Line("row", None, rows[m])
      BY <1>1
  <2>2. new[j].kind = "row" /\ new[j].row = rows[m]
      BY <2>1 DEF Line
  <2>3. PICK k \in DOMAIN G : IsRow(G[k]) /\ G[k].row = rows[m]
      BY <1>3, <2>2
  <2>4. k \in DOMAIN g.lines /\ g.lines[k] = G[k]
      BY <1>6, <1>8
  <2> QED BY <2>3, <2>4 DEF Has
<1>9. ASSUME Sound(f), Fit(header, rows), ~f.unmoved,
             IF full THEN f.lines # <<>> /\ f.lines[1].head = header ELSE f.lines = <<>>
      PROVE  /\ G # <<>> /\ G[1].kind = "head" /\ G[1].head = header
             /\ \A i \in DOMAIN G : i > 1 => G[i].kind # "head"
             /\ \A i \in DOMAIN G : G[i].kind = "row" /\ ~G[i].row.mixed => Labelled(header, G[i].row)
  <2>1. \A m \in 1..n : Line("row", None, rows[m]).kind = "row" /\ Line("row", None, rows[m]).row = rows[m] /\ m \in DOMAIN rows
      BY DEF Line
  <2>2. ASSUME NEW i \in DOMAIN G, NEW m \in 1..n, G[i] = Line("row", None, rows[m])
        PROVE  G[i].kind = "row" /\ (~G[i].row.mixed => Labelled(header, G[i].row))
      BY <1>9, <2>1, <2>2 DEF Fit
  <2>3. CASE full
    <3>1. f.lines # <<>> /\ f.lines[1].kind = "head" /\ f.lines[1].head = header
          /\ (\A i \in DOMAIN f.lines : i > 1 => f.lines[i].kind # "head")
          /\ (\A i \in DOMAIN f.lines : f.lines[i].kind = "row" /\ ~f.lines[i].row.mixed => Labelled(header, f.lines[i].row))
        BY <1>9, <2>3 DEF Sound
    <3>2. G # <<>> /\ G[1] = f.lines[1]
        BY <1>3, <3>1
    <3>3. ASSUME NEW i \in DOMAIN G
          PROVE  (i > 1 => G[i].kind # "head") /\ (G[i].kind = "row" /\ ~G[i].row.mixed => Labelled(header, G[i].row))
      <4>1. CASE i \in DOMAIN f.lines /\ G[i] = f.lines[i]
          BY <3>1, <4>1
      <4>2. CASE \E j \in DOMAIN new : G[i] = new[j]
        <5>1. \E m \in 1..n : G[i] = Line("row", None, rows[m])
            BY <1>1, <2>3, <4>2
        <5> QED BY <2>2, <5>1
      <4>3. CASE G[i].kind \in {"glued", "spoilt"}
          BY <4>3
      <4> QED BY <1>3, <4>1, <4>2, <4>3
    <3> QED BY <3>1, <3>2, <3>3
  <2>4. CASE ~full
    <3>1. G = new /\ new # <<>> /\ new[1] = Line("head", header, None)
        BY <1>1, <1>3, <1>9, <2>4
    <3>2. G # <<>> /\ G[1].kind = "head" /\ G[1].head = header
        BY <3>1 DEF Line
    <3>3. ASSUME NEW i \in DOMAIN G
          PROVE  (i > 1 => G[i].kind # "head") /\ (G[i].kind = "row" /\ ~G[i].row.mixed => Labelled(header, G[i].row))
      <4>1. CASE i = 1
          BY <3>2, <4>1
      <4>2. CASE i # 1
        <5>1. \E m \in 1..n : G[i] = Line("row", None, rows[m])
            BY <1>1, <3>1, <4>2
        <5> QED BY <2>2, <5>1
      <4> QED BY <4>1, <4>2
    <3> QED BY <3>2, <3>3
  <2> QED BY <2>3, <2>4
<1>10. ASSUME NEW g \in File, g.lines = G \o stub, g.unmoved = f.unmoved,
              Sound(f), Fit(header, rows),
              IF full THEN f.lines # <<>> /\ f.lines[1].head = header ELSE f.unmoved \/ f.lines = <<>>
       PROVE  Sound(g)
  <2>2. CASE f.unmoved
      BY <1>10, <2>2 DEF Sound
  <2>3. CASE ~f.unmoved
    <3>1. /\ G # <<>> /\ G[1].kind = "head" /\ G[1].head = header
          /\ \A i \in DOMAIN G : i > 1 => G[i].kind # "head"
          /\ \A i \in DOMAIN G : G[i].kind = "row" /\ ~G[i].row.mixed => Labelled(header, G[i].row)
        BY <1>9, <1>10, <2>3
    <3> DEFINE L == G \o stub
    <3>2. /\ L # <<>> /\ L[1] = G[1]
          /\ \A i \in DOMAIN L : (i \in DOMAIN G /\ L[i] = G[i]) \/ L[i] = Half
        BY <1>6, <3>1
    <3> HIDE DEF L
    <3>3. \A i \in DOMAIN L : i > 1 => L[i].kind # "head"
        BY <1>5, <3>1, <3>2
    <3>4. \A i \in DOMAIN L : L[i].kind = "row" /\ ~L[i].row.mixed => Labelled(header, L[i].row)
        BY <1>5, <3>1, <3>2
    <3>5. g.lines = L
        BY <1>10 DEF L
    <3> QED BY <3>1, <3>2, <3>3, <3>4, <3>5 DEF Sound
  <2> QED BY <2>2, <2>3
<1>11. ASSUME NEW g \in File, g.lines = G \o stub, g.unmoved = f.unmoved
       PROVE  /\ \A m \in 1..n : Has(g, rows[m])
              /\ /\ Sound(f) /\ Fit(header, rows)
                 /\ IF full THEN f.lines # <<>> /\ f.lines[1].head = header ELSE f.unmoved \/ f.lines = <<>>
                 => Sound(g)
    BY <1>8, <1>10, <1>11
<1> QED BY <1>4, <1>6, <1>11

\* However a write ends: the disk is one, what was written is there, and all is
\* under its headers if the rows are under the header they come with.
LEMMA AppendKeeps ==
    ASSUME NEW fs \in Filesystems, NEW d \in Discs, NEW header \in Heads, NEW rows \in Seq(Row), rows # <<>>,
           NEW epoch, NEW now \in Nat, NEW how \in Ends
    PROVE  LET a == datalogAppend(fs, d, header, rows, epoch, now, how) IN
           /\ a.disk \in Discs
           /\ a.written \in 0..Len(rows)
           /\ \A o \in Filesystems \ {fs} : a.disk.files[o] = d.files[o] /\ a.disk.past[o] = d.past[o]
           /\ \A m \in 1..a.written : Has(a.disk.files[fs], rows[m])
           /\ Kept(d, fs) /\ Fit(header, rows) => Kept(a.disk, fs)
<1> DEFINE was   == d.files[fs]
           moves == was # NoFile /\ Rotates(was, header, epoch)
           disk1 == IF moves THEN archive(fs, d, how) ELSE d
           full  == ~moves /\ was.lines # <<>>
           disk2 == IF full THEN trim(fs, disk1, Len(rows)) ELSE disk1
           n     == IF how = "short" THEN Len(rows) - 1 ELSE Len(rows)
           new   == (IF full THEN <<>> ELSE <<Line("head", header, None)>>) \o [i \in 1..n |-> Line("row", None, rows[i])]
           known == IF full THEN disk2.counts[fs] ELSE 0
           stub  == IF how = "short" THEN <<Half>> ELSE <<>>
           g     == [lines |-> Glued(disk2.files[fs].lines, new) \o stub, day |-> now, unmoved |-> disk2.files[fs].unmoved]
           v     == IF known = None THEN None ELSE known + Len(new)
           disk3 == [disk2 EXCEPT !.files[fs] = g, !.counts[fs] = v]
           a     == datalogAppend(fs, d, header, rows, epoch, now, how)
           Fine(e) == /\ e \in Discs
                      /\ \A o \in Filesystems \ {fs} : e.files[o] = d.files[o] /\ e.past[o] = d.past[o]
<1>1. was \in File /\ was.lines \in Seq(Lines) /\ Len(rows) \in Nat /\ Len(rows) > 0
    BY DEF Discs, File
<1>2. a = IF how = "nomem" /\ was # NoFile THEN [disk |-> d, written |-> 0]
          ELSE IF how = "notrim" /\ disk2 # disk1 THEN [disk |-> disk1, written |-> 0]
          ELSE IF how = "noopen" THEN [disk |-> disk2, written |-> 0]
          ELSE [disk |-> disk3, written |-> n]
    BY DEF datalogAppend
<1> HIDE DEF a, disk3
<1>3. n \in 0..Len(rows)
    BY <1>1
<1>4. /\ Fine(disk1) /\ (Kept(d, fs) => Kept(disk1, fs))
      /\ moves => disk1.files[fs].unmoved \/ disk1.files[fs].lines = <<>>
      /\ ~moves => disk1 = d
  <2>1. CASE moves
      BY <2>1, ArchiveKeeps
  <2>2. CASE ~moves
      BY <2>2
  <2> QED BY <2>1, <2>2
<1>5. full => was.lines # <<>> /\ was # NoFile /\ was.lines[1].head = header
  <2> SUFFICES ASSUME full PROVE was.lines # <<>> /\ was # NoFile /\ was.lines[1].head = header
      OBVIOUS
  <2>1. was # NoFile
      BY DEF NoFile
  <2>2. ~Rotates(was, header, epoch)
      BY <2>1
  <2>3. Head(was.lines).head = header
      BY <2>2 DEF Rotates
  <2> QED BY <1>1, <2>1, <2>3
<1> HIDE DEF disk1
<1>6. /\ Fine(disk2) /\ (Kept(d, fs) => Kept(disk2, fs))
      /\ IF full THEN disk2.files[fs].lines # <<>> /\ disk2.files[fs].lines[1].head = header
                 ELSE disk2.files[fs].unmoved \/ disk2.files[fs].lines = <<>>
  <2>1. CASE full
    <3>1. disk1 = d /\ disk2 = trim(fs, d, Len(rows)) /\ d.files[fs].lines # <<>>
        BY <1>4, <2>1
    <3> DEFINE t == trim(fs, d, Len(rows))
    <3>3. /\ t \in Discs
          /\ \A o \in Filesystems \ {fs} : t.files[o] = d.files[o] /\ t.past[o] = d.past[o]
          /\ t.files[fs].lines # <<>> /\ t.files[fs].lines[1] = d.files[fs].lines[1]
          /\ Kept(d, fs) => Kept(t, fs)
      <4>1. Len(rows) \in Int
          BY <1>1
      <4>2. d.files[fs].lines # <<>>
          BY <3>1
      <4> QED BY ONLY d \in Discs, fs \in Filesystems, <4>1, <4>2, TrimKeeps
    <3> HIDE DEF t
    <3>4. disk2 = t
        BY <3>1 DEF t
    <3> HIDE DEF disk2
    <3>2. /\ Fine(disk2) /\ (Kept(d, fs) => Kept(disk2, fs))
          /\ disk2.files[fs].lines # <<>> /\ disk2.files[fs].lines[1] = d.files[fs].lines[1]
        BY <3>3, <3>4
    <3> QED BY <1>5, <2>1, <3>2
  <2>2. CASE ~full
    <3>1. disk2 = disk1
        BY <2>2
    <3> QED BY <1>4, <2>2, <3>1
  <2> QED BY <2>1, <2>2
<1>7. full \in BOOLEAN
    OBVIOUS
<1> HIDE DEF disk2, full, moves
<1>8. disk2.files[fs] \in File /\ disk2.counts[fs] \in Int \cup {None} /\ disk2.files[fs].unmoved \in BOOLEAN
      /\ disk2.files \in [Filesystems -> File] /\ disk2.past \in [Filesystems -> SUBSET File]
      /\ disk2.counts \in [Filesystems -> Int \cup {None}]
    BY <1>6 DEF Discs, File
<1>9. new = NewLines(full, header, rows, n) /\ stub \in {<<>>, <<Half>>}
    BY DEF NewLines
<1>10. new \in Seq(Lines)
    BY <1>3, <1>7, <1>9, NewLinesAre
<1> HIDE DEF n, new, stub
<1>11. /\ Glued(disk2.files[fs].lines, new) \o stub \in Seq(Lines)
       /\ \A e \in File : e.lines = Glued(disk2.files[fs].lines, new) \o stub /\ e.unmoved = disk2.files[fs].unmoved =>
             /\ \A m \in 1..n : Has(e, rows[m])
             /\ /\ Sound(disk2.files[fs]) /\ Fit(header, rows)
                /\ IF full THEN disk2.files[fs].lines # <<>> /\ disk2.files[fs].lines[1].head = header
                           ELSE disk2.files[fs].unmoved \/ disk2.files[fs].lines = <<>>
                => Sound(e)
  <2> DEFINE f == disk2.files[fs]
  <2>1. f \in File
      BY <1>8
  <2> HIDE DEF f
  <2>2. /\ Glued(f.lines, new) \o stub \in Seq(Lines)
        /\ \A e \in File : e.lines = Glued(f.lines, new) \o stub /\ e.unmoved = f.unmoved =>
              /\ \A m \in 1..n : Has(e, rows[m])
              /\ /\ Sound(f) /\ Fit(header, rows)
                 /\ IF full THEN f.lines # <<>> /\ f.lines[1].head = header
                            ELSE f.unmoved \/ f.lines = <<>>
                 => Sound(e)
      BY <1>3, <1>7, <1>9, <2>1, WriteKeeps
  <2> QED BY <2>2 DEF f
<1>12. g \in File /\ g.lines = Glued(disk2.files[fs].lines, new) \o stub /\ g.unmoved = disk2.files[fs].unmoved
    BY <1>8, <1>11 DEF File
<1>13. v \in Int \cup {None}
    BY <1>8, <1>10
<1> HIDE DEF g, v
<1>14. disk3 \in Discs /\ disk3.files = [disk2.files EXCEPT ![fs] = g] /\ disk3.past = disk2.past
  <2> DEFINE b == [disk2 EXCEPT !.files = [disk2.files EXCEPT ![fs] = g]]
  <2>1. b \in Discs /\ b.files = [disk2.files EXCEPT ![fs] = g] /\ b.past = disk2.past
      BY <1>6, <1>8, <1>12 DEF Discs
  <2>2. disk3 = [b EXCEPT !.counts = [b.counts EXCEPT ![fs] = v]]
      BY DEF disk3
  <2> HIDE DEF b
  <2> QED BY <1>13, <2>1, <2>2 DEF Discs
<1>15. Fine(disk3) /\ (Kept(d, fs) /\ Fit(header, rows) => Kept(disk3, fs)) /\ \A m \in 1..n : Has(disk3.files[fs], rows[m])
  <2>1. disk3.files[fs] = g /\ disk3.past[fs] = disk2.past[fs]
      BY <1>8, <1>14
  <2>2. \A o \in Filesystems \ {fs} : disk3.files[o] = disk2.files[o] /\ disk3.past[o] = disk2.past[o]
      BY <1>8, <1>14
  <2>3. Kept(disk2, fs) /\ Fit(header, rows) => Sound(g)
      BY <1>6, <1>11, <1>12 DEF Kept, FilesOf
  <2>4. Kept(disk2, fs) /\ Sound(g) => Kept(disk3, fs)
      BY <2>1 DEF Kept, FilesOf
  <2> QED BY <1>6, <1>11, <1>12, <1>14, <2>1, <2>2, <2>3, <2>4
<1>16. /\ a.disk \in {d, disk1, disk2, disk3}
       /\ a.written \in {0, n} /\ (a.written = 0 \/ a.disk = disk3)
    BY <1>2
<1>17. Fine(d)
    OBVIOUS
<1>18. \A m \in 1..a.written : Has(a.disk.files[fs], rows[m])
  <2>1. CASE a.written = 0
      BY <2>1
  <2>2. CASE a.disk = disk3
      BY <1>3, <1>15, <1>16, <2>2
  <2> QED BY <1>16, <2>1, <2>2
<1>19. a.written \in 0..Len(rows)
    BY <1>1, <1>3, <1>16
<1>20. Fine(a.disk) /\ (Kept(d, fs) /\ Fit(header, rows) => Kept(a.disk, fs))
    BY <1>4, <1>6, <1>15, <1>16, <1>17
<1> QED BY <1>18, <1>19, <1>20 DEF a

-----------------------------------------------------------------------------
(* Types and stages.                                                       *)

\* What a step that leaves the task and the log alone has to show.
LEMMA AsideBase ==
    ASSUME Base, UNCHANGED <<dlVars, taskVars>>, flush' \in BOOLEAN, today' \in Nat, QueueTypes', LoopTypes', Parked'
    PROVE  Base'
<1>1. TaskTypes' /\ Stages'
    BY DEF Base, Types, TaskTypes, Stages, taskVars
<1>2. LogTypes'
    BY DEF Base, Types, LogTypes, dlVars, listVars, fileVars, Disk
<1>3. Summed'
    BY DEF Base, Summed, Agrees, dlVars, listVars, taskVars
<1> QED BY <1>1, <1>2, <1>3 DEF Base, Types

\* What a step of the main task has to show.
LEMMA LoopBase ==
    ASSUME Base, UNCHANGED <<dlVars, taskVars, storageQ, sensorQ, hand, measured, today>>,
           flush' \in BOOLEAN, waiter' \in [at : {"idle", "waits", "answered", "given up"}, owes : SUBSET Samples],
           LoopTypes', Parked'
    PROVE  Base'
<1>1. QueueTypes'
    BY DEF Base, Types, QueueTypes
<1>2. today' \in Nat
    BY DEF Base, Types, LogTypes
<1> QED BY <1>1, <1>2, AsideBase

\* Starting the tasks leaves the storage task parked.
LEMMA StartBase ==
    ASSUME Base, Starting PROVE Base'
<1> USE DEF Base, Types
<1>a. flush \in BOOLEAN /\ waiter \in [at : {"idle", "waits", "answered", "given up"}, owes : SUBSET Samples]
    BY DEF LogTypes, QueueTypes
<1>1. CASE \E ok \in BOOLEAN : MakeQueues(ok)
  <2>1. PICK ok \in BOOLEAN : MakeQueues(ok)
      BY <1>1
  <2>2. UNCHANGED <<dlVars, taskVars, storageQ, sensorQ, hand, measured, today, flush, waiter>>
      BY <2>1 DEF MakeQueues, askVars
  <2>3. LoopTypes'
      BY <2>1 DEF MakeQueues, LoopTypes
  <2>4. Parked'
      BY <2>1, <2>2 DEF MakeQueues, Parked, taskVars
  <2> QED BY <1>a, <2>2, <2>3, <2>4, LoopBase
<1>2. CASE \E ok \in BOOLEAN : CreateTask(ok)
  <2>1. PICK ok \in BOOLEAN : CreateTask(ok)
      BY <1>2
  <2>2. UNCHANGED <<dlVars, taskVars, storageQ, sensorQ, hand, measured, today, flush, waiter>>
      BY <2>1 DEF CreateTask, askVars
  <2>3. loop.at = "tasks" /\ loop.k < 5
      BY <2>1 DEF CreateTask, Order
  <2>4. st.pc = "none" /\ ~gate /\ tasks["storage"] \in {"none", "parked"} /\ tasks \in [Tasks -> {"none", "parked", "run", "stuck", "gone"}]
      BY <2>3 DEF Parked, LoopTypes
  <2>5. CASE ok
    <3>1. \/ tasks' = tasks
          \/ \E t : tasks' = [tasks EXCEPT ![t] = "parked"]
        BY <2>1, <2>5 DEF CreateTask
    <3>2. loop' = [loop EXCEPT !.k = @ + 1] /\ gate' = Opens(loop.k + 1)
        BY <2>1, <2>5 DEF CreateTask
    <3>3. tasks' \in [Tasks -> {"none", "parked", "run", "stuck", "gone"}] /\ tasks'["storage"] \in {"none", "parked"}
        BY <2>4, <3>1 DEF Tasks
    <3>4. loop'.at = "tasks" /\ loop'.k = loop.k + 1 /\ LoopTypes'
        BY <2>3, <3>2, <3>3 DEF LoopTypes
    <3>5. loop'.k < 5 => ~gate'
      <4>1. Len(Order) = 5
          BY DEF Order
      <4>2. gate' <=> loop.k + 1 = 5
          BY <3>2, <4>1 DEF Opens
      <4>3. loop'.k < 5 => loop.k + 1 # 5
          BY <3>4
      <4> QED BY <4>2, <4>3
    <3>6. st'.pc = "none"
        BY <2>2, <2>4 DEF taskVars
    <3>7. Parked'
        BY <3>3, <3>4, <3>5, <3>6 DEF Parked
    <3> QED BY <1>a, <2>2, <3>4, <3>7, LoopBase
  <2>6. CASE ~ok
    <3>1. tasks' = [x \in Tasks |-> "none"] /\ loop' = [at |-> "safe", k |-> 0]
        BY <2>1, <2>6 DEF CreateTask
    <3>2. LoopTypes'
        BY <3>1 DEF LoopTypes
    <3>3. Parked'
        BY <2>2, <2>4, <3>1 DEF Parked, taskVars
    <3> QED BY <1>a, <2>2, <3>2, <3>3, LoopBase
  <2> QED BY <2>5, <2>6
<1>3. CASE InitDone
  <2>2. UNCHANGED <<dlVars, taskVars, storageQ, sensorQ, hand, measured, today, flush, waiter, tasks>> /\ loop' = [at |-> "loop", k |-> 0]
      BY <1>3 DEF InitDone, stVars, askVars, envVars
  <2>3. LoopTypes'
      BY <2>2 DEF LoopTypes
  <2>4. Parked'
      BY <2>2 DEF Parked, taskVars
  <2> QED BY <1>a, <2>2, <2>3, <2>4, LoopBase
<1> QED BY <1>1, <1>2, <1>3 DEF Starting

\* Nor does the main task's loop touch what the storage task has.
LEMMA EndBase ==
    ASSUME Base, Ending \/ RequestRestart \/ SleepBegins PROVE Base'
<1> USE DEF Base, Types
<1>a. flush \in BOOLEAN /\ waiter \in [at : {"idle", "waits", "answered", "given up"}, owes : SUBSET Samples]
    BY DEF LogTypes, QueueTypes
<1> DEFINE Same == UNCHANGED <<dlVars, taskVars, storageQ, sensorQ, hand, measured, today>>
           Stays == UNCHANGED <<flush, waiter>>
           Goes1 == UNCHANGED tasks /\ loop'.at \notin {"queues", "tasks"} /\ LoopTypes'
<1>1. ASSUME Same, Goes1 PROVE Parked'
    BY <1>1 DEF Parked, taskVars
<1>2. CASE CheckHealth
  <2>1. Same /\ Stays /\ Goes1
      BY <1>2 DEF CheckHealth, stVars, askVars, envVars, LoopTypes
  <2> QED BY <1>1, <1>a, <2>1, LoopBase
<1>3. CASE RequestRestart
  <2>1. Same /\ Stays /\ Goes1
      BY <1>3 DEF RequestRestart, askVars, LoopTypes
  <2> QED BY <1>1, <1>a, <2>1, LoopBase
<1>4. CASE RestartAsks
  <2>1. AskAndWait(running) /\ loop' = [loop EXCEPT !.k = 1] /\ loop.at = "restart"
        /\ UNCHANGED <<sensorQ, exportQ, queues, hand, tasks, running, gate, measured, forced>>
      BY <1>4 DEF RestartAsks
  <2>6. Same /\ UNCHANGED tasks
      BY <2>1 DEF AskAndWait, envVars
  <2>7. loop' \in [at : {"queues", "tasks", "loop", "safe", "restart", "off", "draining", "waiting"}, k : Int]
        /\ loop'.at = "restart"
      BY <2>1 DEF LoopTypes
  <2>2. Same /\ Goes1
      BY <2>6, <2>7 DEF LoopTypes
  <2>3. TaskHolds \in SUBSET Samples
    <3>1. InWindow \in SUBSET Samples
        BY DEF InWindow, TaskTypes
    <3>2. ASSUME NEW vals \in Seq(Cell) PROVE OfVals(vals) \in SUBSET Samples
      <4>1. \A i \in DOMAIN vals : vals[i] \in Cell
          OBVIOUS
      <4>2. \A i \in DOMAIN vals : vals[i].of \in SUBSET Samples
          BY <4>1 DEF Cell
      <4> QED BY <4>2 DEF OfVals
    <3>3. OfVals(row.vals) \in SUBSET Samples
        BY <3>2 DEF TaskTypes, OnWay
    <3>4. \A i \in DOMAIN batch.rows : OfVals(batch.rows[i].vals) \in SUBSET Samples
      <4>1. batch.rows \in Seq(Row)
          BY DEF TaskTypes
      <4>2. \A i \in DOMAIN batch.rows : batch.rows[i] \in Row
          BY <4>1
      <4>3. \A i \in DOMAIN batch.rows : batch.rows[i].vals \in Seq(Cell)
          BY <4>2 DEF Row
      <4> QED BY <3>2, <4>3
    <3>5. OfRows(batch.rows) \in SUBSET Samples
        BY <3>4 DEF OfRows
    <3> QED BY <3>1, <3>3, <3>5 DEF TaskHolds
  <2>4. flush' \in BOOLEAN
      BY <1>a, <2>1 DEF AskAndWait
  <2>5. waiter' \in [at : {"idle", "waits", "answered", "given up"}, owes : SUBSET Samples]
    <3>1. waiter' = [at |-> "waits", owes |-> TaskHolds] \/ waiter' = [waiter EXCEPT !.at = "given up"]
        BY <2>1 DEF AskAndWait
    <3> HIDE DEF Same, Stays, Goes1
    <3>2. CASE waiter' = [at |-> "waits", owes |-> TaskHolds]
        BY <2>3, <3>2
    <3>3. CASE waiter' = [waiter EXCEPT !.at = "given up"]
        BY <1>a, <3>3
    <3> QED BY <3>1, <3>2, <3>3
  <2> QED BY <1>1, <2>2, <2>4, <2>5, LoopBase
<1>5. CASE RestartWaits
  <2>1. Same /\ flush' = flush /\ UNCHANGED <<tasks, loop, gate>>
      BY <1>5 DEF RestartWaits, WaitEnds, WaitTimesOut, envVars, plVars
  <2>2. waiter' = [waiter EXCEPT !.at = "answered"] \/ waiter' = [waiter EXCEPT !.at = "given up"]
      BY <1>5 DEF RestartWaits, WaitEnds, WaitTimesOut
  <2> HIDE DEF Same, Stays, Goes1
  <2>3. waiter' \in [at : {"idle", "waits", "answered", "given up"}, owes : SUBSET Samples]
    <3>1. CASE waiter' = [waiter EXCEPT !.at = "answered"]
        BY <1>a, <3>1
    <3>2. CASE waiter' = [waiter EXCEPT !.at = "given up"]
        BY <1>a, <3>2
    <3> QED BY <2>2, <3>1, <3>2
  <2> USE DEF Same, Stays, Goes1
  <2>4. LoopTypes' /\ Parked'
      BY <2>1 DEF LoopTypes, Parked, taskVars
  <2> QED BY <1>a, <2>1, <2>3, <2>4, LoopBase
<1>6. CASE Restarts
  <2>2. Same /\ Stays /\ UNCHANGED tasks
      BY <1>6 DEF Restarts, stVars, askVars, envVars
  <2>3. loop' = [at |-> "off", k |-> 0]
      BY <1>6 DEF Restarts
  <2>1. Same /\ Stays /\ Goes1
      BY <2>2, <2>3 DEF LoopTypes
  <2> QED BY <1>1, <1>a, <2>1, LoopBase
<1>7. CASE \E x \in BOOLEAN : DrainEnds(x)
  <2>2. PICK x \in BOOLEAN : DrainEnds(x)
      BY <1>7
  <2>3. Same /\ Stays /\ UNCHANGED tasks
      BY <2>2 DEF DrainEnds, stVars, askVars, envVars
  <2>4. loop' = [at |-> "waiting", k |-> 1]
      BY <2>2 DEF DrainEnds
  <2>1. Same /\ Stays /\ Goes1
      BY <2>3, <2>4 DEF LoopTypes
  <2> QED BY <1>1, <1>a, <2>1, LoopBase
<1>8. CASE \E x \in BOOLEAN : WaitTask(x)
  <2>1. PICK x \in BOOLEAN : WaitTask(x)
      BY <1>8
  <2>2. Same /\ Stays /\ loop' = [loop EXCEPT !.k = @ + 1] /\ loop.at = "waiting"
      BY <2>1 DEF WaitTask, askVars, envVars
  <2>3. tasks' = tasks \/ \E t : tasks' = [tasks EXCEPT ![t] = "gone"]
      BY <2>1 DEF WaitTask
  <2>4. LoopTypes' /\ loop'.at = "waiting"
      BY <2>2, <2>3 DEF LoopTypes
  <2>5. tasks'["storage"] \in {"none", "parked"} => tasks["storage"] \in {"none", "parked"}
      BY <2>3 DEF LoopTypes, Tasks
  <2>6. Parked'
      BY <2>2, <2>4, <2>5 DEF Parked, taskVars
  <2> QED BY <1>a, <2>2, <2>4, <2>6, LoopBase
<1>9. CASE Sleeps
  <2>1. Same /\ Stays /\ Goes1
      BY <1>9 DEF Sleeps, stVars, askVars, envVars, LoopTypes
  <2> QED BY <1>1, <1>a, <2>1, LoopBase
<1>10. CASE SleepBegins
  <2>1. Same /\ Stays /\ Goes1
      BY <1>10 DEF SleepBegins, askVars, LoopTypes
  <2> QED BY <1>1, <1>a, <2>1, LoopBase
<1> QED BY <1>2, <1>3, <1>4, <1>5, <1>6, <1>7, <1>8, <1>9, <1>10 DEF Ending

\* The readings are of a metric, and none of them is no reading.
LEMMA SampleType == None \notin Samples /\ \A x \in Samples : x.m \in Metrics /\ x.n \in Nat
<1>1. \A i \in DOMAIN Readings : Readings[i] \in Reading /\ Readings[i] # None
    BY PipelineAssumption
<1> QED BY <1>1 DEF Samples, Reading

\* An empty window has no readings.
LEMMA NoWindowType == NoWindow \in [1..MaxCols -> SUBSET Samples] /\ \A c \in 1..MaxCols : NoWindow[c] = {}
BY DEF NoWindow

\* The first state is as the invariant says.
LEMMA BaseInit == ASSUME InitPipeline PROVE Base
<1>1. PICK sc \in Scenarios :
        /\ cols = sc.cols /\ auto = TRUE /\ learned = FALSE /\ rev = 1
        /\ colsFile = [cols |-> sc.cols, auto |-> TRUE] /\ setup = sc.setup
        /\ files = [fs \in Filesystems |-> NoFile] /\ past = [fs \in Filesystems |-> {}]
        /\ counts = [fs \in Filesystems |-> None] /\ today = 0 /\ measured = {}
        /\ storageQ = <<>> /\ window = NoWindow /\ row = NoRow /\ batch = NoBatch
        /\ flush = FALSE /\ waiter = [at |-> "idle", owes |-> {}]
        /\ sensorQ = <<>> /\ hand = None
        /\ gate = (sc.start = "loop")
        /\ loop = [at |-> IF sc.start = "loop" THEN "loop" ELSE "queues", k |-> 0]
        /\ tasks = [t \in Tasks |-> IF sc.start = "loop" /\ (t = "slow" => Blocking) THEN "run" ELSE "none"]
        /\ st = [IdleTask EXCEPT !.pc = IF sc.start = "loop" THEN "top" ELSE "none"]
    BY DEF InitPipeline
<1>2. sc.cols \in Seq(Col) /\ onCount(sc.cols) <= MaxCols /\ sc.setup \in Setup
    BY PipelineAssumption
<1>3. LogTypes
  <2>1. NoFile \in File
      BY DEF NoFile, File
  <2>2. Disk \in Discs
      BY <1>1, <2>1 DEF Disk, Discs
  <2>3. colsFile \in [cols : Seq(Col), auto : BOOLEAN]
      BY <1>1, <1>2
  <2>4. cols \in List /\ auto \in BOOLEAN /\ rev \in Nat \ {0} /\ setup \in Setup
      BY <1>1, <1>2 DEF List
  <2>5. flush \in BOOLEAN /\ today \in Nat
      BY <1>1
  <2> QED BY <2>2, <2>3, <2>4, <2>5 DEF LogTypes
<1>4. TaskTypes
  <2>1. row \in OnWay
      BY <1>1 DEF NoRow, OnWay
  <2>2. batch \in [rows : Seq(Row), head : Heads \cup {None}, first : Nat, day : Nat]
      BY <1>1 DEF NoBatch
  <2>3. st \in Task
    <3>1. IdleTask \in Task
        BY DEF IdleTask, Task, Pcs
    <3> QED BY <1>1, <3>1 DEF Task, Pcs
  <2> QED BY <1>1, <2>1, <2>2, <2>3, NoWindowType DEF TaskTypes
<1>5. QueueTypes
    BY <1>1, FS_EmptySet DEF QueueTypes
<1>6. LoopTypes
    BY <1>1 DEF LoopTypes
<1>7. Parked
    BY <1>1 DEF Parked, IdleTask, Tasks
<1>8. Stages
    BY <1>1 DEF Stages, Rowing, NoBatch, IdleTask
<1>9. Summed
    BY <1>1, NoWindowType DEF Summed, IdleTask
<1> QED BY <1>3, <1>4, <1>5, <1>6, <1>7, <1>8, <1>9 DEF Base, Types

\* A boot leaves nothing in RAM.
LEMMA BootBase == ASSUME Base, Boot PROVE Base'
<1>1. /\ storageQ' = <<>> /\ window' = NoWindow /\ row' = NoRow /\ batch' = NoBatch /\ st' = IdleTask
      /\ flush' = FALSE /\ waiter' = [at |-> "idle", owes |-> {}] /\ sensorQ' = <<>> /\ hand' = None
      /\ tasks' = [t \in Tasks |-> "none"] /\ gate' = FALSE /\ loop' = [at |-> "queues", k |-> 0]
    BY DEF Boot, Fresh
<1>2. /\ cols' = IF colsFile = None THEN <<>> ELSE parsed(colsFile.cols)
      /\ auto' = IF colsFile = None THEN TRUE ELSE colsFile.auto
      /\ rev' = 1
      /\ counts' = [fs \in Filesystems |-> None]
      /\ UNCHANGED <<colsFile, setup, files, past, today, measured>>
    BY DEF Boot, datalogColsBegin
<1>3. LogTypes'
  <2>1. LogTypes
      BY DEF Base, Types
  <2>2. Disk' \in Discs
      BY <1>2, <2>1 DEF LogTypes, Disk, Discs
  <2>3. <<>> \in List
    <3>1. OnUpTo(<<>>, Len(<<>>)) = {}
        BY DEF OnUpTo
    <3>2. onCount(<<>>) = 0
        BY <3>1, FS_EmptySet DEF onCount, Place
    <3> QED BY <3>2, DatalogAssumption DEF List
  <2>4. cols' \in List /\ auto' \in BOOLEAN
      BY <1>2, <2>1, <2>3, ParsedList DEF LogTypes
  <2>7. flush' \in BOOLEAN
    <3>1. flush' = FALSE
        BY <1>1
    <3> QED BY ONLY <3>1, Zenon
  <2>5. rev' \in Nat \ {0}
      BY <1>2
  <2>6. setup' \in Setup /\ today' \in Nat /\ (colsFile' = None \/ colsFile' \in [cols : Seq(Col), auto : BOOLEAN])
      BY <1>2, <2>1 DEF LogTypes
  <2> QED BY <2>2, <2>4, <2>5, <2>6, <2>7 DEF LogTypes
<1>4. TaskTypes'
  <2>1. row' \in OnWay
      BY <1>1 DEF NoRow, OnWay
  <2>2. batch' \in [rows : Seq(Row), head : Heads \cup {None}, first : Nat, day : Nat]
      BY <1>1 DEF NoBatch
  <2>3. st' \in Task
      BY <1>1 DEF IdleTask, Task, Pcs
  <2> QED BY <1>1, <2>1, <2>2, <2>3, NoWindowType DEF TaskTypes
<1>5. QueueTypes'
  <2>1. measured \in SUBSET Samples /\ IsFiniteSet(measured)
      BY DEF QueueTypes, Base, Types
  <2>2. measured' = measured
      BY <1>2
  <2>3. storageQ' \in Seq(Samples) /\ sensorQ' \in Seq(Samples) /\ hand' \in Samples \cup {None}
        /\ waiter' \in [at : {"idle", "waits", "answered", "given up"}, owes : SUBSET Samples]
      BY <1>1
  <2> QED BY <2>1, <2>2, <2>3 DEF QueueTypes
<1>6. LoopTypes'
    BY <1>1 DEF LoopTypes
<1>7. Parked'
    BY <1>1 DEF Parked, IdleTask, Tasks
<1>8. Stages'
    BY <1>1 DEF Stages, Rowing, NoBatch, IdleTask
<1>9. Summed'
    BY <1>1, <1>2, NoWindowType DEF Summed, IdleTask
<1> QED BY <1>3, <1>4, <1>5, <1>6, <1>7, <1>8, <1>9 DEF Base, Types

\* Sensors, ProcessingTask and ExportTask only move readings.
LEMMA MoveBase == ASSUME Base, Sensing \/ Processing \/ Ingest PROVE Base'
<1> USE DEF Base, Types
<1>1. CASE Sensing
  <2>1. PICK t \in {"sensor", "slow"}, i \in DOMAIN Readings : Measure(t, Readings[i])
      BY <1>1 DEF Sensing
  <2>2. UNCHANGED <<dlVars, taskVars, flush, waiter, today, storageQ, hand, tasks, loop, gate>>
      BY <2>1 DEF Measure, Quiet, askVars, envVars
  <2>3. Readings[i] \in Samples
      BY DEF Samples
  <2>4. sensorQ' \in Seq(Samples) /\ measured' \in SUBSET Samples
    <3>1. sensorQ' = sensorQ \/ sensorQ' = Append(sensorQ, Readings[i])
        BY <2>1 DEF Measure
    <3>2. measured' = measured \cup {Readings[i]}
        BY <2>1 DEF Measure
    <3>3. sensorQ \in Seq(Samples) /\ measured \in SUBSET Samples
        BY DEF QueueTypes
    <3> QED BY ONLY <2>3, <3>1, <3>2, <3>3
  <2>5. IsFiniteSet(measured')
      BY <2>1, FS_AddElement DEF Measure, QueueTypes
  <2>6. QueueTypes'
      BY <2>2, <2>4, <2>5 DEF QueueTypes
  <2>7. LoopTypes' /\ Parked'
      BY <2>2 DEF LoopTypes, Parked, taskVars
  <2>8. flush' \in BOOLEAN /\ today' \in Nat
      BY <2>2 DEF LogTypes
  <2> QED BY <2>2, <2>6, <2>7, <2>8, AsideBase
<1>2. CASE Processing
  <2>1. UNCHANGED <<dlVars, taskVars, flush, waiter, today, tasks, loop, gate, measured>>
      BY <1>2 DEF Processing, TakeReading, HandOn, Quiet, Rest, askVars, envVars
  <2>2. storageQ' \in Seq(Samples) /\ sensorQ' \in Seq(Samples) /\ hand' \in Samples \cup {None}
    <3>1. CASE TakeReading
      <4>1. sensorQ # <<>> /\ hand' = Head(sensorQ) /\ sensorQ' = Tail(sensorQ) /\ storageQ' = storageQ
          BY <3>1 DEF TakeReading
      <4>2. sensorQ \in Seq(Samples) /\ storageQ \in Seq(Samples)
          BY DEF QueueTypes
      <4> QED BY ONLY <4>1, <4>2
    <3>2. CASE HandOn
      <4>1. hand # None /\ hand' = None /\ sensorQ' = sensorQ
            /\ (storageQ' = storageQ \/ storageQ' = Append(storageQ, hand))
          BY <3>2 DEF HandOn
      <4>2. sensorQ \in Seq(Samples) /\ storageQ \in Seq(Samples) /\ hand \in Samples \cup {None}
          BY DEF QueueTypes
      <4> QED BY ONLY <4>1, <4>2
    <3> QED BY <1>2, <3>1, <3>2 DEF Processing
  <2>3. QueueTypes'
      BY <2>1, <2>2 DEF QueueTypes
  <2>4. LoopTypes' /\ Parked'
      BY <2>1 DEF LoopTypes, Parked, taskVars
  <2>5. flush' \in BOOLEAN /\ today' \in Nat
      BY <2>1 DEF LogTypes
  <2> QED BY <2>1, <2>3, <2>4, <2>5, AsideBase
<1>3. CASE Ingest
  <2>1. UNCHANGED <<dlVars, taskVars, flush, waiter, today, tasks, loop, gate, measured, storageQ, sensorQ, hand>>
      BY <1>3 DEF Ingest, Quiet, Rest, askVars, envVars
  <2>2. QueueTypes' /\ LoopTypes' /\ Parked' /\ flush' \in BOOLEAN /\ today' \in Nat
      BY <2>1 DEF QueueTypes, LogTypes, LoopTypes, Parked, taskVars
  <2> QED BY <2>1, <2>2, AsideBase
<1> QED BY <1>1, <1>2, <1>3

\* A task that starts, ends or is stuck.
LEMMA LifeBase == ASSUME Base, NEW t \in Tasks, PassGate(t) \/ TaskEnds(t) \/ GetsStuck(t) PROVE Base'
<1> USE DEF Base, Types
<1>1. CASE PassGate(t)
  <2>1. /\ tasks[t] = "parked" /\ gate /\ UNCHANGED <<dlVars, storageQ, window, run, row, batch, flush, waiter, today>>
        /\ UNCHANGED <<sensorQ, hand, gate, loop, measured>>
      BY <1>1 DEF PassGate, askVars, envVars
  <2>2. ~(loop.at = "queues" \/ (loop.at = "tasks" /\ loop.k < 5))
      BY <2>1 DEF Parked
  <2>3. LoopTypes'
      BY <1>1, <2>1 DEF PassGate, Sets, LoopTypes
  <2>4. QueueTypes' /\ LogTypes'
      BY <2>1 DEF QueueTypes, LogTypes, dlVars, listVars, fileVars, Disk
  <2>5. CASE t = "storage"
    <3>1. st.pc = "none" /\ window = NoWindow /\ batch.rows = <<>> /\ row = NoRow
        BY <2>1, <2>5 DEF Parked, Stages, Rowing
    <3>2. st' = [st EXCEPT !.pc = IF running THEN "top" ELSE "gone", !.colsRev = rev] /\ rev' = rev
        BY <1>1, <2>1, <2>5 DEF PassGate, dlVars, listVars
    <3>3. st \in Task /\ rev \in Nat \ {0}
        BY DEF TaskTypes, LogTypes
    <3>4. st' \in Task /\ st'.pc \in {"top", "gone"} /\ st'.colsRev = rev /\ st'.writing = st.writing
        BY <3>2, <3>3 DEF Task, Pcs
    <3>5. TaskTypes'
        BY <2>1, <3>4 DEF TaskTypes
    <3>6. Parked'
        BY <1>1, <2>1, <2>2, <2>5 DEF Parked, PassGate, Sets, LoopTypes
    <3>7. Stages'
        BY <2>1, <3>1, <3>4 DEF Stages, Rowing
    <3>8. Summed'
        BY <2>1, <3>1, <3>2, <3>3, <3>4, NoWindowType DEF Summed
    <3> QED BY <2>3, <2>4, <3>5, <3>6, <3>7, <3>8
  <2>6. CASE t # "storage"
    <3>1. UNCHANGED taskVars /\ tasks'["storage"] = tasks["storage"]
        BY <1>1, <2>1, <2>6 DEF PassGate, Sets, taskVars, LoopTypes, Tasks
    <3>2. Parked'
        BY <2>1, <3>1 DEF Parked, taskVars
    <3> QED BY <2>1, <2>3, <2>4, <3>1, <3>2, AsideBase DEF LogTypes
  <2> QED BY <2>5, <2>6
<1>2. CASE TaskEnds(t) \/ GetsStuck(t)
  <2>1. /\ tasks[t] = "run" /\ (tasks' = [tasks EXCEPT ![t] = "gone"] \/ tasks' = [tasks EXCEPT ![t] = "stuck"])
        /\ UNCHANGED <<dlVars, storageQ, taskVars, flush, waiter, today>>
        /\ UNCHANGED <<sensorQ, hand, gate, loop, measured>>
      BY <1>2 DEF TaskEnds, GetsStuck, At, Sets, stVars, askVars, envVars
  <2>2. LoopTypes'
      BY <2>1 DEF LoopTypes
  <2>3. QueueTypes' /\ flush' \in BOOLEAN /\ today' \in Nat
      BY <2>1 DEF QueueTypes, LogTypes
  <2>4. Parked'
      BY <2>1 DEF Parked, taskVars, LoopTypes, Tasks
  <2> QED BY <2>1, <2>2, <2>3, <2>4, AsideBase
<1> QED BY <1>1, <1>2

\* The web task and the clock, whatever the storage task is at.
LEMMA WebBase == ASSUME Base, Webs PROVE Base'
<1> USE DEF Base, Types
<1>1. UNCHANGED <<sensorQ, hand, tasks, gate, loop, measured>>
    BY DEF Webs, plVars
<1>2. CASE datalogRequestFlush \/ Midnight
  <2>1. UNCHANGED <<dlVars, taskVars, storageQ, waiter>> /\ (flush' = flush \/ flush' = TRUE) /\ (today' = today \/ today' = today + 1)
      BY <1>2 DEF datalogRequestFlush, Midnight, askVars
  <2>2. flush' \in BOOLEAN /\ today' \in Nat
    <3>1. flush \in BOOLEAN /\ today \in Nat
        BY DEF LogTypes
    <3>2. today' \in Nat
        BY <2>1, <3>1
    <3>3. flush' \in BOOLEAN
        BY <2>1, <3>1, Zenon
    <3> QED BY <3>2, <3>3
  <2>3. QueueTypes' /\ LoopTypes' /\ Parked'
      BY <1>1, <2>1 DEF QueueTypes, LoopTypes, Parked, taskVars
  <2> QED BY <2>1, <2>2, <2>3, AsideBase
<1>3. CASE \E ok \in BOOLEAN : SaveList(ok)
  <2>1. PICK ok \in BOOLEAN : SaveList(ok)
      BY <1>3
  <2>2. UNCHANGED <<cols, auto, rev, setup, fileVars, taskVars, storageQ, flush, waiter, today>>
        /\ (colsFile' = colsFile \/ colsFile' = [cols |-> cols, auto |-> auto])
      BY <2>1 DEF SaveList, saveCols, askVars
  <2>3. colsFile' = None \/ colsFile' \in [cols : Seq(Col), auto : BOOLEAN]
      BY <2>2 DEF LogTypes, List
  <2>4. LogTypes'
      BY <2>2, <2>3 DEF LogTypes, fileVars, Disk
  <2>5. QueueTypes' /\ LoopTypes' /\ Parked' /\ TaskTypes' /\ Stages' /\ Summed'
    <3>1. TaskTypes' /\ Stages'
        BY <2>2 DEF taskVars, TaskTypes, Stages
    <3>2. QueueTypes' /\ LoopTypes' /\ Parked'
        BY <1>1, <2>2 DEF QueueTypes, LoopTypes, Parked, taskVars
    <3>3. Summed'
        BY <2>2 DEF taskVars, Summed, Agrees
    <3> QED BY <3>1, <3>2, <3>3
  <2> QED BY <2>4, <2>5
<1>4. CASE \E new \in Setups : SaveSetup(new)
  <2>1. PICK new \in Setups : SaveSetup(new)
      BY <1>4
  <2>2. UNCHANGED <<listVars, colsFile, fileVars, storageQ, window, batch, st, flush, waiter, today>> /\ setup' = new
        /\ row' = IF st.pc \in Rowing THEN [row EXCEPT !.mixed = TRUE] ELSE row
      BY <2>1 DEF SaveSetup, askVars
  <2>3. new \in Setup
      BY PipelineAssumption
  <2>4. LogTypes'
      BY <2>2, <2>3 DEF LogTypes, listVars, fileVars, Disk
  <2>5. TaskTypes'
    <3>1. row' \in OnWay
        BY <2>2 DEF TaskTypes, OnWay
    <3> QED BY <2>2, <3>1 DEF TaskTypes
  <2>6. Stages'
    <3>1. row'.head = row.head
        BY <2>2 DEF TaskTypes, OnWay
    <3>2. st.pc \notin Rowing => row' = row
        BY <2>2
    <3> QED BY <2>2, <3>1, <3>2 DEF Stages
  <2>7. QueueTypes' /\ LoopTypes' /\ Parked' /\ Summed'
      BY <1>1, <2>2 DEF QueueTypes, LoopTypes, Parked, Summed, Agrees, listVars
  <2> QED BY <2>4, <2>5, <2>6, <2>7
<1>5. CASE \E list \in Lists, keep \in BOOLEAN : TakeList(list, keep)
  <2>1. PICK list \in Lists, keep \in BOOLEAN : TakeList(list, keep)
      BY <1>5
  <2>2. /\ UNCHANGED <<colsFile, setup, fileVars, storageQ, taskVars, flush, waiter, today>>
        /\ cols' = parsed(list) /\ auto' = keep
        /\ rev' = IF numbering(parsed(list)) # numbering(cols) THEN rev + 1 ELSE rev
      BY <2>1 DEF TakeList, parseCols, askVars
  <2>3. list \in Seq(Col) /\ parsed(list) \in List /\ cols \in List /\ parsed(list) \in Seq(Col) /\ cols \in Seq(Col)
      BY PipelineAssumption, ParsedList DEF LogTypes, List
  <2>4. rev' \in Nat \ {0} /\ rev' >= rev
      BY <2>2 DEF LogTypes
  <2>5. LogTypes'
      BY <2>2, <2>3, <2>4 DEF LogTypes, fileVars, Disk
  <2>6. Summed'
    <3>1. st.colsRev \in Nat /\ rev \in Nat /\ st'.colsRev = st.colsRev /\ window' = window
        BY <2>2 DEF TaskTypes, LogTypes, Task, taskVars
    <3>2. rev' = rev => numbering(cols') = numbering(cols)
        BY <2>2, <3>1
    <3>3. rev' = rev => onCount(cols') = onCount(cols)
        BY <2>2, <2>3, <3>2, NumberingType
    <3>4. rev' = st'.colsRev => rev' = rev
        BY <2>4, <3>1 DEF Summed
    <3>5. st'.colsRev <= rev'
        BY <2>4, <3>1 DEF Summed
    <3> QED BY <3>1, <3>2, <3>3, <3>4, <3>5 DEF Summed, Agrees
  <2>7. QueueTypes' /\ LoopTypes' /\ Parked' /\ TaskTypes' /\ Stages'
    <3>1. TaskTypes' /\ Stages'
        BY <2>2 DEF taskVars, TaskTypes, Stages
    <3>2. QueueTypes' /\ LoopTypes' /\ Parked'
        BY <1>1, <2>2 DEF QueueTypes, LoopTypes, Parked, taskVars
    <3> QED BY <3>1, <3>2
  <2> QED BY <2>5, <2>6, <2>7
<1> QED BY <1>2, <1>3, <1>4, <1>5 DEF Webs

-----------------------------------------------------------------------------
(* The storage task's steps.                                               *)

\* What a step of it has to show.
LEMMA TaskBase ==
    ASSUME Base, At("storage"), UNCHANGED plVars, UNCHANGED waiter, storageQ' \in Seq(Samples),
           TaskTypes', LogTypes', Stages', Summed'
    PROVE  Base'
<1>1. QueueTypes' /\ LoopTypes' /\ Parked'
    BY DEF Base, Types, QueueTypes, LoopTypes, Parked, plVars, At
<1> QED BY <1>1 DEF Base, Types

\* And one that leaves the log alone.
LEMMA LogStays ==
    ASSUME Base, UNCHANGED <<dlVars, today>>, flush' \in BOOLEAN
    PROVE  LogTypes'
BY DEF Base, Types, LogTypes, dlVars, listVars, fileVars, Disk

\* Where the batch is written, and what comes after.
LEMMA AfterWrite ==
    ASSUME Base, st.pc \in Flushing, UNCHANGED <<window, row>>,
           st' \in Task, st'.then = st.then, st'.writing = st.writing, st'.req = st.req,
           \/ st'.pc = st.pc /\ batch' = batch
           \/ st'.pc = After(st.pc) /\ batch'.rows = <<>>
    PROVE  Stages'
<1> USE DEF Base, Types
<1>0. Stages /\ st \in Task
    BY DEF TaskTypes
<1>1. CASE st'.pc = st.pc /\ batch' = batch
    BY <1>0, <1>1 DEF Stages
<1>2. CASE st'.pc = After(st.pc) /\ batch'.rows = <<>>
  <2>1. CASE st.pc \in {"before", "room"}
    <3>1. st'.pc = "format"
        BY <1>2, <2>1 DEF After
    <3> QED BY <1>0, <1>2, <2>1, <3>1 DEF Stages, Rowing
  <2>2. CASE st.pc = "full"
    <3>1. st'.pc = Added
        BY <1>2, <2>2 DEF After
    <3>2. \/ st.then = "run" /\ st'.pc = "runflush"
          \/ st.then = "exit" /\ st'.pc = "exitflush"
          \/ st.then = "row" /\ st'.pc \in {"flush", "top"}
        BY <1>0, <2>2, <3>1 DEF Added, Answering, Stages, Task
    <3> QED BY <1>0, <1>2, <2>2, <3>2 DEF Stages, Rowing
  <2>3. CASE st.pc = "runflush"
    <3>1. st'.pc = "flag"
        BY <1>2, <2>3 DEF After
    <3> QED BY <1>0, <1>2, <2>3, <3>1 DEF Stages, Rowing
  <2>4. CASE st.pc \in {"flush", "exitflush"}
    <3>1. st'.pc \in {"answer", "last"}
        BY <1>2, <2>4 DEF After
    <3> QED BY <1>0, <1>2, <2>4, <3>1 DEF Stages, Rowing
  <2> QED BY <2>1, <2>2, <2>3, <2>4 DEF Flushing
<1> QED BY <1>1, <1>2

\* What comes after is a place of the task.
LEMMA AfterIsPlace ==
    ASSUME st \in Task, st.pc \in Flushing, Stages
    PROVE  After(st.pc) \in Pcs
<1>1. CASE st.pc = "full"
    BY <1>1 DEF After, Added, Answering, Pcs, Flushing
<1>2. CASE st.pc # "full"
    BY <1>2 DEF After, Pcs, Flushing, Rowing
<1> QED BY <1>1, <1>2

\* What is combined is a row's values.
LEMMA CombinedType == ASSUME Base PROVE Combined \in Seq(Cell) /\ Len(Combined) = onCount(cols)
<1>1. cols \in Seq(Col) /\ onCount(cols) <= MaxCols /\ MaxCols \in Nat /\ window \in [1..MaxCols -> SUBSET Samples]
    BY DatalogAssumption DEF Base, Types, LogTypes, TaskTypes, List
<1>2. onCount(cols) \in Nat
    BY <1>1, OnUpToFinite DEF onCount
<1>3. numbering(cols) \in Seq(Label) /\ Len(numbering(cols)) = onCount(cols)
    BY <1>1, NumberingType
<1>4. \A i \in 1..onCount(cols) : numbering(cols)[i] \in Label
    BY <1>3
<1>5. \A i \in 1..onCount(cols) : numbering(cols)[i].agg \in Modes /\ window[i] \in SUBSET Samples
    BY <1>1, <1>2, <1>4 DEF Label
<1>6. \A i \in 1..onCount(cols) : [of |-> window[i], agg |-> numbering(cols)[i].agg] \in Cell
    BY <1>5 DEF Cell
<1>7. Combined \in [1..onCount(cols) -> Cell]
    BY <1>6 DEF Combined
<1> QED BY <1>2, <1>7

\* The window becomes a row, or is dropped.
LEMMA TakeBase ==
    ASSUME Base, st.pc \notin Rowing, NEW then \in {"row", "exit"}, NEW none \in {"flush", "top", "exitflush"},
           TakeWindow(then, none), UNCHANGED <<dlVars, batch>>
    PROVE  TaskTypes' /\ Stages' /\ Summed'
<1>1. st \in Task /\ row = NoRow /\ st.colsRev <= rev /\ row \in OnWay /\ today \in Nat
    BY DEF Base, Types, TaskTypes, LogTypes, Stages, Summed
<1>2. window' = NoWindow /\ rev' = rev /\ batch' = batch
    BY DEF TakeWindow, dlVars, listVars
<1>3. \/ st'.pc = "header" /\ st'.then = then /\ row' = [day |-> today, vals |-> Combined, wantRev |-> st.colsRev, head |-> None, mixed |-> FALSE]
      \/ st'.pc = none /\ st'.then = st.then /\ row' = row
  <2>1. CASE InWindow # {} /\ setup.csv
      BY <1>1, <2>1 DEF TakeWindow, Task
  <2>2. CASE ~(InWindow # {} /\ setup.csv)
      BY <1>1, <2>2 DEF TakeWindow, Task
  <2> QED BY <2>1, <2>2
<1>4. st' \in Task /\ st'.colsRev = st.colsRev /\ st'.writing = st.writing
  <2>1. st' = [st EXCEPT !.pc = "header", !.then = then] \/ st' = [st EXCEPT !.pc = none]
      BY DEF TakeWindow
  <2>2. {"header", "flush", "top", "exitflush"} \subseteq Pcs
      BY DEF Pcs, Rowing, Flushing
  <2>3. CASE st' = [st EXCEPT !.pc = "header", !.then = then]
      BY <1>1, <2>2, <2>3 DEF Task
  <2>4. CASE st' = [st EXCEPT !.pc = none]
      BY <1>1, <2>2, <2>4 DEF Task
  <2> QED BY <2>1, <2>3, <2>4
<1>5. row' \in OnWay
  <2>1. Combined \in Seq(Cell)
      BY CombinedType
  <2>2. st.colsRev \in Nat
      BY <1>1 DEF Task
  <2>3. CASE row' = row
      BY <1>1, <2>3
  <2>4. CASE row' = [day |-> today, vals |-> Combined, wantRev |-> st.colsRev, head |-> None, mixed |-> FALSE]
      BY <1>1, <2>1, <2>2, <2>4 DEF OnWay
  <2> QED BY <1>3, <2>3, <2>4
<1>6. TaskTypes'
    BY <1>2, <1>4, <1>5, NoWindowType DEF Base, Types, TaskTypes
<1>7. batch.rows # <<>> => batch.head \in Heads
    BY DEF Base, Stages
<1>8. Stages'
    BY <1>1, <1>2, <1>3, <1>4, <1>7 DEF Stages, Rowing
<1>9. Summed'
    BY <1>1, <1>2, <1>4, NoWindowType DEF Summed
<1> QED BY <1>6, <1>8, <1>9

\* A reading that is taken off the queue is of its column's metric.
LEMMA ReceiveBase == ASSUME Base, At("storage"), UNCHANGED plVars, Receive PROVE Base'
<1> DEFINE r    == Head(storageQ)
           list == IF st.writing THEN Learn(cols, auto, r.m) ELSE cols
           c    == IF st.writing THEN ColumnOf(list, r.m) ELSE 0
<1>1. /\ st.pc = "drain" /\ storageQ # <<>> /\ cols' = list
      /\ window' = window \/ (c # 0 /\ window' = [window EXCEPT ![c] = @ \cup {r}])
      /\ storageQ' = Tail(storageQ) /\ st' = [st EXCEPT !.k = @ + 1]
      /\ UNCHANGED <<auto, rev, colsFile, setup, fileVars, row, batch, flush, waiter, today>>
    BY DEF Receive, askVars, envVars
<1>2. /\ storageQ \in Seq(Samples) /\ cols \in List /\ st \in Task /\ window \in [1..MaxCols -> SUBSET Samples]
      /\ LogTypes /\ TaskTypes /\ Stages /\ Summed
    BY DEF Base, Types, QueueTypes, LogTypes, TaskTypes
<1>3. r \in Samples /\ r.m \in Metrics /\ storageQ' \in Seq(Samples)
  <2>1. r \in Samples /\ storageQ' \in Seq(Samples)
      BY <1>1, <1>2
  <2> QED BY <2>1, SampleType
<1> HIDE DEF r
<1>4. /\ list \in List /\ onCount(cols) <= onCount(list)
      /\ \A k \in 1..onCount(cols) : numbering(list)[k] = numbering(cols)[k]
  <2>1. onCount(cols) \in Nat
      BY <1>2, OnUpToFinite DEF onCount, List
  <2> QED BY <1>2, <1>3, <2>1, LearnKeeps
<1> HIDE DEF list
<1>5. c \in 0..onCount(list) /\ (c # 0 => st.writing /\ numbering(list)[c].m = r.m)
  <2>1. list \in Seq(Col) /\ onCount(list) \in Nat
      BY <1>4, OnUpToFinite DEF onCount, List
  <2> QED BY <2>1, ColumnOfMetric
<1>6. onCount(list) \in Nat /\ onCount(list) <= MaxCols /\ MaxCols \in Nat /\ onCount(cols) \in Nat
    BY <1>2, <1>4, OnUpToFinite, DatalogAssumption DEF onCount, List
<1> HIDE DEF c
<1>7. c # 0 => c \in 1..MaxCols
    BY <1>5, <1>6
<1>8. st' \in Task /\ st'.pc = "drain" /\ st'.writing = st.writing /\ st'.colsRev = st.colsRev
    BY <1>1, <1>2 DEF Task
<1>9. window' \in [1..MaxCols -> SUBSET Samples] /\ (c = 0 => window' = window)
      /\ \A k \in 1..MaxCols : \A x \in window'[k] : x \in window[k] \/ (k = c /\ x = r)
    BY <1>1, <1>2, <1>3, <1>7
<1>10. TaskTypes'
    BY <1>1, <1>2, <1>8, <1>9 DEF TaskTypes
<1>11. LogTypes'
    BY <1>1, <1>2, <1>4 DEF LogTypes, fileVars, Disk
<1>12. Stages'
  <2>1. ~st.writing => window' = window
      BY <1>5, <1>9
  <2> QED BY <1>1, <1>2, <1>8, <2>1 DEF Stages, Rowing
<1>13. Summed'
  <2>1. st'.colsRev <= rev'
      BY <1>1, <1>2, <1>8 DEF Summed
  <2>2. ASSUME rev' = st'.colsRev, NEW k \in 1..MaxCols, NEW x \in window'[k] PROVE Agrees(k, x)'
    <3>1. CASE x \in window[k]
      <4>1. k <= onCount(cols) /\ numbering(cols)[k].m = x.m
          BY <1>1, <1>2, <1>8, <2>2, <3>1 DEF Summed, Agrees
      <4>2. k <= onCount(list) /\ numbering(list)[k].m = x.m
          BY <1>4, <1>6, <4>1
      <4> QED BY <1>1, <4>2 DEF Agrees
    <3>2. CASE k = c /\ x = r
        BY <1>1, <1>5, <1>6, <3>2 DEF Agrees
    <3> QED BY <1>9, <3>1, <3>2
  <2> QED BY <2>1, <2>2 DEF Summed
<1> QED BY <1>1, <1>3, <1>10, <1>11, <1>12, <1>13, TaskBase

\* A pass of the loop up to its window.
LEMMA PassBase ==
    ASSUME Base, At("storage"), UNCHANGED plVars,
           Refresh \/ (\E c \in BOOLEAN : Drained(c)) \/ ReadFlag \/ (\E d \in BOOLEAN : CloseWindow(d))
    PROVE  Base'
<1>0. /\ LogTypes /\ TaskTypes /\ Stages /\ Summed /\ st \in Task /\ flush \in BOOLEAN
      /\ storageQ \in Seq(Samples) /\ today \in Nat /\ setup.csv \in BOOLEAN /\ rev \in Nat \ {0}
    BY DEF Base, Types, QueueTypes, LogTypes, TaskTypes, Setup
<1>a. /\ UNCHANGED <<dlVars, storageQ, batch, flush, waiter, today>> /\ rev' = rev /\ cols' = cols
      /\ st.pc \in {"top", "drain", "flag", "window"}
    BY DEF Refresh, Drained, ReadFlag, CloseWindow, askVars, envVars, dlVars, listVars
<1>b. LogTypes' /\ storageQ' \in Seq(Samples) /\ UNCHANGED waiter
    BY <1>0, <1>a, LogStays
<1>c. row = NoRow /\ st.pc \notin Rowing /\ (batch.rows # <<>> => batch.head \in Heads)
    BY <1>0, <1>a DEF Stages, Rowing
<1>1. CASE Refresh
  <2>1. st' = [st EXCEPT !.pc = "drain", !.writing = setup.csv, !.k = 0] /\ row' = row
        /\ window' = IF setup.csv # st.writing THEN NoWindow ELSE window
      BY <1>1 DEF Refresh
  <2>2. st' \in Task /\ st'.pc = "drain" /\ st'.writing = setup.csv /\ st'.colsRev = st.colsRev
    <3> DEFINE b == [st EXCEPT !.pc = "drain", !.k = 0]
    <3>1. b \in Task /\ b.pc = "drain" /\ b.colsRev = st.colsRev
      <4>1. st \in Task /\ "drain" \in Pcs /\ 0 \in Int
          BY <1>0 DEF Pcs
      <4> QED BY ONLY <4>1 DEF Task
    <3>2. st' = [b EXCEPT !.writing = setup.csv]
        BY <2>1
    <3> HIDE DEF b
    <3>3. CASE setup.csv = TRUE
        BY <3>1, <3>2, <3>3 DEF Task
    <3>4. CASE setup.csv = FALSE
        BY <3>1, <3>2, <3>4 DEF Task
    <3> QED BY <1>0, <3>3, <3>4
  <2>3. TaskTypes'
      BY <1>0, <1>a, <2>1, <2>2, NoWindowType DEF TaskTypes
  <2>4. Stages'
      BY <1>0, <1>a, <1>c, <2>1, <2>2 DEF Stages, Rowing
  <2>5. Summed'
      BY <1>0, <1>a, <2>1, <2>2, NoWindowType DEF Summed, Agrees
  <2> QED BY <1>b, <2>3, <2>4, <2>5, TaskBase
<1>2. CASE \E c \in BOOLEAN : Drained(c)
  <2>1. /\ window' = window
        /\ \/ st' = [st EXCEPT !.pc = "header", !.then = "run"] /\ row' = [NoRow EXCEPT !.day = today]
           \/ st' = [st EXCEPT !.pc = "flag"] /\ row' = row
      BY <1>2 DEF Drained
  <2>2. /\ st' \in Task /\ st'.writing = st.writing /\ st'.colsRev = st.colsRev
        /\ (st'.pc = "header" /\ st'.then = "run") \/ (st'.pc = "flag" /\ row' = row)
    <3>1. {"header", "flag"} \subseteq Pcs
        BY DEF Pcs, Rowing
    <3>2. CASE st' = [st EXCEPT !.pc = "header", !.then = "run"]
        BY <1>0, <3>1, <3>2 DEF Task
    <3>3. CASE st' = [st EXCEPT !.pc = "flag"] /\ row' = row
        BY <1>0, <3>1, <3>3 DEF Task
    <3> QED BY <2>1, <3>2, <3>3
  <2>3. row' \in OnWay
    <3>1. row \in OnWay
        BY <1>0 DEF TaskTypes
    <3>2. NoRow \in OnWay
        BY DEF NoRow, OnWay
    <3>3. [NoRow EXCEPT !.day = today] \in OnWay
        BY <1>0, <3>2 DEF OnWay
    <3> QED BY <2>1, <3>1, <3>3
  <2>4. TaskTypes'
      BY <1>0, <1>a, <2>1, <2>2, <2>3 DEF TaskTypes
  <2>5. Stages'
      BY <1>0, <1>a, <1>c, <2>1, <2>2 DEF Stages, Rowing
  <2>6. Summed'
      BY <1>0, <1>a, <2>1, <2>2 DEF Summed, Agrees
  <2> QED BY <1>b, <2>4, <2>5, <2>6, TaskBase
<1>3. CASE ReadFlag
  <2>1. st' = [st EXCEPT !.pc = "window", !.req = flush] /\ window' = window /\ row' = row
      BY <1>3 DEF ReadFlag
  <2>2. st' \in Task /\ st'.pc = "window" /\ st'.writing = st.writing /\ st'.colsRev = st.colsRev
      BY <1>0, <2>1 DEF Task, Pcs
  <2>3. TaskTypes'
      BY <1>0, <1>a, <2>1, <2>2 DEF TaskTypes
  <2>4. Stages'
      BY <1>0, <1>a, <1>c, <2>1, <2>2 DEF Stages, Rowing
  <2>5. Summed'
      BY <1>0, <1>a, <2>1, <2>2 DEF Summed, Agrees
  <2> QED BY <1>b, <2>3, <2>4, <2>5, TaskBase
<1>4. CASE \E d \in BOOLEAN : CloseWindow(d)
  <2>1. PICK due \in BOOLEAN : CloseWindow(due)
      BY <1>4
  <2>2. Answering \in {"flush", "top"} /\ Answering \in Pcs /\ (Answering = "flush" => st.req)
      BY DEF Answering, Pcs, Flushing
  <2>3. CASE rev # st.colsRev
    <3>1. window' = NoWindow /\ row' = row /\ st' = [st EXCEPT !.pc = Answering, !.colsRev = rev, !.then = "answer"]
        BY <2>1, <2>3 DEF CloseWindow
    <3>2. st' \in Task /\ st'.pc = Answering /\ st'.writing = st.writing /\ st'.colsRev = rev
        BY <1>0, <2>2, <3>1 DEF Task
    <3>3. TaskTypes'
        BY <1>0, <1>a, <3>1, <3>2, NoWindowType DEF TaskTypes
    <3>4. Stages'
        BY <1>0, <1>a, <1>c, <2>2, <3>1, <3>2 DEF Stages, Rowing
    <3>5. Summed'
        BY <1>0, <1>a, <3>1, <3>2, NoWindowType DEF Summed, Agrees
    <3> QED BY <1>b, <3>3, <3>4, <3>5, TaskBase
  <2>4. CASE rev = st.colsRev /\ st.writing /\ (due \/ st.req)
    <3>1. TakeWindow("row", Answering)
        BY <2>1, <2>4 DEF CloseWindow
    <3>2. TaskTypes' /\ Stages' /\ Summed'
        BY <1>a, <1>c, <2>2, <3>1, TakeBase
    <3> QED BY <1>b, <3>2, TaskBase
  <2>5. CASE rev = st.colsRev /\ ~(st.writing /\ (due \/ st.req))
    <3>1. window' = window /\ row' = row /\ st' = [st EXCEPT !.pc = Answering, !.then = "answer"]
        BY <2>1, <2>5 DEF CloseWindow
    <3>2. st' \in Task /\ st'.pc = Answering /\ st'.writing = st.writing /\ st'.colsRev = st.colsRev
        BY <1>0, <2>2, <3>1 DEF Task
    <3>3. TaskTypes'
        BY <1>0, <1>a, <3>1, <3>2 DEF TaskTypes
    <3>6. Answering = "flush" => window = NoWindow
        BY <1>0, <2>2, <2>5 DEF Stages
    <3>4. Stages'
        BY <1>0, <1>a, <1>c, <2>2, <3>1, <3>2, <3>6 DEF Stages, Rowing
    <3>5. Summed'
        BY <1>0, <1>a, <3>1, <3>2 DEF Summed, Agrees
    <3> QED BY <1>b, <3>3, <3>4, <3>5, TaskBase
  <2> QED BY <2>3, <2>4, <2>5
<1> QED BY <1>1, <1>2, <1>3, <1>4

\* Where the row goes when it is dealt with.
LEMMA AddedIsPlace ==
    ASSUME st \in Task, Stages, st.pc \in Rowing \cup {"full"}
    PROVE  /\ Added \in {"runflush", "exitflush", "flush", "top"} /\ Added \in Pcs
           /\ Added \in {"exitflush", "flush"} => window = NoWindow
<1>1. \/ st.then = "run" /\ Added = "runflush"
      \/ st.then = "exit" /\ Added = "exitflush"
      \/ st.then = "row" /\ Added \in {"flush", "top"}
    BY DEF Added, Answering, Stages, Task
<1>2. st.then # "run" => window = NoWindow
    BY DEF Stages
<1>3. Added \in Pcs
    BY <1>1 DEF Pcs, Flushing
<1> QED BY <1>1, <1>2, <1>3

\* The header of any moment is one.
LEMMA HeaderType == ASSUME Base PROVE datalogHeader \in Heads
<1>1. setup.layout \in Layouts /\ cols \in Seq(Col)
    BY DEF Base, Types, LogTypes, Setup, List
<1>2. (IF setup.csv THEN numbering(cols) ELSE <<>>) \in Seq(Label)
    BY <1>1, NumberingType
<1> QED BY <1>1, <1>2 DEF datalogHeader, Heads

\* A row on its way into the batch.
LEMMA RowBase ==
    ASSUME Base, At("storage"), UNCHANGED plVars, ReadHeader \/ NoRoom \/ AddRow
    PROVE  Base'
<1>0. /\ LogTypes /\ TaskTypes /\ Stages /\ Summed /\ st \in Task /\ flush \in BOOLEAN
      /\ storageQ \in Seq(Samples) /\ row \in OnWay
      /\ batch \in [rows : Seq(Row), head : Heads \cup {None}, first : Nat, day : Nat]
    BY DEF Base, Types, QueueTypes, LogTypes, TaskTypes
<1>a. /\ UNCHANGED <<dlVars, storageQ, window, flush, waiter, today>> /\ rev' = rev /\ cols' = cols
      /\ st.pc \in {"header", "format"}
    BY DEF ReadHeader, NoRoom, AddRow, askVars, envVars, dlVars, listVars
<1>b. LogTypes' /\ storageQ' \in Seq(Samples) /\ UNCHANGED waiter
    BY <1>0, <1>a, LogStays
<1>c. st.pc \in Rowing
    BY <1>a DEF Rowing
<1>d. /\ Added \in {"runflush", "exitflush", "flush", "top"} /\ Added \in Pcs
      /\ Added \in {"exitflush", "flush"} => window = NoWindow
    BY <1>0, <1>c, AddedIsPlace
<1>e. ASSUME NEW pc \in Pcs, st' = [st EXCEPT !.pc = pc]
      PROVE  st' \in Task /\ st'.pc = pc /\ st'.then = st.then /\ st'.writing = st.writing /\ st'.colsRev = st.colsRev
    BY <1>0, <1>e DEF Task
<1>f. st'.colsRev = st.colsRev => Summed'
    BY <1>0, <1>a DEF Summed, Agrees
<1>g. {"before", "format", "room", "full"} \subseteq Pcs
    BY DEF Pcs, Rowing, Flushing
<1>1. CASE ReadHeader /\ OtherList(row.wantRev)
  <2>1. row' = NoRow /\ batch' = batch /\ st' = [st EXCEPT !.pc = Added]
      BY <1>1 DEF ReadHeader, Goes
  <2>2. NoRow \in OnWay
      BY DEF NoRow, OnWay
  <2>3. st' \in Task /\ st'.pc = Added /\ st'.then = st.then /\ st'.writing = st.writing /\ st'.colsRev = st.colsRev
      BY <1>d, <1>e, <2>1
  <2>4. TaskTypes'
      BY <1>0, <1>a, <2>1, <2>2, <2>3 DEF TaskTypes
  <2>5. Stages'
      BY <1>0, <1>a, <1>d, <2>1, <2>3 DEF Stages, Rowing
  <2> QED BY <1>b, <1>f, <2>3, <2>4, <2>5, TaskBase
<1>2. CASE ReadHeader /\ ~OtherList(row.wantRev)
  <2> DEFINE pc == IF batch.rows # <<>> /\ (datalogHeader # batch.head \/ ~SamePeriod(batch.first, row.day)) THEN "before" ELSE "format"
  <2>1. row' = [row EXCEPT !.head = datalogHeader] /\ batch' = batch /\ st' = [st EXCEPT !.pc = pc] /\ st.pc = "header"
      BY <1>2 DEF ReadHeader, Goes
  <2>p. pc \in {"before", "format"}
      OBVIOUS
  <2> HIDE DEF pc
  <2>2. row' \in OnWay /\ row'.head \in Heads
      BY <1>0, <2>1, HeaderType DEF OnWay
  <2>3. st' \in Task /\ st'.pc = pc /\ st'.then = st.then /\ st'.writing = st.writing /\ st'.colsRev = st.colsRev
      BY <1>e, <1>g, <2>1, <2>p
  <2>4. TaskTypes'
      BY <1>0, <1>a, <2>1, <2>2, <2>3 DEF TaskTypes
  <2>5. Stages'
      BY <1>0, <1>a, <1>d, <2>1, <2>2, <2>3, <2>p DEF Stages, Rowing
  <2> QED BY <1>b, <1>f, <2>3, <2>4, <2>5, TaskBase
<1>3. CASE NoRoom
  <2>1. row' = row /\ batch' = batch /\ st' = [st EXCEPT !.pc = "room"] /\ st.pc = "format"
      BY <1>3 DEF NoRoom, Goes
  <2>3. st' \in Task /\ st'.pc = "room" /\ st'.then = st.then /\ st'.writing = st.writing /\ st'.colsRev = st.colsRev
      BY <1>e, <1>g, <2>1
  <2>4. TaskTypes'
      BY <1>0, <1>a, <2>1, <2>3 DEF TaskTypes
  <2>5. Stages'
      BY <1>0, <1>a, <1>d, <2>1, <2>3 DEF Stages, Rowing
  <2> QED BY <1>b, <1>f, <2>3, <2>4, <2>5, TaskBase
<1>4. CASE AddRow
  <2> DEFINE pc == IF Len(batch.rows) + 1 >= BatchRows THEN "full" ELSE Added
             new == [layout |-> setup.layout, vals |-> row.vals, day |-> row.day, mixed |-> row.mixed]
  <2>1. /\ row' = NoRow /\ st' = [st EXCEPT !.pc = pc] /\ st.pc = "format"
        /\ batch' = [rows |-> Append(batch.rows, new),
                     head |-> IF batch.rows = <<>> THEN row.head ELSE batch.head,
                     first |-> IF batch.rows = <<>> THEN row.day ELSE batch.first, day |-> row.day]
      BY <1>4 DEF AddRow, Goes
  <2>p. pc \in {"full", Added}
      OBVIOUS
  <2>n. new \in Row
      BY <1>0 DEF Row, OnWay, LogTypes, Setup
  <2> HIDE DEF pc, new
  <2>2. NoRow \in OnWay
      BY DEF NoRow, OnWay
  <2>3. st' \in Task /\ st'.pc = pc /\ st'.then = st.then /\ st'.writing = st.writing /\ st'.colsRev = st.colsRev
      BY <1>d, <1>e, <1>g, <2>1, <2>p
  <2>6. batch'.head \in Heads
      BY <1>0, <2>1 DEF Stages
  <2>7. batch' \in [rows : Seq(Row), head : Heads \cup {None}, first : Nat, day : Nat]
    <3>1. Append(batch.rows, new) \in Seq(Row) /\ row.day \in Nat /\ batch.first \in Nat
        BY <1>0, <2>n DEF OnWay
    <3>2. (IF batch.rows = <<>> THEN row.head ELSE batch.head) \in Heads \cup {None}
        BY <2>1, <2>6
    <3> QED BY <2>1, <3>1, <3>2
  <2>4. TaskTypes'
      BY <1>0, <1>a, <2>1, <2>2, <2>3, <2>7 DEF TaskTypes
  <2>5. Stages'
      BY <1>0, <1>a, <1>d, <2>1, <2>3, <2>6, <2>p DEF Stages, Rowing
  <2> QED BY <1>b, <1>f, <2>3, <2>4, <2>5, TaskBase
<1> QED BY <1>1, <1>2, <1>3, <1>4

\* Where the batch is after a write that was not also for the mirror.
LEMMA WrittenIs ==
    ASSUME Base, st.pc \in Flushing, NEW fs, Written(fs)
    PROVE  /\ st' \in Task /\ st'.then = st.then /\ st'.writing = st.writing /\ st'.req = st.req /\ st'.colsRev = st.colsRev
           /\ \/ st'.pc = st.pc /\ batch' = batch /\ st'.mirror /\ setup.mirror /\ fs = Main
              \/ st'.pc = After(st.pc) /\ batch' = [batch EXCEPT !.rows = <<>>] /\ ~st'.mirror
<1>1. st \in Task /\ After(st.pc) \in Pcs
    BY AfterIsPlace DEF Base, Types, TaskTypes
<1>2. \/ batch' = [batch EXCEPT !.rows = <<>>] /\ st' = [st EXCEPT !.pc = After(st.pc), !.mirror = FALSE]
      \/ batch' = batch /\ st' = [st EXCEPT !.mirror = TRUE] /\ setup.mirror /\ fs = Main
    BY DEF Written
<1> QED BY ONLY <1>1, <1>2 DEF Task

\* The write of the batch.
LEMMA FlushBase ==
    ASSUME Base, At("storage"), UNCHANGED plVars,
           NothingToFlush \/ FlushMisses \/ (\E how \in Ends, saves \in BOOLEAN : FlushMain(how, saves))
           \/ (\E how \in Ends : FlushMirror(how))
    PROVE  Base'
<1>0. /\ LogTypes /\ TaskTypes /\ Stages /\ Summed /\ st \in Task /\ flush \in BOOLEAN
      /\ storageQ \in Seq(Samples) /\ row \in OnWay
      /\ batch \in [rows : Seq(Row), head : Heads \cup {None}, first : Nat, day : Nat]
    BY DEF Base, Types, QueueTypes, LogTypes, TaskTypes
<1>a. /\ UNCHANGED <<cols, auto, rev, setup, storageQ, window, row, flush, waiter, today>>
      /\ st.pc \in Flushing
    BY DEF NothingToFlush, FlushMisses, FlushMain, FlushMirror, askVars, envVars, dlVars, listVars
<1>b. storageQ' \in Seq(Samples) /\ UNCHANGED waiter
    BY <1>0, <1>a
<1>c. After(st.pc) \in Pcs
    BY <1>0, <1>a, AfterIsPlace
<1>1. /\ st' \in Task /\ st'.then = st.then /\ st'.writing = st.writing /\ st'.req = st.req /\ st'.colsRev = st.colsRev
      /\ \/ st'.pc = st.pc /\ batch' = batch
         \/ st'.pc = After(st.pc) /\ (batch' = [batch EXCEPT !.rows = <<>>] \/ (batch' = batch /\ batch.rows = <<>>))
  <2>1. CASE NothingToFlush
    <3>1. st' = [st EXCEPT !.pc = After(st.pc)] /\ batch' = batch /\ batch.rows = <<>>
        BY <2>1 DEF NothingToFlush, Goes
    <3> QED BY <1>0, <1>c, <3>1 DEF Task
  <2>2. CASE ~NothingToFlush
    <3>1. \E fs \in Filesystems \cup {CHOOSE f \in Filesystems : f # Main, Main} : Written(fs)
        BY <2>2 DEF FlushMisses, FlushMain, FlushMirror
    <3> QED BY <1>a, <3>1, WrittenIs
  <2> QED BY <2>1, <2>2
<1>2. batch' \in [rows : Seq(Row), head : Heads \cup {None}, first : Nat, day : Nat]
      /\ ((st'.pc = st.pc /\ batch' = batch) \/ (st'.pc = After(st.pc) /\ batch'.rows = <<>>))
  <2>1. CASE batch' = batch
      BY <1>0, <1>1, <2>1
  <2>2. CASE batch' = [batch EXCEPT !.rows = <<>>] /\ st'.pc = After(st.pc)
    <3>1. <<>> \in Seq(Row)
        OBVIOUS
    <3>2. batch' \in [rows : Seq(Row), head : Heads \cup {None}, first : Nat, day : Nat] /\ batch'.rows = <<>>
        BY ONLY <1>0, <2>2, <3>1
    <3> QED BY <2>2, <3>2
  <2> QED BY <1>1, <2>1, <2>2
<1>3. TaskTypes'
    BY <1>0, <1>1, <1>2, <1>a DEF TaskTypes
<1>4. Stages'
    BY <1>1, <1>2, <1>a, AfterWrite
<1>5. Summed'
    BY <1>0, <1>1, <1>a DEF Summed, Agrees
<1>6. LogTypes'
  <2>1. CASE NothingToFlush \/ FlushMisses
    <3>1. UNCHANGED <<dlVars, today>>
        BY <1>a, <2>1 DEF NothingToFlush, FlushMisses
    <3> QED BY <1>0, <1>a, <3>1, LogStays
  <2>2. ASSUME NEW fs \in Filesystems, NEW how \in Ends, batch.rows # <<>>,
               SetDisk(datalogAppend(fs, Disk, batch.head, batch.rows, batch.day, today, how).disk)
        PROVE  Disk' \in Discs
    <3> DEFINE d == datalogAppend(fs, Disk, batch.head, batch.rows, batch.day, today, how).disk
    <3>1. d \in Discs
      <4>1. batch.head \in Heads /\ batch.rows \in Seq(Row) /\ today \in Nat /\ Disk \in Discs
          BY <1>0, <2>2 DEF Stages, LogTypes
      <4> QED BY <2>2, <4>1, AppendKeeps
    <3>2. files' = d.files /\ past' = d.past /\ counts' = d.counts
        BY <2>2 DEF SetDisk
    <3> HIDE DEF d
    <3> QED BY <3>1, <3>2 DEF Disk, Discs
  <2>3. CASE \E how \in Ends, saves \in BOOLEAN : FlushMain(how, saves)
    <3>1. PICK how \in Ends, saves \in BOOLEAN : FlushMain(how, saves)
        BY <2>3
    <3>2. Main \in Filesystems /\ batch.rows # <<>>
          /\ SetDisk(datalogAppend(Main, Disk, batch.head, batch.rows, batch.day, today, how).disk)
        BY <3>1, StorageAssumption DEF FlushMain
    <3>3. colsFile' = colsFile \/ colsFile' = [cols |-> cols, auto |-> auto]
        BY <3>1 DEF FlushMain, saveCols
    <3>4. colsFile' = None \/ colsFile' \in [cols : Seq(Col), auto : BOOLEAN]
        BY <1>0, <3>3 DEF LogTypes, List
    <3>5. Disk' \in Discs
        BY <2>2, <3>2
    <3> QED BY <1>0, <1>a, <3>4, <3>5 DEF LogTypes
  <2>4. CASE \E how \in Ends : FlushMirror(how)
    <3>1. PICK how \in Ends : FlushMirror(how)
        BY <2>4
    <3> DEFINE fs == CHOOSE f \in Filesystems : f # Main
    <3>2. fs \in Filesystems /\ batch.rows # <<>>
          /\ SetDisk(datalogAppend(fs, Disk, batch.head, batch.rows, batch.day, today, how).disk)
        BY <3>1, StorageAssumption DEF FlushMirror
    <3>3. colsFile' = colsFile
        BY <3>1 DEF FlushMirror
    <3> HIDE DEF fs
    <3>5. Disk' \in Discs
        BY <2>2, <3>2
    <3> QED BY <1>0, <1>a, <3>3, <3>5 DEF LogTypes
  <2> QED BY <2>1, <2>3, <2>4
<1> QED BY <1>b, <1>3, <1>4, <1>5, <1>6, TaskBase

\* The answer to a flush, and the end of the loop.
LEMMA LeaveBase ==
    ASSUME Base, At("storage"), UNCHANGED plVars, FlushDone \/ Leave(running) \/ LastDone
    PROVE  Base'
<1>0. /\ LogTypes /\ TaskTypes /\ Stages /\ Summed /\ st \in Task /\ flush \in BOOLEAN /\ storageQ \in Seq(Samples)
    BY DEF Base, Types, QueueTypes, LogTypes, TaskTypes
<1>a. /\ UNCHANGED <<dlVars, storageQ, batch, waiter, today>> /\ rev' = rev /\ cols' = cols
      /\ st.pc \in {"answer", "top", "last"} /\ (flush' = flush \/ flush' = FALSE)
    BY DEF FlushDone, Answers, Leave, LastDone, askVars, envVars, dlVars, listVars
<1>b. flush' \in BOOLEAN
    BY <1>0, <1>a, Zenon
<1>c. LogTypes' /\ storageQ' \in Seq(Samples) /\ UNCHANGED waiter
    BY <1>0, <1>a, <1>b, LogStays
<1>d. row = NoRow /\ st.pc \notin Rowing /\ (batch.rows # <<>> => batch.head \in Heads)
    BY <1>0, <1>a DEF Stages, Rowing
<1>1. CASE FlushDone \/ LastDone \/ (Leave(running) /\ ~(st.writing /\ rev = st.colsRev))
  <2>1. row' = row /\ (window' = window \/ window' = NoWindow)
        /\ \/ st' = [st EXCEPT !.pc = "top"] \/ st' = [st EXCEPT !.pc = "gone"]
           \/ st' = [st EXCEPT !.pc = "exitflush"] /\ window' = NoWindow
      BY <1>1 DEF FlushDone, Answers, LastDone, Leave, Goes
  <2>2. st' \in Task /\ st'.pc \in {"top", "gone", "exitflush"} /\ st'.writing = st.writing /\ st'.colsRev = st.colsRev
        /\ (st'.pc = "exitflush" => window' = NoWindow)
      BY <1>0, <2>1 DEF Task, Pcs, Flushing
  <2>3. TaskTypes'
      BY <1>0, <1>a, <2>1, <2>2, NoWindowType DEF TaskTypes
  <2>4. Stages'
      BY <1>0, <1>a, <1>d, <2>1, <2>2 DEF Stages, Rowing
  <2>5. Summed'
      BY <1>0, <1>a, <2>1, <2>2, NoWindowType DEF Summed, Agrees
  <2> QED BY <1>c, <2>3, <2>4, <2>5, TaskBase
<1>2. CASE Leave(running) /\ st.writing /\ rev = st.colsRev
  <2>1. TakeWindow("exit", "exitflush")
      BY <1>2 DEF Leave
  <2>2. TaskTypes' /\ Stages' /\ Summed'
      BY <1>a, <1>d, <2>1, TakeBase
  <2> QED BY <1>c, <2>2, TaskBase
<1> QED BY <1>1, <1>2

\* The invariant's first part is kept by every step.
LEMMA BaseNext == ASSUME Base, [PipelineNext]_allVars PROVE Base'
<1>1. CASE Starting
    BY <1>1, StartBase
<1>2. CASE Ending \/ RequestRestart \/ SleepBegins
    BY <1>2, EndBase
<1>3. CASE Boot
    BY <1>3, BootBase
<1>4. CASE Sensing \/ Processing \/ Ingest
    BY <1>4, MoveBase
<1>5. CASE Storage
  <2>1. At("storage") /\ UNCHANGED plVars
      BY <1>5 DEF Storage
  <2>2. CASE Receive
      BY <2>1, <2>2, ReceiveBase
  <2>3. CASE Refresh \/ (\E c \in BOOLEAN : Drained(c)) \/ ReadFlag \/ (\E d \in BOOLEAN : CloseWindow(d))
      BY <2>1, <2>3, PassBase
  <2>4. CASE ReadHeader \/ NoRoom \/ AddRow
      BY <2>1, <2>4, RowBase
  <2>5. CASE NothingToFlush \/ FlushMisses \/ (\E how \in Ends, saves \in BOOLEAN : FlushMain(how, saves))
             \/ (\E how \in Ends : FlushMirror(how))
      BY <2>1, <2>5, FlushBase
  <2>6. CASE FlushDone \/ Leave(running) \/ LastDone
      BY <2>1, <2>6, LeaveBase
  <2> QED BY <1>5, <2>2, <2>3, <2>4, <2>5, <2>6 DEF Storage, StorageStep
<1>6. CASE \E t \in Tasks : PassGate(t) \/ TaskEnds(t) \/ GetsStuck(t)
    BY <1>6, LifeBase
<1>7. CASE Webs
    BY <1>7, WebBase
<1>8. CASE UNCHANGED allVars
  <2>1. UNCHANGED <<dlVars, taskVars>> /\ UNCHANGED <<storageQ, flush, waiter, today>>
        /\ UNCHANGED <<sensorQ, hand, tasks, gate, loop, measured>>
      BY <1>8 DEF allVars, stVars, plVars, askVars, envVars
  <2>2. QueueTypes' /\ LoopTypes' /\ Parked'
      BY <2>1 DEF Base, Types, QueueTypes, LoopTypes, Parked, taskVars
  <2>3. flush' \in BOOLEAN /\ today' \in Nat
      BY <2>1 DEF Base, Types, LogTypes
  <2> QED BY <2>1, <2>2, <2>3, AsideBase
<1> QED BY <1>1, <1>2, <1>3, <1>4, <1>5, <1>6, <1>7, <1>8 DEF PipelineNext

-----------------------------------------------------------------------------
(* What the task holds, step by step.                                      *)

\* What a step adds to what the task holds: nothing it holds is dropped
\* uncounted, and no good reading that it takes.
Moves(new) ==
    /\ TaskHolds' \subseteq TaskHolds \cup new
    /\ TaskHolds \subseteq TaskHolds' \cup ended'
    /\ \A x \in new : x.good => x \in TaskHolds' \cup ended'
    /\ ended \subseteq ended'

\* A row more is its readings more.
LEMMA OfAppended ==
    ASSUME NEW rows \in Seq(Row), NEW r \in Row
    PROVE  OfRows(Append(rows, r)) = OfRows(rows) \cup OfVals(r.vals)
<1> DEFINE new == Append(rows, r)
<1>1. /\ DOMAIN new = DOMAIN rows \cup {Len(rows) + 1} /\ new[Len(rows) + 1] = r
      /\ \A i \in DOMAIN rows : new[i] = rows[i]
    OBVIOUS
<1> HIDE DEF new
<1>2. OfRows(new) = OfRows(rows) \cup OfVals(r.vals)
    BY <1>1 DEF OfRows
<1> QED BY <1>2 DEF new

\* No row, no readings.
LEMMA OfNothing == OfRows(<<>>) = {} /\ OfVals(<<>>) = {} /\ OfVals(NoRow.vals) = {}
BY DEF OfRows, OfVals, NoRow

\* A row of the window has the readings of the logged columns, which are all
\* as long as the list was not replaced.
LEMMA CombinedHolds ==
    ASSUME Base
    PROVE  OfVals(Combined) \subseteq InWindow /\ (rev = st.colsRev => OfVals(Combined) = InWindow)
<1>1. DOMAIN Combined = 1..onCount(cols) /\ \A i \in 1..onCount(cols) : Combined[i].of = window[i]
    BY DEF Combined
<1>2. onCount(cols) \in Nat /\ onCount(cols) <= MaxCols /\ MaxCols \in Nat
    BY OnUpToFinite, DatalogAssumption DEF Base, Types, LogTypes, List, onCount
<1>3. \A i \in 1..onCount(cols) : i \in 1..MaxCols
    BY <1>2
<1>4. OfVals(Combined) = UNION {window[i] : i \in 1..onCount(cols)}
    BY <1>1 DEF OfVals
<1>5. OfVals(Combined) \subseteq InWindow
    BY <1>3, <1>4 DEF InWindow
<1>6. ASSUME rev = st.colsRev, NEW c \in 1..MaxCols, NEW x \in window[c] PROVE x \in OfVals(Combined)
  <2>1. c <= onCount(cols)
      BY <1>6 DEF Base, Summed, Agrees
  <2>2. c \in 1..onCount(cols)
      BY <1>2, <2>1
  <2> QED BY <1>4, <2>2
<1>7. rev = st.colsRev => InWindow \subseteq OfVals(Combined)
    BY <1>6 DEF InWindow
<1> QED BY <1>5, <1>7

\* A window that is taken is the row, or counted.
LEMMA TakeHolds ==
    ASSUME Base, row = NoRow, rev = st.colsRev, NEW then, NEW none, TakeWindow(then, none), batch' = batch
    PROVE  Moves({})
<1>1. window' = NoWindow /\ InWindow' = {}
    BY DEF TakeWindow, InWindow, NoWindow
<1>2. OfRows(batch'.rows) = OfRows(batch.rows) /\ OfVals(row.vals) = {}
    BY OfNothing
<1>3. TaskHolds = InWindow \cup OfRows(batch.rows)
    BY <1>2 DEF TaskHolds
<1>4. CASE InWindow # {} /\ setup.csv
  <2>1. row'.vals = Combined /\ ended' = ended
      BY <1>4 DEF TakeWindow
  <2>2. OfVals(row'.vals) = InWindow
      BY <2>1, CombinedHolds
  <2>3. TaskHolds' = InWindow \cup OfRows(batch.rows)
      BY <1>1, <1>2, <2>2 DEF TaskHolds
  <2> QED BY <1>3, <2>1, <2>3 DEF Moves
<1>5. CASE ~(InWindow # {} /\ setup.csv)
  <2>1. row' = row /\ ended' = ended \cup InWindow
      BY <1>5 DEF TakeWindow
  <2>2. TaskHolds' = OfRows(batch.rows)
      BY <1>1, <1>2, <2>1 DEF TaskHolds
  <2> QED BY <1>3, <2>1, <2>2 DEF Moves
<1> QED BY <1>4, <1>5

\* A reading is taken off the queue.
LEMMA ReceiveHolds ==
    ASSUME Base, Receive
    PROVE  Moves({Head(storageQ)})
<1> DEFINE r    == Head(storageQ)
           list == IF st.writing THEN Learn(cols, auto, r.m) ELSE cols
           c    == IF st.writing THEN ColumnOf(list, r.m) ELSE 0
<1>1. /\ window' = IF c # 0 /\ r.good THEN [window EXCEPT ![c] = @ \cup {r}] ELSE window
      /\ ended' = IF c = 0 THEN ended \cup {r} ELSE ended
      /\ row' = row /\ batch' = batch /\ storageQ # <<>>
    BY DEF Receive, Feeds
<1>2. c \in 0..MaxCols
  <2>1. /\ storageQ \in Seq(Samples) /\ cols \in List
      BY DEF Base, Types, QueueTypes, LogTypes
  <2>2. r \in Samples
      BY <1>1, <2>1
  <2>3. r.m \in Metrics
      BY <2>2, SampleType
  <2>4. list \in List
      BY <2>1, <2>3, LearnKeeps
  <2>5. list \in Seq(Col) /\ onCount(list) \in Nat /\ onCount(list) <= MaxCols /\ MaxCols \in Nat
    <3> HIDE DEF list
    <3>1. list \in Seq(Col) /\ onCount(list) <= MaxCols
        BY <2>4 DEF List
    <3>2. onCount(list) \in Nat
        BY <3>1, OnUpToFinite DEF onCount
    <3> QED BY <3>1, <3>2, DatalogAssumption
  <2>6. ColumnOf(list, r.m) \in 0..onCount(list)
      BY <2>5, ColumnOfMetric
  <2> HIDE DEF list, r
  <2> QED BY <2>5, <2>6
<1> HIDE DEF c, list, r
<1>3. TaskHolds = InWindow \cup OfVals(row.vals) \cup OfRows(batch.rows)
      /\ TaskHolds' = InWindow' \cup OfVals(row.vals) \cup OfRows(batch.rows)
    BY <1>1 DEF TaskHolds
<1>4. CASE c = 0
  <2>1. InWindow' = InWindow /\ ended' = ended \cup {r}
      BY <1>1, <1>4 DEF InWindow
  <2> QED BY <1>3, <2>1 DEF Moves, r
<1>5. CASE c # 0 /\ r.good
  <2>1. c \in 1..MaxCols
      BY <1>2, <1>5, DatalogAssumption
  <2>2. window \in [1..MaxCols -> SUBSET Samples]
      BY DEF Base, Types, TaskTypes
  <2>3. window' = [window EXCEPT ![c] = window[c] \cup {r}] /\ ended' = ended
      BY <1>1, <1>5
  <2>4. InWindow' = InWindow \cup {r}
      BY <2>1, <2>2, <2>3 DEF InWindow
  <2> QED BY <1>3, <2>3, <2>4 DEF Moves, r
<1>6. CASE c # 0 /\ ~r.good
  <2>1. InWindow' = InWindow /\ ended' = ended
      BY <1>1, <1>6 DEF InWindow
  <2> QED BY <1>3, <1>6, <2>1 DEF Moves, r
<1> QED BY <1>4, <1>5, <1>6

\* The steps of a pass, but for the queue and the write.
LEMMA PassHolds ==
    ASSUME Base,
           \/ Refresh \/ (\E c \in BOOLEAN : Drained(c)) \/ ReadFlag \/ (\E d \in BOOLEAN : CloseWindow(d))
           \/ ReadHeader \/ NoRoom \/ AddRow \/ NothingToFlush \/ FlushDone \/ Leave(running) \/ LastDone
    PROVE  Moves({})
<1>0. st.pc \notin Rowing => row = NoRow
    BY DEF Base, Stages
<1>a. TaskHolds = InWindow \cup OfVals(row.vals) \cup OfRows(batch.rows)
      /\ TaskHolds' = InWindow' \cup OfVals(row'.vals) \cup OfRows(batch'.rows)
    BY DEF TaskHolds
<1>b. window' = NoWindow => InWindow' = {}
    BY DEF InWindow, NoWindow
<1>c. window' = window => InWindow' = InWindow
    BY DEF InWindow
<1>1. CASE Refresh
  <2>1. /\ row' = row /\ batch' = batch
        /\ (window' = window /\ ended' = ended) \/ (window' = NoWindow /\ ended' = ended \cup InWindow)
      BY <1>1 DEF Refresh
  <2> QED BY <1>a, <1>b, <1>c, <2>1 DEF Moves
<1>2. CASE \E c \in BOOLEAN : Drained(c)
  <2>1. /\ window' = window /\ batch' = batch /\ ended' = ended /\ st.pc = "drain"
        /\ row' = row \/ row' = [NoRow EXCEPT !.day = today]
      BY <1>2 DEF Drained
  <2>2. row = NoRow
      BY <1>0, <2>1 DEF Rowing
  <2>3. OfVals(row'.vals) = {} /\ OfVals(row.vals) = {}
      BY <2>1, <2>2, OfNothing DEF NoRow
  <2> QED BY <1>a, <1>c, <2>1, <2>3 DEF Moves
<1>3. CASE ReadFlag \/ NoRoom \/ NothingToFlush \/ FlushDone \/ LastDone
  <2>1. UNCHANGED <<window, row, batch, ended>>
      BY <1>3 DEF ReadFlag, NoRoom, NothingToFlush, FlushDone, LastDone
  <2> QED BY <1>a, <1>c, <2>1 DEF Moves
<1>4. CASE \E d \in BOOLEAN : CloseWindow(d)
  <2>1. PICK due \in BOOLEAN : CloseWindow(due)
      BY <1>4
  <2>2. batch' = batch /\ row = NoRow
    <3>1. st.pc = "window" /\ batch' = batch
        BY <2>1 DEF CloseWindow
    <3> QED BY <1>0, <3>1 DEF Rowing
  <2>3. CASE rev = st.colsRev /\ st.writing /\ (due \/ st.req)
    <3>1. TakeWindow("row", Answering)
        BY <2>1, <2>3 DEF CloseWindow
    <3> QED BY <2>2, <2>3, <3>1, TakeHolds
  <2>4. CASE ~(rev = st.colsRev /\ st.writing /\ (due \/ st.req))
    <3>1. row' = row /\ \/ window' = window /\ ended' = ended
                        \/ window' = NoWindow /\ ended' = ended \cup InWindow
        BY <2>1, <2>4 DEF CloseWindow
    <3> QED BY <1>a, <1>b, <1>c, <2>2, <3>1 DEF Moves
  <2> QED BY <2>3, <2>4
<1>5. CASE ReadHeader
  <2>1. /\ window' = window /\ batch' = batch
        /\ \/ row' = NoRow /\ ended' = ended \cup OfVals(row.vals)
           \/ row' = [row EXCEPT !.head = datalogHeader] /\ ended' = ended
      BY <1>5 DEF ReadHeader
  <2>2. row \in OnWay
      BY DEF Base, Types, TaskTypes
  <2>3. CASE row' = NoRow /\ ended' = ended \cup OfVals(row.vals)
      BY <1>a, <1>c, <2>1, <2>3, OfNothing DEF Moves
  <2>4. CASE row' = [row EXCEPT !.head = datalogHeader] /\ ended' = ended
    <3>1. row'.vals = row.vals
        BY <2>2, <2>4 DEF OnWay
    <3> QED BY <1>a, <1>c, <2>1, <2>4, <3>1 DEF Moves
  <2> QED BY <2>1, <2>3, <2>4
<1>6. CASE AddRow
  <2> DEFINE new == [layout |-> setup.layout, vals |-> row.vals, day |-> row.day, mixed |-> row.mixed]
  <2>1. window' = window /\ row' = NoRow /\ ended' = ended /\ batch'.rows = Append(batch.rows, new)
      BY <1>6 DEF AddRow
  <2>2. new \in Row /\ batch.rows \in Seq(Row)
      BY DEF Base, Types, TaskTypes, Row, OnWay, LogTypes, Setup
  <2>3. OfRows(batch'.rows) = OfRows(batch.rows) \cup OfVals(row.vals)
      BY <2>1, <2>2, OfAppended
  <2>4. OfVals(row'.vals) = {}
      BY <2>1, OfNothing
  <2> QED BY <1>a, <1>c, <2>1, <2>3, <2>4 DEF Moves
<1>7. CASE Leave(running)
  <2>1. batch' = batch /\ row = NoRow
    <3>1. st.pc = "top" /\ batch' = batch
        BY <1>7 DEF Leave
    <3> QED BY <1>0, <3>1 DEF Rowing
  <2>2. CASE st.writing /\ rev = st.colsRev
    <3>1. TakeWindow("exit", "exitflush")
        BY <1>7, <2>2 DEF Leave
    <3> QED BY <2>1, <2>2, <3>1, TakeHolds
  <2>3. CASE ~(st.writing /\ rev = st.colsRev)
    <3>1. row' = row /\ window' = NoWindow /\ ended' = ended \cup InWindow
        BY <1>7, <2>3 DEF Leave
    <3> QED BY <1>a, <1>b, <2>1, <3>1 DEF Moves
  <2> QED BY <2>2, <2>3
<1> QED BY <1>1, <1>2, <1>3, <1>4, <1>5, <1>6, <1>7

\* A write takes nothing in.
LEMMA FlushHolds ==
    ASSUME Base, FlushMisses \/ (\E how \in Ends, saves \in BOOLEAN : FlushMain(how, saves))
           \/ (\E how \in Ends : FlushMirror(how))
    PROVE  TaskHolds' \subseteq TaskHolds
<1>1. st.pc \in Flushing /\ UNCHANGED <<window, row>>
    BY DEF FlushMisses, FlushMain, FlushMirror
<1>2. \E fs \in Filesystems \cup {CHOOSE f \in Filesystems : f # Main, Main} : Written(fs)
    BY DEF FlushMisses, FlushMain, FlushMirror
<1>3. batch' = batch \/ batch' = [batch EXCEPT !.rows = <<>>]
    BY <1>1, <1>2, WrittenIs
<1>4. OfRows(batch'.rows) \subseteq OfRows(batch.rows)
  <2>1. batch \in [rows : Seq(Row), head : Heads \cup {None}, first : Nat, day : Nat]
      BY DEF Base, Types, TaskTypes
  <2>2. batch'.rows = batch.rows \/ batch'.rows = <<>>
      BY <1>3, <2>1
  <2> QED BY <2>2, OfNothing
<1> QED BY <1>1, <1>4 DEF TaskHolds, InWindow

-----------------------------------------------------------------------------
(* A flush covers what the task held.                                      *)

\* One is taken off a queue.
LEMMA TailSet ==
    ASSUME NEW q \in Seq(Samples), q # <<>>
    PROVE  ToSet(q) = ToSet(Tail(q)) \cup {Head(q)} /\ Head(q) \in Samples /\ Tail(q) \in Seq(Samples)
<1>1. PICK n \in Nat : n = Len(q)
    OBVIOUS
<1>2. n > 0 /\ DOMAIN q = 1..n /\ Head(q) = q[1] /\ Head(q) \in Samples /\ Tail(q) \in Seq(Samples)
    BY <1>1
<1> DEFINE t == Tail(q)
<1>3. DOMAIN t = 1..(n - 1) /\ \A i \in 1..(n - 1) : t[i] = q[i + 1]
    BY <1>1
<1> HIDE DEF t
<1>4. \A i \in 1..(n - 1) : i + 1 \in 1..n
    BY <1>2
<1>5. ToSet(t) \cup {Head(q)} \subseteq ToSet(q)
  <2>1. 1 \in 1..n
      BY <1>2
  <2> QED BY <1>2, <1>3, <1>4, <2>1 DEF ToSet
<1>6. ASSUME NEW i \in 1..n PROVE q[i] \in ToSet(t) \cup {Head(q)}
  <2>1. CASE i = 1
      BY <1>2, <2>1
  <2>2. CASE i # 1
    <3>1. i - 1 \in 1..(n - 1) /\ i - 1 + 1 = i
        BY <2>2
    <3>2. t[i - 1] = q[i]
        BY <1>3, <3>1
    <3> QED BY <1>3, <3>1, <3>2 DEF ToSet
  <2> QED BY <2>1, <2>2
<1>7. ToSet(q) = ToSet(t) \cup {Head(q)}
    BY <1>2, <1>5, <1>6 DEF ToSet
<1> QED BY <1>2, <1>7 DEF t

\* One joins a queue.
LEMMA AppendSet ==
    ASSUME NEW q \in Seq(Samples), NEW x \in Samples
    PROVE  ToSet(Append(q, x)) = ToSet(q) \cup {x}
<1>1. PICK n \in Nat : n = Len(q)
    OBVIOUS
<1> DEFINE a == Append(q, x)
<1>2. DOMAIN q = 1..n /\ DOMAIN a = 1..(n + 1) /\ a[n + 1] = x /\ \A i \in 1..n : a[i] = q[i]
    BY <1>1
<1> HIDE DEF a
<1>3. 1..(n + 1) = 1..n \cup {n + 1}
    OBVIOUS
<1>4. ToSet(a) = ToSet(q) \cup {x}
    BY <1>2, <1>3 DEF ToSet
<1> QED BY <1>4 DEF a

\* One that is taken off a queue is before those that stay.
LEMMA QueueTail ==
    ASSUME NEW q \in Seq(Samples), q # <<>>, Ascending(q)
    PROVE  /\ Ascending(Tail(q)) /\ ToSet(q) = ToSet(Tail(q)) \cup {Head(q)}
           /\ Before({Head(q)}, ToSet(Tail(q)))
<1>1. PICK n \in Nat : n = Len(q)
    OBVIOUS
<1>2. n > 0 /\ DOMAIN q = 1..n /\ Head(q) = q[1]
    BY <1>1
<1> DEFINE t == Tail(q)
<1>3. DOMAIN t = 1..(n - 1) /\ \A i \in 1..(n - 1) : t[i] = q[i + 1]
    BY <1>1
<1> HIDE DEF t
<1>4. \A i \in 1..(n - 1) : i + 1 \in 1..n /\ 1 < i + 1
    BY <1>2
<1>5. ASSUME NEW i \in 1..(n - 1), NEW j \in 1..(n - 1), i < j PROVE t[i].n < t[j].n
  <2>1. i + 1 < j + 1
      BY <1>5
  <2> QED BY <1>2, <1>3, <1>4, <2>1 DEF Ascending
<1>6. ASSUME NEW i \in 1..(n - 1) PROVE q[1].n < t[i].n
  <2>1. 1 \in 1..n
      BY <1>2
  <2> QED BY <1>2, <1>3, <1>4, <2>1 DEF Ascending
<1>7. Ascending(t) /\ Before({Head(q)}, ToSet(t))
    BY <1>2, <1>3, <1>5, <1>6 DEF Ascending, Before, ToSet
<1> QED BY <1>7, TailSet DEF t

\* One that joins a queue is behind those that are there.
LEMMA QueueAppend ==
    ASSUME NEW q \in Seq(Samples), NEW x \in Samples, Ascending(q), Before(ToSet(q), {x})
    PROVE  Ascending(Append(q, x)) /\ ToSet(Append(q, x)) = ToSet(q) \cup {x}
<1>1. PICK n \in Nat : n = Len(q)
    OBVIOUS
<1> DEFINE a == Append(q, x)
<1>2. DOMAIN q = 1..n /\ DOMAIN a = 1..(n + 1) /\ a[n + 1] = x /\ \A i \in 1..n : a[i] = q[i]
    BY <1>1
<1> HIDE DEF a
<1>3. ASSUME NEW i \in 1..(n + 1), NEW j \in 1..(n + 1), i < j PROVE a[i].n < a[j].n
  <2>1. i \in 1..n /\ (j \in 1..n \/ j = n + 1)
      BY <1>3
  <2>2. CASE j = n + 1
      BY <1>2, <2>1, <2>2 DEF Before, ToSet
  <2>3. CASE j \in 1..n
      BY <1>2, <1>3, <2>1, <2>3 DEF Ascending
  <2> QED BY <2>1, <2>2, <2>3
<1> QED BY <1>2, <1>3, AppendSet DEF Ascending, a

\* Where the queues stay as they are and the task takes nothing in.
LEMMA OrderedStays ==
    ASSUME Ordered, UNCHANGED <<storageQ, sensorQ, hand, measured>>,
           TaskHolds' \cup waiter'.owes \subseteq TaskHolds \cup waiter.owes
    PROVE  Ordered'
<1>1. Waiting' = Waiting /\ InHand' = InHand
    BY DEF Waiting, InHand
<1> QED BY <1>1 DEF Ordered, Before, Ascending

\* A step that is none of the five below leaves the queues as they are.
LEMMA Elsewhere ==
    ASSUME Base, [PipelineNext]_allVars, ~Sensing, ~Processing, ~Boot, ~(Storage /\ Receive)
    PROVE  /\ UNCHANGED <<storageQ, sensorQ, hand, measured>> /\ TaskHolds' \subseteq TaskHolds
           /\ \/ UNCHANGED <<waiter, flush>>
              \/ RestartAsks \/ RestartWaits
              \/ waiter' = waiter /\ flush' = TRUE
              \/ waiter' = waiter /\ flush' = FALSE /\ st.pc \in {"answer", "last"}
<1>1. ASSUME UNCHANGED taskVars PROVE TaskHolds' = TaskHolds
    BY <1>1 DEF taskVars, TaskHolds, InWindow
<1>2. CASE Starting
    BY <1>1, <1>2 DEF Starting, MakeQueues, CreateTask, InitDone, stVars, askVars
<1>3. CASE RestartAsks \/ RestartWaits
  <2>1. UNCHANGED <<taskVars, storageQ, sensorQ, hand, measured>>
      BY <1>3 DEF RestartAsks, RestartWaits, AskAndWait, WaitEnds, WaitTimesOut, plVars
  <2> QED BY <1>1, <1>3, <2>1
<1>4. CASE CheckHealth \/ Restarts \/ (\E x \in BOOLEAN : DrainEnds(x) \/ WaitTask(x)) \/ Sleeps \/ RequestRestart \/ SleepBegins
  <2>1. UNCHANGED <<taskVars, storageQ, sensorQ, hand, measured, waiter, flush>>
    <3>1. CASE CheckHealth \/ Restarts \/ (\E x \in BOOLEAN : DrainEnds(x)) \/ Sleeps
        BY <3>1 DEF CheckHealth, Restarts, DrainEnds, Sleeps, stVars, askVars
    <3>2. CASE (\E x \in BOOLEAN : WaitTask(x)) \/ RequestRestart \/ SleepBegins
        BY <3>2 DEF WaitTask, RequestRestart, SleepBegins, askVars
    <3> QED BY <1>4, <3>1, <3>2
  <2> QED BY <1>1, <2>1
<1>5. CASE Ingest
    BY <1>1, <1>5 DEF Ingest, Quiet, Rest, askVars
<1>6. CASE Storage
  <2>1. UNCHANGED <<sensorQ, hand, measured>>
      BY <1>6 DEF Storage, plVars
  <2>2. CASE FlushDone \/ LastDone
    <3>1. st.pc \in {"answer", "last"} /\ flush' = FALSE /\ UNCHANGED <<storageQ, waiter>>
        BY <2>2 DEF FlushDone, Answers, LastDone
    <3>2. TaskHolds' \subseteq TaskHolds
        BY <2>2, PassHolds DEF Moves
    <3> QED BY <2>1, <3>1, <3>2
  <2>3. CASE \/ Refresh \/ (\E c \in BOOLEAN : Drained(c)) \/ ReadFlag \/ (\E d \in BOOLEAN : CloseWindow(d))
             \/ ReadHeader \/ NoRoom \/ AddRow \/ NothingToFlush \/ Leave(running)
    <3>1. UNCHANGED <<storageQ, waiter, flush>>
        BY <2>3 DEF Refresh, Drained, ReadFlag, CloseWindow, ReadHeader, NoRoom, AddRow, NothingToFlush, Leave, askVars
    <3>2. TaskHolds' \subseteq TaskHolds
        BY <2>3, PassHolds DEF Moves
    <3> QED BY <2>1, <3>1, <3>2
  <2>4. CASE FlushMisses \/ (\E how \in Ends, saves \in BOOLEAN : FlushMain(how, saves)) \/ (\E how \in Ends : FlushMirror(how))
    <3>1. UNCHANGED <<storageQ, waiter, flush>>
        BY <2>4 DEF FlushMisses, FlushMain, FlushMirror, askVars
    <3> QED BY <2>1, <2>4, <3>1, FlushHolds
  <2> QED BY <1>6, <2>2, <2>3, <2>4 DEF Storage, StorageStep
<1>7. CASE \E t \in Tasks : PassGate(t) \/ TaskEnds(t) \/ GetsStuck(t)
  <2>1. UNCHANGED <<window, row, batch, storageQ, sensorQ, hand, measured, waiter, flush>>
      BY <1>7 DEF PassGate, TaskEnds, GetsStuck, stVars, taskVars, askVars
  <2> QED BY <2>1 DEF TaskHolds, InWindow
<1>8. CASE Webs
  <2>1. UNCHANGED <<sensorQ, hand, measured>>
      BY <1>8 DEF Webs, plVars
  <2>2. CASE \/ \E list \in Lists, keep \in BOOLEAN : TakeList(list, keep)
             \/ \E ok \in BOOLEAN : SaveList(ok)
             \/ Midnight
      BY <1>1, <2>1, <2>2 DEF TakeList, SaveList, Midnight, askVars
  <2>3. CASE datalogRequestFlush
      BY <1>1, <2>1, <2>3 DEF datalogRequestFlush
  <2>4. CASE \E new \in Setups : SaveSetup(new)
    <3>1. UNCHANGED <<window, batch, storageQ, waiter, flush>> /\ (row' = row \/ row' = [row EXCEPT !.mixed = TRUE])
        BY <2>4 DEF SaveSetup, askVars
    <3>2. row'.vals = row.vals
        BY <3>1 DEF Base, Types, TaskTypes, OnWay
    <3> QED BY <2>1, <3>1, <3>2 DEF TaskHolds, InWindow
  <2> QED BY <1>8, <2>2, <2>3, <2>4 DEF Webs
<1>9. CASE UNCHANGED allVars
    BY <1>1, <1>9 DEF allVars, stVars, plVars, askVars
<1> QED BY <1>2, <1>3, <1>4, <1>5, <1>6, <1>7, <1>8, <1>9 DEF PipelineNext, Ending

\* Readings stay in their order.
LEMMA OrderedNext == ASSUME Base, Base', Ordered, [PipelineNext]_allVars PROVE Ordered'
<1> USE DEF Base, Types
<1>0. /\ storageQ \in Seq(Samples) /\ sensorQ \in Seq(Samples) /\ hand \in Samples \cup {None} /\ None \notin Samples
      /\ measured \in SUBSET Samples /\ IsFiniteSet(measured)
    BY SampleType DEF QueueTypes
<1>1. CASE Sensing
  <2>1. PICK t \in {"sensor", "slow"}, i \in DOMAIN Readings : Measure(t, Readings[i])
      BY <1>1 DEF Sensing
  <2> DEFINE r == Readings[i]
  <2>2. r \in Samples
      BY DEF Samples
  <2>3. /\ r.n = Cardinality(measured) + 1 /\ measured' = measured \cup {r}
        /\ sensorQ' = Append(sensorQ, r) \/ sensorQ' = sensorQ
        /\ UNCHANGED <<storageQ, hand, waiter, taskVars>>
      BY <2>1 DEF Measure, Quiet, askVars
  <2> HIDE DEF r
  <2>c. Cardinality(measured) \in Nat /\ \A x \in measured : x.n \in Nat /\ x.n <= Cardinality(measured)
      BY <1>0, FS_CardinalityType, SampleType DEF Ordered
  <2>4. r \notin measured /\ Before(measured, {r})
      BY <2>3, <2>c DEF Before
  <2>5. Cardinality(measured') = Cardinality(measured) + 1
      BY <1>0, <2>3, <2>4, FS_AddElement
  <2>6. \A x \in measured' : x.n <= Cardinality(measured')
      BY <2>3, <2>5, <2>c
  <2>7. Before(ToSet(sensorQ), {r})
      BY <2>4 DEF Before, Ordered, Waiting
  <2>8. Ascending(sensorQ') /\ ToSet(sensorQ') \subseteq ToSet(sensorQ) \cup {r}
      BY <1>0, <2>2, <2>3, <2>7, QueueAppend DEF Ordered
  <2>9. InHand' = InHand /\ TaskHolds' = TaskHolds
      BY <2>3 DEF InHand, TaskHolds, InWindow, taskVars
  <2>10. Waiting' \subseteq Waiting \cup {r}
      BY <2>3, <2>8, <2>9 DEF Waiting
  <2>11. Ascending(storageQ') /\ Waiting' \cup TaskHolds' \cup waiter'.owes \subseteq measured'
      BY <2>3, <2>9, <2>10 DEF Ordered, Ascending
  <2>12. Before(ToSet(storageQ'), InHand' \cup ToSet(sensorQ')) /\ Before(InHand', ToSet(sensorQ'))
         /\ Before(TaskHolds' \cup waiter'.owes, Waiting')
      BY <2>3, <2>4, <2>8, <2>9, <2>10 DEF Ordered, Before, Waiting
  <2> QED BY <2>6, <2>8, <2>11, <2>12 DEF Ordered
<1>2. CASE TakeReading
  <2>1. /\ hand = None /\ sensorQ # <<>> /\ hand' = Head(sensorQ) /\ sensorQ' = Tail(sensorQ)
        /\ UNCHANGED <<storageQ, measured, waiter, taskVars>>
      BY <1>2 DEF TakeReading, Quiet, Rest, askVars
  <2>2. /\ Ascending(sensorQ') /\ ToSet(sensorQ) = ToSet(sensorQ') \cup {hand'} /\ Before({hand'}, ToSet(sensorQ'))
      BY <1>0, <2>1, QueueTail DEF Ordered
  <2>3. InHand' \subseteq {hand'} /\ InHand = {} /\ TaskHolds' = TaskHolds
      BY <2>1 DEF InHand, TaskHolds, InWindow, taskVars
  <2>4. InHand' \cup ToSet(sensorQ') \subseteq ToSet(sensorQ) /\ Waiting' \subseteq Waiting
      BY <2>1, <2>2, <2>3 DEF Waiting
  <2>5. Ascending(storageQ') /\ Waiting' \cup TaskHolds' \cup waiter'.owes \subseteq measured'
      BY <2>1, <2>3, <2>4 DEF Ordered, Ascending
  <2>6. Before(ToSet(storageQ'), InHand' \cup ToSet(sensorQ')) /\ Before(InHand', ToSet(sensorQ'))
        /\ Before(TaskHolds' \cup waiter'.owes, Waiting')
      BY <2>1, <2>2, <2>3, <2>4 DEF Ordered, Before
  <2>7. \A x \in measured' : x.n <= Cardinality(measured')
      BY <2>1 DEF Ordered
  <2> QED BY <2>2, <2>5, <2>6, <2>7 DEF Ordered
<1>3. CASE HandOn
  <2>1. /\ hand # None /\ hand' = None /\ (storageQ' = storageQ \/ storageQ' = Append(storageQ, hand))
        /\ UNCHANGED <<sensorQ, measured, waiter, taskVars>>
      BY <1>3 DEF HandOn, Quiet, Rest, askVars
  <2>2. InHand = {hand} /\ hand \in Samples /\ InHand' = {} /\ TaskHolds' = TaskHolds
      BY <1>0, <2>1 DEF InHand, TaskHolds, InWindow, taskVars
  <2>3. Before(ToSet(storageQ), {hand})
      BY <2>2 DEF Ordered, Before
  <2>4. Ascending(storageQ') /\ ToSet(storageQ') \subseteq ToSet(storageQ) \cup {hand}
      BY <1>0, <2>1, <2>2, <2>3, QueueAppend DEF Ordered
  <2>5. Waiting' \subseteq Waiting
      BY <2>1, <2>2, <2>4 DEF Waiting
  <2>6. Ascending(sensorQ') /\ Waiting' \cup TaskHolds' \cup waiter'.owes \subseteq measured'
      BY <2>1, <2>2, <2>5 DEF Ordered, Ascending
  <2>7. Before(ToSet(storageQ'), InHand' \cup ToSet(sensorQ')) /\ Before(InHand', ToSet(sensorQ'))
        /\ Before(TaskHolds' \cup waiter'.owes, Waiting')
      BY <2>1, <2>2, <2>4, <2>5 DEF Ordered, Before
  <2>8. \A x \in measured' : x.n <= Cardinality(measured')
      BY <2>1 DEF Ordered
  <2> QED BY <2>4, <2>6, <2>7, <2>8 DEF Ordered
<1>4. CASE Boot
  <2>1. /\ storageQ' = <<>> /\ window' = NoWindow /\ row' = NoRow /\ batch' = NoBatch /\ waiter' = [at |-> "idle", owes |-> {}]
        /\ sensorQ' = <<>> /\ hand' = None /\ measured' = measured
      BY <1>4 DEF Boot, Fresh
  <2>2. OfRows(batch'.rows) = {} /\ OfVals(row'.vals) = {}
      BY <2>1, OfNothing DEF NoBatch
  <2>3. TaskHolds' = {}
      BY <2>1, <2>2 DEF TaskHolds, InWindow, NoWindow
  <2>4. ToSet(storageQ') = {} /\ ToSet(sensorQ') = {} /\ InHand' = {} /\ waiter'.owes = {}
      BY <2>1 DEF ToSet, InHand
  <2>5. Waiting' = {}
      BY <2>4 DEF Waiting
  <2>6. Ascending(storageQ') /\ Ascending(sensorQ')
      BY <2>1 DEF Ascending
  <2> QED BY <2>1, <2>3, <2>4, <2>5, <2>6 DEF Ordered, Before
<1>5. CASE Storage /\ Receive
  <2>1. storageQ # <<>> /\ storageQ' = Tail(storageQ) /\ UNCHANGED <<sensorQ, hand, measured, waiter>>
      BY <1>5 DEF Storage, Receive, plVars, askVars
  <2>2. /\ Ascending(storageQ') /\ ToSet(storageQ) = ToSet(storageQ') \cup {Head(storageQ)}
        /\ Before({Head(storageQ)}, ToSet(storageQ'))
      BY <1>0, <2>1, QueueTail DEF Ordered
  <2>3. InHand' = InHand /\ TaskHolds' \subseteq TaskHolds \cup {Head(storageQ)}
      BY <1>5, <2>1, ReceiveHolds DEF InHand, Moves
  <2>4. Waiting' \subseteq Waiting /\ Head(storageQ) \in Waiting
      BY <2>1, <2>2, <2>3 DEF Waiting
  <2>5. Ascending(sensorQ') /\ Waiting' \cup TaskHolds' \cup waiter'.owes \subseteq measured'
      BY <2>1, <2>3, <2>4 DEF Ordered, Ascending
  <2>6. Before(ToSet(storageQ'), InHand' \cup ToSet(sensorQ')) /\ Before(InHand', ToSet(sensorQ'))
      BY <2>1, <2>2, <2>3 DEF Ordered, Before
  <2>7. Before({Head(storageQ)}, Waiting')
      BY <2>1, <2>2, <2>3 DEF Ordered, Before, Waiting
  <2>8. Before(TaskHolds' \cup waiter'.owes, Waiting')
      BY <2>1, <2>3, <2>4, <2>7 DEF Ordered, Before
  <2>9. \A x \in measured' : x.n <= Cardinality(measured')
      BY <2>1 DEF Ordered
  <2> QED BY <2>2, <2>5, <2>6, <2>8, <2>9 DEF Ordered
<1>6. CASE ~Sensing /\ ~Processing /\ ~Boot /\ ~(Storage /\ Receive)
  <2>1. UNCHANGED <<storageQ, sensorQ, hand, measured>> /\ TaskHolds' \subseteq TaskHolds
        /\ (waiter' = waiter \/ RestartAsks \/ RestartWaits)
      BY <1>6, Elsewhere
  <2>2. waiter'.owes \subseteq TaskHolds \cup waiter.owes
    <3>1. waiter \in [at : {"idle", "waits", "answered", "given up"}, owes : SUBSET Samples]
        BY DEF QueueTypes
    <3>2. waiter' = waiter \/ waiter' = [at |-> "waits", owes |-> TaskHolds]
          \/ waiter' = [waiter EXCEPT !.at = "given up"] \/ waiter' = [waiter EXCEPT !.at = "answered"]
        BY <2>1 DEF RestartAsks, RestartWaits, AskAndWait, WaitEnds, WaitTimesOut
    <3>3. CASE waiter' = waiter
        BY <3>3
    <3>4. CASE waiter' = [at |-> "waits", owes |-> TaskHolds]
        BY <3>4
    <3>5. CASE waiter' = [waiter EXCEPT !.at = "given up"]
        BY ONLY <3>1, <3>5
    <3>6. CASE waiter' = [waiter EXCEPT !.at = "answered"]
        BY ONLY <3>1, <3>6
    <3> QED BY <3>2, <3>3, <3>4, <3>5, <3>6
  <2> QED BY <2>1, <2>2, OrderedStays
<1> QED BY <1>1, <1>2, <1>3, <1>4, <1>5, <1>6 DEF Processing

\* What was promised to the waiter stays so.
LEMMA CoveredNext == ASSUME Base, Ordered, Covered, [PipelineNext]_allVars PROVE Covered'
<1>1. CASE Sensing \/ Processing
  <2>1. UNCHANGED <<waiter, flush, taskVars>>
      BY <1>1 DEF Sensing, Measure, Processing, TakeReading, HandOn, Quiet, askVars
  <2>2. TaskHolds' = TaskHolds
      BY <2>1 DEF TaskHolds, InWindow, taskVars
  <2> QED BY <2>1, <2>2 DEF Covered
<1>2. CASE Boot
  <2>1. waiter' = [at |-> "idle", owes |-> {}]
      BY <1>2 DEF Boot, Fresh
  <2> QED BY <2>1 DEF Covered
<1>3. CASE Storage /\ Receive
  <2>1. storageQ # <<>> /\ UNCHANGED <<waiter, flush>>
      BY <1>3 DEF Storage, Receive, plVars, askVars
  <2>2. TaskHolds' \subseteq TaskHolds \cup {Head(storageQ)}
      BY <1>3, ReceiveHolds DEF Moves
  <2>3. Head(storageQ) \notin waiter.owes
    <3>1. storageQ \in Seq(Samples)
        BY DEF Base, Types, QueueTypes
    <3>2. Head(storageQ) \in ToSet(storageQ) /\ Head(storageQ) \in Samples
        BY <2>1, <3>1 DEF ToSet
    <3>3. Head(storageQ).n \in Nat /\ Head(storageQ) \in Waiting
        BY <3>2, SampleType DEF Waiting
    <3> QED BY <3>3 DEF Ordered, Before
  <2> QED BY <2>1, <2>2, <2>3 DEF Covered
<1>4. CASE ~Sensing /\ ~Processing /\ ~Boot /\ ~(Storage /\ Receive)
  <2>1. /\ TaskHolds' \subseteq TaskHolds
        /\ \/ UNCHANGED <<waiter, flush>> \/ RestartAsks \/ RestartWaits
           \/ waiter' = waiter /\ flush' = TRUE
           \/ waiter' = waiter /\ flush' = FALSE /\ st.pc \in {"answer", "last"}
      BY <1>4, Elsewhere
  <2>0. waiter \in [at : {"idle", "waits", "answered", "given up"}, owes : SUBSET Samples]
      BY DEF Base, Types, QueueTypes
  <2>2. CASE UNCHANGED <<waiter, flush>>
      BY <2>1, <2>2 DEF Covered
  <2>3. CASE waiter' = waiter /\ flush' = TRUE
      BY <2>1, <2>3 DEF Covered
  <2>4. CASE waiter' = waiter /\ flush' = FALSE /\ st.pc \in {"answer", "last"}
    <3>1. window = NoWindow /\ row = NoRow /\ batch.rows = <<>>
        BY <2>4 DEF Base, Stages, Rowing
    <3>2. OfRows(batch.rows) = {} /\ OfVals(row.vals) = {}
        BY <3>1, OfNothing
    <3>3. TaskHolds = {}
        BY <3>1, <3>2 DEF TaskHolds, InWindow, NoWindow
    <3> QED BY <2>1, <3>3 DEF Covered
  <2>5. CASE RestartAsks
    <3>1. (flush' = TRUE /\ waiter' = [at |-> "waits", owes |-> TaskHolds]) \/ waiter' = [waiter EXCEPT !.at = "given up"]
        BY <2>5 DEF RestartAsks, AskAndWait
    <3>2. waiter'.at # "answered" /\ (waiter'.at = "waits" => flush')
      <4>1. CASE flush' = TRUE /\ waiter' = [at |-> "waits", owes |-> TaskHolds]
        <5>1. waiter'.at = "waits"
            BY <4>1
        <5> QED BY <4>1, <5>1
      <4>2. CASE waiter' = [waiter EXCEPT !.at = "given up"]
        <5>1. waiter'.at = "given up"
            BY <2>0, <4>2
        <5> QED BY <5>1
      <4> QED BY <3>1, <4>1, <4>2
    <3> QED BY <3>2 DEF Covered
  <2>6. CASE RestartWaits
    <3>1. \/ waiter.at = "waits" /\ ~flush /\ waiter' = [waiter EXCEPT !.at = "answered"]
          \/ waiter' = [waiter EXCEPT !.at = "given up"]
        BY <2>6 DEF RestartWaits, WaitEnds, WaitTimesOut
    <3>2. CASE waiter.at = "waits" /\ ~flush /\ waiter' = [waiter EXCEPT !.at = "answered"]
      <4>1. waiter'.owes = waiter.owes
          BY <2>0, <3>2
      <4> QED BY <2>1, <3>2, <4>1 DEF Covered
    <3>3. CASE waiter' = [waiter EXCEPT !.at = "given up"]
      <4>1. waiter'.at = "given up"
          BY <2>0, <3>3
      <4> QED BY <4>1 DEF Covered
    <3> QED BY <3>1, <3>2, <3>3
  <2> QED BY <2>1, <2>2, <2>3, <2>4, <2>5, <2>6
<1> QED BY <1>1, <1>2, <1>3, <1>4

\* Nothing is measured at first.
LEMMA FlushInit == ASSUME InitPipeline PROVE FlushInv
<1>1. Base
    BY BaseInit
<1>2. /\ measured = {} /\ storageQ = <<>> /\ window = NoWindow /\ row = NoRow /\ batch = NoBatch
      /\ waiter = [at |-> "idle", owes |-> {}] /\ sensorQ = <<>> /\ hand = None
    BY DEF InitPipeline
<1>3. OfRows(batch.rows) = {} /\ OfVals(row.vals) = {}
    BY <1>2, OfNothing DEF NoBatch
<1>4. TaskHolds = {}
    BY <1>2, <1>3 DEF TaskHolds, InWindow, NoWindow
<1>5. ToSet(storageQ) = {} /\ ToSet(sensorQ) = {} /\ InHand = {} /\ waiter.owes = {}
    BY <1>2 DEF ToSet, InHand
<1>6. Waiting = {}
    BY <1>5 DEF Waiting
<1>7. Ascending(storageQ) /\ Ascending(sensorQ)
    BY <1>2 DEF Ascending
<1>8. Ordered
    BY <1>2, <1>4, <1>5, <1>6, <1>7 DEF Ordered, Before
<1>9. Covered
    BY <1>2 DEF Covered
<1> QED BY <1>1, <1>8, <1>9 DEF FlushInv

\* A restart that was told its flush is done, by datalogFlushDone() for
\* whichever request, has nothing of what the task held when it asked left in
\* RAM: the window, the row on its way and the batch were written or counted.
THEOREM FlushIsCovered == PipelineSpec => []FlushCovers
<1>1. FlushInv /\ [PipelineNext]_allVars => FlushInv'
    BY BaseNext, OrderedNext, CoveredNext DEF FlushInv
<1>2. FlushInv => FlushCovers
    BY DEF FlushInv, Covered, FlushCovers
<1> QED BY <1>1, <1>2, FlushInit, PTL DEF PipelineSpec

-----------------------------------------------------------------------------
(* A row is under the header it was combined by.                           *)

\* Away from a row on its way there is nothing to show of it.
LEMMA OffRow == ASSUME st.pc \notin Rowing PROVE RowFits
BY DEF RowFits, Rowing

\* A row of the window agrees with the list it is combined by.
LEMMA CombinedFits == ASSUME Base, rev = st.colsRev PROVE Under(Combined, numbering(cols))
<1>1. cols \in Seq(Col) /\ onCount(cols) \in Nat /\ onCount(cols) <= MaxCols /\ MaxCols \in Nat
    BY OnUpToFinite, DatalogAssumption DEF Base, Types, LogTypes, List, onCount
<1>2. Len(Combined) = onCount(cols) /\ Len(numbering(cols)) = onCount(cols)
    BY <1>1, CombinedType, NumberingType
<1>3. DOMAIN Combined = 1..onCount(cols)
      /\ \A i \in 1..onCount(cols) : Combined[i].of = window[i] /\ Combined[i].agg = numbering(cols)[i].agg
    BY DEF Combined
<1>4. ASSUME NEW i \in 1..onCount(cols), NEW x \in window[i] PROVE x.m = numbering(cols)[i].m
  <2>1. i \in 1..MaxCols
      BY <1>1
  <2> QED BY <1>4, <2>1 DEF Base, Summed, Agrees
<1> QED BY <1>1, <1>2, <1>3, <1>4 DEF Under

\* A window that is taken fits.
LEMMA TakeFits ==
    ASSUME Base, st.pc \notin Rowing, rev = st.colsRev, NEW then \in {"row", "exit"}, NEW none \in {"flush", "top", "exitflush"},
           TakeWindow(then, none), UNCHANGED <<dlVars, batch>>
    PROVE  RowFits'
<1>1. rev' = rev /\ cols' = cols /\ setup' = setup /\ st \in Task /\ rev \in Nat \ {0}
    BY DEF dlVars, listVars, Base, Types, TaskTypes, LogTypes
<1>2. CASE InWindow # {} /\ setup.csv
  <2>1. /\ st' = [st EXCEPT !.pc = "header", !.then = then]
        /\ row' = [day |-> today, vals |-> Combined, wantRev |-> st.colsRev, head |-> None, mixed |-> FALSE]
      BY <1>2 DEF TakeWindow
  <2>2. st'.pc = "header" /\ row'.wantRev = rev /\ row'.vals = Combined
      BY <1>1, <2>1 DEF Task
  <2>3. Under(Combined, numbering(cols))
      BY CombinedFits
  <2>4. row'.wantRev # 0 /\ row'.wantRev <= rev'
      BY <1>1, <2>2
  <2> QED BY <1>1, <1>2, <2>2, <2>3, <2>4 DEF RowFits, Under
<1>3. CASE ~(InWindow # {} /\ setup.csv)
  <2>1. st' = [st EXCEPT !.pc = none]
      BY <1>3 DEF TakeWindow
  <2>2. st'.pc = none
      BY <1>1, <2>1 DEF Task
  <2>3. st'.pc \notin Rowing
      BY <2>2 DEF Rowing
  <2> QED BY <2>3 DEF RowFits, Rowing
<1> QED BY <1>2, <1>3

\* The row gets its header, makes room, and joins the batch.
LEMMA RowingFits ==
    ASSUME Base, RowFits, BatchFits, ReadHeader \/ NoRoom \/ AddRow
    PROVE  RowFits' /\ BatchFits'
<1>0. /\ st \in Task /\ row \in OnWay /\ batch \in [rows : Seq(Row), head : Heads \cup {None}, first : Nat, day : Nat]
      /\ Stages /\ setup \in Setup
    BY DEF Base, Types, TaskTypes, LogTypes
<1>a. UNCHANGED <<cols, rev, setup>>
    BY DEF ReadHeader, NoRoom, AddRow, dlVars, listVars
<1>e. ASSUME NEW pc, Goes(pc) PROVE st'.pc = pc
    BY <1>0, <1>e DEF Goes, Task
<1>1. CASE ReadHeader /\ OtherList(row.wantRev)
  <2>1. Goes(Added) /\ batch' = batch /\ st.pc = "header"
      BY <1>1 DEF ReadHeader
  <2>2. st.pc \in Rowing
      BY <2>1 DEF Rowing
  <2>3. st'.pc \notin Rowing
      BY <1>0, <1>e, <2>1, <2>2, AddedIsPlace DEF Rowing
  <2> QED BY <2>1, <2>3 DEF RowFits, Rowing, BatchFits
<1>2. CASE ReadHeader /\ ~OtherList(row.wantRev)
  <2> DEFINE pc == IF batch.rows # <<>> /\ (datalogHeader # batch.head \/ ~SamePeriod(batch.first, row.day)) THEN "before" ELSE "format"
  <2>1. row' = [row EXCEPT !.head = datalogHeader] /\ batch' = batch /\ Goes(pc) /\ st.pc = "header"
      BY <1>2 DEF ReadHeader
  <2>2. st'.pc = pc /\ pc \in {"before", "format"}
      BY <1>e, <2>1
  <2>3. row'.head = datalogHeader /\ row'.vals = row.vals /\ row'.mixed = row.mixed
      BY <1>0, <2>1 DEF OnWay
  <2>4. datalogHeader.layout = setup.layout /\ (setup.csv => datalogHeader.cols = numbering(cols))
      BY DEF datalogHeader
  <2>5. ~row.mixed => Under(row.vals, datalogHeader.cols)
    <3>1. CASE row.vals = <<>>
      <4>1. datalogHeader.cols \in Seq(Label)
          BY HeaderType DEF Heads
      <4> QED BY <3>1, <4>1 DEF Under
    <3>2. CASE row.vals # <<>> /\ ~row.mixed
      <4>1. row.wantRev = rev /\ setup.csv
          BY <1>2, <2>1, <3>2 DEF RowFits, OtherList
      <4> QED BY <2>1, <2>4, <4>1 DEF RowFits
    <3> QED BY <3>1, <3>2
  <2>6. pc = "format" /\ batch.rows # <<>> => batch.head = datalogHeader
      OBVIOUS
  <2> HIDE DEF pc
  <2> QED BY <1>a, <2>1, <2>2, <2>3, <2>4, <2>5, <2>6 DEF RowFits, BatchFits, Under
<1>3. CASE NoRoom
  <2>1. st'.pc = "room" /\ st.pc = "format" /\ row' = row /\ batch' = batch
      BY <1>3, <1>e DEF NoRoom
  <2> QED BY <1>a, <2>1 DEF RowFits, BatchFits, Under
<1>4. CASE AddRow
  <2> DEFINE pc == IF Len(batch.rows) + 1 >= BatchRows THEN "full" ELSE Added
             new == [layout |-> setup.layout, vals |-> row.vals, day |-> row.day, mixed |-> row.mixed]
  <2>1. /\ Goes(pc) /\ st.pc = "format" /\ batch'.rows = Append(batch.rows, new)
        /\ batch'.head = IF batch.rows = <<>> THEN row.head ELSE batch.head
      BY <1>4 DEF AddRow
  <2>2. st.pc \in Rowing
      BY <2>1 DEF Rowing
  <2>3. st'.pc \notin Rowing
      BY <1>0, <1>e, <2>1, <2>2, AddedIsPlace DEF Rowing
  <2>4. RowFits'
      BY <2>3 DEF RowFits, Rowing
  <2>5. batch'.head = row.head
      BY <2>1 DEF RowFits
  <2>6. ~new.mixed => Labelled(row.head, new)
      BY <2>1 DEF RowFits, Under, Labelled
  <2> HIDE DEF new
  <2>7. \A i \in DOMAIN batch'.rows : batch'.rows[i] = new \/ (i \in DOMAIN batch.rows /\ batch'.rows[i] = batch.rows[i])
      BY <1>0, <2>1
  <2>8. ASSUME NEW i \in DOMAIN batch'.rows, ~batch'.rows[i].mixed PROVE Labelled(row.head, batch'.rows[i])
    <3>1. CASE batch'.rows[i] = new
        BY <2>6, <2>8, <3>1
    <3>2. CASE i \in DOMAIN batch.rows /\ batch'.rows[i] = batch.rows[i]
      <4>1. batch.rows # <<>>
          BY <3>2
      <4>2. batch.head = row.head
          BY <2>1, <4>1 DEF RowFits
      <4> QED BY <2>8, <3>2, <4>2 DEF BatchFits, Fit
    <3> QED BY <2>7, <3>1, <3>2
  <2> QED BY <2>4, <2>5, <2>8 DEF BatchFits, Fit, Labelled
<1> QED BY <1>1, <1>2, <1>3, <1>4

\* A write leaves every file under its headers.
LEMMA WriteFits ==
    ASSUME Base, RowFits, BatchFits, FilesFit,
           NothingToFlush \/ FlushMisses \/ (\E how \in Ends, saves \in BOOLEAN : FlushMain(how, saves))
           \/ (\E how \in Ends : FlushMirror(how))
    PROVE  RowFits' /\ BatchFits' /\ FilesFit'
<1>0. /\ st \in Task /\ batch \in [rows : Seq(Row), head : Heads \cup {None}, first : Nat, day : Nat]
      /\ Stages /\ today \in Nat /\ Disk \in Discs
    BY DEF Base, Types, TaskTypes, LogTypes
<1>a. UNCHANGED <<cols, rev, setup, row>> /\ st.pc \in Flushing
    BY DEF NothingToFlush, FlushMisses, FlushMain, FlushMirror, dlVars, listVars
<1>1. \/ st'.pc = st.pc /\ batch' = batch
      \/ st'.pc = After(st.pc) /\ batch'.rows = <<>>
  <2>1. CASE NothingToFlush
      BY <1>0, <2>1 DEF NothingToFlush, Goes, Task
  <2>2. CASE ~NothingToFlush
    <3>1. \E fs \in Filesystems \cup {CHOOSE f \in Filesystems : f # Main, Main} : Written(fs)
        BY <2>2 DEF FlushMisses, FlushMain, FlushMirror
    <3> QED BY <1>0, <1>a, <3>1, WrittenIs
  <2> QED BY <2>1, <2>2
<1>2. RowFits' /\ BatchFits'
  <2>1. CASE st'.pc = st.pc /\ batch' = batch
      BY <1>a, <2>1 DEF RowFits, BatchFits, Under
  <2>2. CASE st'.pc = After(st.pc) /\ batch'.rows = <<>>
    <3>1. BatchFits'
        BY <2>2 DEF BatchFits, Fit
    <3>2. CASE st.pc \in {"before", "room"}
      <4>1. st'.pc = "format"
          BY <2>2, <3>2 DEF After
      <4> QED BY <1>a, <2>2, <3>1, <3>2, <4>1 DEF RowFits, Under
    <3>3. CASE st.pc \notin {"before", "room"}
      <4>1. st'.pc \notin Rowing
        <5>1. CASE st.pc = "full"
            BY <1>0, <2>2, <5>1, AddedIsPlace DEF After, Rowing
        <5>2. CASE st.pc # "full"
            BY <1>a, <2>2, <3>3, <5>2 DEF After, Rowing, Flushing
        <5> QED BY <5>1, <5>2
      <4> QED BY <3>1, <4>1 DEF RowFits, Rowing
    <3> QED BY <3>2, <3>3
  <2> QED BY <1>1, <2>1, <2>2
<1>3. ASSUME NEW fs \in Filesystems, NEW how \in Ends, batch.rows # <<>>,
             SetDisk(datalogAppend(fs, Disk, batch.head, batch.rows, batch.day, today, how).disk)
      PROVE  FilesFit'
  <2> DEFINE d == datalogAppend(fs, Disk, batch.head, batch.rows, batch.day, today, how).disk
  <2>1. batch.head \in Heads /\ batch.rows \in Seq(Row)
      BY <1>0, <1>3 DEF Stages
  <2>2. Kept(Disk, fs) /\ Fit(batch.head, batch.rows)
      BY DEF FilesFit, Files, Kept, BatchFits
  <2>3. Kept(d, fs) /\ \A o \in Filesystems \ {fs} : d.files[o] = Disk.files[o] /\ d.past[o] = Disk.past[o]
    <3>1. /\ \A o \in Filesystems \ {fs} : d.files[o] = Disk.files[o] /\ d.past[o] = Disk.past[o]
          /\ Kept(Disk, fs) /\ Fit(batch.head, batch.rows) => Kept(d, fs)
      <4>1. Disk \in Discs /\ today \in Nat /\ batch.rows # <<>>
          BY <1>0, <1>3
      <4>2. Kept(Disk, fs) /\ Fit(batch.head, batch.rows) => Kept(d, fs)
          BY <2>1, <4>1, AppendKeeps
      <4>3. \A o \in Filesystems \ {fs} : d.files[o] = Disk.files[o] /\ d.past[o] = Disk.past[o]
        <5> DEFINE a == datalogAppend(fs, Disk, batch.head, batch.rows, batch.day, today, how)
        <5>1. /\ a.disk \in Discs
              /\ a.written \in 0..Len(batch.rows)
              /\ \A o \in Filesystems \ {fs} : a.disk.files[o] = Disk.files[o] /\ a.disk.past[o] = Disk.past[o]
              /\ \A m \in 1..a.written : Has(a.disk.files[fs], batch.rows[m])
              /\ Kept(Disk, fs) /\ Fit(batch.head, batch.rows) => Kept(a.disk, fs)
            BY <2>1, <4>1, AppendKeeps
        <5> QED BY <5>1
      <4> QED BY <4>2, <4>3
    <3> QED BY <2>2, <3>1
  <2>4. files' = d.files /\ past' = d.past
      BY <1>3 DEF SetDisk
  <2> HIDE DEF d
  <2>5. ASSUME NEW o \in Filesystems PROVE Kept(Disk', o)
    <3>1. Disk'.files = d.files /\ Disk'.past = d.past
        BY <2>4 DEF Disk
    <3>2. CASE o = fs
        BY <2>3, <3>1, <3>2 DEF Kept, FilesOf
    <3>3. CASE o # fs
      <4>1. Kept(Disk, o)
          BY DEF FilesFit, Files, Kept
      <4> QED BY <2>3, <3>1, <3>3, <4>1 DEF Kept, FilesOf
    <3> QED BY <3>2, <3>3
  <2> QED BY <2>5 DEF FilesFit, Files, Kept, FilesOf
<1>4. CASE NothingToFlush \/ FlushMisses
  <2>1. files' = files /\ past' = past /\ counts' = counts
      BY <1>4 DEF NothingToFlush, FlushMisses, dlVars, fileVars
  <2> QED BY <1>2, <2>1 DEF FilesFit, Files, FilesOf, Disk
<1>5. CASE \E how \in Ends, saves \in BOOLEAN : FlushMain(how, saves)
    BY <1>2, <1>3, <1>5, StorageAssumption DEF FlushMain
<1>6. CASE \E how \in Ends : FlushMirror(how)
  <2> DEFINE fs == CHOOSE f \in Filesystems : f # Main
  <2>1. fs \in Filesystems
      BY StorageAssumption
  <2>2. PICK how \in Ends : FlushMirror(how)
      BY <1>6
  <2>3. batch.rows # <<>> /\ SetDisk(datalogAppend(fs, Disk, batch.head, batch.rows, batch.day, today, how).disk)
      BY <2>2 DEF FlushMirror
  <2> HIDE DEF fs
  <2> QED BY <1>2, <1>3, <2>1, <2>3
<1> QED BY <1>4, <1>5, <1>6

\* What a step that leaves the files alone keeps.
LEMMA FilesStay ==
    ASSUME FilesFit, UNCHANGED <<files, past>>
    PROVE  FilesFit'
BY DEF FilesFit, Files, FilesOf, Disk

\* The invariant is kept by every step.
LEMMA HeaderNext == ASSUME HeaderInv, [PipelineNext]_allVars PROVE HeaderInv'
<1> USE DEF HeaderInv
<1>0. Base'
    BY BaseNext
<1>a. /\ st \in Task /\ row \in OnWay /\ batch \in [rows : Seq(Row), head : Heads \cup {None}, first : Nat, day : Nat]
      /\ Stages /\ rev \in Nat
    BY DEF Base, Types, TaskTypes, LogTypes
<1>b. ASSUME UNCHANGED <<files, past, row, batch, st, cols, rev, setup>> PROVE RowFits' /\ BatchFits' /\ FilesFit'
    BY <1>b, FilesStay DEF RowFits, BatchFits, Under
<1>c. ASSUME UNCHANGED <<files, past, batch>>, st'.pc \notin Rowing PROVE RowFits' /\ BatchFits' /\ FilesFit'
    BY <1>c, FilesStay DEF RowFits, Rowing, BatchFits
<1>1. CASE Starting
    BY <1>0, <1>1, <1>b DEF Starting, MakeQueues, CreateTask, InitDone, stVars, dlVars, listVars, fileVars, taskVars
<1>2. CASE Ending \/ RequestRestart \/ SleepBegins
  <2>1. UNCHANGED <<dlVars, taskVars>>
    <3>1. CASE CheckHealth \/ Restarts \/ (\E x \in BOOLEAN : DrainEnds(x)) \/ Sleeps
        BY <3>1 DEF CheckHealth, Restarts, DrainEnds, Sleeps, stVars
    <3>2. CASE (\E x \in BOOLEAN : WaitTask(x)) \/ RequestRestart \/ SleepBegins
        BY <3>2 DEF WaitTask, RequestRestart, SleepBegins
    <3>3. CASE RestartAsks \/ RestartWaits
        BY <3>3 DEF RestartAsks, RestartWaits, AskAndWait, WaitEnds, WaitTimesOut
    <3> QED BY <1>2, <3>1, <3>2, <3>3 DEF Ending
  <2> QED BY <1>0, <1>b, <2>1 DEF dlVars, listVars, fileVars, taskVars
<1>3. CASE Boot
  <2>1. st' = IdleTask /\ batch' = NoBatch /\ UNCHANGED <<files, past>>
      BY <1>3 DEF Boot, Fresh
  <2>2. st'.pc = "none" /\ batch'.rows = <<>>
      BY <2>1 DEF IdleTask, NoBatch
  <2> QED BY <1>0, <2>1, <2>2, FilesStay DEF RowFits, BatchFits, Fit
<1>4. CASE Sensing \/ Processing \/ Ingest
    BY <1>0, <1>4, <1>b DEF Sensing, Measure, Processing, TakeReading, HandOn, Ingest, Quiet, dlVars, listVars, fileVars, taskVars
<1>5. CASE Storage
  <2>1. CASE ReadHeader \/ NoRoom \/ AddRow
    <3>1. UNCHANGED <<files, past>>
        BY <2>1 DEF ReadHeader, NoRoom, AddRow, dlVars, fileVars
    <3> QED BY <1>0, <2>1, <3>1, RowingFits, FilesStay
  <2>2. CASE NothingToFlush \/ FlushMisses \/ (\E how \in Ends, saves \in BOOLEAN : FlushMain(how, saves))
             \/ (\E how \in Ends : FlushMirror(how))
      BY <1>0, <2>2, WriteFits
  <2>3. CASE Refresh \/ Receive \/ ReadFlag \/ FlushDone \/ LastDone
    <3>1. UNCHANGED <<files, past, batch>> /\ \E pc \in {"drain", "window", "top", "gone"} : st'.pc = pc
        BY <1>a, <2>3 DEF Refresh, Receive, ReadFlag, FlushDone, Answers, LastDone, Goes, Task, dlVars, fileVars
    <3>2. st'.pc \notin Rowing
        BY <3>1 DEF Rowing
    <3> QED BY <1>0, <1>c, <3>1, <3>2
  <2>4. CASE \E c \in BOOLEAN : Drained(c)
    <3>1. UNCHANGED <<dlVars, batch>>
        BY <2>4 DEF Drained
    <3>2. CASE st' = [st EXCEPT !.pc = "flag"]
      <4>1. st'.pc \notin Rowing
          BY <1>a, <3>2 DEF Task, Rowing
      <4> QED BY <1>0, <1>c, <3>1, <4>1 DEF dlVars, fileVars
    <3>3. CASE st' = [st EXCEPT !.pc = "header", !.then = "run"] /\ row' = [NoRow EXCEPT !.day = today]
      <4>1. st'.pc = "header" /\ row'.vals = <<>> /\ row'.wantRev = 0
          BY <1>a, <3>3 DEF Task, NoRow
      <4>2. rev' = rev /\ rev > 0
          BY <3>1 DEF dlVars, listVars, Base, Types, LogTypes
      <4>4. row'.wantRev <= rev' /\ row'.wantRev # rev'
          BY <1>a, <4>1, <4>2
      <4>3. RowFits'
          BY <4>1, <4>4 DEF RowFits
      <4> QED BY <1>0, <3>1, <4>3, FilesStay DEF BatchFits, dlVars, fileVars
    <3> QED BY <2>4, <3>2, <3>3 DEF Drained
  <2>5. CASE \E d \in BOOLEAN : CloseWindow(d)
    <3>1. PICK due \in BOOLEAN : CloseWindow(due)
        BY <2>5
    <3>2. UNCHANGED <<dlVars, batch>> /\ st.pc = "window" /\ Answering \in {"flush", "top"}
        BY <3>1 DEF CloseWindow, Answering
    <3>3. CASE rev = st.colsRev /\ st.writing /\ (due \/ st.req)
      <4>1. TakeWindow("row", Answering) /\ st.pc \notin Rowing
          BY <3>1, <3>2, <3>3 DEF CloseWindow, Rowing
      <4>2. RowFits'
          BY <3>2, <3>3, <4>1, TakeFits
      <4> QED BY <1>0, <3>2, <4>2, FilesStay DEF BatchFits, dlVars, fileVars
    <3>4. CASE ~(rev = st.colsRev /\ st.writing /\ (due \/ st.req))
      <4>1. st' = [st EXCEPT !.pc = Answering, !.colsRev = rev, !.then = "answer"] \/ st' = [st EXCEPT !.pc = Answering, !.then = "answer"]
          BY <3>1, <3>4 DEF CloseWindow
      <4>2. st'.pc = Answering
          BY <1>a, <4>1 DEF Task
      <4>3. st'.pc \notin Rowing
          BY <3>2, <4>2 DEF Rowing
      <4> QED BY <1>0, <1>c, <3>2, <4>3 DEF dlVars, fileVars
    <3> QED BY <3>3, <3>4
  <2>6. CASE Leave(running)
    <3>1. UNCHANGED <<dlVars, batch>> /\ st.pc = "top"
        BY <2>6 DEF Leave
    <3>2. CASE st.writing /\ rev = st.colsRev
      <4>1. TakeWindow("exit", "exitflush") /\ st.pc \notin Rowing
          BY <2>6, <3>1, <3>2 DEF Leave, Rowing
      <4>2. RowFits'
          BY <3>1, <3>2, <4>1, TakeFits
      <4> QED BY <1>0, <3>1, <4>2, FilesStay DEF BatchFits, dlVars, fileVars
    <3>3. CASE ~(st.writing /\ rev = st.colsRev)
      <4>1. st' = [st EXCEPT !.pc = "exitflush"]
          BY <2>6, <3>3 DEF Leave, Goes
      <4>2. st'.pc \notin Rowing
          BY <1>a, <4>1 DEF Task, Rowing
      <4> QED BY <1>0, <1>c, <3>1, <4>2 DEF dlVars, fileVars
    <3> QED BY <3>2, <3>3
  <2> QED BY <1>5, <2>1, <2>2, <2>3, <2>4, <2>5, <2>6 DEF Storage, StorageStep
<1>6. CASE \E t \in Tasks : PassGate(t) \/ TaskEnds(t) \/ GetsStuck(t)
  <2>1. UNCHANGED <<dlVars, window, row, batch>>
      BY <1>6 DEF PassGate, TaskEnds, GetsStuck, stVars, taskVars
  <2>2. st' = st \/ st' = [st EXCEPT !.pc = IF running THEN "top" ELSE "gone", !.colsRev = rev]
      BY <1>6 DEF PassGate, TaskEnds, GetsStuck, stVars, taskVars
  <2>3. CASE st' = st
      BY <1>0, <1>b, <2>1, <2>3 DEF dlVars, listVars, fileVars
  <2>4. CASE st' = [st EXCEPT !.pc = IF running THEN "top" ELSE "gone", !.colsRev = rev]
    <3>1. st'.pc \in {"top", "gone"}
        BY <1>a, <2>4 DEF Task
    <3>2. st'.pc \notin Rowing
        BY <3>1 DEF Rowing
    <3> QED BY <1>0, <1>c, <2>1, <3>2 DEF dlVars, fileVars
  <2> QED BY <2>2, <2>3, <2>4
<1>7. CASE Webs
  <2>1. CASE (\E ok \in BOOLEAN : SaveList(ok)) \/ Midnight \/ datalogRequestFlush
      BY <1>0, <1>b, <2>1 DEF SaveList, Midnight, datalogRequestFlush, dlVars, listVars, fileVars, taskVars
  <2>2. CASE \E new \in Setups : SaveSetup(new)
    <3>1. UNCHANGED <<listVars, files, past, batch, st>> /\ row' = IF st.pc \in Rowing THEN [row EXCEPT !.mixed = TRUE] ELSE row
        BY <2>2 DEF SaveSetup, fileVars
    <3>2. CASE st.pc \in Rowing
      <4>1. row'.mixed /\ row'.vals = row.vals /\ row'.wantRev = row.wantRev /\ row'.head = row.head
          BY <1>a, <3>1, <3>2 DEF OnWay
      <4>2. RowFits'
          BY <3>1, <4>1 DEF RowFits, listVars, Under
      <4> QED BY <1>0, <3>1, <4>2, FilesStay DEF BatchFits
    <3>3. CASE st.pc \notin Rowing
        BY <1>0, <1>c, <3>1, <3>3
    <3> QED BY <3>2, <3>3
  <2>3. CASE \E list \in Lists, keep \in BOOLEAN : TakeList(list, keep)
    <3>1. PICK list \in Lists, keep \in BOOLEAN : TakeList(list, keep)
        BY <2>3
    <3>2. /\ UNCHANGED <<setup, files, past, taskVars>> /\ cols' = parsed(list)
          /\ rev' = IF numbering(parsed(list)) # numbering(cols) THEN rev + 1 ELSE rev
        BY <3>1 DEF TakeList, parseCols, fileVars
    <3>3. (rev' = rev /\ numbering(cols') = numbering(cols)) \/ rev' = rev + 1
        BY <3>2
    <3>4. row.wantRev \in Nat
        BY <1>a DEF OnWay
    <3>5. RowFits'
      <4>1. CASE rev' = rev /\ numbering(cols') = numbering(cols)
          BY <3>2, <4>1 DEF RowFits, Under, taskVars
      <4>2. CASE rev' = rev + 1
        <5>1. st.pc = "header" => row.wantRev <= rev' /\ row.wantRev # rev'
            BY <1>a, <3>4, <4>2 DEF RowFits
        <5> QED BY <3>2, <5>1 DEF RowFits, Under, taskVars
      <4> QED BY <3>3, <4>1, <4>2
    <3> QED BY <1>0, <3>2, <3>5, FilesStay DEF BatchFits, taskVars
  <2> QED BY <1>7, <2>1, <2>2, <2>3 DEF Webs
<1>8. CASE UNCHANGED allVars
    BY <1>0, <1>8, <1>b DEF allVars, stVars, dlVars, listVars, fileVars, taskVars
<1> QED BY <1>1, <1>2, <1>3, <1>4, <1>5, <1>6, <1>7, <1>8 DEF PipelineNext

\* At first there is no file and no row.
LEMMA HeaderInit == ASSUME InitPipeline PROVE HeaderInv
<1>1. Base
    BY BaseInit
<1>2. PICK on \in BOOLEAN : st = [IdleTask EXCEPT !.pc = IF on THEN "top" ELSE "none"]
  <2>1. PICK sc \in Scenarios : st = [IdleTask EXCEPT !.pc = IF sc.start = "loop" THEN "top" ELSE "none"]
      BY DEF InitPipeline
  <2> QED BY <2>1
<1>3. batch = NoBatch /\ files = [fs \in Filesystems |-> NoFile] /\ past = [fs \in Filesystems |-> {}]
    BY DEF InitPipeline
<1>4. st.pc \notin Rowing
    BY <1>2 DEF IdleTask, Rowing
<1>5. BatchFits
    BY <1>3 DEF BatchFits, Fit, NoBatch
<1>6. FilesFit
    BY <1>3 DEF FilesFit, Files, FilesOf, Disk, Sound, NoFile
<1> QED BY <1>1, <1>4, <1>5, <1>6, OffRow DEF HeaderInv

\* In a file that begins with its header and has no other, that is the header
\* of every line.
LEMMA OneHeader ==
    ASSUME NEW f \in File, ~f.unmoved, Sound(f), NEW i \in DOMAIN f.lines
    PROVE  HeaderOf(f.lines, i) = f.lines[1].head
<1>1. f.lines \in Seq(Lines) /\ f.lines # <<>>
    BY DEF File
<1>2. i \in Nat /\ i > 0 /\ \A k \in 1..i : k \in DOMAIN f.lines
    BY <1>1
<1>3. f.lines[1].kind = "head" /\ \A k \in DOMAIN f.lines : k > 1 => f.lines[k].kind # "head"
    BY <1>1 DEF Sound
<1> DEFINE Is(k) == f.lines[k].kind = "head" /\ \A j \in (k + 1)..i : f.lines[j].kind # "head"
<1>4. 1 \in 1..i /\ Is(1)
  <2>1. \A j \in (1 + 1)..i : j \in DOMAIN f.lines /\ j > 1
      BY <1>2
  <2> QED BY <1>2, <1>3, <2>1
<1>5. \A k \in 1..i : Is(k) => k = 1
    BY <1>2, <1>3
<1>6. (CHOOSE k \in 1..i : Is(k)) = 1
    BY <1>4, <1>5
<1> QED BY <1>6 DEF HeaderOf

\* A row is read by the header above it: whatever was renumbered, learned or
\* rotated while it waited, its values are under the labels they were combined
\* by, but for rows added while settings were saved and files a rename failed on.
THEOREM RowsUnderHeader == PipelineSpec => []RowsMatchHeader
<1>1. HeaderInv /\ [PipelineNext]_allVars => HeaderInv'
    BY HeaderNext
<1>2. HeaderInv => RowsMatchHeader
  <2> SUFFICES ASSUME HeaderInv, NEW fs \in Filesystems, NEW f \in Files(fs), NEW i \in DOMAIN f.lines,
                      f.lines[i].kind = "row", ~f.lines[i].row.mixed, ~f.unmoved
               PROVE  Labelled(HeaderOf(f.lines, i), f.lines[i].row)
      BY DEF RowsMatchHeader
  <2>1. f \in File
      BY DEF HeaderInv, Base, Types, LogTypes, Discs, Files, FilesOf, Disk
  <2>2. Sound(f)
      BY DEF HeaderInv, FilesFit
  <2>3. f.lines # <<>>
      OBVIOUS
  <2>4. HeaderOf(f.lines, i) = f.lines[1].head
      BY <2>1, <2>2, OneHeader
  <2> QED BY <2>2, <2>3, <2>4 DEF Sound
<1> QED BY <1>1, <1>2, HeaderInit, PTL DEF PipelineSpec

-----------------------------------------------------------------------------
(* A reading that was measured is somewhere, or counted.                   *)

\* What is on disk depends on the files, not on the counts.
LEMMA OnDiskIs ==
    ASSUME NEW d, NEW fs, d.files[fs] = files[fs], d.past[fs] = past[fs]
    PROVE  OnDiskOf(d, fs) = OnDisk(fs)
BY DEF OnDisk, OnDiskOf, FilesOf, Disk

\* A row's readings are on the disk its file is on.
LEMMA HasOnDisk ==
    ASSUME NEW d, NEW fs, NEW r, Has(d.files[fs], r)
    PROVE  OfVals(r.vals) \subseteq OnDiskOf(d, fs)
<1> DEFINE f == d.files[fs]
<1>1. PICK k \in DOMAIN f.lines : IsRow(f.lines[k]) /\ f.lines[k].row = r
    BY DEF Has
<1>2. OfVals(r.vals) \subseteq OfLines(f.lines)
    BY <1>1 DEF OfLines
<1> QED BY <1>2 DEF OnDiskOf, FilesOf

\* What of a batch was not written is its rest.
LEMMA RestOfRows ==
    ASSUME NEW rows \in Seq(Row), NEW k \in 0..Len(rows), NEW S, \A m \in 1..k : OfVals(rows[m].vals) \subseteq S
    PROVE  OfRows(rows) \subseteq S \cup OfRows(SubSeq(rows, k + 1, Len(rows)))
<1>1. PICK n \in Nat : n = Len(rows)
    OBVIOUS
<1>2. k \in Nat /\ k <= n /\ DOMAIN rows = 1..n
    BY <1>1
<1> DEFINE t == SubSeq(rows, k + 1, n)
<1>3. DOMAIN t = 1..(n - k) /\ \A i \in 1..(n - k) : t[i] = rows[k + i]
    BY <1>1, <1>2
<1>4. SubSeq(rows, k + 1, Len(rows)) = t
    BY <1>1
<1> HIDE DEF t
<1>5. ASSUME NEW m \in 1..n PROVE OfVals(rows[m].vals) \subseteq S \cup OfRows(t)
  <2>1. CASE m \in 1..k
      BY <2>1
  <2>2. CASE m \notin 1..k
    <3>1. m - k \in 1..(n - k) /\ k + (m - k) = m
        BY <1>2, <2>2
    <3>2. t[m - k] = rows[m]
        BY <1>3, <3>1
    <3> QED BY <1>3, <3>1, <3>2 DEF OfRows
  <2> QED BY <2>1, <2>2
<1> QED BY <1>2, <1>4, <1>5 DEF OfRows

\* A batch that is written, once or in two steps with the mirror's, is on disk
\* or counted.
LEMMA FlushSettles ==
    ASSUME Base, Copied,
           FlushMisses \/ (\E how \in Ends, saves \in BOOLEAN : FlushMain(how, saves)) \/ (\E how \in Ends : FlushMirror(how))
    PROVE  Settled \subseteq Settled' /\ Copied'
<1>0. /\ st \in Task /\ batch \in [rows : Seq(Row), head : Heads \cup {None}, first : Nat, day : Nat]
      /\ Stages /\ today \in Nat /\ Disk \in Discs
    BY DEF Base, Types, TaskTypes, LogTypes
<1>a. /\ UNCHANGED <<window, row>> /\ st.pc \in Flushing /\ batch.rows # <<>>
    BY DEF FlushMisses, FlushMain, FlushMirror
<1>b. ASSUME NEW fs, Written(fs), OfRows(batch.rows) \subseteq ended' \cup OnDisk(Main)', ended \subseteq ended',
             OnDisk(Main) \subseteq ended' \cup OnDisk(Main)'
      PROVE  Settled \subseteq Settled' /\ Copied'
  <2>1. \/ st'.pc = st.pc /\ batch' = batch
        \/ batch' = [batch EXCEPT !.rows = <<>>] /\ ~st'.mirror
      BY <1>a, <1>b, WrittenIs
  <2>2. TaskHolds \subseteq TaskHolds' \cup ended' \cup OnDisk(Main)'
      BY <1>a, <1>b DEF TaskHolds, InWindow
  <2>3. Settled \subseteq Settled'
      BY <1>b, <2>2 DEF Settled
  <2>4. Copied'
      BY <1>a, <1>b, <2>1 DEF Copied
  <2> QED BY <2>3, <2>4
<1> DEFINE other == CHOOSE f \in Filesystems : f # Main
<1>c. other \in Filesystems /\ other # Main /\ Main \in Filesystems
    BY StorageAssumption
<1>d. batch.head \in Heads /\ batch.rows \in Seq(Row)
    BY <1>0, <1>a DEF Stages
<1>1. CASE FlushMisses
  <2>1. /\ ended' = IF st.mirror THEN ended ELSE ended \cup Lost(batch.rows)
        /\ Written(IF st.mirror THEN other ELSE Main) /\ UNCHANGED <<files, past, counts>>
      BY <1>1 DEF FlushMisses, dlVars, fileVars
  <2>2. OnDisk(Main)' = OnDisk(Main)
      BY <2>1 DEF OnDisk, OnDiskOf, FilesOf, Disk
  <2>3. OfRows(batch.rows) \subseteq ended' \cup OnDisk(Main)
      BY <2>1 DEF Copied, Lost
  <2>4. ended \subseteq ended'
      BY <2>1
  <2> QED BY <1>b, <2>1, <2>2, <2>3, <2>4
<1>2. CASE \E how \in Ends, saves \in BOOLEAN : FlushMain(how, saves)
  <2>1. PICK how \in Ends, saves \in BOOLEAN : FlushMain(how, saves)
      BY <1>2
  <2> DEFINE a == datalogAppend(Main, Disk, batch.head, batch.rows, batch.day, today, how)
  <2>2. /\ SetDisk(a.disk) /\ Written(Main)
        /\ ended' = ended \cup Trimmed(a.disk) \cup Lost(SubSeq(batch.rows, a.written + 1, Len(batch.rows)))
      BY <2>1 DEF FlushMain
  <2>3. /\ a.written \in 0..Len(batch.rows)
        /\ \A m \in 1..a.written : Has(a.disk.files[Main], batch.rows[m])
      BY <1>0, <1>a, <1>c, <1>d, AppendKeeps
  <2> HIDE DEF a
  <2>4. OnDisk(Main)' = OnDiskOf(a.disk, Main)
      BY <2>2 DEF SetDisk, OnDisk, OnDiskOf, FilesOf, Disk
  <2>5. \A m \in 1..a.written : OfVals(batch.rows[m].vals) \subseteq OnDiskOf(a.disk, Main)
      BY <2>3, HasOnDisk
  <2>6. OfRows(batch.rows) \subseteq OnDiskOf(a.disk, Main) \cup OfRows(SubSeq(batch.rows, a.written + 1, Len(batch.rows)))
      BY <1>d, <2>3, <2>5, RestOfRows
  <2>7. OnDisk(Main) \subseteq ended' \cup OnDisk(Main)'
      BY <2>2, <2>4 DEF Trimmed
  <2>8. OfRows(batch.rows) \subseteq ended' \cup OnDisk(Main)'
      BY <2>2, <2>4, <2>6 DEF Lost
  <2>9. ended \subseteq ended'
      BY <2>2
  <2> QED BY <1>b, <2>2, <2>7, <2>8, <2>9
<1>3. CASE \E how \in Ends : FlushMirror(how)
  <2>1. PICK how \in Ends : FlushMirror(how)
      BY <1>3
  <2> DEFINE a == datalogAppend(other, Disk, batch.head, batch.rows, batch.day, today, how)
  <2>2. SetDisk(a.disk) /\ Written(other) /\ ended' = ended /\ st.mirror
      BY <2>1 DEF FlushMirror
  <2> HIDE DEF other
  <2>3. /\ a.disk \in Discs
        /\ a.written \in 0..Len(batch.rows)
        /\ \A o \in Filesystems \ {other} : a.disk.files[o] = Disk.files[o] /\ a.disk.past[o] = Disk.past[o]
        /\ \A m \in 1..a.written : Has(a.disk.files[other], batch.rows[m])
        /\ Kept(Disk, other) /\ Fit(batch.head, batch.rows) => Kept(a.disk, other)
      BY <1>0, <1>a, <1>c, <1>d, AppendKeeps
  <2> HIDE DEF a
  <2>4. a.disk.files[Main] = files[Main] /\ a.disk.past[Main] = past[Main]
      BY <1>c, <2>3 DEF Disk
  <2>5. OnDisk(Main)' = OnDisk(Main)
    <3>1. OnDisk(Main)' = OnDiskOf(a.disk, Main)
        BY <2>2 DEF SetDisk, OnDisk, OnDiskOf, FilesOf, Disk
    <3> QED BY <2>4, <3>1, OnDiskIs
  <2>6. OfRows(batch.rows) \subseteq ended' \cup OnDisk(Main)'
      BY <2>2, <2>5 DEF Copied
  <2> QED BY <1>b, <2>2, <2>5, <2>6
<1> QED BY <1>1, <1>2, <1>3

\* A step that is no write and leaves the files alone, and the copy.
LEMMA CopiedStays ==
    ASSUME Copied, UNCHANGED <<files, past, batch>>, ended \subseteq ended',
           \/ st'.mirror = st.mirror /\ st'.pc = st.pc
           \/ st'.mirror = st.mirror /\ ~st.mirror
    PROVE  Copied'
<1>1. OnDisk(Main)' = OnDisk(Main)
    BY DEF OnDisk, OnDiskOf, FilesOf, Disk
<1> QED BY <1>1 DEF Copied

\* What is settled stays so, and the copy is one of rows that are.
LEMMA SettledNext ==
    ASSUME Base, Copied, [PipelineNext]_allVars, ~Boot
    PROVE  Settled \subseteq Settled' /\ Copied'
<1>0. st \in Task /\ row \in OnWay
    BY DEF Base, Types, TaskTypes
<1>a. ASSUME UNCHANGED <<files, past, window, batch, ended>>, row'.vals = row.vals, st'.mirror = st.mirror, st'.pc = st.pc
      PROVE  Settled \subseteq Settled' /\ Copied'
  <2>1. OnDisk(Main)' = OnDisk(Main)
      BY <1>a DEF OnDisk, OnDiskOf, FilesOf, Disk
  <2>2. TaskHolds' = TaskHolds
      BY <1>a DEF TaskHolds, InWindow
  <2> QED BY <1>a, <2>1, <2>2, CopiedStays DEF Settled
<1>b. ASSUME UNCHANGED <<files, past, window, batch, ended, row, st>>
      PROVE  Settled \subseteq Settled' /\ Copied'
    BY <1>a, <1>b
<1>1. CASE Starting
    BY <1>1, <1>b DEF Starting, MakeQueues, CreateTask, InitDone, stVars, dlVars, fileVars, taskVars
<1>2. CASE Ending \/ RequestRestart \/ SleepBegins
  <2>1. UNCHANGED <<dlVars, taskVars, ended>>
    <3>1. CASE CheckHealth \/ Restarts \/ (\E x \in BOOLEAN : DrainEnds(x)) \/ Sleeps
        BY <3>1 DEF CheckHealth, Restarts, DrainEnds, Sleeps, stVars
    <3>2. CASE (\E x \in BOOLEAN : WaitTask(x)) \/ RequestRestart \/ SleepBegins
        BY <3>2 DEF WaitTask, RequestRestart, SleepBegins
    <3>3. CASE RestartAsks \/ RestartWaits
        BY <3>3 DEF RestartAsks, RestartWaits, AskAndWait, WaitEnds, WaitTimesOut
    <3> QED BY <1>2, <3>1, <3>2, <3>3 DEF Ending
  <2> QED BY <1>b, <2>1 DEF dlVars, fileVars, taskVars
<1>3. CASE Ingest
    BY <1>3, <1>b DEF Ingest, Quiet, dlVars, fileVars, taskVars
<1>4. CASE Sensing \/ Processing
  <2>1. UNCHANGED <<files, past, window, batch, row, st>> /\ ended \subseteq ended'
      BY <1>4 DEF Sensing, Measure, Processing, TakeReading, HandOn, Quiet, dlVars, fileVars, taskVars
  <2>2. OnDisk(Main)' = OnDisk(Main)
      BY <2>1 DEF OnDisk, OnDiskOf, FilesOf, Disk
  <2>3. TaskHolds' = TaskHolds
      BY <2>1 DEF TaskHolds, InWindow
  <2> QED BY <2>1, <2>2, <2>3, CopiedStays DEF Settled
<1>5. CASE Storage
  <2>1. CASE FlushMisses \/ (\E how \in Ends, saves \in BOOLEAN : FlushMain(how, saves)) \/ (\E how \in Ends : FlushMirror(how))
      BY <2>1, FlushSettles
  <2>2. CASE Receive \/ Refresh \/ (\E c \in BOOLEAN : Drained(c)) \/ ReadFlag \/ (\E d \in BOOLEAN : CloseWindow(d))
             \/ ReadHeader \/ NoRoom \/ AddRow \/ NothingToFlush \/ FlushDone \/ Leave(running) \/ LastDone
    <3>1. TaskHolds \subseteq TaskHolds' \cup ended' /\ ended \subseteq ended'
      <4>1. CASE Receive
          BY <4>1, ReceiveHolds DEF Moves
      <4>2. CASE ~Receive
          BY <2>2, <4>2, PassHolds DEF Moves
      <4> QED BY <4>1, <4>2
    <3>2. files' = files /\ past' = past
        BY <2>2 DEF Receive, Refresh, Drained, ReadFlag, CloseWindow, ReadHeader, NoRoom, AddRow, NothingToFlush, FlushDone,
                    Leave, LastDone, dlVars, fileVars
    <3>3. OnDisk(Main)' = OnDisk(Main)
        BY <3>2 DEF OnDisk, OnDiskOf, FilesOf, Disk
    <3>4. Settled \subseteq Settled'
        BY <3>1, <3>3 DEF Settled
    <3>5. ~st.mirror
      <4>1. st.pc \notin Flushing \/ batch.rows = <<>>
          BY <2>2 DEF Receive, Refresh, Drained, ReadFlag, CloseWindow, ReadHeader, NoRoom, AddRow, NothingToFlush, FlushDone,
                      Answers, Leave, LastDone, Flushing
      <4> QED BY <4>1 DEF Copied
    <3>6. st'.mirror = st.mirror
      <4>1. CASE Receive \/ Refresh \/ (\E c \in BOOLEAN : Drained(c)) \/ ReadFlag
          BY <1>0, <4>1 DEF Receive, Refresh, Drained, ReadFlag, Task
      <4>2. CASE (\E d \in BOOLEAN : CloseWindow(d)) \/ Leave(running)
          BY <1>0, <4>2 DEF CloseWindow, Leave, TakeWindow, Goes, Task
      <4>3. CASE ReadHeader \/ NoRoom \/ AddRow \/ NothingToFlush \/ FlushDone \/ LastDone
          BY <1>0, <4>3 DEF ReadHeader, NoRoom, AddRow, NothingToFlush, FlushDone, LastDone, Goes, Task
      <4> QED BY <2>2, <4>1, <4>2, <4>3
    <3>7. Copied'
        BY <3>5, <3>6 DEF Copied
    <3> QED BY <3>4, <3>7
  <2> QED BY <1>5, <2>1, <2>2 DEF Storage, StorageStep
<1>6. CASE \E t \in Tasks : PassGate(t) \/ TaskEnds(t) \/ GetsStuck(t)
  <2>1. PICK t \in Tasks : PassGate(t) \/ TaskEnds(t) \/ GetsStuck(t)
      BY <1>6
  <2>2. CASE TaskEnds(t) \/ GetsStuck(t) \/ (PassGate(t) /\ t # "storage")
      BY <1>b, <2>2 DEF PassGate, TaskEnds, GetsStuck, stVars, dlVars, fileVars, taskVars
  <2>3. CASE PassGate(t) /\ t = "storage"
    <3>1. UNCHANGED <<files, past, window, row, batch, ended>> /\ tasks["storage"] = "parked"
          /\ st' = [st EXCEPT !.pc = IF running THEN "top" ELSE "gone", !.colsRev = rev]
        BY <2>3 DEF PassGate, dlVars, fileVars
    <3>2. st.pc = "none"
        BY <3>1 DEF Base, Parked
    <3>3. ~st.mirror /\ st'.mirror = st.mirror
        BY <1>0, <3>1, <3>2 DEF Copied, Flushing, Task
    <3>4. OnDisk(Main)' = OnDisk(Main)
        BY <3>1 DEF OnDisk, OnDiskOf, FilesOf, Disk
    <3>5. TaskHolds' = TaskHolds
        BY <3>1 DEF TaskHolds, InWindow
    <3> QED BY <3>1, <3>3, <3>4, <3>5, CopiedStays DEF Settled
  <2> QED BY <2>1, <2>2, <2>3
<1>7. CASE Webs
  <2>1. CASE (\E ok \in BOOLEAN : SaveList(ok)) \/ Midnight \/ datalogRequestFlush
             \/ (\E list \in Lists, keep \in BOOLEAN : TakeList(list, keep))
      BY <1>b, <2>1 DEF SaveList, Midnight, datalogRequestFlush, TakeList, dlVars, fileVars, taskVars
  <2>2. CASE \E new \in Setups : SaveSetup(new)
    <3>1. UNCHANGED <<files, past, window, batch, st, ended>> /\ (row' = row \/ row' = [row EXCEPT !.mixed = TRUE])
        BY <2>2 DEF SaveSetup, fileVars
    <3>2. row'.vals = row.vals
        BY <1>0, <3>1 DEF OnWay
    <3> QED BY <1>a, <3>1, <3>2
  <2> QED BY <1>7, <2>1, <2>2 DEF Webs
<1>8. CASE UNCHANGED allVars
    BY <1>8, <1>b DEF allVars, stVars, dlVars, fileVars, taskVars
<1> QED BY <1>1, <1>2, <1>3, <1>4, <1>5, <1>6, <1>7, <1>8 DEF PipelineNext

\* That a task was ended with its readings is not forgotten.
LEMMA ForcedStays == ASSUME forced, [PipelineNext]_allVars PROVE forced'
<1>1. CASE Starting
    BY <1>1 DEF Starting, MakeQueues, CreateTask, InitDone
<1>2. CASE Ending \/ RequestRestart \/ SleepBegins
  <2>1. CASE RestartAsks \/ RestartWaits
      BY <2>1 DEF RestartAsks, RestartWaits, plVars
  <2>2. CASE \E x \in BOOLEAN : WaitTask(x)
      BY <2>2 DEF WaitTask
  <2>3. CASE CheckHealth \/ Restarts \/ (\E x \in BOOLEAN : DrainEnds(x)) \/ Sleeps \/ RequestRestart \/ SleepBegins
      BY <2>3 DEF CheckHealth, Restarts, DrainEnds, Sleeps, RequestRestart, SleepBegins
  <2> QED BY <1>2, <2>1, <2>2, <2>3 DEF Ending
<1>3. CASE Boot \/ Sensing \/ Processing \/ Ingest \/ Storage \/ Webs
    BY <1>3 DEF Boot, Sensing, Measure, Processing, TakeReading, HandOn, Ingest, Rest, Storage, Webs, plVars
<1>4. CASE \E t \in Tasks : PassGate(t) \/ TaskEnds(t) \/ GetsStuck(t)
    BY <1>4 DEF PassGate, TaskEnds, GetsStuck
<1>5. CASE UNCHANGED allVars
    BY <1>5 DEF allVars, plVars
<1> QED BY <1>1, <1>2, <1>3, <1>4, <1>5 DEF PipelineNext

\* The invariant is kept by every step.
LEMMA AccountNext == ASSUME AccountInv, [PipelineNext]_allVars PROVE AccountInv'
<1> USE DEF AccountInv, Good
<1>0. Base' /\ None \notin Samples
    BY BaseNext, SampleType
<1>1. CASE Boot
  <2>1. st' = IdleTask /\ ended' = measured /\ measured' = measured
      BY <1>1 DEF Boot, Fresh
  <2>2. ~st'.mirror
      BY <2>1 DEF IdleTask
  <2> QED BY <1>0, <2>1, <2>2 DEF Copied, Settled
<1>2. CASE ~Boot
  <2>1. Settled \subseteq Settled' /\ Copied'
      BY <1>2, SettledNext
  <2>2. CASE forced
      BY <1>0, <2>1, <2>2, ForcedStays
  <2>0. /\ storageQ \in Seq(Samples) /\ sensorQ \in Seq(Samples) /\ hand \in Samples \cup {None}
      BY DEF Base, Types, QueueTypes
  <2>3. CASE ~forced /\ Sensing
    <3>1. PICK t \in {"sensor", "slow"}, i \in DOMAIN Readings : Measure(t, Readings[i])
        BY <2>3 DEF Sensing
    <3> DEFINE r == Readings[i]
    <3>2. r \in Samples
        BY DEF Samples
    <3>3. /\ measured' = measured \cup {r} /\ UNCHANGED <<storageQ, hand>>
          /\ sensorQ' = Append(sensorQ, r) \/ (sensorQ' = sensorQ /\ ended' = ended \cup {r})
        BY <3>1 DEF Measure
    <3> HIDE DEF r
    <3>4. r \in ToSet(sensorQ') \cup ended' /\ ToSet(sensorQ) \subseteq ToSet(sensorQ')
      <4>1. ToSet(Append(sensorQ, r)) = ToSet(sensorQ) \cup {r}
          BY <2>0, <3>2, AppendSet
      <4>2. CASE sensorQ' = Append(sensorQ, r)
          BY <4>1, <4>2
      <4>3. CASE sensorQ' = sensorQ /\ ended' = ended \cup {r}
          BY <4>3
      <4> QED BY <3>3, <4>2, <4>3
    <3>5. Waiting \subseteq Waiting' /\ r \in Waiting' \cup Settled'
        BY <3>3, <3>4 DEF Waiting, InHand, Settled
    <3> QED BY <1>0, <2>1, <2>3, <3>3, <3>5
  <2>4. CASE ~forced /\ TakeReading
    <3>1. sensorQ # <<>> /\ hand' = Head(sensorQ) /\ sensorQ' = Tail(sensorQ) /\ UNCHANGED <<storageQ, measured>>
          /\ hand = None
        BY <2>4 DEF TakeReading, Rest
    <3>2. ToSet(sensorQ) = ToSet(sensorQ') \cup {hand'} /\ hand' \in Samples
        BY <2>0, <3>1, TailSet
    <3>3. InHand = {} /\ InHand' = {hand'}
        BY <1>0, <3>1, <3>2 DEF InHand
    <3>4. Waiting \subseteq Waiting'
        BY <3>1, <3>2, <3>3 DEF Waiting
    <3> QED BY <1>0, <2>1, <2>4, <3>1, <3>4
  <2>5. CASE ~forced /\ HandOn
    <3>1. /\ hand # None /\ UNCHANGED <<sensorQ, measured>>
          /\ (storageQ' = Append(storageQ, hand)) \/ (storageQ' = storageQ /\ hand \in ended')
        BY <2>5 DEF HandOn, Uncounted, Rest
    <3>2. hand \in Samples /\ InHand = {hand}
        BY <2>0, <3>1 DEF InHand
    <3>3. ToSet(storageQ) \subseteq ToSet(storageQ') /\ hand \in ToSet(storageQ') \cup ended'
      <4>1. CASE storageQ' = Append(storageQ, hand)
        <5>1. ToSet(Append(storageQ, hand)) = ToSet(storageQ) \cup {hand}
            BY <2>0, <3>2, AppendSet
        <5> QED BY <4>1, <5>1
      <4>2. CASE storageQ' = storageQ /\ hand \in ended'
          BY <4>2
      <4> QED BY <3>1, <4>1, <4>2
    <3>4. Waiting \subseteq Waiting' \cup Settled'
        BY <3>1, <3>2, <3>3 DEF Waiting, Settled
    <3> QED BY <1>0, <2>1, <2>5, <3>1, <3>4
  <2>6. CASE ~forced /\ Storage /\ Receive
    <3>1. storageQ # <<>> /\ storageQ' = Tail(storageQ) /\ UNCHANGED <<sensorQ, hand, measured>>
        BY <2>6 DEF Storage, Receive, plVars
    <3>2. ToSet(storageQ) = ToSet(storageQ') \cup {Head(storageQ)}
        BY <2>0, <3>1, TailSet
    <3>3. Head(storageQ).good => Head(storageQ) \in Settled'
        BY <2>6, ReceiveHolds DEF Moves, Settled
    <3>4. Good(Waiting) \subseteq Waiting' \cup Settled'
        BY <3>1, <3>2, <3>3 DEF Waiting, InHand
    <3> QED BY <1>0, <2>1, <2>6, <3>1, <3>4
  <2>7. CASE ~forced /\ ~Sensing /\ ~Processing /\ ~(Storage /\ Receive)
    <3>1. UNCHANGED <<storageQ, sensorQ, hand, measured>>
        BY <1>2, <2>7, Elsewhere
    <3>2. Waiting' = Waiting
        BY <3>1 DEF Waiting, InHand
    <3> QED BY <1>0, <2>1, <2>7, <3>1, <3>2
  <2> QED BY <2>2, <2>3, <2>4, <2>5, <2>6, <2>7 DEF Processing
<1> QED BY <1>1, <1>2

\* At first nothing was measured.
LEMMA AccountInit == ASSUME InitPipeline PROVE AccountInv
<1>1. Base
    BY BaseInit
<1>2. measured = {} /\ \E pc : st = [IdleTask EXCEPT !.pc = pc]
    BY DEF InitPipeline
<1>3. ~st.mirror
    BY <1>2 DEF IdleTask
<1> QED BY <1>1, <1>2, <1>3 DEF AccountInv, Copied, Good

\* A good reading is in a queue, in a hand, with the storage task or on disk, or
\* it was counted, left out by a setting or trimmed: none vanishes between three
\* tasks, but in a queue whose reader ended or a task that was deleted.
THEOREM ReadingsAccounted == PipelineSpec => []ReadingAccounted
<1>1. AccountInv /\ [PipelineNext]_allVars => AccountInv'
    BY AccountNext
<1>2. AccountInv => ReadingAccounted
    BY DEF AccountInv, ReadingAccounted, Accounted, Good, Waiting, Settled
<1> QED BY <1>1, <1>2, AccountInit, PTL DEF PipelineSpec
=============================================================================
