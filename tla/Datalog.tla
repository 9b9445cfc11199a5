------------------------------ MODULE Datalog ------------------------------
(***************************************************************************)
(* The data log (storage/Datalog.cpp): the list of columns, learned from   *)
(* the readings or replaced from the settings page, and the writer, which  *)
(* starts a new file when the header, the day or the size says so, keeps   *)
(* the file under its limit and counts its lines without reading it again. *)
(* A file is a sequence of lines; labels, number formats and paths are     *)
(* left out, so a header says its layout and its columns with their modes, *)
(* and a row what was combined under each column.                          *)
(***************************************************************************)
EXTENDS Integers, Sequences, FiniteSets, SequencesExt

CONSTANTS
    Metrics,      \* sensor metrics a reading can be of
    Modes,        \* ways to combine an interval's readings; Avg is one of them
    Avg,
    Layouts,      \* what config.datalog's formats can be set to
    MaxCols,      \* DL_MAX_COLS: columns logged
    MaxListed,    \* DL_MAX_ENTRIES: columns listed, logged or not
    MaxRows,      \* config.datalog.maxEntries
    MaxLines,     \* config.datalog.maxSizeKB, in lines
    Filesystems,  \* the log's file system, and its mirror
    None

ASSUME DatalogAssumption ==
    /\ Avg \in Modes /\ MaxCols \in Nat \ {0} /\ MaxListed \in Nat \ {0}
    /\ MaxRows \in Nat \ {0} /\ MaxLines \in Nat \ {0} /\ None \notin Metrics

VARIABLES
    cols,         \* s_cols: records [m, on, agg], in file order
    auto,         \* s_auto: unknown metrics are appended
    learned,      \* s_learned: appended since the list was saved
    rev,          \* s_rev: moves when a logged column is renumbered or combined differently
    colsFile,     \* /datalog_cols.json
    setup,        \* config: [csv, layout, rotation, mirror]
    files,        \* the active file of each file system, or NoFile: [lines, day, unmoved];
                  \* unmoved: a rename failed on it (ghost)
    past,         \* the files moved aside, per file system
    counts        \* s_lcs: the line count of each active file, None when unknown

listVars == <<cols, auto, learned, rev>>
fileVars == <<files, past, counts>>
dlVars   == <<listVars, colsFile, setup, fileVars>>

Col   == [m : Metrics, on : BOOLEAN, agg : Modes]
Setup == [csv : BOOLEAN, layout : Layouts, rotation : {"none", "daily", "size"}, mirror : BOOLEAN]

-----------------------------------------------------------------------------
(* Columns.                                                                *)

\* The logged entries among the first i of a list.
OnUpTo(list, i) == {k \in DOMAIN list : k <= i /\ list[k].on}
Place(list, i)  == Cardinality(OnUpTo(list, i))
onCount(list)   == Place(list, Len(list))

\* The column of a metric: that of its first entry, 0 when that is off.
First(list, m)    == CHOOSE i \in DOMAIN list : list[i].m = m /\ \A k \in 1..(i - 1) : list[k].m # m
Listed(list, m)   == \E i \in DOMAIN list : list[i].m = m
ColumnOf(list, m) == IF Listed(list, m) /\ list[First(list, m)].on THEN Place(list, First(list, m)) ELSE 0

\* What is logged in which column, and how; switched-off ones do not count.
Entry(list, c)  == CHOOSE i \in DOMAIN list : list[i].on /\ Place(list, i) = c
numbering(list) ==
    [c \in 1..onCount(list) |-> [m |-> list[Entry(list, c)].m, agg |-> list[Entry(list, c)].agg]]

\* A list as it is taken over: its first MaxListed entries, and of those that
\* are to be on the first MaxCols.
parsed(list) ==
    [i \in {k \in DOMAIN list : k <= MaxListed} |->
        [m |-> list[i].m, on |-> list[i].on /\ Place(list, i) <= MaxCols, agg |-> list[i].agg]]

parseCols(list, keep) ==
    /\ cols' = parsed(list) /\ auto' = keep
    /\ rev' = IF numbering(parsed(list)) # numbering(cols) THEN rev + 1 ELSE rev

\* A metric nobody listed is appended while auto is on.  Nothing moves for it,
\* so the revision stays.
Learn(list, keep, m) ==
    IF Listed(list, m) \/ ~keep \/ Len(list) = MaxListed THEN list
    ELSE Append(list, [m |-> m, on |-> onCount(list) < MaxCols, agg |-> Avg])

\* The flag is cleared before the write, whatever becomes of that.
saveCols(ok) ==
    /\ learned' = FALSE
    /\ colsFile' = IF ok THEN [cols |-> cols, auto |-> auto] ELSE colsFile

\* After a restart the list is what was saved: none logs every metric.
datalogColsBegin ==
    /\ cols' = IF colsFile = None THEN <<>> ELSE parsed(colsFile.cols)
    /\ auto' = IF colsFile = None THEN TRUE ELSE colsFile.auto
    /\ rev' = 1 /\ learned' = FALSE

-----------------------------------------------------------------------------
(* Header and rows.                                                        *)

\* The header of this moment; sensor columns only while sensor rows are logged.
datalogHeader == [layout |-> setup.layout, cols |-> IF setup.csv THEN numbering(cols) ELSE <<>>]

\* A line is a header, a row, a half row, a row glued to a half one, or a header
\* that was and is none any more.
Line(kind, head, row) == [kind |-> kind, head |-> head, row |-> row]
IsRow(l) == l.kind \in {"row", "glued"}

-----------------------------------------------------------------------------
(* Writer.                                                                 *)

NoFile == [lines |-> <<>>, day |-> 0, unmoved |-> FALSE]

\* Moved aside under a free name; a failed rename leaves the file, and the
\* caller goes on as if it were new.
archive(fs, disk, how) ==
    IF how = "norename" THEN [disk EXCEPT !.files[fs].unmoved = TRUE, !.counts[fs] = None]
    ELSE [disk EXCEPT !.files[fs] = NoFile, !.past[fs] = @ \cup {disk.files[fs]}, !.counts[fs] = None]

\* The file was last written on another day than the newest row is of, has
\* grown too large, or keeps another header.
Rotates(file, header, epoch) ==
    \/ setup.rotation = "daily" /\ file.day # epoch
    \/ /\ file.lines # <<>>
       /\ \/ setup.rotation = "size" /\ Len(file.lines) > MaxLines
          \/ Head(file.lines).head # header

countLines(fs, disk) ==
    IF disk.counts[fs] # None THEN disk.counts[fs]
    ELSE Cardinality({i \in DOMAIN disk.files[fs].lines : disk.files[fs].lines[i].kind # "half"})

\* Fault: every row goes on top of a full file.
TooManyBefore(rows, adding) == rows > MaxRows

\* The oldest rows go, so that the file holds nine tenths of its limit.
TooMany(rows, adding) == rows + adding > MaxRows

TrimTo == MaxRows - MaxRows \div 10
trim(fs, disk, adding) ==
    LET rows == countLines(fs, disk) - 1
        drop == IF rows + adding - TrimTo > rows THEN rows ELSE rows + adding - TrimTo
        old  == disk.files[fs].lines
    IN  IF ~TooMany(rows, adding) \/ drop <= 0 THEN disk
        ELSE [disk EXCEPT !.files[fs].lines = <<Head(old)>> \o SubSeq(old, drop + 2, Len(old)),
                          !.counts[fs] = None]

\* A short write stops in the middle of a row.  That half has no line end, so
\* the next line is glued to it.
Half == Line("half", None, None)
Joined(l) == IF l.kind = "row" THEN Line("glued", None, l.row) ELSE Line("spoilt", None, None)
Glued(lines, new) ==
    IF lines = <<>> \/ Last(lines) # Half \/ new = <<>> THEN lines \o new
    ELSE Front(lines) \o <<Joined(Head(new))>> \o Tail(new)

\* datalogAppend() of rows the newest of which is of day `epoch`, on day `now`.
\* How it ends is the file system's: everything is written, all but the last
\* row is, or it stops at one of its steps.
Ends == {"ok", "short", "nomem", "norename", "notrim", "noopen"}
datalogAppend(fs, disk0, header, rows, epoch, now, how) ==
    LET was   == disk0.files[fs]
        moves == was # NoFile /\ Rotates(was, header, epoch)
        disk1 == IF moves THEN archive(fs, disk0, how) ELSE disk0
        full  == ~moves /\ was.lines # <<>>
        disk2 == IF full THEN trim(fs, disk1, Len(rows)) ELSE disk1
        base  == disk2.files[fs].lines
        n     == IF how = "short" THEN Len(rows) - 1 ELSE Len(rows)
        new   == (IF full THEN <<>> ELSE <<Line("head", header, None)>>) \o [i \in 1..n |-> Line("row", None, rows[i])]
        known == IF full THEN disk2.counts[fs] ELSE 0
    IN  IF how = "nomem" /\ was # NoFile THEN [disk |-> disk0, written |-> 0]
        ELSE IF how = "notrim" /\ disk2 # disk1 THEN [disk |-> disk1, written |-> 0]
        ELSE IF how = "noopen" THEN [disk |-> disk2, written |-> 0]
        ELSE [disk |-> [disk2 EXCEPT
                          !.files[fs] = [lines |-> Glued(base, new) \o (IF how = "short" THEN <<Half>> ELSE <<>>),
                                         day |-> now,
                                         unmoved |-> disk2.files[fs].unmoved],
                          !.counts[fs] = IF known = None THEN None ELSE known + Len(new)],
              written |-> n]
=============================================================================
