---------------------------- MODULE StorageTask ----------------------------
(***************************************************************************)
(* The task that turns readings into rows (tasks/StorageTask.cpp,          *)
(* pipeline/LiveAggregator.cpp, pipeline/FlowRunLogger.cpp), with the      *)
(* requests it works against: columns and settings saved on the web task,  *)
(* a flush somebody asks for, and one the restart waits for.               *)
(*                                                                         *)
(* A pass of its loop is cut where another task can come between: the      *)
(* settings, the queue, the revision with the window, the header, the row, *)
(* the write, the write of the mirror, the answer to the flush.            *)
(***************************************************************************)
EXTENDS Datalog

CONSTANTS
    BatchRows,    \* DL_BATCH_ROWS
    DrainMax,     \* 32: readings a pass takes off the queue at most
    Flow,         \* the metric whose runs are logged; None without a flowmeter
    Main          \* the log's file system; any other of Filesystems is the mirror

ASSUME StorageAssumption ==
    /\ BatchRows \in 1..MaxRows /\ DrainMax \in Nat \ {0}
    /\ Main \in Filesystems /\ \E fs \in Filesystems : fs # Main

VARIABLES
    storageQ,     \* storageQueue
    window,       \* LiveAggregator: the readings summed up, per logged column
    run,          \* FlowRunLogger: a fill is "idle" or "running"
    row,          \* the row on its way into the batch, or NoRow: [day, vals, wantRev, head, mixed]
    batch,        \* the rows not yet written: [rows, head, first, day]
    st,           \* the task: [pc, then, writing, colsRev, req, k, mirror]
    flush,        \* s_flushReq
    waiter,       \* the restart, waiting for a flush: [at, owes]
    web,          \* the web task: a list it has taken over but not saved yet
    today,        \* the day by the clock
    left,         \* what may still happen
    ended         \* ghost: readings counted as lost, left out by a setting, or trimmed

taskVars == <<window, run, row, batch, st>>
askVars  == <<flush, waiter>>
envVars  == <<web, today, left>>
stVars   == <<dlVars, storageQ, taskVars, askVars, envVars, ended>>

NoWindow == [c \in 1..MaxCols |-> {}]
NoRow    == [day |-> 0, vals |-> <<>>, wantRev |-> 0, head |-> None, mixed |-> FALSE]
NoBatch  == [rows |-> <<>>, head |-> None, first |-> 0, day |-> 0]
InWindow == UNION {window[c] : c \in 1..MaxCols}
OfVals(vals) == UNION {vals[i].of : i \in DOMAIN vals}
OfRows(rows) == UNION {OfVals(rows[i].vals) : i \in DOMAIN rows}
TaskHolds == InWindow \cup OfVals(row.vals) \cup OfRows(batch.rows)
OfLines(lines) == UNION {OfVals(lines[i].row.vals) : i \in {k \in DOMAIN lines : IsRow(lines[k])}}
FilesOf(d, fs) == d.past[fs] \cup {d.files[fs]}
OnDiskOf(d, fs) == UNION {OfLines(f.lines) : f \in FilesOf(d, fs)}
Disk == [files |-> files, past |-> past, counts |-> counts]
OnDisk(fs) == OnDiskOf(Disk, fs)

Spend(k) == left[k] > 0 /\ left' = [left EXCEPT ![k] = @ - 1]

-----------------------------------------------------------------------------
(* A pass of the loop.                                                     *)

Goes(pc) == st' = [st EXCEPT !.pc = pc]

\* The settings are read again; switching rows on or off drops the window.
Refresh ==
    /\ st.pc = "top"
    /\ st' = [st EXCEPT !.pc = "drain", !.writing = setup.csv, !.k = 0]
    /\ window' = IF setup.csv # st.writing THEN NoWindow ELSE window
    /\ ended'  = IF setup.csv # st.writing THEN ended \cup InWindow ELSE ended
    /\ UNCHANGED <<dlVars, storageQ, run, row, batch, askVars, envVars>>

\* LiveAggregator::feed() and FlowRunLogger::feed() drop a reading of quality
\* error, and one that is no number. Nobody counts it.
Feeds(r) == r.good

\* A flow reading may begin a fill, if there is flow enough.
MayFill(r) == Feeds(r) /\ r.m = Flow /\ run = "idle"

\* A reading's column is learned if it is new, good reading or not; a good one
\* goes into the column's sums.
Receive ==
    /\ st.pc = "drain" /\ storageQ # <<>> /\ st.k < DrainMax
    /\ LET r    == Head(storageQ)
           list == IF st.writing THEN Learn(cols, auto, r.m) ELSE cols
           c    == IF st.writing THEN ColumnOf(list, r.m) ELSE 0
       IN  /\ cols' = list /\ learned' = (learned \/ list # cols)
           /\ window' = IF c # 0 /\ Feeds(r) THEN [window EXCEPT ![c] = @ \cup {r}] ELSE window
           /\ ended'  = IF c = 0 THEN ended \cup {r} ELSE ended
           /\ run' \in IF MayFill(r) THEN {run, "running"} ELSE {run}
    /\ storageQ' = Tail(storageQ) /\ st' = [st EXCEPT !.k = @ + 1]
    /\ UNCHANGED <<auto, rev, colsFile, setup, fileVars, row, batch, askVars, envVars>>

\* The queue stayed empty for 100 ms or 32 readings were taken: a fill that has
\* been idle for long enough is closed, and its row is written at once.
Drained(closes) ==
    /\ st.pc = "drain" /\ (storageQ = <<>> \/ st.k = DrainMax)
    /\ closes => run = "running"
    /\ run' = IF closes THEN "idle" ELSE run
    /\ row' = IF closes THEN [NoRow EXCEPT !.day = today] ELSE row
    /\ st' = IF closes THEN [st EXCEPT !.pc = "header", !.then = "run"] ELSE [st EXCEPT !.pc = "flag"]
    /\ UNCHANGED <<dlVars, storageQ, window, batch, askVars, envVars, ended>>

ReadFlag ==
    /\ st.pc = "flag"
    /\ st' = [st EXCEPT !.pc = "window", !.req = flush]
    /\ UNCHANGED <<dlVars, storageQ, window, run, row, batch, askVars, envVars, ended>>

\* A row of the window: each column by its own mode, of which the list is
\* copied with its revision.
Combined == [i \in 1..onCount(cols) |-> [of |-> window[i], agg |-> numbering(cols)[i].agg]]

\* LiveAggregator::take(): nothing was fed, nothing to write.
TakeWindow(then, none) ==
    LET takes == InWindow # {} /\ setup.csv
    IN  /\ window' = NoWindow
        /\ row' = IF takes THEN [day |-> today, vals |-> Combined, wantRev |-> st.colsRev,
                                    head |-> None, mixed |-> FALSE] ELSE row
        /\ ended' = IF takes THEN ended ELSE ended \cup InWindow
        /\ st' = IF takes THEN [st EXCEPT !.pc = "header", !.then = then] ELSE [st EXCEPT !.pc = none]

\* Fault: a flush with nothing to write is not answered.
AnswersRowsOnly == IF st.req /\ batch.rows # <<>> THEN "flush" ELSE "top"

\* A flush that was asked for is answered when the window is dealt with.
Answering == IF st.req THEN "flush" ELSE "top"

\* A fill's row is written at once; a window's waits for the batch to fill.
Added == CASE st.then = "run" -> "runflush" [] st.then = "exit" -> "exitflush" [] OTHER -> Answering

\* A column renumbered, or combined differently, while the readings went in:
\* the sums belong to another list and are dropped.  Otherwise the window
\* closes when it is due or a flush was asked for.
CloseWindow(due) ==
    /\ st.pc = "window"
    /\ IF rev # st.colsRev
       THEN /\ window' = NoWindow /\ ended' = ended \cup InWindow /\ row' = row
            /\ st' = [st EXCEPT !.pc = Answering, !.colsRev = rev, !.then = "answer"]
       ELSE IF st.writing /\ (due \/ st.req)
            THEN TakeWindow("row", Answering)
            ELSE UNCHANGED <<window, row, ended>> /\ st' = [st EXCEPT !.pc = Answering, !.then = "answer"]
    /\ UNCHANGED <<dlVars, storageQ, run, batch, askVars, envVars>>

\* While a row is on its way.
Rowing == {"header", "before", "room", "format"}

\* Fault: only the headers are compared.
OtherListUnchecked(want) == FALSE

\* The list is not the one the row's values were combined by.
OtherList(want) == want # 0 /\ rev # want

SamePeriod(a, b) == setup.rotation # "daily" \/ a = b

\* Batch::add(): a batch under another header, or of another day, is written
\* first.
ReadHeader ==
    /\ st.pc = "header"
    /\ IF OtherList(row.wantRev)
       THEN /\ ended' = ended \cup OfVals(row.vals) /\ row' = NoRow /\ Goes(Added)
       ELSE /\ row' = [row EXCEPT !.head = datalogHeader] /\ UNCHANGED ended
            /\ Goes(IF batch.rows # <<>> /\ (datalogHeader # batch.head \/ ~SamePeriod(batch.first, row.day))
                    THEN "before" ELSE "format")
    /\ UNCHANGED <<dlVars, storageQ, window, run, batch, askVars, envVars>>

\* No room for the row behind the ones that wait, all of them long.
NoRoom ==
    /\ st.pc = "format" /\ batch.rows # <<>> /\ Spend("long") /\ Goes("room")
    /\ UNCHANGED <<dlVars, storageQ, window, run, row, batch, askVars, web, today, ended>>

\* The row is formatted by the settings of now, and joins the batch.
AddRow ==
    /\ st.pc = "format"
    /\ batch' = [rows |-> Append(batch.rows, [layout |-> setup.layout, vals |-> row.vals,
                                             day |-> row.day, mixed |-> row.mixed]),
                 head |-> IF batch.rows = <<>> THEN row.head ELSE batch.head,
                 first |-> IF batch.rows = <<>> THEN row.day ELSE batch.first, day |-> row.day]
    /\ row' = NoRow
    /\ Goes(IF Len(batch.rows) + 1 >= BatchRows THEN "full" ELSE Added)
    /\ UNCHANGED <<dlVars, storageQ, window, run, askVars, envVars, ended>>

-----------------------------------------------------------------------------
(* Batch::flush().                                                         *)

Flushing == {"before", "room", "full", "runflush", "flush", "exitflush"}
After(pc) == CASE pc \in {"before", "room"} -> "format" [] pc = "full" -> Added [] pc = "runflush" -> "flag"
               [] pc = "flush" -> "answer" [] pc = "exitflush" -> "last"

SetDisk(d) == files' = d.files /\ past' = d.past /\ counts' = d.counts

\* The two seconds fsMutex is waited for were not enough.
Busy == Spend("busy")
Fails(well) == IF well THEN UNCHANGED left ELSE Spend("faults")

\* Fault: the rows of a lock not obtained are not counted.
LostUncounted(rows) == {}

\* What is counted as lost when rows are not written.
Lost(rows) == OfRows(rows)

\* Readings that were in the log and are not any more.
Trimmed(d) == OnDisk(Main) \ OnDiskOf(d, Main)

NothingToFlush ==
    /\ st.pc \in Flushing /\ batch.rows = <<>> /\ Goes(After(st.pc))
    /\ UNCHANGED <<dlVars, storageQ, window, run, row, batch, askVars, envVars, ended>>

Written(fs) == IF ~setup.mirror \/ fs # Main
               THEN batch' = [batch EXCEPT !.rows = <<>>] /\ st' = [st EXCEPT !.pc = After(st.pc), !.mirror = FALSE]
               ELSE UNCHANGED batch /\ st' = [st EXCEPT !.mirror = TRUE]

FlushMisses ==
    /\ st.pc \in Flushing /\ batch.rows # <<>> /\ Busy
    /\ LET fs == IF st.mirror THEN CHOOSE f \in Filesystems : f # Main ELSE Main IN
       /\ ended' = IF st.mirror THEN ended ELSE ended \cup Lost(batch.rows)
       /\ Written(fs)
    /\ UNCHANGED <<dlVars, storageQ, window, run, row, askVars, web, today>>

\* The rows, and under the same lock the list if it has learned columns.
FlushMain(how, saves) ==
    /\ st.pc \in Flushing /\ batch.rows # <<>> /\ ~st.mirror
    /\ Fails(how = "ok" /\ saves) /\ (learned \/ saves)
    /\ LET a == datalogAppend(Main, Disk, batch.head, batch.rows, batch.day, today, how)
       IN  /\ SetDisk(a.disk)
           /\ ended' = ended \cup Trimmed(a.disk) \cup Lost(SubSeq(batch.rows, a.written + 1, Len(batch.rows)))
    /\ IF learned THEN saveCols(saves) ELSE UNCHANGED <<learned, colsFile>>
    /\ Written(Main)
    /\ UNCHANGED <<cols, auto, rev, setup, storageQ, window, run, row, askVars, web, today>>

\* The same rows once more, on the other file system.
FlushMirror(how) ==
    /\ st.pc \in Flushing /\ batch.rows # <<>> /\ st.mirror /\ Fails(how = "ok")
    /\ LET fs == CHOOSE f \in Filesystems : f # Main IN
       /\ SetDisk(datalogAppend(fs, Disk, batch.head, batch.rows, batch.day, today, how).disk)
       /\ Written(fs)
    /\ UNCHANGED <<listVars, colsFile, setup, storageQ, window, run, row, askVars, web, today, ended>>

\* Fault: the flush is answered before it is done.
AnswersEarly == st.req /\ st.pc \in {"answer", "flush"}

\* datalogFlushDone() takes away whatever was asked for in the meantime.
Answers == st.pc = "answer"
FlushDone ==
    /\ Answers
    /\ flush' = FALSE /\ Goes(IF st.pc = "answer" THEN "top" ELSE st.pc)
    /\ UNCHANGED <<dlVars, storageQ, window, run, row, batch, waiter, envVars, ended>>

\* The loop is left: the window in progress and the batch are written.
Leave(running) ==
    /\ st.pc = "top" /\ ~running
    /\ IF st.writing /\ rev = st.colsRev
       THEN TakeWindow("exit", "exitflush")
       ELSE /\ ended' = ended \cup InWindow /\ window' = NoWindow /\ row' = row
            /\ Goes("exitflush")
    /\ UNCHANGED <<dlVars, storageQ, run, batch, askVars, envVars>>
LastDone ==
    /\ st.pc = "last" /\ flush' = FALSE /\ Goes("gone")
    /\ UNCHANGED <<dlVars, storageQ, window, run, row, batch, waiter, envVars, ended>>

-----------------------------------------------------------------------------
(* The web task and the clock.                                             *)

\* datalogColsFromJson(): the list is taken over at once, and saved under
\* fsMutex afterwards.
TakeList(list, keep) ==
    /\ web = None /\ Spend("lists") /\ parseCols(list, keep) /\ web' = "saving"
    /\ UNCHANGED <<learned, colsFile, setup, fileVars, storageQ, taskVars, askVars, today, ended>>
SaveList(ok) ==
    /\ web = "saving" /\ web' = None
    /\ Fails(ok)
    /\ saveCols(ok)
    /\ UNCHANGED <<cols, auto, rev, setup, fileVars, storageQ, taskVars, askVars, today, ended>>

\* Settings are saved: the formats, the rotation, sensor rows on or off.
SaveSetup(new) ==
    /\ new # setup /\ new.mirror = setup.mirror /\ Spend("setups") /\ setup' = new
    /\ row' = IF st.pc \in Rowing THEN [row EXCEPT !.mixed = TRUE] ELSE row
    /\ UNCHANGED <<listVars, colsFile, fileVars, storageQ, window, run, batch, st, askVars, web, today, ended>>

datalogRequestFlush ==
    /\ Spend("asks") /\ flush' = TRUE
    /\ UNCHANGED <<dlVars, storageQ, taskVars, waiter, web, today, ended>>

\* datalogFlushAndWait(), for the restart: `owes` is what the task holds.
AskAndWait(running) ==
    /\ waiter.at = "idle"
    /\ IF running THEN flush' = TRUE /\ waiter' = [at |-> "waits", owes |-> TaskHolds]
       ELSE UNCHANGED flush /\ waiter' = [waiter EXCEPT !.at = "given up"]
    /\ UNCHANGED <<dlVars, storageQ, taskVars, envVars, ended>>
WaitEnds ==
    /\ waiter.at = "waits" /\ ~flush /\ waiter' = [waiter EXCEPT !.at = "answered"]
    /\ UNCHANGED <<dlVars, storageQ, taskVars, flush, envVars, ended>>
WaitTimesOut ==
    /\ waiter.at = "waits" /\ flush /\ waiter' = [waiter EXCEPT !.at = "given up"]
    /\ UNCHANGED <<dlVars, storageQ, taskVars, flush, envVars, ended>>

Midnight ==
    /\ Spend("midnights") /\ today' = today + 1
    /\ UNCHANGED <<dlVars, storageQ, taskVars, askVars, web, ended>>

-----------------------------------------------------------------------------
(* Properties.                                                             *)

\* The header a line is read by: the nearest one above it.
HeaderOf(lines, i) ==
    lines[CHOOSE k \in 1..i : lines[k].kind = "head" /\ \A j \in (k + 1)..i : lines[j].kind # "head"].head
Labelled(h, r) ==
    /\ r.layout = h.layout
    /\ Len(r.vals) <= Len(h.cols)
    /\ \A i \in DOMAIN r.vals : r.vals[i].of # {} =>
          r.vals[i].agg = h.cols[i].agg /\ \A x \in r.vals[i].of : x.m = h.cols[i].m
Files(fs) == FilesOf(Disk, fs)

\* A row is read by the header above it: its values are under the labels of
\* the metrics they were measured of, combined as the label says, whatever was
\* renumbered, learned or rotated while it waited.  Excepted are a row that was
\* being added while settings were saved, and files a rename failed on.
RowsMatchHeader ==
    \A fs \in Filesystems : \A f \in Files(fs) : \A i \in DOMAIN f.lines :
        f.lines[i].kind = "row" /\ ~f.lines[i].row.mixed /\ ~f.unmoved
            => Labelled(HeaderOf(f.lines, i), f.lines[i].row)

\* The file stays under its limit, though its lines are counted from memory,
\* except one a rename failed on: it is taken for a new file.
RetentionKept ==
    \A fs \in Filesystems : ~files[fs].unmoved =>
        Cardinality({i \in DOMAIN files[fs].lines : IsRow(files[fs].lines[i])}) <= MaxRows

\* A restart that was told its flush is done has nothing of what the task had
\* taken off the queue left in RAM, though another request of the same flag may
\* have been answered just before.
FlushCovers ==
    waiter.at = "answered" => waiter.owes \cap TaskHolds = {}

\* Datalog.h on datalogSamePeriod(): a batch is written to one period's file,
\* so with daily rotation a file holds the rows of one day.
OneDayPerFile ==
    \A fs \in Filesystems : \A f \in Files(fs) : \A i, j \in DOMAIN f.lines :
        setup.rotation = "daily" /\ IsRow(f.lines[i]) /\ IsRow(f.lines[j])
            => f.lines[i].row.day = f.lines[j].row.day
=============================================================================
