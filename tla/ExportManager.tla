--------------------------- MODULE ExportManager ---------------------------
(***************************************************************************)
(* The exporters of the collector (src/export/ExportManager.cpp), run by   *)
(* ExportTask alone: a table of the latest value per sensor and metric     *)
(* from which every periodic exporter sends on its interval, and a spool   *)
(* file per exporter that keeps what could not be sent.  The partners are  *)
(* the server, which takes a batch, refuses it, asks to slow down, fails   *)
(* or does not answer; the file system, which is busy, full or damaged;    *)
(* and the reset, which keeps the offsets into the spools or does not.     *)
(***************************************************************************)
EXTENDS Integers, Sequences, SequencesExt, FiniteSets

CONSTANTS
    ExporterCount,     \* exporters registered, in order
    Spooling,          \* those whose spoolOnFailure() is true
    Readings,          \* records with a key (sensor and metric) and a time t
    Takes,             \* the keys each exporter is selected for and wants
    LatestSlots,       \* EXPORT_LATEST_SLOTS
    SpoolBatch,        \* EXPORT_SPOOL_BATCH
    MaxSpool,          \* MAX_SPOOL_BYTES, in records
    MaxRetries,        \* maxRetries()
    UnconfirmedSpoolAfter, ReadFailsMax,
    Resets,            \* the kinds of reset that happen
    MaxResets,
    Nothing

Exporter == 1..ExporterCount
ResetKinds == {"panic", "power", "format"}

ASSUME ExportAssumption ==
    /\ ExporterCount \in Nat \ {0} /\ Spooling \subseteq Exporter
    /\ Takes \in [Exporter -> SUBSET {r.key : r \in Readings}]
    /\ \A r \in Readings : r.t \in Nat
    /\ {LatestSlots, SpoolBatch, MaxSpool, UnconfirmedSpoolAfter, ReadFailsMax} \subseteq Nat \ {0}
    /\ MaxRetries \in Nat /\ MaxResets \in Nat /\ Resets \subseteq ResetKinds
    /\ Nothing \notin [recs : Seq(Readings), torn : BOOLEAN]

VARIABLES
    latest,          \* the occupied slots: [r, seq]
    seq, sentSeq,    \* _seq, _sentSeq
    due,             \* whose _nextDueMs has passed
    spool,           \* the file: Nothing or [recs, torn]
    spoolOff,        \* _spoolOff and its copy in RTC memory, in records
    readFails, unconfirmedRun,
    task,            \* where tick() is
    resets,
    orphan,          \* the file an offset belonged to is gone and the offset is not
    seen,            \* readings that came off exportQueue
    traced,          \* a reading and an exporter, any two
    fate             \* what became of the one with the other

ramVars  == <<latest, seq, sentSeq, due, readFails, unconfirmedRun>>
fileVars == <<spool, spoolOff, orphan>>
fateVars == <<seen, traced, fate>>
vars     == <<ramVars, fileVars, fateVars, task, resets>>

Stages == {"idle", "walk", "live", "spool", "drain", "replay", "mark", "trim", "reset"}
Idle   == [at |-> "idle", e |-> 1, batch |-> <<>>, attempt |-> 0, before |-> 0, late |-> FALSE]

\* confirmed: answered for by the server.  excused: superseded, refused,
\* dropped with a line in the log, or in RAM at a reset.  unheard: in a batch
\* moved past although no answer came.  again: sent, and a reset or a failed
\* remove made the spool start over.
Fates          == {"confirmed", "excused", "unheard", "again"}
Tag(f, e, S)   == IF traced.e = e /\ traced.r \in S THEN {f} ELSE {}
Becomes(f, e, S) == fate' = fate \cup Tag(f, e, S)
Wanted(e, S)   == {r \in S : r.key \in Takes[e]}
Pending(e)     == {s \in latest : s.seq > sentSeq[e] /\ s.r.key \in Takes[e]}
Owed(e)        == {s.r : s \in Pending(e)}
SentByAll      == CHOOSE m \in {sentSeq[e] : e \in Exporter} : \A e \in Exporter : m <= sentSeq[e]
Recs(e)        == IF spool[e] = Nothing THEN <<>> ELSE spool[e].recs
Unsent(e)      == IF orphan[e] THEN ToSet(Recs(e))
                  ELSE ToSet(SubSeq(Recs(e), spoolOff[e] + 1, Len(Recs(e))))
InHand(e)      == IF task.e = e THEN ToSet(task.batch) ELSE {}

Init ==
    /\ latest = {} /\ seq = 0 /\ resets = 0 /\ seen = {} /\ task = Idle
    /\ sentSeq = [e \in Exporter |-> 0] /\ due = [e \in Exporter |-> FALSE]
    /\ spool = [e \in Exporter |-> Nothing] /\ spoolOff = [e \in Exporter |-> 0]
    /\ readFails = [e \in Exporter |-> 0] /\ unconfirmedRun = [e \in Exporter |-> 0]
    /\ orphan = [e \in Exporter |-> FALSE]
    /\ traced \in [e : Exporter, r : Readings] /\ fate = {}
-----------------------------------------------------------------------------
(* ingest(): a reading takes the slot of its key, else an empty one, else  *)
(* one every exporter has sent, else the one updated longest ago.  An      *)
(* older reading than the slot holds is dropped while that one's time is   *)
(* plausible; the clock decides, so either may happen.                     *)

\* Fault: the slot updated last.
Highest(S) == {s \in S : \A o \in S : s.seq >= o.seq}

Lowest(S)  == {s \in S : \A o \in S : s.seq <= o.seq}

SlotFor(r) == LET same  == {s \in latest : s.r.key = r.key}
                  spare == {s \in latest : s.seq <= SentByAll}
              IN  IF same # {} THEN same
                  ELSE IF Cardinality(latest) < LatestSlots THEN {}
                  ELSE IF spare # {} THEN Lowest(spare) ELSE Lowest(latest)

Store(r) == LET gone == SlotFor(r) IN
    /\ seq' = seq + 1
    /\ latest' = (latest \ gone) \cup {[r |-> r, seq |-> seq + 1]}
    /\ Becomes("excused", traced.e, {s.r : s \in gone \cap Pending(traced.e)})

NotTheLatest(r) ==
    /\ \E s \in latest : s.r.key = r.key /\ r.t < s.r.t
    /\ Becomes("excused", traced.e, Wanted(traced.e, {r}))
    /\ UNCHANGED <<latest, seq>>

Ingest(r) ==
    /\ task.at = "idle" /\ r \notin seen
    /\ seen' = seen \cup {r}
    /\ Store(r) \/ NotTheLatest(r)
    /\ UNCHANGED <<sentSeq, due, readFails, unconfirmedRun, fileVars, task, resets, traced>>
-----------------------------------------------------------------------------
(* tick(): one walk over the exporters.                                    *)

GoOn(e, late)  == task' = [Idle EXCEPT !.at = "walk", !.e = e + 1, !.late = late]
Go(at)         == task' = [task EXCEPT !.at = at]
DueFrom(e)     == {i \in e..ExporterCount : due[i]}

\* An interval that passes during a walk is one that passed before it, if
\* the walk comes to that exporter, or else one that passes after it.
IntervalPasses(e) ==
    /\ task.at = "idle" /\ ~due[e]
    /\ due' = [due EXCEPT ![e] = TRUE]
    /\ UNCHANGED <<latest, seq, sentSeq, readFails, unconfirmedRun, fileVars, fateVars, task, resets>>

TickBegins ==
    /\ task.at = "idle" /\ DueFrom(1) # {}
    /\ Go("walk")
    /\ UNCHANGED <<ramVars, fileVars, fateVars, resets>>

\* No exporter left that is due, or the circuit breaker: the walk has taken
\* too long, and whoever is due stays due.
TickEnds ==
    /\ task.at = "walk"
    /\ DueFrom(task.e) = {} \/ task.late
    /\ task' = Idle
    /\ UNCHANGED <<ramVars, fileVars, fateVars, resets>>

Turn(e) ==
    /\ task.at = "walk" /\ ~task.late
    /\ e \in DueFrom(task.e) /\ \A i \in DueFrom(task.e) : e <= i
    /\ due' = [due EXCEPT ![e] = FALSE]

\* _buildSnapshot() found something and the heap to copy it to.
Snapshot(e) ==
    /\ Turn(e) /\ Pending(e) # {}
    /\ sentSeq' = [sentSeq EXCEPT ![e] = seq]
    /\ task' = [task EXCEPT !.at = "live", !.e = e, !.batch = SetToSeq(Owed(e)),
                            !.before = sentSeq[e]]
    /\ UNCHANGED <<latest, seq, readFails, unconfirmedRun, fileVars, fateVars, resets>>

\* Fault: the backlog waits for a turn with something new.
NoSnapshotNoDrain(e) ==
    /\ Turn(e) /\ GoOn(e, FALSE)
    /\ UNCHANGED <<latest, seq, sentSeq, readFails, unconfirmedRun, fileVars, fateVars, resets>>

\* Nothing new, or no heap for it: the turn goes to the backlog.
NoSnapshot(e) ==
    /\ Turn(e)
    /\ IF e \in Spooling THEN task' = [task EXCEPT !.at = "drain", !.e = e]
                         ELSE GoOn(e, FALSE)
    /\ UNCHANGED <<latest, seq, sentSeq, readFails, unconfirmedRun, fileVars, fateVars, resets>>
-----------------------------------------------------------------------------
(* _sendWithRetry(): what the server made of the live batch.               *)

Answered(e, S) ==
    fate' = fate \cup Tag("confirmed", e, S) \cup Tag("excused", e, ToSet(task.batch) \ S)

\* What send() returns true for: all of the batch taken, all of it rejected
\* for good, or, by an API without a spool, a part.
Verdicts(e) == IF e \in Spooling THEN {{}, ToSet(task.batch)} ELSE SUBSET ToSet(task.batch)

LiveAccepted(S) == LET e == task.e IN
    /\ task.at = "live" /\ S \in Verdicts(e)
    /\ Answered(e, S)
    /\ unconfirmedRun' = [unconfirmedRun EXCEPT ![e] = 0]
    /\ IF e \in Spooling THEN task' = [task EXCEPT !.at = "drain", !.batch = <<>>]
                         ELSE GoOn(e, task.late)
    /\ UNCHANGED <<latest, seq, sentSeq, due, readFails, fileVars, resets, seen, traced>>

\* Fault: the values of a throttled send are taken for sent.
ThrottledAsSent == LET e == task.e IN
    /\ task.at = "live"
    /\ unconfirmedRun' = [unconfirmedRun EXCEPT ![e] = 0]
    /\ GoOn(e, task.late)
    /\ UNCHANGED <<latest, seq, sentSeq, due, readFails, fileVars, fateVars, resets>>

\* 429: the values stay owed.
LiveThrottled == LET e == task.e IN
    /\ task.at = "live"
    /\ sentSeq' = [sentSeq EXCEPT ![e] = task.before]
    /\ unconfirmedRun' = [unconfirmedRun EXCEPT ![e] = 0]
    /\ GoOn(e, task.late)
    /\ UNCHANGED <<latest, seq, due, readFails, fileVars, fateVars, resets>>

\* The request went out and no answer came: counted as sent, spooled from the
\* third in a row on.
LiveSilent(late) ==
    LET e   == task.e
        run == IF unconfirmedRun[e] < UnconfirmedSpoolAfter THEN unconfirmedRun[e] + 1
                                                           ELSE unconfirmedRun[e]
    IN  /\ task.at = "live"
        /\ unconfirmedRun' = [unconfirmedRun EXCEPT ![e] = run]
        /\ IF run = UnconfirmedSpoolAfter /\ e \in Spooling
           THEN task' = [task EXCEPT !.at = "spool", !.late = late] /\ UNCHANGED fate
           ELSE GoOn(e, late) /\ Becomes("unheard", e, ToSet(task.batch))
        /\ UNCHANGED <<latest, seq, sentSeq, due, readFails, fileVars, resets, seen, traced>>

LiveFailed(late) == LET e == task.e IN
    /\ task.at = "live"
    /\ unconfirmedRun' = [unconfirmedRun EXCEPT ![e] = 0]
    /\ \/ /\ task.attempt < MaxRetries
          /\ task' = [task EXCEPT !.attempt = @ + 1]
          /\ UNCHANGED fate
       \/ /\ task.attempt = MaxRetries /\ e \in Spooling
          /\ task' = [task EXCEPT !.at = "spool", !.late = late]
          /\ UNCHANGED fate
       \/ /\ task.attempt = MaxRetries /\ e \notin Spooling
          /\ GoOn(e, late)
          /\ Becomes("excused", e, ToSet(task.batch))
    /\ UNCHANGED <<latest, seq, sentSeq, due, readFails, fileVars, resets, seen, traced>>
-----------------------------------------------------------------------------
(* _spoolBatch(): the append, under fsMutex.                               *)

File(recs)     == [recs |-> recs, torn |-> FALSE]
StartOver(e)   == /\ spoolOff' = [spoolOff EXCEPT ![e] = 0]
                  /\ orphan' = [orphan EXCEPT ![e] = FALSE]
Torn(e)        == IF spool[e] = Nothing THEN FALSE ELSE spool[e].torn
Full(e)        == LET size == Len(Recs(e))
                      sent == IF spoolOff[e] <= size THEN spoolOff[e] ELSE 0
                  IN  size - sent >= MaxSpool \/ size >= 2 * MaxSpool
SpoolEnds      == /\ task.at = "spool" /\ GoOn(task.e, task.late)
                  /\ UNCHANGED <<ramVars, resets, seen, traced>>

\* A torn tail: the file starts over with this batch.
AppendAnew == LET e == task.e IN
    /\ SpoolEnds /\ Torn(e)
    /\ StartOver(e)
    /\ spool' = [spool EXCEPT ![e] = File(task.batch)]
    /\ Becomes("excused", e, Unsent(e))

\* Fault: the size of the file is not looked at.
AppendUnchecked == LET e == task.e IN
    /\ SpoolEnds /\ ~Torn(e)
    /\ spool' = [spool EXCEPT ![e] = File(Recs(e) \o task.batch)]
    /\ UNCHANGED <<spoolOff, orphan, fate>>

AppendBatch == LET e == task.e IN
    /\ SpoolEnds /\ ~Torn(e) /\ ~Full(e)
    /\ spool' = [spool EXCEPT ![e] = File(Recs(e) \o task.batch)]
    /\ UNCHANGED <<spoolOff, orphan, fate>>

SpoolFull == LET e == task.e IN
    /\ SpoolEnds /\ ~Torn(e) /\ Full(e)
    /\ Becomes("excused", e, ToSet(task.batch))
    /\ UNCHANGED fileVars

\* fsMutex was busy, or the file would not open.
BatchDropped == LET e == task.e IN
    /\ SpoolEnds
    /\ Becomes("excused", e, ToSet(task.batch))
    /\ UNCHANGED fileVars

\* The file system is full: what a short write leaves is removed.
WriteShort == LET e == task.e IN
    /\ SpoolEnds /\ (Torn(e) \/ ~Full(e))
    /\ StartOver(e)
    /\ spool' = [spool EXCEPT ![e] = Nothing]
    /\ Becomes("excused", e, Unsent(e) \cup ToSet(task.batch))
-----------------------------------------------------------------------------
(* _drainSpoolStep() and _drainSpool(): one batch of the backlog.          *)

\* Backing off after a 429, no heap, or the file does not open.
DrainSkipped ==
    /\ task.at = "drain" /\ GoOn(task.e, task.late)
    /\ UNCHANGED <<ramVars, fileVars, fateVars, resets>>

NoSpool == LET e == task.e IN
    /\ task.at = "drain" /\ spool[e] = Nothing
    /\ StartOver(e) /\ GoOn(e, task.late)
    /\ UNCHANGED <<ramVars, spool, fateVars, resets>>

\* Fault: a spool sent to its end starts over.
FromTheTop(e) == IF spoolOff[e] >= Len(Recs(e)) THEN 0 ELSE spoolOff[e]

\* The offset as the drain takes it: one past the end of the file is void.
\* What it skips of a file it does not belong to is gone for good.
From(e)    == IF spoolOff[e] > Len(Recs(e)) THEN 0 ELSE spoolOff[e]

Opens(e)   == /\ task.at = "drain" /\ spool[e] # Nothing
              /\ spoolOff' = [spoolOff EXCEPT ![e] = From(e)]
              /\ orphan' = [orphan EXCEPT ![e] = FALSE]
Skipped(e) == IF orphan[e] THEN ToSet(SubSeq(Recs(e), 1, From(e))) ELSE {}

ReadBatch == LET e == task.e IN
    /\ Opens(e) /\ From(e) < Len(Recs(e))
    /\ readFails' = [readFails EXCEPT ![e] = 0]
    /\ Becomes("excused", e, Skipped(e))
    /\ LET end == IF From(e) + SpoolBatch < Len(Recs(e)) THEN From(e) + SpoolBatch ELSE Len(Recs(e))
       IN  task' = [task EXCEPT !.at = "replay", !.batch = SubSeq(Recs(e), From(e) + 1, end)]
    /\ UNCHANGED <<latest, seq, sentSeq, due, unconfirmedRun, spool, resets, seen, traced>>

\* Fault: the count of failed reads outlives the file.
ReadFailsCounting == LET e == task.e IN
    /\ Opens(e) /\ From(e) < Len(Recs(e))
    /\ readFails' = [readFails EXCEPT ![e] = @ + 1]
    /\ IF readFails[e] + 1 < ReadFailsMax THEN GoOn(e, task.late) ELSE Go("trim")
    /\ Becomes("excused", e, Unsent(e))
    /\ UNCHANGED <<latest, seq, sentSeq, due, unconfirmedRun, spool, resets, seen, traced>>

ReadFails == LET e == task.e IN
    /\ Opens(e) /\ From(e) < Len(Recs(e))
    /\ \/ /\ readFails[e] + 1 < ReadFailsMax
          /\ readFails' = [readFails EXCEPT ![e] = @ + 1]
          /\ GoOn(e, task.late)
          /\ Becomes("excused", e, Skipped(e))
       \/ /\ readFails[e] + 1 >= ReadFailsMax
          /\ readFails' = [readFails EXCEPT ![e] = 0]
          /\ Go("trim")
          /\ Becomes("excused", e, Unsent(e))
    /\ UNCHANGED <<latest, seq, sentSeq, due, unconfirmedRun, spool, resets, seen, traced>>

NothingLeft == LET e == task.e IN
    /\ Opens(e) /\ From(e) = Len(Recs(e))
    /\ readFails' = [readFails EXCEPT ![e] = 0]
    /\ Becomes("excused", e, Skipped(e))
    /\ Go("trim")
    /\ UNCHANGED <<latest, seq, sentSeq, due, unconfirmedRun, spool, resets, seen, traced>>

ReplayAccepted(S) == LET e == task.e IN
    /\ task.at = "replay" /\ S \in Verdicts(e)
    /\ Answered(e, S) /\ Go("mark")
    /\ UNCHANGED <<ramVars, fileVars, resets, seen, traced>>

ReplaySilent == LET e == task.e IN
    /\ task.at = "replay"
    /\ Becomes("unheard", e, ToSet(task.batch)) /\ Go("mark")
    /\ UNCHANGED <<ramVars, fileVars, resets, seen, traced>>

\* A 429 or a failure: the spool stays as it is.
ReplayFailed(late) ==
    /\ task.at = "replay" /\ GoOn(task.e, late)
    /\ UNCHANGED <<ramVars, fileVars, fateVars, resets>>

Mark == LET e == task.e  off == spoolOff[e] + Len(task.batch) IN
    /\ task.at = "mark"
    /\ spoolOff' = [spoolOff EXCEPT ![e] = off]
    /\ IF off + 1 > Len(Recs(e)) THEN task' = [task EXCEPT !.at = "trim", !.batch = <<>>]
                                 ELSE GoOn(e, task.late)
    /\ UNCHANGED <<ramVars, spool, orphan, fateVars, resets>>

Removed == LET e == task.e IN
    /\ task.at = "trim" /\ Go("reset")
    /\ spool' = [spool EXCEPT ![e] = Nothing]
    /\ orphan' = [orphan EXCEPT ![e] = spoolOff[e] > 0]
    /\ UNCHANGED <<ramVars, spoolOff, fateVars, resets>>

\* fsMutex was busy five times, or remove() failed, which is not looked at.
RemoveFails == LET e == task.e IN
    /\ task.at = "trim" /\ GoOn(e, task.late)
    /\ StartOver(e)
    /\ Becomes("again", e, ToSet(Recs(e)))
    /\ UNCHANGED <<ramVars, spool, resets, seen, traced>>

Forget ==
    /\ task.at = "reset" /\ StartOver(task.e) /\ GoOn(task.e, task.late)
    /\ UNCHANGED <<ramVars, spool, fateVars, resets>>
-----------------------------------------------------------------------------
(* A reset.  RTC memory keeps the offsets through all of them but a power  *)
(* cut; "format" is the web's format_filesystem, which restarts.           *)

\* The file of the exporter whose append the reset interrupts.
Interrupted(e) ==
    IF task.at # "spool" \/ task.e # e THEN {spool[e]}
    ELSE IF Torn(e) THEN {spool[e], Nothing}
    ELSE {spool[e]} \cup
         {[recs |-> Recs(e) \o SubSeq(task.batch, 1, n), torn |-> n < Len(task.batch)] :
             n \in {k \in 0..Len(task.batch) : ~Full(e)}}

FileAfter(e, kind) == IF kind = "format" THEN {Nothing} ELSE Interrupted(e)
InRam(e)  == Owed(e) \cup (IF task.at \in {"live", "spool"} THEN InHand(e) ELSE {})
Resent(e, kind) == (IF task.at = "mark" THEN InHand(e) ELSE {})
                   \cup (IF kind = "power" THEN ToSet(Recs(e)) \ Unsent(e) ELSE {})

Reset(kind) ==
    /\ resets < MaxResets /\ resets' = resets + 1
    /\ task' = Idle /\ latest' = {} /\ seq' = 0
    /\ sentSeq' = [e \in Exporter |-> 0] /\ due' = [e \in Exporter |-> FALSE]
    /\ readFails' = [e \in Exporter |-> 0] /\ unconfirmedRun' = [e \in Exporter |-> 0]
    /\ spoolOff' = [e \in Exporter |-> IF kind = "power" THEN 0 ELSE spoolOff[e]]
    /\ \E e \in Exporter : \E file \in FileAfter(e, kind) :
          /\ task.at = "spool" => e = task.e
          /\ spool' = [x \in Exporter |-> IF x = e THEN file
                                          ELSE IF kind = "format" THEN Nothing ELSE spool[x]]
    /\ orphan' = [e \in Exporter |-> (orphan[e] \/ spool'[e] = Nothing) /\ spoolOff'[e] > 0]
    /\ LET e == traced.e IN fate' = fate
          \cup Tag("excused", e, InRam(e) \cup (IF spool'[e] = Nothing THEN Unsent(e) ELSE {}))
          \cup Tag("again", e, Resent(e, kind))
    /\ UNCHANGED <<seen, traced>>

Next ==
    \/ \E r \in Readings : Ingest(r)
    \/ \E e \in Exporter : IntervalPasses(e) \/ Snapshot(e) \/ NoSnapshot(e)
    \/ TickBegins \/ TickEnds
    \/ \E S \in SUBSET Readings : LiveAccepted(S) \/ ReplayAccepted(S)
    \/ LiveThrottled
    \/ \E late \in {task.late, TRUE} : LiveSilent(late) \/ LiveFailed(late) \/ ReplayFailed(late)
    \/ AppendAnew \/ AppendBatch \/ SpoolFull \/ BatchDropped \/ WriteShort
    \/ DrainSkipped \/ NoSpool \/ ReadBatch \/ ReadFails \/ NothingLeft
    \/ ReplaySilent \/ Mark \/ Removed \/ RemoveFails \/ Forget
    \/ \E kind \in Resets : Reset(kind)

Spec == Init /\ [][Next]_vars

\* The task keeps running: every tick goes on, and every interval passes time
\* and again, whichever exporter's turn it is meanwhile.
Step == \/ \E e \in Exporter : Snapshot(e) \/ NoSnapshot(e)
        \/ TickBegins \/ TickEnds
        \/ \E S \in SUBSET Readings : LiveAccepted(S) \/ ReplayAccepted(S)
        \/ AppendAnew \/ AppendBatch \/ SpoolFull \/ NoSpool \/ ReadBatch \/ NothingLeft
        \/ Mark \/ Removed \/ Forget
FairSpec == Spec /\ WF_vars(Step) /\ \A e \in Exporter : SF_vars(IntervalPasses(e))
-----------------------------------------------------------------------------
(* Correctness.                                                            *)

FilesOK == spool \in [Exporter -> {Nothing} \cup [recs : Seq(Readings), torn : BOOLEAN]]
TaskOK  == task \in [at : Stages, e : 1..(ExporterCount + 1), batch : Seq(Readings),
                     attempt : 0..MaxRetries, before : Nat, late : BOOLEAN]
FatesOK == seen \subseteq Readings /\ traced \in [e : Exporter, r : Readings] /\ fate \subseteq Fates
\* The type of every variable.
TypeOK ==
    /\ latest \subseteq [r : Readings, seq : Nat \ {0}] /\ seq \in Nat
    /\ sentSeq \in [Exporter -> Nat] /\ due \in [Exporter -> BOOLEAN]
    /\ FilesOK /\ spoolOff \in [Exporter -> Nat] /\ orphan \in [Exporter -> BOOLEAN]
    /\ readFails \in [Exporter -> 0..ReadFailsMax]
    /\ unconfirmedRun \in [Exporter -> 0..UnconfirmedSpoolAfter]
    /\ TaskOK /\ FatesOK /\ resets \in 0..MaxResets

\* A reading that came off the queue is, for every exporter that sends it,
\* answered for, moved past for a reason the code gives, or still on its way:
\* owed in the table, in the batch in hand, or in the spool past the offset.
\* The bookkeeping of sequence numbers and offsets loses none in between.
NothingForgotten ==
    traced.r \in Wanted(traced.e, seen) =>
        \/ fate \cap {"confirmed", "excused", "unheard"} # {}
        \/ traced.r \in Owed(traced.e) \cup InHand(traced.e) \cup Unsent(traced.e)

\* A reading the server has answered for is not posted again, unless a reset
\* or a failed remove made the spool start over after it was sent
\* (AUDIT_LOG 18.2).
NoReplay ==
    (task.at \in {"live", "replay"} /\ traced.r \in InHand(traced.e) /\ "confirmed" \in fate)
        => "again" \in fate

\* The flash a spool may take: the guard looks at the file before an append,
\* and an append is never more than the table holds.
SpoolBounded == \A e \in Exporter : Len(Recs(e)) < 2 * MaxSpool + LatestSlots

\* ingest() gives up a value still owed, other than to a newer one of its
\* own key, only for want of room, when every slot is above what someone has
\* sent, and then the one updated longest ago.
OwedKept == [][
    \A e \in Exporter : \A s \in Pending(e) \ latest' :
        \/ resets' # resets
        \/ \E n \in latest' \ latest : n.r.key = s.r.key
        \/ /\ Cardinality(latest) >= LatestSlots
           /\ \A o \in latest : s.seq <= o.seq /\ \E x \in Exporter : o.seq > sentSeq[x]
    ]_vars

\* Everything that goes wrong.
Trouble == \/ LiveThrottled \/ DrainSkipped \/ ReadFails \/ ReplaySilent
           \/ RemoveFails \/ BatchDropped \/ WriteShort
           \/ \E late \in BOOLEAN : LiveSilent(late) \/ LiveFailed(late) \/ ReplayFailed(late)
           \/ \E e \in Exporter : NoSnapshot(e) /\ Pending(e) # {}
           \/ \E kind \in Resets : Reset(kind)
\* Once servers, file system and heap behave, every value owed is sent and
\* every spool drains, whatever state the trouble left them in.
Delivers == <>[][~Trouble]_vars => <>[](\A e \in Exporter : Owed(e) = {} /\ Unsent(e) = {})
=============================================================================
