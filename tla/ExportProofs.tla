---------------------------- MODULE ExportProofs ----------------------------
(***************************************************************************)
(* For any number of exporters, readings, slots and records: the           *)
(* variables of ExportManager keep their types, and no reading falls       *)
(* between the table, the batch in hand and the spool.                     *)
(*                                                                         *)
(* The argument: an offset that is not left over from a removed file lies  *)
(* within its file, a live batch is still in the table above the number to *)
(* go back to, a replayed one is the spool right behind its offset, and    *)
(* before a file is removed all behind the offset has been accounted for.  *)
(***************************************************************************)
EXTENDS ExportManager, FiniteSetTheorems, SequenceTheorems, TLAPS

Resolved == fate \cap {"confirmed", "excused", "unheard"} # {}
Where    == Owed(traced.e) \cup InHand(traced.e) \cup Unsent(traced.e)

\* The table and its numbers.
Numbered ==
    /\ IsFiniteSet(latest)
    /\ \A s \in latest : s.seq <= seq
    /\ \A e \in Exporter : sentSeq[e] <= seq

\* An offset is one into its file, unless it outlived another file.
OffsetsInFile == \A e \in Exporter : ~orphan[e] => spoolOff[e] <= Len(Recs(e))

\* A batch is in hand while it is sent or spooled, and a turn is someone's.
HandOK ==
    /\ task.at \notin {"idle", "walk"} => task.e \in Exporter
    /\ task.at \in {"idle", "walk", "drain", "trim", "reset"} => task.batch = <<>>

\* What is sent live is still in the table, above the number that a 429
\* goes back to.
LiveBatch ==
    task.at = "live" =>
        /\ task.before <= sentSeq[task.e]
        /\ \A r \in ToSet(task.batch) :
              \E s \in latest : s.r = r /\ s.seq > task.before /\ r.key \in Takes[task.e]

\* What is replayed is the spool from the offset on.
ReplayBatch ==
    task.at \in {"replay", "mark"} =>
        /\ ~orphan[task.e]
        /\ spoolOff[task.e] + Len(task.batch) <= Len(Recs(task.e))
        /\ \A i \in 1..Len(task.batch) : task.batch[i] = Recs(task.e)[spoolOff[task.e] + i]

\* The offset moves, and the file goes, only after an outcome.
Closing ==
    /\ task.at = "mark" /\ traced.e = task.e /\ traced.r \in ToSet(task.batch) => Resolved
    /\ task.at = "trim" /\ traced.e = task.e /\ traced.r \in Unsent(task.e) => Resolved

IInv == /\ TypeOK /\ Numbered /\ OffsetsInFile /\ HandOK
        /\ LiveBatch /\ ReplayBatch /\ Closing /\ NothingForgotten

-----------------------------------------------------------------------------
(* The operators of the model.                                             *)

\* The records of a file.
LEMMA RecsType ==
    ASSUME TypeOK, NEW e \in Exporter
    PROVE  Recs(e) \in Seq(Readings) /\ Len(Recs(e)) \in Nat
<1>1. spool[e] \in {Nothing} \cup [recs : Seq(Readings), torn : BOOLEAN]
    BY DEF TypeOK, FilesOK
<1>2. Recs(e) \in Seq(Readings)
    <2>1. CASE spool[e] = Nothing
        BY <2>1 DEF Recs
    <2>2. CASE spool[e] # Nothing
        BY <1>1, <2>2 DEF Recs
    <2> QED BY <2>1, <2>2
<1> QED BY <1>2

\* A part of a sequence, from behind an offset on.
LEMMA PartOf ==
    ASSUME NEW S, NEW s \in Seq(S), NEW from \in Nat, NEW end \in Nat, from < end, end <= Len(s)
    PROVE  /\ SubSeq(s, from + 1, end) \in Seq(S)
           /\ Len(SubSeq(s, from + 1, end)) \in Nat
           /\ from + Len(SubSeq(s, from + 1, end)) <= Len(s)
           /\ \A i \in 1..Len(SubSeq(s, from + 1, end)) : SubSeq(s, from + 1, end)[i] = s[from + i]
<1>1. Len(SubSeq(s, from + 1, end)) = end - from /\ Len(s) \in Nat
    OBVIOUS
<1>2. \A i \in 1..(end - from) : SubSeq(s, from + 1, end)[i] = s[from + i]
    OBVIOUS
<1>3. SubSeq(s, from + 1, end) \in Seq(S)
    OBVIOUS
<1> QED BY <1>1, <1>2, <1>3

\* Unsent, record by record.
LEMMA UnsentMember ==
    ASSUME TypeOK, NEW e \in Exporter, NEW r
    PROVE  r \in Unsent(e) <=>
              \E i \in 1..Len(Recs(e)) : Recs(e)[i] = r /\ (orphan[e] \/ i > spoolOff[e])
<1>1. Recs(e) \in Seq(Readings) /\ Len(Recs(e)) \in Nat /\ spoolOff[e] \in Nat /\ orphan[e] \in BOOLEAN
    BY RecsType DEF TypeOK
<1>2. CASE orphan[e]
    <2>1. Unsent(e) = {Recs(e)[i] : i \in 1..Len(Recs(e))}
        BY <1>1, <1>2 DEF Unsent, ToSet
    <2> QED BY <1>2, <2>1
<1>3. CASE ~orphan[e]
    <2> DEFINE rest == SubSeq(Recs(e), spoolOff[e] + 1, Len(Recs(e)))
    <2>1. /\ DOMAIN rest = 1..(Len(Recs(e)) - spoolOff[e])
          /\ \A i \in DOMAIN rest : rest[i] = Recs(e)[spoolOff[e] + i]
        BY <1>1
    <2>2. Unsent(e) = {rest[i] : i \in DOMAIN rest}
        BY <1>3 DEF Unsent, ToSet
    <2> HIDE DEF rest
    <2>3. ASSUME r \in Unsent(e) PROVE \E i \in 1..Len(Recs(e)) : Recs(e)[i] = r /\ i > spoolOff[e]
        <3>1. PICK j \in 1..(Len(Recs(e)) - spoolOff[e]) : r = Recs(e)[spoolOff[e] + j]
            BY <2>1, <2>2, <2>3
        <3>2. spoolOff[e] + j \in 1..Len(Recs(e)) /\ spoolOff[e] + j > spoolOff[e]
            BY <1>1
        <3> QED BY <3>1, <3>2
    <2>4. ASSUME NEW i \in 1..Len(Recs(e)), Recs(e)[i] = r, i > spoolOff[e] PROVE r \in Unsent(e)
        <3>1. i - spoolOff[e] \in DOMAIN rest /\ spoolOff[e] + (i - spoolOff[e]) = i
            BY <1>1, <2>1, <2>4
        <3>2. rest[i - spoolOff[e]] = r
            BY <2>1, <2>4, <3>1
        <3> QED BY <2>2, <3>1, <3>2
    <2> QED BY <1>3, <2>3, <2>4
<1> QED BY <1>1, <1>2, <1>3

\* The same after the step.
LEMMA RecsTypeNext ==
    ASSUME TypeOK', NEW e \in Exporter
    PROVE  Recs(e)' \in Seq(Readings) /\ Len(Recs(e)') \in Nat
<1>1. spool'[e] \in {Nothing} \cup [recs : Seq(Readings), torn : BOOLEAN]
    BY DEF TypeOK, FilesOK
<1>2. Recs(e)' \in Seq(Readings)
    <2>1. CASE spool'[e] = Nothing
        BY <2>1 DEF Recs
    <2>2. CASE spool'[e] # Nothing
        BY <1>1, <2>2 DEF Recs
    <2> QED BY <2>1, <2>2
<1> QED BY <1>2

\* The same after the step.
LEMMA UnsentMemberNext ==
    ASSUME TypeOK', NEW e \in Exporter, NEW r
    PROVE  r \in Unsent(e)' <=>
              \E i \in 1..Len(Recs(e)') : Recs(e)'[i] = r /\ (orphan'[e] \/ i > spoolOff'[e])
<1>1. Recs(e)' \in Seq(Readings) /\ Len(Recs(e)') \in Nat /\ spoolOff'[e] \in Nat /\ orphan'[e] \in BOOLEAN
    BY RecsTypeNext DEF TypeOK
<1>2. CASE orphan'[e]
    <2>1. Unsent(e)' = {Recs(e)'[i] : i \in 1..Len(Recs(e)')}
        BY <1>1, <1>2 DEF Unsent, ToSet
    <2> QED BY <1>2, <2>1
<1>3. CASE ~orphan'[e]
    <2> DEFINE rest == SubSeq(Recs(e)', spoolOff'[e] + 1, Len(Recs(e)'))
    <2>1. /\ DOMAIN rest = 1..(Len(Recs(e)') - spoolOff'[e])
          /\ \A i \in DOMAIN rest : rest[i] = Recs(e)'[spoolOff'[e] + i]
        BY <1>1
    <2>2. Unsent(e)' = {rest[i] : i \in DOMAIN rest}
        BY <1>3 DEF Unsent, ToSet
    <2> HIDE DEF rest
    <2>3. ASSUME r \in Unsent(e)' PROVE \E i \in 1..Len(Recs(e)') : Recs(e)'[i] = r /\ i > spoolOff'[e]
        <3>1. PICK j \in 1..(Len(Recs(e)') - spoolOff'[e]) : r = Recs(e)'[spoolOff'[e] + j]
            BY <2>1, <2>2, <2>3
        <3>2. spoolOff'[e] + j \in 1..Len(Recs(e)') /\ spoolOff'[e] + j > spoolOff'[e]
            BY <1>1
        <3> QED BY <3>1, <3>2
    <2>4. ASSUME NEW i \in 1..Len(Recs(e)'), Recs(e)'[i] = r, i > spoolOff'[e] PROVE r \in Unsent(e)'
        <3>1. i - spoolOff'[e] \in DOMAIN rest /\ spoolOff'[e] + (i - spoolOff'[e]) = i
            BY <1>1, <2>1, <2>4
        <3>2. rest[i - spoolOff'[e]] = r
            BY <2>1, <2>4, <3>1
        <3> QED BY <2>2, <3>1, <3>2
    <2> QED BY <1>3, <2>3, <2>4
<1> QED BY <1>1, <1>2, <1>3

\* A finite set in some order is all of it.
LEMMA InSomeOrder ==
    ASSUME NEW S, IsFiniteSet(S)
    PROVE  SetToSeq(S) \in Seq(S) /\ ToSet(SetToSeq(S)) = S
<1> DEFINE n == Cardinality(S)
<1>1. n \in Nat /\ ExistsBijection(1..n, S)
    BY FS_CardinalityType
<1>2. PICK g \in [1..n -> S] : \A a, b \in 1..n : g[a] = g[b] => a = b
    BY <1>1 DEF ExistsBijection, Bijection, Injection, IsInjective
<1>3. \E f \in [1..n -> S] : IsInjective(f)
    BY <1>2 DEF IsInjective
<1> DEFINE f == SetToSeq(S)
<1>4. f \in [1..n -> S] /\ IsInjective(f)
    BY <1>3 DEF SetToSeq
<1> HIDE DEF f
<1>5. f \in Seq(S) /\ DOMAIN f = 1..n
    BY <1>1, <1>4
<1>6. IsFiniteSet(1..n) /\ Cardinality(1..n) = n
    BY <1>1, FS_Interval
<1>7. f \in Injection(1..n, S)
    BY <1>4 DEF Injection, IsInjective
<1>8. f \in Surjection(1..n, S)
    BY <1>6, <1>7, FS_Injection
<1>9. {f[i] : i \in 1..n} = S
    BY <1>4, <1>8 DEF Surjection
<1> QED BY <1>5, <1>9 DEF ToSet, f

\* Going on with the walk, and on within a turn.
LEMMA GoOnTask ==
    ASSUME TypeOK, NEW e \in Exporter, NEW late \in BOOLEAN, GoOn(e, late)
    PROVE  TaskOK' /\ task'.at = "walk" /\ task'.batch = <<>> /\ ToSet(task'.batch) = {}
<1>1. e + 1 \in 1..(ExporterCount + 1)
    BY ExportAssumption DEF Exporter
<1>2. task' = [at |-> "walk", e |-> e + 1, batch |-> <<>>, attempt |-> 0, before |-> 0, late |-> late]
    BY DEF GoOn, Idle
<1>3. 0 \in 0..MaxRetries /\ 0 \in Nat /\ "walk" \in Stages /\ <<>> \in Seq(Readings)
    BY ExportAssumption DEF Stages
<1>4. ToSet(<<>>) = {}
    BY DEF ToSet
<1> QED BY <1>1, <1>2, <1>3, <1>4 DEF TaskOK

\* The same task at another place.
LEMMA GoTask ==
    ASSUME TypeOK, NEW at \in Stages, Go(at)
    PROVE  /\ TaskOK' /\ task'.at = at /\ task'.batch = task.batch /\ task'.e = task.e
           /\ task'.before = task.before /\ task'.late = task.late
BY Zenon DEF TypeOK, TaskOK, Go

\* Outcomes only add up.
LEMMA FateTag ==
    ASSUME FatesOK, NEW f \in Fates, NEW e, NEW S, UNCHANGED <<seen, traced>>, Becomes(f, e, S)
    PROVE  FatesOK' /\ fate \subseteq fate' /\ (traced.e = e /\ traced.r \in S => f \in fate')
BY DEF FatesOK, Becomes, Tag, Fates

-----------------------------------------------------------------------------
(* What most steps have in common.                                         *)

\* A reading that was somewhere is still somewhere, or has an outcome.
LEMMA StillThere ==
    ASSUME NothingForgotten, UNCHANGED <<seen, traced>>, fate \subseteq fate',
           traced.r \in Where /\ ~Resolved' => traced.r \in Where'
    PROVE  NothingForgotten'
<1>1. Wanted(traced.e, seen)' = Wanted(traced.e, seen)
    BY DEF Wanted
<1>2. Resolved => Resolved'
    BY DEF Resolved
<1>3. NothingForgotten <=> (traced.r \in Wanted(traced.e, seen) => Resolved \/ traced.r \in Where)
    BY DEF NothingForgotten, Resolved, Where
<1>4. NothingForgotten' <=> (traced.r \in Wanted(traced.e, seen)' => Resolved' \/ traced.r \in Where')
    BY DEF NothingForgotten, Resolved, Where
<1> QED BY <1>1, <1>2, <1>3, <1>4

\* The table stays, and what is owed from it.
LEMMA SameTable ==
    ASSUME Numbered, UNCHANGED <<latest, seq, sentSeq, traced>>
    PROVE  Numbered' /\ Owed(traced.e)' = Owed(traced.e)
BY DEF Numbered, Owed, Pending

\* The files stay, and what is unsent in them.
LEMMA SameFiles ==
    ASSUME OffsetsInFile, UNCHANGED fileVars
    PROVE  /\ OffsetsInFile'
           /\ \A e : Recs(e)' = Recs(e) /\ Unsent(e)' = Unsent(e)
BY DEF OffsetsInFile, Recs, Unsent, fileVars

\* Between two turns there is nothing in hand to account for.
LEMMA BetweenTurns ==
    ASSUME task'.at \in {"walk", "idle"}, task'.batch = <<>>
    PROVE  /\ HandOK' /\ LiveBatch' /\ ReplayBatch' /\ Closing'
           /\ \A e : InHand(e)' = {}
<1>1. HandOK' /\ LiveBatch' /\ ReplayBatch' /\ Closing'
    BY DEF HandOK, LiveBatch, ReplayBatch, Closing
<1> QED BY <1>1 DEF InHand, ToSet

\* A step that only goes on to the next exporter.
LEMMA TurnEnds ==
    ASSUME IInv, UNCHANGED <<latest, seq, sentSeq, fileVars, seen, traced, resets>>,
           task'.at \in {"walk", "idle"}, task'.batch = <<>>, TypeOK', fate \subseteq fate',
           traced.r \in InHand(traced.e) => Resolved' \/ traced.r \in Where'
    PROVE  IInv'
<1>1. Numbered' /\ Owed(traced.e)' = Owed(traced.e)
    BY SameTable DEF IInv
<1>2. OffsetsInFile' /\ Unsent(traced.e)' = Unsent(traced.e)
    BY SameFiles DEF IInv
<1>3. HandOK' /\ LiveBatch' /\ ReplayBatch' /\ Closing'
    BY BetweenTurns
<1>4. traced.r \in Where /\ ~Resolved' => traced.r \in Where'
    <2>1. Unsent(traced.e)' = Unsent(traced.e)' /\ traced' = traced
        OBVIOUS
    <2>2. Where' = Owed(traced.e)' \cup InHand(traced.e)' \cup Unsent(traced.e)'
        BY DEF Where
    <2> QED BY <1>1, <1>2, <2>2 DEF Where
<1>5. NothingForgotten'
    BY <1>4, StillThere DEF IInv
<1> QED BY <1>1, <1>2, <1>3, <1>5 DEF IInv

-----------------------------------------------------------------------------
(* ingest() and the walk.                                                  *)

\* Init establishes it.
LEMMA InitIInv == Init => IInv
<1> SUFFICES ASSUME Init PROVE IInv
    OBVIOUS
<1>1. Idle \in [at : Stages, e : 1..(ExporterCount + 1), batch : Seq(Readings),
                attempt : 0..MaxRetries, before : Nat, late : BOOLEAN]
    <2>1. 0 \in 0..MaxRetries /\ 0 \in Nat /\ "idle" \in Stages /\ <<>> \in Seq(Readings)
          /\ 1 \in 1..(ExporterCount + 1)
        BY ExportAssumption DEF Stages
    <2> QED BY <2>1 DEF Idle
<1>2. TypeOK
    <2>1. 0 \in 0..ReadFailsMax /\ 0 \in 0..UnconfirmedSpoolAfter /\ 0 \in 0..MaxResets
        BY ExportAssumption
    <2>2. FilesOK
        BY DEF Init, FilesOK
    <2>3. TaskOK /\ FatesOK
        BY <1>1 DEF Init, TaskOK, FatesOK
    <2> QED BY <2>1, <2>2, <2>3 DEF Init, TypeOK
<1>3. Numbered
    BY FS_EmptySet DEF Init, Numbered
<1>4. OffsetsInFile
    BY DEF Init, OffsetsInFile, Recs
<1>5. task.at = "idle" /\ task.batch = <<>>
    BY DEF Init, Idle
<1>6. HandOK /\ LiveBatch /\ ReplayBatch /\ Closing
    BY <1>5 DEF HandOK, LiveBatch, ReplayBatch, Closing
<1>7. NothingForgotten
    BY DEF Init, NothingForgotten, Wanted
<1> QED BY <1>2, <1>3, <1>4, <1>6, <1>7 DEF IInv

\* A reading enters the table, and one may have to leave it.
LEMMA IngestIInv ==
    ASSUME IInv, NEW r \in Readings, Ingest(r)
    PROVE  IInv'
<1>1. /\ UNCHANGED <<sentSeq, due, readFails, unconfirmedRun, fileVars, task, resets, traced>>
      /\ task.at = "idle" /\ seen' = seen \cup {r} /\ task.batch = <<>>
    BY DEF Ingest, IInv, HandOK
<1>2. seq \in Nat /\ traced.r \in Readings /\ traced.e \in Exporter /\ sentSeq \in [Exporter -> Nat]
    BY DEF IInv, TypeOK, FatesOK
<1>3. /\ latest' \subseteq [r : Readings, seq : Nat \ {0}] /\ seq' \in Nat /\ fate' \subseteq Fates
      /\ fate \subseteq fate'
      /\ Numbered'
      /\ traced.r \in Owed(traced.e) => Resolved' \/ traced.r \in Owed(traced.e)'
      /\ traced.r = r /\ r.key \in Takes[traced.e] => Resolved' \/ traced.r \in Owed(traced.e)'
    <2>1. CASE Store(r)
        <3> DEFINE gone == SlotFor(r)
                   new  == [r |-> r, seq |-> seq + 1]
        <3>1. /\ seq' = seq + 1 /\ latest' = (latest \ gone) \cup {new}
              /\ fate' = fate \cup Tag("excused", traced.e, {s.r : s \in gone \cap Pending(traced.e)})
            BY <2>1 DEF Store, Becomes
        <3>2. new \in [r : Readings, seq : Nat \ {0}] /\ new.r = r /\ new.seq = seq + 1
            BY <1>2
        <3> HIDE DEF gone, new
        <3>3. latest' \subseteq [r : Readings, seq : Nat \ {0}] /\ seq' \in Nat
            BY <1>2, <3>1, <3>2 DEF IInv, TypeOK
        <3>4. fate' \subseteq Fates /\ fate \subseteq fate'
            BY <3>1 DEF Tag, Fates, IInv, TypeOK, FatesOK
        <3>5. IsFiniteSet(latest')
            BY <3>1, FS_Subset, FS_AddElement DEF IInv, Numbered
        <3>6. \A s \in latest' : s.seq <= seq'
            <4> SUFFICES ASSUME NEW s \in latest' PROVE s.seq <= seq'
                OBVIOUS
            <4>1. s \in latest \/ s = new
                BY <3>1
            <4>2. CASE s \in latest
                <5>1. s.seq \in Nat /\ s.seq <= seq
                    BY <4>2 DEF IInv, TypeOK, Numbered
                <5> QED BY <5>1, <1>2, <3>1
            <4>3. CASE s = new
                BY <4>3, <3>1, <3>2, <1>2
            <4> QED BY <4>1, <4>2, <4>3
        <3>7. \A e \in Exporter : sentSeq'[e] <= seq'
            BY <1>1, <1>2, <3>1 DEF IInv, Numbered
        <3>8. Pending(traced.e)' = {s \in latest' : s.seq > sentSeq[traced.e] /\ s.r.key \in Takes[traced.e]}
            BY <1>1 DEF Pending
        <3>9. ASSUME traced.r \in Owed(traced.e) PROVE Resolved' \/ traced.r \in Owed(traced.e)'
            <4>1. PICK s \in Pending(traced.e) : traced.r = s.r
                BY <3>9 DEF Owed
            <4>2. CASE s \in gone
                <5>1. traced.r \in {x.r : x \in gone \cap Pending(traced.e)}
                    BY <4>1, <4>2
                <5>2. "excused" \in fate'
                    BY <3>1, <5>1 DEF Tag
                <5> QED BY <5>2 DEF Resolved
            <4>3. CASE s \notin gone
                <5>1. s \in Pending(traced.e)'
                    BY <4>1, <4>3, <3>1, <3>8 DEF Pending
                <5> QED BY <5>1, <4>1, <1>1 DEF Owed
            <4> QED BY <4>2, <4>3
        <3>10. ASSUME traced.r = r, r.key \in Takes[traced.e] PROVE traced.r \in Owed(traced.e)'
            <4>1. sentSeq[traced.e] \in Nat /\ sentSeq[traced.e] <= seq
                BY <1>2 DEF IInv, Numbered
            <4>2. new \in latest' /\ new.seq > sentSeq[traced.e]
                BY <4>1, <3>1, <3>2, <1>2
            <4>3. new \in Pending(traced.e)'
                BY <4>2, <3>2, <3>8, <3>10
            <4> QED BY <4>3, <3>2, <3>10, <1>1 DEF Owed
        <3> QED BY <3>3, <3>4, <3>5, <3>6, <3>7, <3>9, <3>10 DEF Numbered
    <2>2. CASE NotTheLatest(r)
        <3>1. /\ UNCHANGED <<latest, seq>>
              /\ fate' = fate \cup Tag("excused", traced.e, Wanted(traced.e, {r}))
            BY <2>2 DEF NotTheLatest, Becomes
        <3>2. fate' \subseteq Fates /\ fate \subseteq fate'
            BY <3>1 DEF Tag, Fates, IInv, TypeOK, FatesOK
        <3>3. Numbered' /\ Owed(traced.e)' = Owed(traced.e)
            BY <1>1, <3>1, SameTable DEF IInv
        <3>4. traced.r = r /\ r.key \in Takes[traced.e] => "excused" \in fate'
            BY <3>1 DEF Tag, Wanted
        <3>5. latest' \subseteq [r : Readings, seq : Nat \ {0}] /\ seq' \in Nat
            BY <3>1 DEF IInv, TypeOK
        <3> QED BY <3>2, <3>3, <3>4, <3>5 DEF Resolved
    <2> QED BY <2>1, <2>2 DEF Ingest
<1>4. TypeOK'
    <2>1. TaskOK' /\ FilesOK' /\ spoolOff' \in [Exporter -> Nat] /\ orphan' \in [Exporter -> BOOLEAN]
        BY <1>1 DEF IInv, TypeOK, TaskOK, FilesOK, fileVars
    <2>2. FatesOK'
        BY <1>1, <1>3 DEF IInv, TypeOK, FatesOK
    <2> QED BY <1>1, <1>3, <2>1, <2>2 DEF IInv, TypeOK
<1>5. OffsetsInFile' /\ Unsent(traced.e)' = Unsent(traced.e)
    BY <1>1, SameFiles DEF IInv
<1>6. HandOK' /\ LiveBatch' /\ ReplayBatch' /\ Closing'
    BY <1>1, BetweenTurns
<1>7. NothingForgotten'
    <2> SUFFICES ASSUME traced'.r \in Wanted(traced'.e, seen')
                 PROVE  Resolved' \/ traced.r \in Where'
        BY <1>1 DEF NothingForgotten, Resolved, Where
    <2>1. traced.r \in seen' /\ traced.r.key \in Takes[traced.e]
        BY <1>1 DEF Wanted
    <2>2. CASE traced.r = r
        BY <1>1, <1>3, <2>1, <2>2 DEF Where
    <2>3. CASE traced.r \in seen
        <3>1. Resolved \/ traced.r \in Owed(traced.e) \/ traced.r \in InHand(traced.e)
              \/ traced.r \in Unsent(traced.e)
            BY <2>1, <2>3 DEF IInv, NothingForgotten, Wanted, Resolved
        <3>2. InHand(traced.e) = {}
            BY <1>1 DEF InHand, ToSet
        <3>3. Resolved => Resolved'
            BY <1>3 DEF Resolved
        <3> QED BY <1>1, <1>3, <1>5, <3>1, <3>2, <3>3 DEF Where
    <2> QED BY <1>1, <2>1, <2>2, <2>3
<1> QED BY <1>3, <1>4, <1>5, <1>6, <1>7 DEF IInv

\* Steps that touch neither the table's numbers, the files nor the outcomes.
LEMMA QuietTypes ==
    ASSUME TypeOK, UNCHANGED <<latest, seq, fileVars, seen, traced, fate, resets>>
    PROVE  /\ latest' \subseteq [r : Readings, seq : Nat \ {0}] /\ seq' \in Nat
           /\ FilesOK' /\ spoolOff' \in [Exporter -> Nat] /\ orphan' \in [Exporter -> BOOLEAN]
           /\ FatesOK' /\ resets' \in 0..MaxResets
BY DEF TypeOK, FilesOK, FatesOK, fileVars

\* An interval passes.
LEMMA IntervalIInv ==
    ASSUME IInv, NEW e \in Exporter, IntervalPasses(e)
    PROVE  IInv'
<1>1. /\ UNCHANGED <<latest, seq, sentSeq, fileVars, seen, traced, fate, resets, task>>
      /\ UNCHANGED <<readFails, unconfirmedRun>>
      /\ task.at = "idle" /\ task.batch = <<>> /\ due' = [due EXCEPT ![e] = TRUE]
    BY DEF IntervalPasses, IInv, HandOK, fateVars
<1>2. TypeOK'
    <2>1. TaskOK'
        BY <1>1 DEF IInv, TypeOK, TaskOK
    <2> QED BY <1>1, <2>1, QuietTypes DEF IInv, TypeOK
<1>3. traced.r \notin InHand(traced.e)
    BY <1>1 DEF InHand, ToSet
<1> QED BY <1>1, <1>2, <1>3, TurnEnds

\* A walk begins, and it ends.
LEMMA TickIInv ==
    ASSUME IInv, TickBegins \/ TickEnds
    PROVE  IInv'
<1>1. /\ UNCHANGED <<latest, seq, sentSeq, fileVars, seen, traced, fate, resets>>
      /\ UNCHANGED <<due, readFails, unconfirmedRun>>
      /\ task.at \in {"idle", "walk"} /\ task.batch = <<>>
    BY DEF TickBegins, TickEnds, IInv, HandOK, fateVars, ramVars
<1>2. TaskOK' /\ task'.at \in {"walk", "idle"} /\ task'.batch = <<>>
    <2>1. CASE TickBegins
        <3>1. Go("walk") /\ "walk" \in Stages
            BY <2>1 DEF TickBegins, Stages
        <3> QED BY <1>1, <3>1, GoTask DEF IInv
    <2>2. CASE TickEnds
        <3>1. task' = [at |-> "idle", e |-> 1, batch |-> <<>>, attempt |-> 0, before |-> 0, late |-> FALSE]
            BY <2>2 DEF TickEnds, Idle
        <3>2. 0 \in 0..MaxRetries /\ 0 \in Nat /\ "idle" \in Stages /\ <<>> \in Seq(Readings)
              /\ 1 \in 1..(ExporterCount + 1)
            BY ExportAssumption DEF Stages
        <3> QED BY <3>1, <3>2 DEF TaskOK
    <2> QED BY <2>1, <2>2
<1>3. TypeOK'
    BY <1>1, <1>2, QuietTypes DEF IInv, TypeOK
<1>4. traced.r \notin InHand(traced.e)
    BY <1>1 DEF InHand, ToSet
<1> QED BY <1>1, <1>2, <1>3, <1>4, TurnEnds

\* A snapshot moves what is owed from the table into the hand.
LEMMA SnapshotIInv ==
    ASSUME IInv, NEW e \in Exporter, Snapshot(e)
    PROVE  IInv'
<1>1. /\ UNCHANGED <<latest, seq, fileVars, seen, traced, fate, resets>>
      /\ UNCHANGED <<readFails, unconfirmedRun>>
      /\ sentSeq' = [sentSeq EXCEPT ![e] = seq] /\ due' = [due EXCEPT ![e] = FALSE]
      /\ task' = [task EXCEPT !.at = "live", !.e = e, !.batch = SetToSeq(Owed(e)), !.before = sentSeq[e]]
      /\ task.at = "walk" /\ task.batch = <<>>
    BY DEF Snapshot, Turn, IInv, HandOK, fateVars
<1>2. IsFiniteSet(Owed(e)) /\ Owed(e) \subseteq Readings
    <2>1. Pending(e) \subseteq latest /\ IsFiniteSet(latest)
        BY DEF Pending, IInv, Numbered
    <2>2. IsFiniteSet(Pending(e))
        BY <2>1, FS_Subset
    <2> DEFINE T == Pending(e)
               f == [s \in T |-> s.r]
    <2>3. f \in Surjection(T, Owed(e))
        BY DEF Surjection, Owed
    <2> HIDE DEF T, f
    <2>4. IsFiniteSet(T)
        BY <2>2 DEF T
    <2>5. IsFiniteSet(Owed(e))
        BY <2>3, <2>4, FS_Surjection
    <2> QED BY <2>1, <2>5 DEF Owed, IInv, TypeOK
<1>3. SetToSeq(Owed(e)) \in Seq(Readings) /\ ToSet(SetToSeq(Owed(e))) = Owed(e)
    <2>1. SetToSeq(Owed(e)) \in Seq(Owed(e)) /\ ToSet(SetToSeq(Owed(e))) = Owed(e)
        BY <1>2, InSomeOrder
    <2> QED BY <1>2, <2>1
<1>4. /\ task'.at = "live" /\ task'.e = e /\ task'.batch = SetToSeq(Owed(e)) /\ task'.before = sentSeq[e]
      /\ TaskOK'
    <2>1. task \in [at : Stages, e : 1..(ExporterCount + 1), batch : Seq(Readings),
                     attempt : 0..MaxRetries, before : Nat, late : BOOLEAN]
        BY DEF IInv, TypeOK, TaskOK
    <2>2. "live" \in Stages /\ e \in 1..(ExporterCount + 1) /\ sentSeq[e] \in Nat
        BY ExportAssumption DEF Stages, Exporter, IInv, TypeOK
    <2> QED BY <1>1, <1>3, <2>1, <2>2, Zenon DEF TaskOK
<1>5. TypeOK'
    <2>1. sentSeq' \in [Exporter -> Nat] /\ due' \in [Exporter -> BOOLEAN]
        BY <1>1 DEF IInv, TypeOK
    <2> QED BY <1>1, <1>4, <2>1, QuietTypes DEF IInv, TypeOK
<1>6. Numbered'
    BY <1>1 DEF IInv, Numbered, TypeOK
<1>7. OffsetsInFile' /\ Unsent(traced.e)' = Unsent(traced.e)
    BY <1>1, SameFiles DEF IInv
<1>8. HandOK' /\ ReplayBatch' /\ Closing'
    BY <1>4 DEF HandOK, ReplayBatch, Closing
<1>9. LiveBatch'
    <2>1. sentSeq[e] <= seq /\ sentSeq'[e] = seq
        BY <1>1 DEF IInv, Numbered, TypeOK
    <2>2. \A r \in Owed(e) : \E s \in latest : s.r = r /\ s.seq > sentSeq[e] /\ r.key \in Takes[e]
        BY DEF Owed, Pending
    <2> QED BY <1>1, <1>3, <1>4, <2>1, <2>2 DEF LiveBatch
<1>10. NothingForgotten'
    <2>1. traced.r \in Where => traced.r \in Where'
        <3>1. CASE traced.e = e
            <4>1. InHand(traced.e) = {}
                BY <1>1 DEF InHand, ToSet
            <4>2. InHand(e)' = Owed(e)
                BY <1>3, <1>4 DEF InHand
            <4> QED BY <1>1, <1>7, <3>1, <4>1, <4>2 DEF Where
        <3>2. CASE traced.e # e
            <4>1. InHand(traced.e) = {}
                BY <1>1 DEF InHand, ToSet
            <4>2. traced.e \in Exporter
                BY DEF IInv, TypeOK, FatesOK
            <4>3. sentSeq'[traced.e] = sentSeq[traced.e]
                BY <1>1, <3>2, <4>2 DEF IInv, TypeOK
            <4>4. Owed(traced.e)' = Owed(traced.e)
                BY <1>1, <4>3 DEF Owed, Pending
            <4> QED BY <1>1, <1>7, <4>1, <4>4 DEF Where
        <3> QED BY <3>1, <3>2
    <2> QED BY <1>1, <2>1, StillThere DEF IInv
<1> QED BY <1>5, <1>6, <1>7, <1>8, <1>9, <1>10 DEF IInv

\* A turn with nothing new goes to the backlog.
LEMMA NoSnapshotIInv ==
    ASSUME IInv, NEW e \in Exporter, NoSnapshot(e)
    PROVE  IInv'
<1>1. /\ UNCHANGED <<latest, seq, sentSeq, fileVars, seen, traced, fate, resets>>
      /\ UNCHANGED <<readFails, unconfirmedRun>>
      /\ due' = [due EXCEPT ![e] = FALSE]
      /\ task.at = "walk" /\ task.batch = <<>>
    BY DEF NoSnapshot, Turn, IInv, HandOK, fateVars
<1>2. traced.r \notin InHand(traced.e)
    BY <1>1 DEF InHand, ToSet
<1>3. CASE e \in Spooling
    <2>1. task' = [task EXCEPT !.at = "drain", !.e = e]
        BY <1>3 DEF NoSnapshot
    <2>2. task'.at = "drain" /\ task'.e = e /\ task'.batch = <<>> /\ TaskOK'
        <3>1. task \in [at : Stages, e : 1..(ExporterCount + 1), batch : Seq(Readings),
                         attempt : 0..MaxRetries, before : Nat, late : BOOLEAN]
            BY DEF IInv, TypeOK, TaskOK
        <3>2. "drain" \in Stages /\ e \in 1..(ExporterCount + 1)
            BY ExportAssumption DEF Stages, Exporter
        <3> QED BY <1>1, <2>1, <3>1, <3>2, Zenon DEF TaskOK
    <2>3. TypeOK'
        BY <1>1, <2>2, QuietTypes DEF IInv, TypeOK
    <2>4. Numbered' /\ Owed(traced.e)' = Owed(traced.e)
        BY <1>1, SameTable DEF IInv
    <2>5. OffsetsInFile' /\ Unsent(traced.e)' = Unsent(traced.e)
        BY <1>1, SameFiles DEF IInv
    <2>6. HandOK' /\ LiveBatch' /\ ReplayBatch' /\ Closing'
        BY <2>2 DEF HandOK, LiveBatch, ReplayBatch, Closing
    <2>7. NothingForgotten'
        <3>1. traced.r \in Where => traced.r \in Where'
            BY <1>1, <1>2, <2>4, <2>5 DEF Where
        <3> QED BY <1>1, <3>1, StillThere DEF IInv
    <2> QED BY <2>3, <2>4, <2>5, <2>6, <2>7 DEF IInv
<1>4. CASE e \notin Spooling
    <2>1. TaskOK' /\ task'.at = "walk" /\ task'.batch = <<>>
        <3>1. GoOn(e, FALSE)
            BY <1>4 DEF NoSnapshot
        <3> QED BY <3>1, GoOnTask DEF IInv
    <2>2. TypeOK'
        BY <1>1, <2>1, QuietTypes DEF IInv, TypeOK
    <2> QED BY <1>1, <1>2, <2>1, <2>2, TurnEnds
<1> QED BY <1>3, <1>4

-----------------------------------------------------------------------------
(* What the server makes of the live batch.                                *)

\* The verdict on a batch is an outcome for each of its records.
LEMMA AnsweredFate ==
    ASSUME FatesOK, NEW S, UNCHANGED <<seen, traced>>, Answered(task.e, S)
    PROVE  /\ FatesOK' /\ fate \subseteq fate'
           /\ traced.r \in InHand(traced.e) => Resolved'
<1>1. fate' = fate \cup Tag("confirmed", task.e, S) \cup Tag("excused", task.e, ToSet(task.batch) \ S)
    BY DEF Answered
<1>2. ASSUME traced.r \in InHand(traced.e) PROVE Resolved'
    <2>1. traced.e = task.e /\ traced.r \in ToSet(task.batch)
        BY <1>2 DEF InHand
    <2>2. CASE traced.r \in S
        <3>1. "confirmed" \in fate'
            BY <1>1, <2>1, <2>2 DEF Tag
        <3> QED BY <3>1 DEF Resolved
    <2>3. CASE traced.r \notin S
        <3>1. "excused" \in fate'
            BY <1>1, <2>1, <2>3 DEF Tag
        <3> QED BY <3>1 DEF Resolved
    <2> QED BY <2>2, <2>3
<1> QED BY <1>1, <1>2 DEF FatesOK, Tag, Fates

\* An outcome for the whole batch is one for each record of it.
LEMMA BatchFate ==
    ASSUME FatesOK, NEW f \in Fates \ {"again"}, UNCHANGED <<seen, traced>>,
           Becomes(f, task.e, ToSet(task.batch))
    PROVE  /\ FatesOK' /\ fate \subseteq fate'
           /\ traced.r \in InHand(traced.e) => Resolved'
<1>1. FatesOK' /\ fate \subseteq fate'
      /\ (traced.e = task.e /\ traced.r \in ToSet(task.batch) => f \in fate')
    BY FateTag
<1>2. traced.r \in InHand(traced.e) => traced.e = task.e /\ traced.r \in ToSet(task.batch)
    BY DEF InHand
<1> QED BY <1>1, <1>2 DEF Resolved, Fates

\* A step that leaves the table and the files and stays within the turn,
\* with the same batch in hand or none.
LEMMA TurnGoesOn ==
    ASSUME IInv, UNCHANGED <<latest, seq, sentSeq, fileVars, seen, traced, resets>>,
           TypeOK', fate \subseteq fate', HandOK', LiveBatch', ReplayBatch', Closing',
           traced.r \in InHand(traced.e) => Resolved' \/ traced.r \in Where'
    PROVE  IInv'
<1>1. Numbered' /\ Owed(traced.e)' = Owed(traced.e)
    BY SameTable DEF IInv
<1>2. OffsetsInFile' /\ Unsent(traced.e)' = Unsent(traced.e)
    BY SameFiles DEF IInv
<1>3. traced.r \in Where /\ ~Resolved' => traced.r \in Where'
    <2>1. Where' = Owed(traced.e)' \cup InHand(traced.e)' \cup Unsent(traced.e)'
        BY DEF Where
    <2> QED BY <1>1, <1>2, <2>1 DEF Where
<1>4. NothingForgotten'
    BY <1>3, StillThere DEF IInv
<1> QED BY <1>1, <1>2, <1>4 DEF IInv

\* send() returned true.
LEMMA LiveAcceptedIInv ==
    ASSUME IInv, NEW S, LiveAccepted(S)
    PROVE  IInv'
<1>1. /\ UNCHANGED <<latest, seq, sentSeq, due, readFails, fileVars, resets, seen, traced>>
      /\ task.at = "live" /\ task.e \in Exporter /\ Answered(task.e, S)
      /\ unconfirmedRun' = [unconfirmedRun EXCEPT ![task.e] = 0]
    BY DEF LiveAccepted, IInv, HandOK
<1>2. FatesOK' /\ fate \subseteq fate' /\ (traced.r \in InHand(traced.e) => Resolved')
    BY <1>1, AnsweredFate DEF IInv, TypeOK
<1>3. TaskOK' /\ task'.at \in {"drain", "walk"} /\ task'.batch = <<>> /\ HandOK'
    <2>1. CASE task.e \in Spooling
        <3>1. task' = [task EXCEPT !.at = "drain", !.batch = <<>>]
            BY <2>1 DEF LiveAccepted
        <3>2. task \in [at : Stages, e : 1..(ExporterCount + 1), batch : Seq(Readings),
                         attempt : 0..MaxRetries, before : Nat, late : BOOLEAN]
            BY DEF IInv, TypeOK, TaskOK
        <3>3. "drain" \in Stages /\ <<>> \in Seq(Readings)
            BY DEF Stages
        <3>4. TaskOK' /\ task'.at = "drain" /\ task'.batch = <<>> /\ task'.e = task.e
            BY <3>1, <3>2, <3>3, Zenon DEF TaskOK
        <3> QED BY <3>4, <1>1 DEF HandOK
    <2>2. CASE task.e \notin Spooling
        <3>1. GoOn(task.e, task.late) /\ task.late \in BOOLEAN
            BY <2>2 DEF LiveAccepted, IInv, TypeOK, TaskOK
        <3>2. TaskOK' /\ task'.at = "walk" /\ task'.batch = <<>>
            BY <1>1, <3>1, GoOnTask DEF IInv
        <3> QED BY <3>2, BetweenTurns
    <2> QED BY <2>1, <2>2
<1>4. TypeOK'
    <2>1. unconfirmedRun' \in [Exporter -> 0..UnconfirmedSpoolAfter]
        BY <1>1, ExportAssumption DEF IInv, TypeOK
    <2> QED BY <1>1, <1>2, <1>3, <2>1 DEF IInv, TypeOK, FilesOK, fileVars
<1>5. LiveBatch' /\ ReplayBatch' /\ Closing'
    BY <1>3 DEF LiveBatch, ReplayBatch, Closing
<1> QED BY <1>1, <1>2, <1>3, <1>4, <1>5, TurnGoesOn

\* 429: what the batch was made of is owed again.
LEMMA LiveThrottledIInv ==
    ASSUME IInv, LiveThrottled
    PROVE  IInv'
<1>1. /\ UNCHANGED <<latest, seq, due, readFails, fileVars, seen, traced, fate, resets>>
      /\ task.at = "live" /\ task.e \in Exporter /\ GoOn(task.e, task.late) /\ task.late \in BOOLEAN
      /\ unconfirmedRun' = [unconfirmedRun EXCEPT ![task.e] = 0]
      /\ sentSeq' = [sentSeq EXCEPT ![task.e] = task.before]
      /\ task.before \in Nat
    BY DEF LiveThrottled, IInv, HandOK, fateVars, TypeOK, TaskOK
<1>2. TaskOK' /\ task'.at = "walk" /\ task'.batch = <<>>
    BY <1>1, GoOnTask DEF IInv
<1>3. TypeOK'
    <2>1. unconfirmedRun' \in [Exporter -> 0..UnconfirmedSpoolAfter]
        BY <1>1, ExportAssumption DEF IInv, TypeOK
    <2>2. sentSeq' \in [Exporter -> Nat]
        BY <1>1 DEF IInv, TypeOK
    <2> QED BY <1>1, <1>2, <2>1, <2>2, QuietTypes DEF IInv, TypeOK
<1>4. Numbered'
    <2>1. task.before <= sentSeq[task.e] /\ sentSeq[task.e] <= seq
        BY <1>1 DEF IInv, LiveBatch, Numbered
    <2> QED BY <1>1, <2>1 DEF IInv, Numbered, TypeOK
<1>5. OffsetsInFile' /\ Unsent(traced.e)' = Unsent(traced.e)
    BY <1>1, SameFiles DEF IInv
<1>6. HandOK' /\ LiveBatch' /\ ReplayBatch' /\ Closing'
    BY <1>2, BetweenTurns
<1>7. NothingForgotten'
    <2>1. traced.e \in Exporter
        BY DEF IInv, TypeOK, FatesOK
    <2>2. CASE traced.e # task.e
        <3>1. sentSeq'[traced.e] = sentSeq[traced.e]
            BY <1>1, <2>1, <2>2 DEF IInv, TypeOK
        <3>2. Owed(traced.e)' = Owed(traced.e)
            BY <1>1, <3>1 DEF Owed, Pending
        <3>3. InHand(traced.e) = {}
            BY <2>2 DEF InHand
        <3>4. traced.r \in Where => traced.r \in Where'
            BY <1>1, <1>5, <3>2, <3>3 DEF Where
        <3> QED BY <1>1, <3>4, StillThere DEF IInv
    <2>3. CASE traced.e = task.e
        <3>1. sentSeq'[traced.e] = task.before
            BY <1>1, <2>1, <2>3 DEF IInv, TypeOK
        <3>2. traced.r \in Owed(traced.e) => traced.r \in Owed(traced.e)'
            <4> SUFFICES ASSUME traced.r \in Owed(traced.e)
                         PROVE  traced.r \in Owed(traced.e)'
                OBVIOUS
            <4>1. PICK s \in latest : s.r = traced.r /\ s.seq > sentSeq[traced.e] /\ s.r.key \in Takes[traced.e]
                BY DEF Owed, Pending
            <4>2. s.seq > task.before
                <5>1. task.before <= sentSeq[traced.e] /\ sentSeq[traced.e] \in Nat /\ s.seq \in Nat
                    BY <1>1, <2>1, <2>3, <4>1 DEF IInv, LiveBatch, TypeOK
                <5> QED BY <1>1, <4>1, <5>1
            <4>3. s \in Pending(traced.e)'
                BY <1>1, <3>1, <4>1, <4>2 DEF Pending
            <4> QED BY <1>1, <4>1, <4>3 DEF Owed
        <3>3. traced.r \in InHand(traced.e) => traced.r \in Owed(traced.e)'
            <4> SUFFICES ASSUME traced.r \in InHand(traced.e) PROVE traced.r \in Owed(traced.e)'
                OBVIOUS
            <4>1. traced.r \in ToSet(task.batch)
                BY DEF InHand
            <4>2. PICK s \in latest : s.r = traced.r /\ s.seq > task.before /\ traced.r.key \in Takes[traced.e]
                BY <1>1, <2>3, <4>1 DEF IInv, LiveBatch
            <4>3. s \in Pending(traced.e)'
                BY <1>1, <3>1, <4>2 DEF Pending
            <4> QED BY <1>1, <4>2, <4>3 DEF Owed
        <3>4. traced.r \in Where => traced.r \in Where'
            BY <1>1, <1>5, <3>2, <3>3 DEF Where
        <3> QED BY <1>1, <3>4, StillThere DEF IInv
    <2> QED BY <2>2, <2>3
<1> QED BY <1>3, <1>4, <1>5, <1>6, <1>7 DEF IInv

\* The batch goes to the spool.
LEMMA ToSpool ==
    ASSUME TypeOK, NEW late \in BOOLEAN, task.e \in Exporter,
           task' = [task EXCEPT !.at = "spool", !.late = late]
    PROVE  /\ TaskOK' /\ task'.at = "spool" /\ task'.batch = task.batch /\ task'.e = task.e
           /\ HandOK' /\ LiveBatch' /\ ReplayBatch' /\ Closing'
<1>1. task \in [at : Stages, e : 1..(ExporterCount + 1), batch : Seq(Readings),
                 attempt : 0..MaxRetries, before : Nat, late : BOOLEAN]
    BY DEF TypeOK, TaskOK
<1>2. "spool" \in Stages
    BY DEF Stages
<1>3. TaskOK' /\ task'.at = "spool" /\ task'.batch = task.batch /\ task'.e = task.e
    BY <1>1, <1>2, Zenon DEF TaskOK
<1>4. HandOK' /\ LiveBatch' /\ ReplayBatch' /\ Closing'
    BY <1>3 DEF HandOK, LiveBatch, ReplayBatch, Closing
<1> QED BY <1>3, <1>4

\* No answer came.
LEMMA LiveSilentIInv ==
    ASSUME IInv, NEW late \in BOOLEAN, LiveSilent(late)
    PROVE  IInv'
<1> DEFINE run == IF unconfirmedRun[task.e] < UnconfirmedSpoolAfter THEN unconfirmedRun[task.e] + 1
                                                                    ELSE unconfirmedRun[task.e]
<1>1. /\ UNCHANGED <<latest, seq, sentSeq, due, readFails, fileVars, resets, seen, traced>>
      /\ task.at = "live" /\ task.e \in Exporter
      /\ unconfirmedRun' = [unconfirmedRun EXCEPT ![task.e] = run]
      /\ \/ task' = [task EXCEPT !.at = "spool", !.late = late] /\ UNCHANGED fate
         \/ GoOn(task.e, late) /\ Becomes("unheard", task.e, ToSet(task.batch))
    BY DEF LiveSilent, IInv, HandOK
<1>2. run \in 0..UnconfirmedSpoolAfter
    <2>1. unconfirmedRun[task.e] \in 0..UnconfirmedSpoolAfter /\ UnconfirmedSpoolAfter \in Nat
        BY <1>1, ExportAssumption DEF IInv, TypeOK
    <2> QED BY <2>1
<1> HIDE DEF run
<1>3. unconfirmedRun' \in [Exporter -> 0..UnconfirmedSpoolAfter]
    BY <1>1, <1>2 DEF IInv, TypeOK
<1>4. CASE task' = [task EXCEPT !.at = "spool", !.late = late] /\ UNCHANGED fate
    <2>1. /\ TaskOK' /\ task'.batch = task.batch /\ task'.e = task.e
          /\ HandOK' /\ LiveBatch' /\ ReplayBatch' /\ Closing'
        BY <1>1, <1>4, ToSpool DEF IInv
    <2>2. TypeOK'
        BY <1>1, <1>3, <1>4, <2>1, QuietTypes DEF IInv, TypeOK
    <2>3. InHand(traced.e)' = InHand(traced.e)
        BY <1>1, <2>1 DEF InHand
    <2>4. traced.r \in InHand(traced.e) => traced.r \in Where'
        BY <1>1, <2>3 DEF Where
    <2> QED BY <1>1, <1>4, <2>1, <2>2, <2>4, TurnGoesOn
<1>5. CASE GoOn(task.e, late) /\ Becomes("unheard", task.e, ToSet(task.batch))
    <2>1. TaskOK' /\ task'.at = "walk" /\ task'.batch = <<>>
        BY <1>1, <1>5, GoOnTask DEF IInv
    <2>2. "unheard" \in Fates \ {"again"}
        BY DEF Fates
    <2>3. FatesOK' /\ fate \subseteq fate' /\ (traced.r \in InHand(traced.e) => Resolved')
        BY <1>1, <1>5, <2>2, BatchFate DEF IInv, TypeOK
    <2>4. TypeOK'
        BY <1>1, <1>3, <2>1, <2>3 DEF IInv, TypeOK, FilesOK, fileVars
    <2> QED BY <1>1, <2>1, <2>3, <2>4, TurnEnds
<1> QED BY <1>1, <1>4, <1>5

\* It failed: once more, into the spool, or given up.
LEMMA LiveFailedIInv ==
    ASSUME IInv, NEW late \in BOOLEAN, LiveFailed(late)
    PROVE  IInv'
<1>1. /\ UNCHANGED <<latest, seq, sentSeq, due, readFails, fileVars, resets, seen, traced>>
      /\ task.at = "live" /\ task.e \in Exporter
      /\ unconfirmedRun' = [unconfirmedRun EXCEPT ![task.e] = 0]
    BY DEF LiveFailed, IInv, HandOK
<1>2. unconfirmedRun' \in [Exporter -> 0..UnconfirmedSpoolAfter]
    BY <1>1, ExportAssumption DEF IInv, TypeOK
<1>3. CASE task.attempt < MaxRetries /\ task' = [task EXCEPT !.attempt = @ + 1] /\ UNCHANGED fate
    <2>0. task.attempt \in 0..MaxRetries /\ task.attempt < MaxRetries
        BY <1>3 DEF IInv, TypeOK, TaskOK
    <2>1. task.attempt + 1 \in 0..MaxRetries
        BY <2>0, ExportAssumption
    <2>2. /\ TaskOK' /\ task'.batch = task.batch /\ task'.e = task.e
          /\ task'.at = task.at /\ task'.before = task.before
        <3>1. task \in [at : Stages, e : 1..(ExporterCount + 1), batch : Seq(Readings),
                         attempt : 0..MaxRetries, before : Nat, late : BOOLEAN]
            BY DEF IInv, TypeOK, TaskOK
        <3>2. task' = [task EXCEPT !.attempt = task.attempt + 1]
            BY <1>3
        <3> QED BY <2>1, <3>1, <3>2, Zenon DEF TaskOK
    <2>3. TypeOK'
        BY <1>1, <1>2, <1>3, <2>2, QuietTypes DEF IInv, TypeOK
    <2>4. HandOK' /\ LiveBatch' /\ ReplayBatch' /\ Closing'
        BY <1>1, <2>2 DEF IInv, HandOK, LiveBatch, ReplayBatch, Closing
    <2>5. InHand(traced.e)' = InHand(traced.e)
        BY <1>1, <2>2 DEF InHand
    <2>6. traced.r \in InHand(traced.e) => traced.r \in Where'
        BY <1>1, <2>5 DEF Where
    <2> QED BY <1>1, <1>3, <2>3, <2>4, <2>6, TurnGoesOn
<1>4. CASE task' = [task EXCEPT !.at = "spool", !.late = late] /\ UNCHANGED fate
    <2>1. /\ TaskOK' /\ task'.batch = task.batch /\ task'.e = task.e
          /\ HandOK' /\ LiveBatch' /\ ReplayBatch' /\ Closing'
        BY <1>1, <1>4, ToSpool DEF IInv
    <2>2. TypeOK'
        BY <1>1, <1>2, <1>4, <2>1, QuietTypes DEF IInv, TypeOK
    <2>3. InHand(traced.e)' = InHand(traced.e)
        BY <1>1, <2>1 DEF InHand
    <2>4. traced.r \in InHand(traced.e) => traced.r \in Where'
        BY <1>1, <2>3 DEF Where
    <2> QED BY <1>1, <1>4, <2>1, <2>2, <2>4, TurnGoesOn
<1>5. CASE GoOn(task.e, late) /\ Becomes("excused", task.e, ToSet(task.batch))
    <2>1. TaskOK' /\ task'.at = "walk" /\ task'.batch = <<>>
        BY <1>1, <1>5, GoOnTask DEF IInv
    <2>2. "excused" \in Fates \ {"again"}
        BY DEF Fates
    <2>3. FatesOK' /\ fate \subseteq fate' /\ (traced.r \in InHand(traced.e) => Resolved')
        BY <1>1, <1>5, <2>2, BatchFate DEF IInv, TypeOK
    <2>4. TypeOK'
        BY <1>1, <1>2, <2>1, <2>3 DEF IInv, TypeOK, FilesOK, fileVars
    <2> QED BY <1>1, <2>1, <2>3, <2>4, TurnEnds
<1> QED BY <1>3, <1>4, <1>5 DEF LiveFailed

-----------------------------------------------------------------------------
(* The append.                                                             *)

\* A file with these records, torn or not, is one.
LEMMA FileType ==
    ASSUME NEW recs \in Seq(Readings)
    PROVE  File(recs) \in [recs : Seq(Readings), torn : BOOLEAN] /\ File(recs).recs = recs
BY DEF File

\* After the append the walk goes on with the table as it was.
LEMMA SpoolEndsFrame ==
    ASSUME IInv, SpoolEnds
    PROVE  /\ task.at = "spool" /\ task.e \in Exporter /\ task.batch \in Seq(Readings)
           /\ UNCHANGED <<latest, seq, sentSeq, due, readFails, unconfirmedRun, resets, seen, traced>>
           /\ TaskOK' /\ HandOK' /\ LiveBatch' /\ ReplayBatch' /\ Closing'
           /\ Numbered' /\ Owed(traced.e)' = Owed(traced.e)
           /\ \A e : InHand(e)' = {}
<1>1. /\ task.at = "spool" /\ task.e \in Exporter /\ task.batch \in Seq(Readings)
      /\ GoOn(task.e, task.late) /\ task.late \in BOOLEAN
      /\ UNCHANGED <<latest, seq, sentSeq, due, readFails, unconfirmedRun, resets, seen, traced>>
    BY DEF SpoolEnds, IInv, HandOK, TypeOK, TaskOK, ramVars
<1>2. TaskOK' /\ task'.at = "walk" /\ task'.batch = <<>>
    BY <1>1, GoOnTask DEF IInv
<1>3. Numbered' /\ Owed(traced.e)' = Owed(traced.e)
    BY <1>1, SameTable DEF IInv
<1> QED BY <1>1, <1>2, <1>3, BetweenTurns

\* Nothing of another exporter's file changes in a step for exporter e.
LEMMA OtherFiles ==
    ASSUME NEW e \in Exporter,
           \A x \in Exporter \ {e} : spool'[x] = spool[x] /\ spoolOff'[x] = spoolOff[x] /\ orphan'[x] = orphan[x]
    PROVE  \A x \in Exporter \ {e} : Recs(x)' = Recs(x) /\ Unsent(x)' = Unsent(x)
BY DEF Recs, Unsent

\* The batch is given up: the spool is full, or cannot be written now.
LEMMA GivenUpIInv ==
    ASSUME IInv, SpoolFull \/ BatchDropped
    PROVE  IInv'
<1>1. SpoolEnds /\ Becomes("excused", task.e, ToSet(task.batch)) /\ UNCHANGED fileVars
    BY DEF SpoolFull, BatchDropped
<1>2. /\ task.e \in Exporter
      /\ UNCHANGED <<latest, seq, sentSeq, due, readFails, unconfirmedRun, resets, seen, traced>>
      /\ TaskOK' /\ HandOK' /\ LiveBatch' /\ ReplayBatch' /\ Closing'
    BY <1>1, SpoolEndsFrame
<1>3. "excused" \in Fates \ {"again"}
    BY DEF Fates
<1>4. FatesOK' /\ fate \subseteq fate' /\ (traced.r \in InHand(traced.e) => Resolved')
    BY <1>1, <1>2, <1>3, BatchFate DEF IInv, TypeOK
<1>5. TypeOK'
    BY <1>1, <1>2, <1>4 DEF IInv, TypeOK, FilesOK, fileVars
<1> QED BY <1>1, <1>2, <1>4, <1>5, TurnGoesOn

\* A record of a batch is at some place in it.
LEMMA BatchMember ==
    ASSUME TypeOK, NEW e, NEW r, r \in InHand(e)
    PROVE  /\ e = task.e /\ r \in ToSet(task.batch)
           /\ \E i \in 1..Len(task.batch) : task.batch[i] = r
<1>1. task.batch \in Seq(Readings)
    BY DEF TypeOK, TaskOK
<1>2. e = task.e /\ r \in ToSet(task.batch)
    BY DEF InHand
<1>3. DOMAIN task.batch = 1..Len(task.batch)
    BY <1>1
<1> QED BY <1>2, <1>3 DEF ToSet

\* A step that ends the turn of task.e with a change of its file.
LEMMA FileChanges ==
    ASSUME IInv, TypeOK', NEW e \in Exporter, e = task.e,
           UNCHANGED <<latest, seq, sentSeq, seen, traced>>, fate \subseteq fate',
           HandOK', LiveBatch', ReplayBatch', Closing',
           \A x \in Exporter \ {e} :
              spool'[x] = spool[x] /\ spoolOff'[x] = spoolOff[x] /\ orphan'[x] = orphan[x],
           ~orphan'[e] => spoolOff'[e] <= Len(Recs(e)'),
           traced.e = e /\ traced.r \in InHand(e) \cup Unsent(e)
              => Resolved' \/ traced.r \in Where'
    PROVE  IInv'
<1>1. Numbered' /\ Owed(traced.e)' = Owed(traced.e)
    BY SameTable DEF IInv
<1>2. \A x \in Exporter \ {e} : Recs(x)' = Recs(x) /\ Unsent(x)' = Unsent(x)
    BY OtherFiles
<1>3. OffsetsInFile'
    <2> SUFFICES ASSUME NEW x \in Exporter, ~orphan'[x] PROVE spoolOff'[x] <= Len(Recs(x)')
        BY DEF OffsetsInFile
    <2>1. CASE x = e
        BY <2>1
    <2>2. CASE x # e
        <3>1. Recs(x)' = Recs(x) /\ spoolOff'[x] = spoolOff[x] /\ ~orphan[x]
            BY <1>2, <2>2
        <3> QED BY <3>1 DEF IInv, OffsetsInFile
    <2> QED BY <2>1, <2>2
<1>4. traced.r \in Where /\ ~Resolved' => traced.r \in Where'
    <2>1. Where' = Owed(traced.e)' \cup InHand(traced.e)' \cup Unsent(traced.e)'
        BY DEF Where
    <2>2. traced.e \in Exporter
        BY DEF IInv, TypeOK, FatesOK
    <2>3. CASE traced.e = e
        BY <1>1, <2>1, <2>3 DEF Where
    <2>4. CASE traced.e # e
        <3>1. InHand(traced.e) = {}
            BY <2>4 DEF InHand
        <3>2. Unsent(traced.e)' = Unsent(traced.e)
            BY <1>2, <2>2, <2>4
        <3> QED BY <1>1, <2>1, <3>1, <3>2 DEF Where
    <2> QED BY <2>3, <2>4
<1>5. NothingForgotten'
    BY <1>4, StillThere DEF IInv
<1> QED BY <1>1, <1>3, <1>5 DEF IInv

\* The file of e is given these records, or goes, and its offset with it.
LEMMA FilesType ==
    ASSUME TypeOK, NEW e \in Exporter, UNCHANGED <<latest, seq, sentSeq, due, readFails, unconfirmedRun, resets>>,
           TaskOK', FatesOK',
           NEW f \in {Nothing} \cup [recs : Seq(Readings), torn : BOOLEAN], NEW o \in Nat, NEW b \in BOOLEAN,
           spool' = [spool EXCEPT ![e] = f],
           spoolOff' = [spoolOff EXCEPT ![e] = o],
           orphan' = [orphan EXCEPT ![e] = b]
    PROVE  /\ TypeOK'
           /\ spool'[e] = f /\ spoolOff'[e] = o /\ orphan'[e] = b
           /\ \A x \in Exporter \ {e} :
                 spool'[x] = spool[x] /\ spoolOff'[x] = spoolOff[x] /\ orphan'[x] = orphan[x]
<1>1. FilesOK' /\ spoolOff' \in [Exporter -> Nat] /\ orphan' \in [Exporter -> BOOLEAN]
    BY DEF TypeOK, FilesOK
<1>2. /\ spool'[e] = f /\ spoolOff'[e] = o /\ orphan'[e] = b
      /\ \A x \in Exporter \ {e} :
            spool'[x] = spool[x] /\ spoolOff'[x] = spoolOff[x] /\ orphan'[x] = orphan[x]
    BY DEF TypeOK, FilesOK
<1> QED BY <1>1, <1>2 DEF TypeOK

\* A torn tail: the batch starts the file over.
LEMMA AppendAnewIInv ==
    ASSUME IInv, AppendAnew
    PROVE  IInv'
<1>0. PICK e \in Exporter : e = task.e
    BY DEF IInv, HandOK, AppendAnew, SpoolEnds
<1>1. /\ SpoolEnds /\ Becomes("excused", e, Unsent(e))
      /\ spool' = [spool EXCEPT ![e] = File(task.batch)]
      /\ spoolOff' = [spoolOff EXCEPT ![e] = 0] /\ orphan' = [orphan EXCEPT ![e] = FALSE]
    BY <1>0 DEF AppendAnew, StartOver
<1>2. /\ e \in Exporter /\ task.batch \in Seq(Readings)
      /\ UNCHANGED <<latest, seq, sentSeq, due, readFails, unconfirmedRun, resets, seen, traced>>
      /\ TaskOK' /\ HandOK' /\ LiveBatch' /\ ReplayBatch' /\ Closing'
    BY <1>1, SpoolEndsFrame
<1>3. FatesOK' /\ fate \subseteq fate' /\ (traced.e = e /\ traced.r \in Unsent(e) => "excused" \in fate')
    BY <1>1, <1>2, FateTag DEF Fates, IInv, TypeOK
<1>4. File(task.batch) \in [recs : Seq(Readings), torn : BOOLEAN] /\ File(task.batch).recs = task.batch
    BY <1>2, FileType
<1>5. /\ TypeOK'
      /\ spool'[e] = File(task.batch) /\ spoolOff'[e] = 0 /\ orphan'[e] = FALSE
      /\ \A x \in Exporter \ {e} :
            spool'[x] = spool[x] /\ spoolOff'[x] = spoolOff[x] /\ orphan'[x] = orphan[x]
    BY <1>1, <1>2, <1>3, <1>4, FilesType DEF IInv
<1>6. Recs(e)' = task.batch
    <2>1. File(task.batch) # Nothing
        BY <1>4, ExportAssumption
    <2> QED BY <1>4, <1>5, <2>1 DEF Recs
<1>7. traced.e = e /\ traced.r \in InHand(e) => traced.r \in Where'
    <2> SUFFICES ASSUME traced.e = e, traced.r \in InHand(e) PROVE traced.r \in Where'
        OBVIOUS
    <2>1. PICK i \in 1..Len(task.batch) : task.batch[i] = traced.r
        BY BatchMember DEF IInv
    <2>2. i > 0
        BY <1>2
    <2>3. traced.r \in Unsent(e)'
        <3>1. \E k \in 1..Len(Recs(e)') : Recs(e)'[k] = traced.r /\ (orphan'[e] \/ k > spoolOff'[e])
            BY <1>5, <1>6, <2>1, <2>2
        <3> QED BY <1>2, <1>5, <3>1, UnsentMemberNext
    <2>4. traced'.e = e /\ traced'.r = traced.r
        BY <1>2
    <2> QED BY <2>3, <2>4 DEF Where
<1>8. traced.e = e /\ traced.r \in Unsent(e) => Resolved'
    BY <1>3 DEF Resolved
<1>9. spoolOff'[e] <= Len(Recs(e)')
    BY <1>2, <1>5, <1>6
<1> QED BY <1>0, <1>2, <1>3, <1>5, <1>7, <1>8, <1>9, FileChanges

\* The batch joins the spool.
LEMMA AppendBatchIInv ==
    ASSUME IInv, AppendBatch
    PROVE  IInv'
<1>0. PICK e \in Exporter : e = task.e
    BY DEF IInv, HandOK, AppendBatch, SpoolEnds
<1>1. /\ SpoolEnds /\ UNCHANGED <<spoolOff, orphan, fate>>
      /\ spool' = [spool EXCEPT ![e] = File(Recs(e) \o task.batch)]
    BY <1>0 DEF AppendBatch
<1>2. /\ e \in Exporter /\ task.batch \in Seq(Readings)
      /\ UNCHANGED <<latest, seq, sentSeq, due, readFails, unconfirmedRun, resets, seen, traced>>
      /\ TaskOK' /\ HandOK' /\ LiveBatch' /\ ReplayBatch' /\ Closing'
    BY <1>1, SpoolEndsFrame
<1>3. FatesOK' /\ fate \subseteq fate'
    BY <1>1, <1>2 DEF IInv, TypeOK, FatesOK
<1> DEFINE recs == Recs(e) \o task.batch
<1>4. /\ recs \in Seq(Readings) /\ Len(recs) = Len(Recs(e)) + Len(task.batch)
      /\ Len(task.batch) \in Nat /\ Len(Recs(e)) \in Nat
      /\ \A i \in 1..Len(Recs(e)) : recs[i] = Recs(e)[i]
      /\ \A i \in 1..Len(task.batch) : recs[Len(Recs(e)) + i] = task.batch[i]
    BY <1>2, RecsType DEF IInv
<1>5. spool' = [spool EXCEPT ![e] = File(recs)]
    BY <1>1
<1> HIDE DEF recs
<1>6. File(recs) \in [recs : Seq(Readings), torn : BOOLEAN] /\ File(recs).recs = recs
    BY <1>4, FileType
<1>7. spoolOff[e] \in Nat /\ orphan[e] \in BOOLEAN /\ spool'[e] = File(recs)
    BY <1>2, <1>5 DEF IInv, TypeOK, FilesOK
<1>8. \A x \in Exporter \ {e} :
            spool'[x] = spool[x] /\ spoolOff'[x] = spoolOff[x] /\ orphan'[x] = orphan[x]
    BY <1>1, <1>5 DEF IInv, TypeOK, FilesOK
<1>9. TypeOK'
    <2>1. FilesOK'
        BY <1>5, <1>6 DEF IInv, TypeOK, FilesOK
    <2> QED BY <1>1, <1>2, <1>3, <2>1 DEF IInv, TypeOK
<1>10. Recs(e)' = recs
    BY <1>6, <1>7, ExportAssumption DEF Recs
<1>11. ~orphan[e] => spoolOff[e] <= Len(Recs(e))
    BY <1>2 DEF IInv, OffsetsInFile
<1>12. traced.e = e /\ traced.r \in InHand(e) => traced.r \in Where'
    <2> SUFFICES ASSUME traced.e = e, traced.r \in InHand(e) PROVE traced.r \in Where'
        OBVIOUS
    <2>1. PICK i \in 1..Len(task.batch) : task.batch[i] = traced.r
        BY BatchMember DEF IInv
    <2>2. /\ Len(Recs(e)) + i \in 1..Len(recs) /\ recs[Len(Recs(e)) + i] = traced.r
          /\ orphan[e] \/ Len(Recs(e)) + i > spoolOff[e]
        BY <1>4, <1>7, <1>11, <2>1
    <2>3. traced.r \in Unsent(e)'
        BY <1>1, <1>2, <1>9, <1>10, <2>2, UnsentMemberNext
    <2> QED BY <1>2, <2>3 DEF Where
<1>13. traced.e = e /\ traced.r \in Unsent(e) => traced.r \in Where'
    <2> SUFFICES ASSUME traced.e = e, traced.r \in Unsent(e) PROVE traced.r \in Where'
        OBVIOUS
    <2>1. PICK i \in 1..Len(Recs(e)) : Recs(e)[i] = traced.r /\ (orphan[e] \/ i > spoolOff[e])
        BY <1>2, UnsentMember DEF IInv
    <2>2. i \in 1..Len(recs) /\ recs[i] = traced.r
        BY <1>4, <2>1
    <2>3. traced.r \in Unsent(e)'
        BY <1>1, <1>2, <1>9, <1>10, <2>1, <2>2, UnsentMemberNext
    <2> QED BY <1>2, <2>3 DEF Where
<1>14. ~orphan'[e] => spoolOff'[e] <= Len(Recs(e)')
    BY <1>1, <1>4, <1>7, <1>10, <1>11
<1> QED BY <1>0, <1>2, <1>3, <1>8, <1>9, <1>12, <1>13, <1>14, FileChanges

\* The file system is full: the file goes, and the batch with it.
LEMMA WriteShortIInv ==
    ASSUME IInv, WriteShort
    PROVE  IInv'
<1>0. PICK e \in Exporter : e = task.e
    BY DEF IInv, HandOK, WriteShort, SpoolEnds
<1>1. /\ SpoolEnds /\ Becomes("excused", e, Unsent(e) \cup ToSet(task.batch))
      /\ spool' = [spool EXCEPT ![e] = Nothing]
      /\ spoolOff' = [spoolOff EXCEPT ![e] = 0] /\ orphan' = [orphan EXCEPT ![e] = FALSE]
    BY <1>0 DEF WriteShort, StartOver
<1>2. /\ e \in Exporter
      /\ UNCHANGED <<latest, seq, sentSeq, due, readFails, unconfirmedRun, resets, seen, traced>>
      /\ TaskOK' /\ HandOK' /\ LiveBatch' /\ ReplayBatch' /\ Closing'
    BY <1>1, SpoolEndsFrame
<1>3. FatesOK' /\ fate \subseteq fate'
      /\ (traced.e = e /\ traced.r \in Unsent(e) \cup ToSet(task.batch) => "excused" \in fate')
    BY <1>1, <1>2, FateTag DEF Fates, IInv, TypeOK
<1>4. /\ TypeOK' /\ spool'[e] = Nothing /\ spoolOff'[e] = 0
      /\ \A x \in Exporter \ {e} :
            spool'[x] = spool[x] /\ spoolOff'[x] = spoolOff[x] /\ orphan'[x] = orphan[x]
    BY <1>1, <1>2, <1>3, FilesType DEF IInv
<1>5. Recs(e)' = <<>>
    BY <1>4 DEF Recs
<1>6. spoolOff'[e] <= Len(Recs(e)')
    BY <1>4, <1>5
<1>7. traced.e = e /\ traced.r \in InHand(e) \cup Unsent(e) => Resolved'
    BY <1>0, <1>3 DEF Resolved, InHand
<1> QED BY <1>0, <1>2, <1>3, <1>4, <1>6, <1>7, FileChanges

-----------------------------------------------------------------------------
(* The backlog: a batch is read and replayed, the offset moves, and a file *)
(* that has been sent is removed.                                          *)

\* No turn for the backlog now.
LEMMA DrainSkippedIInv ==
    ASSUME IInv, DrainSkipped
    PROVE  IInv'
<1>1. /\ UNCHANGED <<latest, seq, sentSeq, fileVars, seen, traced, fate, resets>>
      /\ UNCHANGED <<due, readFails, unconfirmedRun>>
      /\ task.at = "drain" /\ task.batch = <<>> /\ task.e \in Exporter
      /\ GoOn(task.e, task.late) /\ task.late \in BOOLEAN
    BY DEF DrainSkipped, IInv, HandOK, fateVars, ramVars, TypeOK, TaskOK
<1>2. TaskOK' /\ task'.at = "walk" /\ task'.batch = <<>>
    BY <1>1, GoOnTask DEF IInv
<1>3. TypeOK'
    BY <1>1, <1>2, QuietTypes DEF IInv, TypeOK
<1>4. traced.r \notin InHand(traced.e)
    BY <1>1 DEF InHand, ToSet
<1> QED BY <1>1, <1>2, <1>3, <1>4, TurnEnds

\* There is no file: the offset starts over.
LEMMA NoSpoolIInv ==
    ASSUME IInv, NoSpool
    PROVE  IInv'
<1>0. PICK e \in Exporter : e = task.e
    BY DEF IInv, HandOK, NoSpool
<1>1. /\ UNCHANGED <<latest, seq, sentSeq, seen, traced, fate, resets>>
      /\ UNCHANGED <<due, readFails, unconfirmedRun, spool>>
      /\ task.at = "drain" /\ task.batch = <<>> /\ spool[e] = Nothing
      /\ spoolOff' = [spoolOff EXCEPT ![e] = 0] /\ orphan' = [orphan EXCEPT ![e] = FALSE]
      /\ GoOn(e, task.late) /\ task.late \in BOOLEAN
    BY <1>0 DEF NoSpool, StartOver, IInv, HandOK, fateVars, ramVars, TypeOK, TaskOK
<1>2. TaskOK' /\ task'.at = "walk" /\ task'.batch = <<>>
    BY <1>1, GoOnTask DEF IInv
<1>3. HandOK' /\ LiveBatch' /\ ReplayBatch' /\ Closing'
    BY <1>2, BetweenTurns
<1>4. /\ TypeOK' /\ spoolOff'[e] = 0
      /\ \A x \in Exporter \ {e} :
            spool'[x] = spool[x] /\ spoolOff'[x] = spoolOff[x] /\ orphan'[x] = orphan[x]
    <2>1. FatesOK' /\ FilesOK' /\ spoolOff' \in [Exporter -> Nat] /\ orphan' \in [Exporter -> BOOLEAN]
        BY <1>1 DEF IInv, TypeOK, FatesOK, FilesOK
    <2> QED BY <1>1, <1>2, <2>1 DEF IInv, TypeOK
<1>5. Recs(e)' = <<>> /\ Recs(e) = <<>>
    BY <1>1 DEF Recs
<1>6. spoolOff'[e] <= Len(Recs(e)')
    BY <1>4, <1>5
<1>7. traced.r \notin InHand(e) \cup Unsent(e)
    <2>1. traced.r \notin Unsent(e)
        BY <1>5, UnsentMember DEF IInv
    <2>2. InHand(e) = {}
        BY <1>1 DEF InHand, ToSet
    <2> QED BY <2>1, <2>2
<1> QED BY <1>0, <1>1, <1>3, <1>4, <1>6, <1>7, FileChanges

\* The offset as the drain takes it, and what is unsent from there.
LEMMA OpensFrame ==
    ASSUME IInv, NEW e \in Exporter, e = task.e, Opens(e), spool' = spool
    PROVE  /\ From(e) \in 0..Len(Recs(e)) /\ Recs(e)' = Recs(e)
           /\ spoolOff'[e] = From(e) /\ orphan'[e] = FALSE
           /\ FilesOK' /\ spoolOff' \in [Exporter -> Nat] /\ orphan' \in [Exporter -> BOOLEAN]
           /\ \A x \in Exporter \ {e} :
                 spool'[x] = spool[x] /\ spoolOff'[x] = spoolOff[x] /\ orphan'[x] = orphan[x]
           /\ InHand(e) = {}
           /\ \A i \in 1..Len(Recs(e)) :
                 orphan[e] \/ i > spoolOff[e] => i > From(e) \/ Recs(e)[i] \in Skipped(e)
           /\ \A i \in 1..Len(Recs(e)) : i > From(e) => orphan[e] \/ i > spoolOff[e]
<1>1. Recs(e) \in Seq(Readings) /\ Len(Recs(e)) \in Nat /\ spoolOff[e] \in Nat /\ orphan[e] \in BOOLEAN
    BY RecsType DEF IInv, TypeOK
<1>2. /\ task.at = "drain" /\ task.batch = <<>>
      /\ spoolOff' = [spoolOff EXCEPT ![e] = From(e)] /\ orphan' = [orphan EXCEPT ![e] = FALSE]
    BY DEF Opens, IInv, HandOK
<1>3. From(e) \in 0..Len(Recs(e)) /\ From(e) \in Nat
    BY <1>1 DEF From
<1>4. Recs(e)' = Recs(e)
    BY DEF Recs
<1>5. FilesOK' /\ spoolOff' \in [Exporter -> Nat] /\ orphan' \in [Exporter -> BOOLEAN]
    BY <1>2, <1>3 DEF IInv, TypeOK, FilesOK
<1>6. /\ spoolOff'[e] = From(e) /\ orphan'[e] = FALSE
      /\ \A x \in Exporter \ {e} :
            spool'[x] = spool[x] /\ spoolOff'[x] = spoolOff[x] /\ orphan'[x] = orphan[x]
    BY <1>2, <1>3 DEF IInv, TypeOK
<1>7. InHand(e) = {}
    BY <1>2 DEF InHand, ToSet
<1>8. ~orphan[e] => From(e) = spoolOff[e]
    <2>1. ~orphan[e] => spoolOff[e] <= Len(Recs(e))
        BY DEF IInv, OffsetsInFile
    <2> QED BY <1>1, <2>1 DEF From
<1>9. ASSUME NEW i \in 1..Len(Recs(e)), orphan[e] \/ i > spoolOff[e]
      PROVE  i > From(e) \/ Recs(e)[i] \in Skipped(e)
    <2>1. CASE orphan[e] /\ i <= From(e)
        <3> DEFINE front == SubSeq(Recs(e), 1, From(e))
        <3>1. DOMAIN front = 1..From(e) /\ front[i] = Recs(e)[i] /\ i \in 1..From(e)
            BY <1>1, <1>3, <2>1
        <3> HIDE DEF front
        <3>2. Recs(e)[i] \in ToSet(front)
            BY <3>1 DEF ToSet
        <3> QED BY <2>1, <3>2 DEF Skipped, front
    <2>2. CASE orphan[e] /\ ~(i <= From(e))
        BY <1>3, <2>2
    <2>3. CASE ~orphan[e]
        BY <1>8, <1>9, <2>3
    <2> QED BY <1>1, <2>1, <2>2, <2>3
<1>10. ASSUME NEW i \in 1..Len(Recs(e)), i > From(e) PROVE orphan[e] \/ i > spoolOff[e]
    BY <1>8, <1>10
<1> QED BY <1>3, <1>4, <1>5, <1>6, <1>7, <1>9, <1>10

\* What is unsent before the file is opened is skipped, or unsent after it.
LEMMA OpensUnsent ==
    ASSUME IInv, TypeOK', NEW e \in Exporter, e = task.e, Opens(e), spool' = spool
    PROVE  /\ \A r : r \in Unsent(e) => r \in Skipped(e) \/ r \in Unsent(e)'
           /\ \A r : r \in Unsent(e)' => r \in Unsent(e)
<1>1. /\ Recs(e)' = Recs(e) /\ spoolOff'[e] = From(e) /\ orphan'[e] = FALSE
      /\ \A i \in 1..Len(Recs(e)) :
            orphan[e] \/ i > spoolOff[e] => i > From(e) \/ Recs(e)[i] \in Skipped(e)
      /\ \A i \in 1..Len(Recs(e)) : i > From(e) => orphan[e] \/ i > spoolOff[e]
    BY OpensFrame
<1>2. ASSUME NEW r, r \in Unsent(e) PROVE r \in Skipped(e) \/ r \in Unsent(e)'
    <2>1. PICK i \in 1..Len(Recs(e)) : Recs(e)[i] = r /\ (orphan[e] \/ i > spoolOff[e])
        BY <1>2, UnsentMember DEF IInv
    <2>2. CASE i > From(e)
        <3>1. \E k \in 1..Len(Recs(e)') : Recs(e)'[k] = r /\ (orphan'[e] \/ k > spoolOff'[e])
            BY <1>1, <2>1, <2>2
        <3> QED BY <3>1, UnsentMemberNext
    <2>3. CASE ~(i > From(e))
        BY <1>1, <2>1, <2>3
    <2> QED BY <2>2, <2>3
<1>3. ASSUME NEW r, r \in Unsent(e)' PROVE r \in Unsent(e)
    <2>1. PICK i \in 1..Len(Recs(e)') : Recs(e)'[i] = r /\ (orphan'[e] \/ i > spoolOff'[e])
        BY <1>3, UnsentMemberNext
    <2>2. \E k \in 1..Len(Recs(e)) : Recs(e)[k] = r /\ (orphan[e] \/ k > spoolOff[e])
        BY <1>1, <2>1
    <2> QED BY <2>2, UnsentMember DEF IInv
<1> QED BY <1>2, <1>3

\* A batch of the backlog is read.
LEMMA ReadBatchIInv ==
    ASSUME IInv, ReadBatch
    PROVE  IInv'
<1>0. PICK e \in Exporter : e = task.e
    BY DEF IInv, HandOK, ReadBatch, Opens
<1> DEFINE end == IF From(e) + SpoolBatch < Len(Recs(e)) THEN From(e) + SpoolBatch ELSE Len(Recs(e))
           batch == SubSeq(Recs(e), From(e) + 1, end)
<1>1. /\ Opens(e) /\ From(e) < Len(Recs(e)) /\ Becomes("excused", e, Skipped(e))
      /\ readFails' = [readFails EXCEPT ![e] = 0]
      /\ task' = [task EXCEPT !.at = "replay", !.batch = batch]
      /\ UNCHANGED <<latest, seq, sentSeq, due, unconfirmedRun, spool, resets, seen, traced>>
    BY <1>0 DEF ReadBatch
<1>2. /\ From(e) \in 0..Len(Recs(e)) /\ Recs(e)' = Recs(e)
      /\ spoolOff'[e] = From(e) /\ orphan'[e] = FALSE
      /\ FilesOK' /\ spoolOff' \in [Exporter -> Nat] /\ orphan' \in [Exporter -> BOOLEAN]
      /\ \A x \in Exporter \ {e} :
            spool'[x] = spool[x] /\ spoolOff'[x] = spoolOff[x] /\ orphan'[x] = orphan[x]
      /\ InHand(e) = {}
    BY <1>0, <1>1, OpensFrame
<1>3. FatesOK' /\ fate \subseteq fate' /\ (traced.e = e /\ traced.r \in Skipped(e) => "excused" \in fate')
    BY <1>1, FateTag DEF Fates, IInv, TypeOK
<1>4. /\ batch \in Seq(Readings) /\ Len(batch) \in Nat /\ From(e) + Len(batch) <= Len(Recs(e))
      /\ \A i \in 1..Len(batch) : batch[i] = Recs(e)[From(e) + i]
    <2>1. Recs(e) \in Seq(Readings) /\ Len(Recs(e)) \in Nat /\ From(e) \in Nat
        BY <1>2, RecsType DEF IInv
    <2>2. end \in Nat /\ end <= Len(Recs(e)) /\ From(e) < end
        BY <1>1, <1>2, <2>1, ExportAssumption
    <2> HIDE DEF end
    <2> QED BY <2>1, <2>2, PartOf
<1> HIDE DEF end, batch
<1>5. /\ TaskOK' /\ task'.at = "replay" /\ task'.batch = batch /\ task'.e = e
    <2>1. task \in [at : Stages, e : 1..(ExporterCount + 1), batch : Seq(Readings),
                     attempt : 0..MaxRetries, before : Nat, late : BOOLEAN]
        BY DEF IInv, TypeOK, TaskOK
    <2>2. "replay" \in Stages
        BY DEF Stages
    <2> QED BY <1>0, <1>1, <1>4, <2>1, <2>2, Zenon DEF TaskOK
<1>6. TypeOK'
    <2>1. readFails' \in [Exporter -> 0..ReadFailsMax]
        BY <1>1, ExportAssumption DEF IInv, TypeOK
    <2> QED BY <1>1, <1>2, <1>3, <1>5, <2>1 DEF IInv, TypeOK
<1>7. HandOK' /\ LiveBatch' /\ Closing'
    BY <1>5 DEF HandOK, LiveBatch, Closing
<1>8. ReplayBatch'
    <2>1. ~orphan'[e] /\ spoolOff'[e] + Len(batch) <= Len(Recs(e)')
          /\ \A i \in 1..Len(batch) : batch[i] = Recs(e)'[spoolOff'[e] + i]
        BY <1>2, <1>4
    <2> QED BY <1>5, <2>1 DEF ReplayBatch
<1>9. traced.e = e /\ traced.r \in InHand(e) \cup Unsent(e) => Resolved' \/ traced.r \in Where'
    <2> SUFFICES ASSUME traced.e = e, traced.r \in Unsent(e) PROVE Resolved' \/ traced.r \in Where'
        BY <1>2
    <2>1. traced.r \in Skipped(e) \/ traced.r \in Unsent(e)'
        BY <1>0, <1>1, <1>6, OpensUnsent
    <2>2. traced'.e = e /\ traced'.r = traced.r
        BY <1>1
    <2> QED BY <1>3, <2>1, <2>2 DEF Resolved, Where
<1>10. ~orphan'[e] => spoolOff'[e] <= Len(Recs(e)')
    BY <1>2
<1> QED BY <1>0, <1>1, <1>2, <1>3, <1>6, <1>7, <1>8, <1>9, <1>10, FileChanges

\* The file is there and cannot be read, once more or for good.
LEMMA ReadFailsIInv ==
    ASSUME IInv, ReadFails
    PROVE  IInv'
<1>0. PICK e \in Exporter : e = task.e
    BY DEF IInv, HandOK, ReadFails, Opens
<1>1. /\ Opens(e) /\ From(e) < Len(Recs(e)) /\ task.batch = <<>>
      /\ UNCHANGED <<latest, seq, sentSeq, due, unconfirmedRun, spool, resets, seen, traced>>
    BY <1>0 DEF ReadFails, Opens, IInv, HandOK
<1>2. /\ From(e) \in 0..Len(Recs(e)) /\ Recs(e)' = Recs(e)
      /\ spoolOff'[e] = From(e) /\ orphan'[e] = FALSE
      /\ FilesOK' /\ spoolOff' \in [Exporter -> Nat] /\ orphan' \in [Exporter -> BOOLEAN]
      /\ \A x \in Exporter \ {e} :
            spool'[x] = spool[x] /\ spoolOff'[x] = spoolOff[x] /\ orphan'[x] = orphan[x]
      /\ InHand(e) = {}
    BY <1>0, <1>1, OpensFrame
<1>3. readFails[e] \in 0..ReadFailsMax /\ ReadFailsMax \in Nat
    BY ExportAssumption DEF IInv, TypeOK
<1>4. CASE /\ readFails[e] + 1 < ReadFailsMax
           /\ readFails' = [readFails EXCEPT ![e] = @ + 1]
           /\ GoOn(task.e, task.late)
           /\ Becomes("excused", e, Skipped(e))
    <2>1. FatesOK' /\ fate \subseteq fate' /\ (traced.e = e /\ traced.r \in Skipped(e) => "excused" \in fate')
        BY <1>1, <1>4, FateTag DEF Fates, IInv, TypeOK
    <2>2. TaskOK' /\ task'.at = "walk" /\ task'.batch = <<>>
        BY <1>0, <1>4, GoOnTask DEF IInv, TypeOK, TaskOK
    <2>3. readFails' \in [Exporter -> 0..ReadFailsMax]
        <3>1. readFails[e] + 1 \in 0..ReadFailsMax
            BY <1>3, <1>4
        <3> QED BY <3>1, <1>4 DEF IInv, TypeOK
    <2>4. TypeOK'
        BY <1>1, <1>2, <2>1, <2>2, <2>3 DEF IInv, TypeOK
    <2>5. HandOK' /\ LiveBatch' /\ ReplayBatch' /\ Closing'
        BY <2>2, BetweenTurns
    <2>6. traced.e = e /\ traced.r \in InHand(e) \cup Unsent(e) => Resolved' \/ traced.r \in Where'
        <3> SUFFICES ASSUME traced.e = e, traced.r \in Unsent(e) PROVE Resolved' \/ traced.r \in Where'
            BY <1>2
        <3>1. traced.r \in Skipped(e) \/ traced.r \in Unsent(e)'
            BY <1>0, <1>1, <2>4, OpensUnsent
        <3>2. traced'.e = e /\ traced'.r = traced.r
            BY <1>1
        <3> QED BY <2>1, <3>1, <3>2 DEF Resolved, Where
    <2>7. ~orphan'[e] => spoolOff'[e] <= Len(Recs(e)')
        BY <1>2
    <2> QED BY <1>0, <1>1, <1>2, <2>1, <2>4, <2>5, <2>6, <2>7, FileChanges
<1>5. CASE /\ readFails[e] + 1 >= ReadFailsMax
           /\ readFails' = [readFails EXCEPT ![e] = 0]
           /\ Go("trim")
           /\ Becomes("excused", e, Unsent(e))
    <2>1. FatesOK' /\ fate \subseteq fate' /\ (traced.e = e /\ traced.r \in Unsent(e) => "excused" \in fate')
        BY <1>1, <1>5, FateTag DEF Fates, IInv, TypeOK
    <2>2. TaskOK' /\ task'.at = "trim" /\ task'.batch = <<>> /\ task'.e = e
        BY <1>0, <1>1, <1>5, GoTask DEF Stages, IInv
    <2>3. readFails' \in [Exporter -> 0..ReadFailsMax]
        BY <1>3, <1>5 DEF IInv, TypeOK
    <2>4. TypeOK'
        BY <1>1, <1>2, <2>1, <2>2, <2>3 DEF IInv, TypeOK
    <2>5. HandOK' /\ LiveBatch' /\ ReplayBatch'
        BY <2>2 DEF HandOK, LiveBatch, ReplayBatch
    <2>6. Closing'
        <3>1. traced.r \in Unsent(e)' => traced.r \in Unsent(e)
            BY <1>0, <1>1, <2>4, OpensUnsent
        <3>2. traced'.e = task'.e /\ traced'.r \in Unsent(e)' => Resolved'
            BY <1>1, <2>1, <2>2, <3>1 DEF Resolved
        <3> QED BY <2>2, <3>2 DEF Closing
    <2>7. traced.e = e /\ traced.r \in InHand(e) \cup Unsent(e) => Resolved'
        BY <1>2, <2>1 DEF Resolved
    <2>8. ~orphan'[e] => spoolOff'[e] <= Len(Recs(e)')
        BY <1>2
    <2> QED BY <1>0, <1>1, <1>2, <2>1, <2>4, <2>5, <2>6, <2>7, <2>8, FileChanges
<1> QED BY <1>0, <1>4, <1>5 DEF ReadFails

\* All of the file has been sent.
LEMMA NothingLeftIInv ==
    ASSUME IInv, NothingLeft
    PROVE  IInv'
<1>0. PICK e \in Exporter : e = task.e
    BY DEF IInv, HandOK, NothingLeft, Opens
<1>1. /\ Opens(e) /\ From(e) = Len(Recs(e)) /\ task.batch = <<>> /\ Go("trim")
      /\ Becomes("excused", e, Skipped(e)) /\ readFails' = [readFails EXCEPT ![e] = 0]
      /\ UNCHANGED <<latest, seq, sentSeq, due, unconfirmedRun, spool, resets, seen, traced>>
    BY <1>0 DEF NothingLeft, Opens, IInv, HandOK
<1>2. /\ From(e) \in 0..Len(Recs(e)) /\ Recs(e)' = Recs(e)
      /\ spoolOff'[e] = From(e) /\ orphan'[e] = FALSE
      /\ FilesOK' /\ spoolOff' \in [Exporter -> Nat] /\ orphan' \in [Exporter -> BOOLEAN]
      /\ \A x \in Exporter \ {e} :
            spool'[x] = spool[x] /\ spoolOff'[x] = spoolOff[x] /\ orphan'[x] = orphan[x]
      /\ InHand(e) = {}
    BY <1>0, <1>1, OpensFrame
<1>3. FatesOK' /\ fate \subseteq fate' /\ (traced.e = e /\ traced.r \in Skipped(e) => "excused" \in fate')
    BY <1>1, FateTag DEF Fates, IInv, TypeOK
<1>4. TaskOK' /\ task'.at = "trim" /\ task'.batch = <<>> /\ task'.e = e
    BY <1>0, <1>1, GoTask DEF Stages, IInv
<1>5. TypeOK'
    <2>1. readFails' \in [Exporter -> 0..ReadFailsMax]
        BY <1>1, ExportAssumption DEF IInv, TypeOK
    <2> QED BY <1>1, <1>2, <1>3, <1>4, <2>1 DEF IInv, TypeOK
<1>6. traced.r \notin Unsent(e)'
    <2>1. Recs(e) \in Seq(Readings) /\ Len(Recs(e)) \in Nat
        BY RecsType DEF IInv
    <2>2. ~ \E i \in 1..Len(Recs(e)') : orphan'[e] \/ i > spoolOff'[e]
        BY <1>1, <1>2, <2>1
    <2> QED BY <1>5, <2>2, UnsentMemberNext
<1>7. HandOK' /\ LiveBatch' /\ ReplayBatch'
    BY <1>4 DEF HandOK, LiveBatch, ReplayBatch
<1>8. Closing'
    <2>1. traced'.r \notin Unsent(e)'
        BY <1>1, <1>6
    <2> QED BY <1>4, <2>1 DEF Closing
<1>9. traced.e = e /\ traced.r \in InHand(e) \cup Unsent(e) => Resolved'
    <2>1. traced.r \in Unsent(e) => traced.r \in Skipped(e)
        BY <1>0, <1>1, <1>5, <1>6, OpensUnsent
    <2> QED BY <1>2, <1>3, <2>1 DEF Resolved
<1>10. ~orphan'[e] => spoolOff'[e] <= Len(Recs(e)')
    BY <1>2
<1> QED BY <1>0, <1>1, <1>2, <1>3, <1>5, <1>7, <1>8, <1>9, <1>10, FileChanges

\* The server has the batch, or was sent it and did not answer.
LEMMA ReplayedIInv ==
    ASSUME IInv, NEW S, ReplayAccepted(S) \/ ReplaySilent
    PROVE  IInv'
<1>1. /\ UNCHANGED <<latest, seq, sentSeq, due, readFails, unconfirmedRun, fileVars, resets, seen, traced>>
      /\ task.at = "replay" /\ task.e \in Exporter /\ Go("mark")
      /\ Answered(task.e, S) \/ Becomes("unheard", task.e, ToSet(task.batch))
    BY DEF ReplayAccepted, ReplaySilent, IInv, HandOK, ramVars
<1>2. FatesOK' /\ fate \subseteq fate' /\ (traced.r \in InHand(traced.e) => Resolved')
    <2>1. "unheard" \in Fates \ {"again"}
        BY DEF Fates
    <2> QED BY <1>1, <2>1, AnsweredFate, BatchFate DEF IInv, TypeOK
<1>3. TaskOK' /\ task'.at = "mark" /\ task'.batch = task.batch /\ task'.e = task.e
    BY <1>1, GoTask DEF Stages, IInv
<1>4. TypeOK'
    BY <1>1, <1>2, <1>3 DEF IInv, TypeOK, FilesOK, fileVars
<1>5. HandOK' /\ LiveBatch'
    BY <1>1, <1>3 DEF HandOK, LiveBatch
<1>6. ReplayBatch'
    <2>1. Recs(task.e)' = Recs(task.e)
        BY <1>1, <1>3 DEF Recs, fileVars
    <2>2. /\ ~orphan[task.e] /\ spoolOff[task.e] + Len(task.batch) <= Len(Recs(task.e))
          /\ \A i \in 1..Len(task.batch) : task.batch[i] = Recs(task.e)[spoolOff[task.e] + i]
        BY <1>1 DEF IInv, ReplayBatch
    <2> QED BY <1>1, <1>3, <2>1, <2>2 DEF ReplayBatch, fileVars
<1>7. Closing'
    <2>1. traced'.e = task'.e /\ traced'.r \in ToSet(task'.batch) => traced.r \in InHand(traced.e)
        BY <1>1, <1>3 DEF InHand
    <2> QED BY <1>2, <1>3, <2>1 DEF Closing
<1> QED BY <1>1, <1>2, <1>4, <1>5, <1>6, <1>7, TurnGoesOn

\* It did not: the spool stays as it is.
LEMMA ReplayFailedIInv ==
    ASSUME IInv, NEW late \in BOOLEAN, ReplayFailed(late)
    PROVE  IInv'
<1>0. PICK e \in Exporter : e = task.e
    BY DEF IInv, HandOK, ReplayFailed
<1>1. /\ UNCHANGED <<latest, seq, sentSeq, due, readFails, unconfirmedRun, fileVars, resets, seen, traced, fate>>
      /\ task.at = "replay" /\ GoOn(e, late) /\ task.batch \in Seq(Readings)
    BY <1>0 DEF ReplayFailed, ramVars, fateVars, IInv, TypeOK, TaskOK
<1>2. TaskOK' /\ task'.at = "walk" /\ task'.batch = <<>>
    BY <1>1, GoOnTask DEF IInv
<1>3. TypeOK'
    BY <1>1, <1>2, QuietTypes DEF IInv, TypeOK
<1>4. traced.r \in InHand(traced.e) => traced.r \in Where'
    <2> SUFFICES ASSUME traced.r \in InHand(traced.e) PROVE traced.r \in Where'
        OBVIOUS
    <2>1. traced.e = e /\ \E i \in 1..Len(task.batch) : task.batch[i] = traced.r
        BY <1>0, BatchMember DEF IInv
    <2>2. PICK i \in 1..Len(task.batch) : task.batch[i] = traced.r
        BY <2>1
    <2>3. /\ spoolOff[e] + Len(task.batch) <= Len(Recs(e))
          /\ task.batch[i] = Recs(e)[spoolOff[e] + i]
        BY <1>0, <1>1, <2>2 DEF IInv, ReplayBatch
    <2>4. spoolOff[e] \in Nat /\ Len(Recs(e)) \in Nat /\ Len(task.batch) \in Nat
        BY <1>1, RecsType DEF IInv, TypeOK
    <2>5. spoolOff[e] + i \in 1..Len(Recs(e)) /\ spoolOff[e] + i > spoolOff[e]
        BY <2>2, <2>3, <2>4
    <2>6. traced.r \in Unsent(e)
        BY <2>2, <2>3, <2>5, UnsentMember DEF IInv
    <2>7. traced.r \in Unsent(e)'
        BY <1>1, <2>6, SameFiles DEF IInv
    <2>8. traced'.e = e /\ traced'.r = traced.r
        BY <1>1, <2>1
    <2> QED BY <2>7, <2>8 DEF Where
<1> QED BY <1>1, <1>2, <1>3, <1>4, TurnEnds

\* The offset moves past the batch.
LEMMA MarkIInv ==
    ASSUME IInv, Mark
    PROVE  IInv'
<1>0. PICK e \in Exporter : e = task.e
    BY DEF IInv, HandOK, Mark
<1> DEFINE off == spoolOff[e] + Len(task.batch)
<1>1. /\ UNCHANGED <<latest, seq, sentSeq, due, readFails, unconfirmedRun, resets, seen, traced, fate, spool, orphan>>
      /\ task.at = "mark" /\ spoolOff' = [spoolOff EXCEPT ![e] = off]
      /\ task.batch \in Seq(Readings)
    BY <1>0 DEF Mark, ramVars, fateVars, IInv, TypeOK, TaskOK
<1>2. /\ spoolOff[e] \in Nat /\ Len(Recs(e)) \in Nat /\ Len(task.batch) \in Nat
      /\ off \in Nat /\ off <= Len(Recs(e)) /\ ~orphan[e] /\ Recs(e)' = Recs(e)
      /\ \A i \in 1..Len(task.batch) : task.batch[i] = Recs(e)[spoolOff[e] + i]
    <2>1. spoolOff[e] \in Nat /\ Len(Recs(e)) \in Nat /\ Len(task.batch) \in Nat
        BY <1>1, RecsType DEF IInv, TypeOK
    <2>2. Recs(e)' = Recs(e)
        BY <1>1 DEF Recs
    <2> QED BY <1>0, <1>1, <2>1, <2>2 DEF IInv, ReplayBatch
<1>3. \/ off + 1 > Len(Recs(e)) /\ task' = [task EXCEPT !.at = "trim", !.batch = <<>>]
      \/ off + 1 <= Len(Recs(e)) /\ GoOn(task.e, task.late)
    BY <1>0, <1>2 DEF Mark
<1> HIDE DEF off
<1>4. /\ spoolOff'[e] = off /\ spoolOff' \in [Exporter -> Nat]
      /\ \A x \in Exporter \ {e} :
            spool'[x] = spool[x] /\ spoolOff'[x] = spoolOff[x] /\ orphan'[x] = orphan[x]
    BY <1>1, <1>2 DEF IInv, TypeOK
<1>5. /\ TaskOK' /\ task'.at \in {"trim", "walk"} /\ task'.batch = <<>>
      /\ task'.at = "trim" => task'.e = e /\ off + 1 > Len(Recs(e))
    <2>1. CASE off + 1 > Len(Recs(e)) /\ task' = [task EXCEPT !.at = "trim", !.batch = <<>>]
        <3>1. task \in [at : Stages, e : 1..(ExporterCount + 1), batch : Seq(Readings),
                         attempt : 0..MaxRetries, before : Nat, late : BOOLEAN]
            BY DEF IInv, TypeOK, TaskOK
        <3>2. "trim" \in Stages /\ <<>> \in Seq(Readings)
            BY DEF Stages
        <3>3. TaskOK' /\ task'.at = "trim" /\ task'.batch = <<>> /\ task'.e = task.e
            BY <2>1, <3>1, <3>2, Zenon DEF TaskOK
        <3> QED BY <1>0, <2>1, <3>3
    <2>2. CASE GoOn(task.e, task.late)
        <3>1. task.late \in BOOLEAN
            BY DEF IInv, TypeOK, TaskOK
        <3>2. TaskOK' /\ task'.at = "walk" /\ task'.batch = <<>>
            BY <1>0, <2>2, <3>1, GoOnTask DEF IInv
        <3> QED BY <3>2
    <2> QED BY <1>3, <2>1, <2>2
<1>6. TypeOK'
    BY <1>1, <1>4, <1>5 DEF IInv, TypeOK, FilesOK, FatesOK
<1>7. HandOK'
    BY <1>5 DEF HandOK
<1>8. LiveBatch' /\ ReplayBatch'
    BY <1>5 DEF LiveBatch, ReplayBatch
<1>9. Closing'
    <2> SUFFICES ASSUME task'.at = "trim" PROVE traced'.r \notin Unsent(e)'
        BY <1>5 DEF Closing
    <2>1. off + 1 > Len(Recs(e))
        BY <1>5
    <2>2. ~ \E i \in 1..Len(Recs(e)') : orphan'[e] \/ i > spoolOff'[e]
        BY <1>1, <1>2, <1>4, <2>1
    <2> QED BY <1>6, <2>2, UnsentMemberNext
<1>10. traced.e = e /\ traced.r \in InHand(e) \cup Unsent(e) => Resolved' \/ traced.r \in Where'
    <2> SUFFICES ASSUME traced.e = e, traced.r \in InHand(e) \cup Unsent(e)
                 PROVE  Resolved' \/ traced.r \in Where'
        OBVIOUS
    <2>1. traced.r \in ToSet(task.batch) => Resolved'
        BY <1>0, <1>1 DEF IInv, Closing, Resolved
    <2>2. CASE traced.r \in InHand(e)
        BY <2>1, <2>2 DEF InHand
    <2>3. CASE traced.r \in Unsent(e)
        <3>1. PICK i \in 1..Len(Recs(e)) : Recs(e)[i] = traced.r /\ (orphan[e] \/ i > spoolOff[e])
            BY <2>3, UnsentMember DEF IInv
        <3>2. CASE i <= off
            <4>1. i - spoolOff[e] \in 1..Len(task.batch) /\ spoolOff[e] + (i - spoolOff[e]) = i
                BY <1>2, <3>1, <3>2 DEF off
            <4>2. task.batch[i - spoolOff[e]] = traced.r
                BY <1>2, <3>1, <4>1
            <4>3. traced.r \in ToSet(task.batch)
                BY <1>1, <4>1, <4>2 DEF ToSet
            <4> QED BY <2>1, <4>3
        <3>3. CASE ~(i <= off)
            <4>1. \E k \in 1..Len(Recs(e)') : Recs(e)'[k] = traced.r /\ (orphan'[e] \/ k > spoolOff'[e])
                BY <1>2, <1>4, <3>1, <3>3
            <4>2. traced.r \in Unsent(e)'
                BY <1>6, <4>1, UnsentMemberNext
            <4>3. traced'.e = e /\ traced'.r = traced.r
                BY <1>1
            <4> QED BY <4>2, <4>3 DEF Where
        <3> QED BY <3>2, <3>3
    <2> QED BY <2>2, <2>3
<1>11. ~orphan'[e] => spoolOff'[e] <= Len(Recs(e)')
    BY <1>2, <1>4
<1>12. UNCHANGED <<latest, seq, sentSeq, seen, traced>> /\ fate \subseteq fate'
    BY <1>1
<1> QED BY <1>0, <1>4, <1>6, <1>7, <1>8, <1>9, <1>10, <1>11, <1>12, FileChanges

\* The file goes: all behind the offset has been accounted for.
LEMMA RemovedIInv ==
    ASSUME IInv, Removed
    PROVE  IInv'
<1>0. PICK e \in Exporter : e = task.e
    BY DEF IInv, HandOK, Removed
<1>1. /\ UNCHANGED <<latest, seq, sentSeq, due, readFails, unconfirmedRun, resets, seen, traced, fate, spoolOff>>
      /\ task.at = "trim" /\ task.batch = <<>> /\ Go("reset")
      /\ spool' = [spool EXCEPT ![e] = Nothing]
      /\ orphan' = [orphan EXCEPT ![e] = spoolOff[e] > 0]
    BY <1>0 DEF Removed, ramVars, fateVars, IInv, HandOK
<1>2. TaskOK' /\ task'.at = "reset" /\ task'.batch = <<>> /\ task'.e = e
    BY <1>0, <1>1, GoTask DEF Stages, IInv
<1>3. spoolOff[e] \in Nat /\ (spoolOff[e] > 0) \in BOOLEAN
    BY DEF IInv, TypeOK
<1>4. /\ FilesOK' /\ orphan' \in [Exporter -> BOOLEAN]
      /\ spool'[e] = Nothing /\ orphan'[e] = (spoolOff[e] > 0)
      /\ \A x \in Exporter \ {e} :
            spool'[x] = spool[x] /\ spoolOff'[x] = spoolOff[x] /\ orphan'[x] = orphan[x]
    BY <1>1, <1>3 DEF IInv, TypeOK, FilesOK
<1>5. TypeOK'
    BY <1>1, <1>2, <1>4 DEF IInv, TypeOK, FatesOK
<1>6. Recs(e)' = <<>>
    BY <1>4 DEF Recs
<1>7. HandOK' /\ LiveBatch' /\ ReplayBatch' /\ Closing'
    BY <1>2 DEF HandOK, LiveBatch, ReplayBatch, Closing
<1>8. ASSUME ~orphan'[e] PROVE spoolOff'[e] <= Len(Recs(e)')
    <2>1. ~(spoolOff[e] > 0)
        BY <1>4, <1>8, Zenon
    <2>2. spoolOff'[e] = 0
        BY <1>1, <1>3, <2>1
    <2> QED BY <1>6, <2>2
<1>9. traced.e = e /\ traced.r \in InHand(e) \cup Unsent(e) => Resolved'
    <2>1. InHand(e) = {}
        BY <1>1 DEF InHand, ToSet
    <2> QED BY <1>0, <1>1, <2>1 DEF IInv, Closing, Resolved
<1>10. UNCHANGED <<latest, seq, sentSeq, seen, traced>> /\ fate \subseteq fate'
    BY <1>1
<1> QED BY <1>0, <1>4, <1>5, <1>7, <1>8, <1>9, <1>10, FileChanges

\* The offset starts over, after the remove or for want of it.
LEMMA StartedOverIInv ==
    ASSUME IInv, RemoveFails \/ Forget
    PROVE  IInv'
<1>0. PICK e \in Exporter : e = task.e
    BY DEF IInv, HandOK, RemoveFails, Forget
<1>1. /\ UNCHANGED <<latest, seq, sentSeq, due, readFails, unconfirmedRun, resets, seen, traced, spool>>
      /\ task.at \in {"trim", "reset"} /\ task.batch = <<>>
      /\ spoolOff' = [spoolOff EXCEPT ![e] = 0] /\ orphan' = [orphan EXCEPT ![e] = FALSE]
      /\ GoOn(e, task.late) /\ task.late \in BOOLEAN
    BY <1>0 DEF RemoveFails, Forget, StartOver, ramVars, fateVars, IInv, HandOK, TypeOK, TaskOK
<1>2. FatesOK' /\ fate \subseteq fate'
    <2>1. CASE RemoveFails
        <3>1. Becomes("again", task.e, ToSet(Recs(task.e))) /\ UNCHANGED <<seen, traced>>
            BY <2>1 DEF RemoveFails
        <3> QED BY <3>1, FateTag DEF Fates, IInv, TypeOK
    <2>2. CASE Forget
        BY <2>2 DEF Forget, fateVars, IInv, TypeOK, FatesOK
    <2> QED BY <2>1, <2>2
<1>3. TaskOK' /\ task'.at = "walk" /\ task'.batch = <<>>
    BY <1>1, GoOnTask DEF IInv
<1>4. /\ spoolOff' \in [Exporter -> Nat] /\ orphan' \in [Exporter -> BOOLEAN]
      /\ spoolOff'[e] = 0 /\ orphan'[e] = FALSE
      /\ \A x \in Exporter \ {e} :
            spool'[x] = spool[x] /\ spoolOff'[x] = spoolOff[x] /\ orphan'[x] = orphan[x]
    BY <1>1 DEF IInv, TypeOK
<1>5. TypeOK'
    BY <1>1, <1>2, <1>3, <1>4 DEF IInv, TypeOK, FilesOK
<1>6. HandOK' /\ LiveBatch' /\ ReplayBatch' /\ Closing'
    BY <1>3, BetweenTurns
<1>7. Recs(e)' = Recs(e) /\ Len(Recs(e)) \in Nat
    BY <1>1, RecsType DEF IInv, Recs
<1>8. ~orphan'[e] => spoolOff'[e] <= Len(Recs(e)')
    BY <1>4, <1>7
<1>9. traced.e = e /\ traced.r \in InHand(e) \cup Unsent(e) => traced.r \in Where'
    <2> SUFFICES ASSUME traced.e = e, traced.r \in InHand(e) \cup Unsent(e) PROVE traced.r \in Where'
        OBVIOUS
    <2>1. InHand(e) = {}
        BY <1>1 DEF InHand, ToSet
    <2>2. PICK i \in 1..Len(Recs(e)) : Recs(e)[i] = traced.r
        BY <2>1, UnsentMember DEF IInv
    <2>3. \E k \in 1..Len(Recs(e)') : Recs(e)'[k] = traced.r /\ (orphan'[e] \/ k > spoolOff'[e])
        BY <1>4, <1>7, <2>2
    <2>4. traced.r \in Unsent(e)'
        BY <1>5, <2>3, UnsentMemberNext
    <2>5. traced'.e = e /\ traced'.r = traced.r
        BY <1>1
    <2> QED BY <2>4, <2>5 DEF Where
<1> QED BY <1>0, <1>1, <1>2, <1>4, <1>5, <1>6, <1>8, <1>9, FileChanges

-----------------------------------------------------------------------------
(* The reset.                                                              *)

\* A file after a reset: gone, or as it was with some of a batch behind it.
LEMMA FileAfterReset ==
    ASSUME TypeOK, NEW e \in Exporter, NEW kind, NEW file \in FileAfter(e, kind)
    PROVE  \/ file = Nothing
           \/ /\ file \in [recs : Seq(Readings), torn : BOOLEAN]
              /\ Len(file.recs) >= Len(Recs(e))
              /\ \A i \in 1..Len(Recs(e)) : file.recs[i] = Recs(e)[i]
<1>1. Recs(e) \in Seq(Readings) /\ Len(Recs(e)) \in Nat /\ task.batch \in Seq(Readings)
    BY RecsType DEF TypeOK, TaskOK
<1>2. CASE file = Nothing
    BY <1>2
<1>3. CASE file # Nothing /\ file = spool[e]
    <2>1. spool[e] \in [recs : Seq(Readings), torn : BOOLEAN] /\ Recs(e) = spool[e].recs
        BY <1>3 DEF TypeOK, FilesOK, Recs
    <2> QED BY <1>1, <1>3, <2>1
<1>4. CASE file # Nothing /\ file # spool[e]
    <2>1. PICK n \in 0..Len(task.batch) :
             file = [recs |-> Recs(e) \o SubSeq(task.batch, 1, n), torn |-> n < Len(task.batch)]
        BY <1>4 DEF FileAfter, Interrupted
    <2> DEFINE more == SubSeq(task.batch, 1, n)
    <2>2. more \in Seq(Readings) /\ Len(more) \in Nat
        BY <1>1
    <2> HIDE DEF more
    <2>3. /\ Recs(e) \o more \in Seq(Readings) /\ Len(Recs(e) \o more) = Len(Recs(e)) + Len(more)
          /\ \A i \in 1..Len(Recs(e)) : (Recs(e) \o more)[i] = Recs(e)[i]
        BY <1>1, <2>2
    <2>4. file = [recs |-> Recs(e) \o more, torn |-> n < Len(task.batch)]
        BY <2>1 DEF more
    <2>5. (n < Len(task.batch)) \in BOOLEAN
        BY <1>1
    <2>6. file \in [recs : Seq(Readings), torn : BOOLEAN] /\ file.recs = Recs(e) \o more
        BY <2>3, <2>4, <2>5
    <2> QED BY <1>1, <2>2, <2>3, <2>6
<1> QED BY <1>2, <1>3, <1>4

\* What the reset leaves of each file.
LEMMA ResetFiles ==
    ASSUME IInv, NEW kind, Reset(kind)
    PROVE  \A e \in Exporter :
              \/ spool'[e] = Nothing
              \/ /\ spool'[e] \in [recs : Seq(Readings), torn : BOOLEAN]
                 /\ Len(spool'[e].recs) >= Len(Recs(e))
                 /\ \A i \in 1..Len(Recs(e)) : spool'[e].recs[i] = Recs(e)[i]
<1>1. PICK e0 \in Exporter : \E file \in FileAfter(e0, kind) :
         spool' = [x \in Exporter |-> IF x = e0 THEN file
                                      ELSE IF kind = "format" THEN Nothing ELSE spool[x]]
    BY DEF Reset
<1>2. PICK file \in FileAfter(e0, kind) :
         spool' = [x \in Exporter |-> IF x = e0 THEN file
                                      ELSE IF kind = "format" THEN Nothing ELSE spool[x]]
    BY <1>1
<1> TAKE e \in Exporter
<1>3. CASE e = e0
    <2>1. spool'[e] = file
        BY <1>2, <1>3
    <2> QED BY <1>3, <2>1, FileAfterReset DEF IInv
<1>4. CASE e # e0 /\ kind = "format"
    BY <1>2, <1>4
<1>5. CASE e # e0 /\ kind # "format"
    <2>1. spool'[e] = spool[e]
        BY <1>2, <1>5
    <2>2. CASE spool[e] = Nothing
        BY <2>1, <2>2
    <2>3. CASE spool[e] # Nothing
        <3>1. spool[e] \in [recs : Seq(Readings), torn : BOOLEAN] /\ Recs(e) = spool[e].recs
            BY <2>3 DEF IInv, TypeOK, FilesOK, Recs
        <3>2. Len(Recs(e)) \in Nat
            BY RecsType DEF IInv
        <3> QED BY <2>1, <3>1, <3>2
    <2> QED BY <2>2, <2>3
<1> QED BY <1>3, <1>4, <1>5

\* A reset takes the table and the hand with it, and leaves the spools.
LEMMA ResetIInv ==
    ASSUME IInv, NEW kind, Reset(kind)
    PROVE  IInv'
<1>1. /\ resets < MaxResets /\ resets' = resets + 1 /\ task' = Idle /\ latest' = {} /\ seq' = 0
      /\ sentSeq' = [e \in Exporter |-> 0] /\ due' = [e \in Exporter |-> FALSE]
      /\ readFails' = [e \in Exporter |-> 0] /\ unconfirmedRun' = [e \in Exporter |-> 0]
      /\ spoolOff' = [e \in Exporter |-> IF kind = "power" THEN 0 ELSE spoolOff[e]]
      /\ orphan' = [e \in Exporter |-> (orphan[e] \/ spool'[e] = Nothing) /\ spoolOff'[e] > 0]
      /\ UNCHANGED <<seen, traced>>
    BY DEF Reset
<1>2. fate' = fate \cup Tag("excused", traced.e, InRam(traced.e)
                                  \cup (IF spool'[traced.e] = Nothing THEN Unsent(traced.e) ELSE {}))
                   \cup Tag("again", traced.e, Resent(traced.e, kind))
    BY DEF Reset
<1>3. \A e \in Exporter :
         \/ spool'[e] = Nothing
         \/ /\ spool'[e] \in [recs : Seq(Readings), torn : BOOLEAN]
            /\ Len(spool'[e].recs) >= Len(Recs(e))
            /\ \A i \in 1..Len(Recs(e)) : spool'[e].recs[i] = Recs(e)[i]
    BY ResetFiles
<1>4. FatesOK' /\ fate \subseteq fate'
    BY <1>1, <1>2 DEF FatesOK, Tag, Fates, IInv, TypeOK
<1>5. \A e \in Exporter : spoolOff[e] \in Nat /\ spoolOff'[e] \in Nat
                          /\ (spoolOff'[e] = 0 \/ spoolOff'[e] = spoolOff[e])
    BY <1>1 DEF IInv, TypeOK
<1>6. spoolOff' \in [Exporter -> Nat] /\ orphan' \in [Exporter -> BOOLEAN]
    <2>1. spoolOff' \in [Exporter -> Nat]
        BY <1>1, <1>5
    <2>2. \A e \in Exporter : ((orphan[e] \/ spool'[e] = Nothing) /\ spoolOff'[e] > 0) \in BOOLEAN
        OBVIOUS
    <2>3. orphan' \in [Exporter -> BOOLEAN]
        BY <1>1, <2>2
    <2> QED BY <2>1, <2>3
<1>7. FilesOK'
    <2>1. PICK f : spool' = [x \in Exporter |-> f[x]]
        <3>1. PICK e0 \in Exporter : \E file \in FileAfter(e0, kind) :
                 spool' = [x \in Exporter |-> IF x = e0 THEN file
                                              ELSE IF kind = "format" THEN Nothing ELSE spool[x]]
            BY DEF Reset
        <3>2. spool' = [x \in Exporter |-> spool'[x]]
            BY <3>1
        <3> QED BY <3>2
    <2>2. \A x \in Exporter : spool'[x] \in {Nothing} \cup [recs : Seq(Readings), torn : BOOLEAN]
        BY <1>3
    <2> QED BY <2>1, <2>2 DEF FilesOK
<1>8. task'.at = "idle" /\ task'.batch = <<>> /\ TaskOK'
    <2>1. task' = [at |-> "idle", e |-> 1, batch |-> <<>>, attempt |-> 0, before |-> 0, late |-> FALSE]
        BY <1>1 DEF Idle
    <2>2. 0 \in 0..MaxRetries /\ 0 \in Nat /\ "idle" \in Stages /\ <<>> \in Seq(Readings)
          /\ 1 \in 1..(ExporterCount + 1)
        BY ExportAssumption DEF Stages
    <2> QED BY <2>1, <2>2 DEF TaskOK
<1>9. TypeOK'
    <2>1. 0 \in 0..ReadFailsMax /\ 0 \in 0..UnconfirmedSpoolAfter
        BY ExportAssumption
    <2>2. readFails' \in [Exporter -> 0..ReadFailsMax]
          /\ unconfirmedRun' \in [Exporter -> 0..UnconfirmedSpoolAfter]
          /\ sentSeq' \in [Exporter -> Nat] /\ due' \in [Exporter -> BOOLEAN]
        BY <1>1, <2>1
    <2>3. resets' \in 0..MaxResets
        BY <1>1, ExportAssumption DEF IInv, TypeOK
    <2>4. latest' \subseteq [r : Readings, seq : Nat \ {0}] /\ seq' \in Nat
        BY <1>1
    <2> QED BY <1>4, <1>6, <1>7, <1>8, <2>2, <2>3, <2>4 DEF TypeOK
<1>10. Numbered'
    BY <1>1, FS_EmptySet DEF Numbered
<1>11. \A e \in Exporter : spool'[e] # Nothing =>
          /\ Len(Recs(e)') >= Len(Recs(e)) /\ Len(Recs(e)) \in Nat
          /\ \A i \in 1..Len(Recs(e)) : Recs(e)'[i] = Recs(e)[i]
    BY <1>3, RecsType DEF Recs, IInv
<1>12. OffsetsInFile'
    <2> SUFFICES ASSUME NEW e \in Exporter, ~orphan'[e] PROVE spoolOff'[e] <= Len(Recs(e)')
        BY DEF OffsetsInFile
    <2>1. Len(Recs(e)') \in Nat /\ Len(Recs(e)) \in Nat
        BY <1>9, RecsType, RecsTypeNext DEF IInv
    <2>2. CASE spoolOff'[e] = 0
        BY <2>1, <2>2
    <2>3. CASE spoolOff'[e] # 0
        <3>1. spoolOff'[e] > 0 /\ spoolOff'[e] = spoolOff[e]
            BY <1>5, <2>3
        <3>2. orphan'[e] = ((orphan[e] \/ spool'[e] = Nothing) /\ spoolOff'[e] > 0)
            BY <1>1
        <3>3. ~orphan[e] /\ spool'[e] # Nothing
            BY <3>1, <3>2
        <3>4. spoolOff[e] <= Len(Recs(e))
            BY <3>3 DEF IInv, OffsetsInFile
        <3> QED BY <1>5, <1>11, <2>1, <3>1, <3>3, <3>4
    <2> QED BY <2>2, <2>3
<1>13. HandOK' /\ LiveBatch' /\ ReplayBatch' /\ Closing'
    BY <1>8, BetweenTurns
<1>14. NothingForgotten'
    <2> DEFINE e == traced.e
    <2>1. e \in Exporter
        BY DEF IInv, TypeOK, FatesOK
    <2>2. traced.r \in InRam(e) => Resolved'
        <3>1. traced.r \in InRam(e) => "excused" \in fate'
            BY <1>2 DEF Tag
        <3> QED BY <3>1 DEF Resolved
    <2>3. traced.r \in Owed(e) => Resolved'
        BY <2>2 DEF InRam
    <2>4. traced.r \in Unsent(e) => Resolved' \/ traced.r \in Unsent(e)'
        <3> SUFFICES ASSUME traced.r \in Unsent(e) PROVE Resolved' \/ traced.r \in Unsent(e)'
            OBVIOUS
        <3>1. CASE spool'[e] = Nothing
            <4>1. "excused" \in fate'
                BY <1>2, <3>1 DEF Tag
            <4> QED BY <4>1 DEF Resolved
        <3>2. CASE spool'[e] # Nothing
            <4> DEFINE x == e
            <4>1. PICK i \in 1..Len(Recs(e)) : Recs(e)[i] = traced.r /\ (orphan[e] \/ i > spoolOff[e])
                BY <2>1, UnsentMember DEF IInv
            <4>2. PICK y \in Exporter : y = e
                BY <2>1
            <4>3. /\ Len(Recs(y)') >= Len(Recs(y)) /\ Len(Recs(y)) \in Nat
                  /\ Recs(y)'[i] = traced.r /\ i \in 1..Len(Recs(y)) /\ (orphan[y] \/ i > spoolOff[y])
                BY <1>11, <3>2, <4>1, <4>2
            <4>4. orphan'[y] = ((orphan[y] \/ spool'[y] = Nothing) /\ spoolOff'[y] > 0)
                BY <1>1
            <4>5. orphan'[y] \/ i > spoolOff'[y]
                <5>1. spoolOff'[y] = 0 \/ (spoolOff'[y] > 0 /\ spoolOff'[y] = spoolOff[y])
                    BY <1>5
                <5>2. CASE spoolOff'[y] = 0
                    BY <4>3, <5>2
                <5>3. CASE spoolOff'[y] > 0 /\ spoolOff'[y] = spoolOff[y]
                    <6>1. CASE orphan[y]
                        BY <4>4, <5>3, <6>1, Zenon
                    <6>2. CASE i > spoolOff[y]
                        BY <5>3, <6>2
                    <6> QED BY <4>3, <6>1, <6>2
                <5> QED BY <5>1, <5>2, <5>3
            <4>6. Len(Recs(y)') \in Nat
                BY <1>9, RecsTypeNext
            <4>7. \E k \in 1..Len(Recs(y)') : Recs(y)'[k] = traced.r /\ (orphan'[y] \/ k > spoolOff'[y])
                BY <4>3, <4>5, <4>6
            <4>8. traced.r \in Unsent(y)'
                BY <1>9, <4>7, UnsentMemberNext
            <4>9. traced'.e = y
                BY <1>1, <4>2
            <4> QED BY <4>8, <4>9
        <3> QED BY <3>1, <3>2
    <2>5. traced.r \in InHand(e) => Resolved' \/ traced.r \in Unsent(e)
        <3> SUFFICES ASSUME traced.r \in InHand(e) PROVE Resolved' \/ traced.r \in Unsent(e)
            OBVIOUS
        <3>1. e = task.e /\ traced.r \in ToSet(task.batch)
              /\ \E i \in 1..Len(task.batch) : task.batch[i] = traced.r
            BY BatchMember DEF IInv
        <3>2. task.batch # <<>>
            BY <3>1
        <3>3. task.at \in {"live", "spool", "replay", "mark"}
            BY <3>2 DEF IInv, HandOK, TypeOK, TaskOK, Stages
        <3>4. CASE task.at \in {"live", "spool"}
            BY <2>2, <3>4 DEF InRam
        <3>5. CASE task.at = "mark"
            BY <1>4, <3>1, <3>5 DEF IInv, Closing, Resolved
        <3>6. CASE task.at = "replay"
            <4>1. PICK i \in 1..Len(task.batch) : task.batch[i] = traced.r
                BY <3>1
            <4>2. /\ spoolOff[e] + Len(task.batch) <= Len(Recs(e))
                  /\ task.batch[i] = Recs(e)[spoolOff[e] + i]
                BY <3>1, <3>6, <4>1 DEF IInv, ReplayBatch
            <4>3. spoolOff[e] \in Nat /\ Len(Recs(e)) \in Nat /\ Len(task.batch) \in Nat
                BY <1>5, <2>1, RecsType DEF IInv, TypeOK, TaskOK
            <4>4. spoolOff[e] + i \in 1..Len(Recs(e)) /\ spoolOff[e] + i > spoolOff[e]
                BY <4>1, <4>2, <4>3
            <4> QED BY <2>1, <4>1, <4>2, <4>4, UnsentMember DEF IInv
        <3> QED BY <3>3, <3>4, <3>5, <3>6
    <2>6. traced.r \in Where => Resolved' \/ traced.r \in Unsent(e)'
        BY <2>3, <2>4, <2>5 DEF Where
    <2>7. traced.r \in Where /\ ~Resolved' => traced.r \in Where'
        BY <1>1, <2>6 DEF Where
    <2> QED BY <1>1, <1>4, <2>7, StillThere DEF IInv
<1> QED BY <1>9, <1>10, <1>12, <1>13, <1>14 DEF IInv

-----------------------------------------------------------------------------
(* The theorems.                                                           *)

\* Nothing happens.
LEMMA StutterIInv ==
    ASSUME IInv, UNCHANGED vars
    PROVE  IInv'
<1>1. /\ UNCHANGED <<latest, seq, sentSeq, due, readFails, unconfirmedRun>>
      /\ UNCHANGED <<spool, spoolOff, orphan, seen, traced, fate, task, resets>>
    BY DEF vars, ramVars, fileVars, fateVars
<1>2. TypeOK' /\ Numbered' /\ OffsetsInFile'
    BY <1>1 DEF IInv, TypeOK, TaskOK, FilesOK, FatesOK, Numbered, OffsetsInFile, Recs
<1>3. HandOK' /\ LiveBatch' /\ ReplayBatch' /\ Closing'
    BY <1>1 DEF IInv, HandOK, LiveBatch, ReplayBatch, Closing, Recs, Unsent, Resolved
<1>4. NothingForgotten'
    BY <1>1 DEF IInv, NothingForgotten, Wanted, Owed, Pending, InHand, Unsent, Recs
<1> QED BY <1>2, <1>3, <1>4 DEF IInv

\* Every step of the exporters keeps the invariant.
LEMMA NextIInv == IInv /\ [Next]_vars => IInv'
<1> SUFFICES ASSUME IInv, [Next]_vars PROVE IInv'
    OBVIOUS
<1>1. ASSUME NEW r \in Readings, Ingest(r) PROVE IInv'
    BY <1>1, IngestIInv
<1>2. ASSUME NEW e \in Exporter, IntervalPasses(e) \/ Snapshot(e) \/ NoSnapshot(e) PROVE IInv'
    BY <1>2, IntervalIInv, SnapshotIInv, NoSnapshotIInv
<1>3. CASE TickBegins \/ TickEnds
    BY <1>3, TickIInv
<1>4. ASSUME NEW S \in SUBSET Readings, LiveAccepted(S) \/ ReplayAccepted(S) PROVE IInv'
    BY <1>4, LiveAcceptedIInv, ReplayedIInv
<1>5. CASE LiveThrottled
    BY <1>5, LiveThrottledIInv
<1>6. ASSUME NEW late \in {task.late, TRUE}, LiveSilent(late) \/ LiveFailed(late) \/ ReplayFailed(late)
      PROVE  IInv'
    <2>1. late \in BOOLEAN
        BY DEF IInv, TypeOK, TaskOK
    <2> QED BY <1>6, <2>1, LiveSilentIInv, LiveFailedIInv, ReplayFailedIInv
<1>7. CASE AppendAnew \/ AppendBatch \/ SpoolFull \/ BatchDropped \/ WriteShort
    BY <1>7, AppendAnewIInv, AppendBatchIInv, GivenUpIInv, WriteShortIInv
<1>8. CASE DrainSkipped \/ NoSpool \/ ReadBatch \/ ReadFails \/ NothingLeft
    BY <1>8, DrainSkippedIInv, NoSpoolIInv, ReadBatchIInv, ReadFailsIInv, NothingLeftIInv
<1>9. CASE ReplaySilent \/ Mark \/ Removed \/ RemoveFails \/ Forget
    BY <1>9, ReplayedIInv, MarkIInv, RemovedIInv, StartedOverIInv
<1>10. ASSUME NEW kind \in Resets, Reset(kind) PROVE IInv'
    BY <1>10, ResetIInv
<1>11. CASE UNCHANGED vars
    BY <1>11, StutterIInv
<1> QED BY <1>1, <1>2, <1>3, <1>4, <1>5, <1>6, <1>7, <1>8, <1>9, <1>10, <1>11 DEF Next

\* The exporters keep their types, and the argument its invariant.
THEOREM ExportInvariant == Spec => []IInv
BY InitIInv, NextIInv, PTL DEF Spec

\* No reading that came off the queue is forgotten: for each exporter that
\* sends it, it is owed in the table, in hand, in the spool past the offset,
\* or it has met one of the ends the code gives it.
THEOREM NoneForgotten == Spec => []NothingForgotten
<1>1. IInv => NothingForgotten
    BY DEF IInv
<1> QED BY <1>1, ExportInvariant, PTL
=============================================================================
