------------------------------ MODULE Readings ------------------------------
(***************************************************************************)
(* What ProcessingTask does with a reading besides handing it on: the       *)
(* 24-hour trends with their snapshot on flash (TrendRing, TrendStore) and   *)
(* the alert rules (AlertEngine).                                           *)
(*                                                                         *)
(* A reading is [s, t, met, good]: its series, the time it was taken, whether *)
(* it meets the rule, and whether it is plausible. An hour of the ring holds   *)
(* the times of the readings folded into it: minimum, maximum, sum and count   *)
(* are theirs.                                                              *)
(***************************************************************************)
EXTENDS Integers, Sequences, FiniteSets

CONSTANTS
    Series,      \* series readings may belong to
    Hours,       \* slots of the ring
    HourLen,     \* units of time in an hour
    Backfill,    \* units after which a reading is one of the past
    Duration,    \* duration_s of the rule, in the same units
    Toasts,      \* toasts that are kept
    Days,        \* sets of [lags, jumps, mets]: how old readings are when they come
                 \* (below 0: from the future), how far the clock goes between
                 \* them, whether they meet the rule
    MaxReadings, MaxMishaps  \* bounds

VARIABLES
    clock,   \* the time, readings and mishaps so far, the day this is
    trend,   \* the one slot of the ring: its series, newest hour, hours, dirty
    snap,    \* /trend.bin
    rule,    \* the rule, what evaluate() knows of it, the toasts
    seen     \* ghost: times folded in, readings evaluated since the rule was reset

readVars == <<clock, trend, snap, rule, seen>>

Hour(t) == t \div HourLen
NoTime == 0
Nothing == [i \in 0..(Hours - 1) |-> {}]
Mishap == clock.mishaps < MaxMishaps
Mishaps(c) == [c EXCEPT !.mishaps = @ + 1]

-----------------------------------------------------------------------------
(* TrendRing.                                                              *)

\* Fault: the hours that were skipped keep what they held a day ago.
RolledTo(t, h) == [t EXCEPT !.last = h]

\* A reading of a newer hour empties the hours skipped, all of them after a day.
Rolled(t, h) ==
    [t EXCEPT !.last = h, !.dirty = TRUE,
              !.hours = IF h - t.last >= Hours THEN Nothing
                        ELSE [i \in DOMAIN @ |-> IF \E k \in (t.last + 1)..h : k % Hours = i THEN {} ELSE @[i]]]

\* add(): a reading folds into its own hour when that is still in the window.
Added(t, r) ==
    LET h == Hour(r.t)
        u == IF h > t.last THEN Rolled(t, h) ELSE t IN
    IF t.series # r.s THEN t
    ELSE IF u.last - h < Hours THEN [u EXCEPT !.hours[h % Hours] = @ \cup {r.t}] ELSE u

\* series(): the hours up to now, those the ring still has.
Shown(h) ==
    IF h <= trend.last /\ trend.last - h < Hours THEN trend.hours[h % Hours] ELSE {}

\* keepOnly(), then track(): a series that was not there starts empty.
Tracked(t, s) == IF t.series = s THEN t ELSE [t EXCEPT !.series = s, !.last = 0, !.hours = Nothing]

\* snapshot() and restore(): the hours go back to the series they are of, where
\* it is still tracked. What a snapshot holds is all or nothing: a checksum.
Snapshot == [there |-> TRUE, series |-> trend.series, last |-> trend.last, hours |-> trend.hours,
             folded |-> seen.folded]
Fits(s, read) == read /\ snap.there /\ snap.series = s
Restored(t, read) ==
    IF Fits(t.series, read) THEN [t EXCEPT !.last = snap.last, !.hours = snap.hours] ELSE t

\* kindleTrackTrends() after the places were saved.
TrackTrends ==
    \E s \in Series :
        /\ s # trend.series /\ Mishap
        /\ trend' = Tracked(trend, s)
        /\ seen' = [seen EXCEPT !.folded = {}]
        /\ clock' = Mishaps(clock)
    /\ UNCHANGED <<snap, rule>>

-----------------------------------------------------------------------------
(* TrendStore.                                                             *)

\* trendStoreSave(): the flag is cleared before the copy is taken; a write
\* that fails sets it again.
SaveTrends ==
    /\ trend.dirty
    /\ \/ /\ snap' = Snapshot
          /\ trend' = [trend EXCEPT !.dirty = FALSE]
          /\ UNCHANGED clock
       \/ /\ Mishap /\ clock' = Mishaps(clock)
          \* The second rename failed: the old snapshot is gone too.
          /\ snap' \in {snap, [snap EXCEPT !.there = FALSE]}
          /\ UNCHANGED trend
    /\ UNCHANGED <<rule, seen>>

\* trendStoreLoad(): a snapshot that cannot be read is dropped.
Loaded(read) == IF read THEN snap ELSE [snap EXCEPT !.there = FALSE]

-----------------------------------------------------------------------------
(* AlertEngine.                                                            *)

Quiet(a) == [a EXCEPT !.since = NoTime, !.firing = FALSE]

\* nowTs - condFirstMetTs in 32 bits without sign: a later reading with an
\* earlier time has waited for ever.
Waited(t, since) == t < since \/ t - since >= Duration

\* The ring of toasts has one slot more than it can hold; the oldest goes.
Pushed(ts, t) == IF Len(ts) = Toasts THEN Append(Tail(ts), t) ELSE Append(ts, t)

\* Fault: the time the condition began is kept when it ends.
Forgets(a) == [a EXCEPT !.firing = FALSE]

\* A reading that does not meet the rule ends what was begun.
Ends(a) == Quiet(a)

\* evaluate(), of a reading with a real time.
Evaluated(a, r) ==
    IF ~a.enabled \/ r.t < a.snoozed THEN a
    ELSE IF ~r.met THEN Ends(a)
    ELSE LET since == IF a.since = NoTime THEN r.t ELSE a.since
             fires == ~a.firing /\ Waited(r.t, since) IN
         [a EXCEPT !.since = since, !.firing = a.firing \/ fires,
                   !.toasts = IF fires THEN Pushed(@, r.t) ELSE @]

Evaluates(a, r) == a.enabled /\ ~(r.t < a.snoozed)

\* _save() under the rules' lock. A write that fails leaves the rules in RAM
\* changed.
Saved(a, ok) == IF ok THEN [a EXCEPT !.file = [enabled |-> a.enabled, snoozed |-> a.snoozed]] ELSE a

\* POST /api/alerts: all rules are replaced.
EditRule ==
    /\ Mishap /\ clock' = Mishaps(clock)
    /\ \E on, ok \in BOOLEAN : rule' = Saved([Quiet(rule) EXCEPT !.enabled = on, !.snoozed = 0], ok)
    /\ seen' = [seen EXCEPT !.run = <<>>]
    /\ UNCHANGED <<trend, snap>>

\* POST /api/alerts/snooze.
Snooze ==
    /\ Mishap /\ clock' = Mishaps(clock)
    /\ \E ok \in BOOLEAN : rule' = Saved([Quiet(rule) EXCEPT !.snoozed = clock.now + 1], ok)
    /\ seen' = [seen EXCEPT !.run = <<>>]
    /\ UNCHANGED <<trend, snap>>

\* begin(): the rules as they were saved, nothing of what they had seen.
Begun(a) == [Quiet(a) EXCEPT !.enabled = a.file.enabled, !.snoozed = a.file.snoozed, !.toasts = <<>>]

\* Power comes back.
Restart ==
    /\ Mishap /\ clock' = Mishaps(clock)
    /\ \E read \in BOOLEAN, s \in Series :
        /\ snap' = Loaded(read)
        /\ trend' = Restored(Tracked([series |-> "none", dirty |-> FALSE, last |-> 0, hours |-> Nothing], s), read)
        /\ seen' = [folded |-> IF Fits(s, read) THEN snap.folded ELSE {}, run |-> <<>>]
    /\ rule' = Begun(rule)

\* GET /api/alerts/toasts takes what there is.
PopToasts ==
    /\ rule.toasts # <<>>
    /\ rule' = [rule EXCEPT !.toasts = <<>>]
    /\ UNCHANGED <<clock, trend, snap, seen>>

-----------------------------------------------------------------------------
(* ProcessingTask.                                                         *)

\* readingIsBackfilled()
Past(now, t) == now - t > Backfill

\* One reading. The rules are passed over when their lock is not free within
\* 5 ms; a reading of the past goes into the trends only.
Processed(d, lag, met, s, good, rulesBusy) ==
    LET now   == clock.now + d
        r     == [s |-> s, t |-> now - lag, met |-> met]
        evals == good /\ ~Past(now, r.t) /\ ~rulesBusy /\ s = rule.series IN
    /\ r.t > 0
    /\ d < 0 \/ rulesBusy \/ ~good => Mishap
    /\ clock' = [clock EXCEPT !.now = now, !.n = @ + 1,
                              !.mishaps = IF d < 0 \/ rulesBusy \/ ~good THEN @ + 1 ELSE @]
    /\ trend' = IF good THEN Added(trend, r) ELSE trend
    /\ rule' = IF evals THEN Evaluated(rule, r) ELSE rule
    /\ seen' = [folded |-> IF good /\ s = trend.series THEN seen.folded \cup {r.t} ELSE seen.folded,
                run |-> IF evals /\ Evaluates(rule, r) THEN Append(seen.run, [t |-> r.t, met |-> met])
                        ELSE seen.run]

\* Some time passes, or the clock is set, and one reading comes.
Process ==
    /\ clock.n < MaxReadings
    /\ \E d \in clock.day.jumps, lag \in clock.day.lags, met \in clock.day.mets,
          s \in Series, good, rulesBusy \in BOOLEAN : Processed(d, lag, met, s, good, rulesBusy)
    /\ UNCHANGED snap

-----------------------------------------------------------------------------
ReadInit ==
    \E s \in Series, day \in Days :
        /\ clock = [now |-> 1, n |-> 0, mishaps |-> 0, day |-> day]
        /\ trend = [series |-> s, last |-> 0, hours |-> Nothing, dirty |-> FALSE]
        /\ snap = [there |-> FALSE, series |-> s, last |-> 0, hours |-> Nothing, folded |-> {}]
        /\ rule = [series |-> s, enabled |-> TRUE, snoozed |-> 0, since |-> NoTime, firing |-> FALSE, toasts |-> <<>>,
                 file |-> [enabled |-> TRUE, snoozed |-> 0]]
        /\ seen = [folded |-> {}, run |-> <<>>]

ReadNext ==
    TrackTrends \/ SaveTrends \/ Restart \/ EditRule \/ Snooze \/ PopToasts \/ Process

-----------------------------------------------------------------------------

\* Every hour of the day's trend is made of the readings of that hour and of
\* all of them: late ones, ones from a clock that was ahead, and those a
\* restart brought back from the snapshot (TrendRing::add, restore).
HoursExact ==
    \A h \in (trend.last - Hours + 1)..trend.last :
        h >= 0 => Shown(h) = {t \in seen.folded : Hour(t) = h}

\* A rule with a duration fires only when the readings it saw met it for that
\* long without a break, except where a reading's time lies before the one that
\* began it (AlertEngine::evaluate).
HeldItsDuration ==
    rule.firing =>
        \E i, j \in DOMAIN seen.run :
            /\ i <= j
            /\ \A k \in i..Len(seen.run) : seen.run[k].met
            /\ seen.run[j].t - seen.run[i].t >= Duration \/ seen.run[j].t < seen.run[i].t
=============================================================================
