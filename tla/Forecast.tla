------------------------------ MODULE Forecast ------------------------------
(***************************************************************************)
(* The weather forecast: the module that fetches it on the export task     *)
(* (src/src/modules/ForecastModule.cpp), the requests for a fetch from the *)
(* pages, and the week strip that shows its days                           *)
(* (src/src/web/KindleDashboard.cpp).                                      *)
(*                                                                         *)
(* Time is in steps of three hours, those of OpenWeatherMap's list; what a *)
(* provider says of a day is the day itself, so that it can be held        *)
(* against the day the strip shows it as.                                  *)
(***************************************************************************)
EXTENDS Integers, Sequences, FiniteSets

CONSTANTS
    DawnOfTime,    \* the time at the start; earlier times are an unset clock
    Passing,       \* by how much time passes
    MaxMoves,      \* by how many steps the clock moves
    MaxAsked,      \* refreshes asked for
    MaxTroubles    \* lost links, failing requests, settings changed

VARIABLES
    clock,     \* the time; what time() says is 0 until synced
    synced,    \* TRUE: the clock has been set
    settings,  \* [on, provider, daily, week]; on: enabled, with a location
    link,      \* WiFi.status() = WL_CONNECTED
    since,     \* _lastAttempt: how long ago, "never", "minute", "interval" or "due"
    asked,     \* _refreshRequested
    asking,    \* a page that has found it may ask, and not asked yet
    fetch,     \* the fetch under way
    data,      \* _data
    spent      \* requests, troubles and moves of the clock so far

forecastVars == <<clock, synced, settings, link, since, asked, asking, fetch, data, spent>>

Day(t)  == t \div 8
DAYS_N  == 9
WEEK_N  == 7
Stale   == 2           \* KD_FORECAST_STALE_S, six hours
Nothing == -1
NoData  == [valid |-> FALSE, at |-> 0, days |-> <<>>, names |-> <<>>, across |-> FALSE]
Idle    == [at |-> "no", answered |-> 0, d |-> NoData]

Time    == IF synced THEN clock ELSE 0
Moves(d) == spent.moves < MaxMoves /\ clock' = clock + d /\ spent' = [spent EXCEPT !.moves = @ + 1]
Trouble == spent.troubles < MaxTroubles /\ spent' = [spent EXCEPT !.troubles = @ + 1]

-----------------------------------------------------------------------------
(* The fetch.                                                              *)

\* weekdayLabel(): no weekday until the clock is set.
Names(n, t) == [i \in 1..n |-> IF t < DawnOfTime THEN Nothing ELSE (Day(t) + i - 1) % 7]

\* tick(): on the export task, as long as the link is up.
Tick ==
    /\ settings.on /\ link /\ fetch.at = "no"
    /\ since = "never" \/ since = "due" \/ asked
    /\ since' = "minute" /\ asked' = FALSE
    /\ fetch' = [Idle EXCEPT !.at = "request"]
    /\ UNCHANGED <<clock, synced, settings, link, asking, data, spent>>

\* httpGet(): the provider answers for the days from the one it is then.
\* An answer that is missing, too large or not the expected JSON ends the fetch.
Answers ==
    /\ fetch.at \in {"request", "outlook"} /\ link
    /\ fetch' = [fetch EXCEPT !.at = IF @ = "request" THEN "parse" ELSE "sort", !.answered = clock]
    /\ UNCHANGED <<clock, synced, settings, link, since, asked, asking, data, spent>>

\* A failed fetch leaves the data as it was; the outlook's request alone may
\* fail, and the current weather is published without the days.
Fails ==
    /\ fetch.at \in {"request", "outlook"}
    /\ IF fetch.at = "request" THEN UNCHANGED data ELSE data' = fetch.d
    /\ fetch' = Idle
    /\ (IF link THEN Trouble ELSE UNCHANGED spent)
    /\ UNCHANGED <<clock, synced, settings, link, since, asked, asking>>

\* _fetchOpenMeteo(): the days of the answer, named by the clock as it is now.
OpenMeteo ==
    /\ fetch.at = "parse" /\ settings.provider = "open-meteo"
    /\ data' = [valid |-> TRUE, at |-> Time,
                days |-> [i \in 1..DAYS_N |-> Day(fetch.answered) + i - 1], names |-> Names(DAYS_N, Time),
                across |-> Day(fetch.answered) /= Day(clock)]
    /\ fetch' = Idle
    /\ UNCHANGED <<clock, synced, settings, link, since, asked, asking, spent>>

\* _fetchOwm(): the current weather first, then the list.
Current ==
    /\ fetch.at = "parse" /\ settings.provider = "owm"
    /\ fetch' = [fetch EXCEPT !.at = "outlook", !.d = [NoData EXCEPT !.valid = TRUE, !.at = Time]]
    /\ UNCHANGED <<clock, synced, settings, link, since, asked, asking, data, spent>>

\* Fault: the first day of the list is today.
ListDaysFirst(list, today, current) ==
    [i \in 1..Cardinality({Day(t) : t \in list}) |-> (CHOOSE d \in {Day(t) : t \in list} :
        Cardinality({e \in {Day(t) : t \in list} : e < d}) = i - 1)]

\* The entries of the list by the day they are ahead of today; a day no entry
\* is of stays empty, but for today, which has the current weather.
ListDays(list, today, current) ==
    [i \in 1..DAYS_N |->
        IF \E t \in list : Day(t) - today = i - 1 THEN today + i - 1
        ELSE IF i = 1 THEN Day(current) ELSE Nothing]

\* _fetchOwmOutlook(): forty entries when the days are wanted, else eight.
Outlook ==
    LET list == (fetch.answered + 1)..(fetch.answered + IF settings.daily \/ settings.week THEN 40 ELSE 8)
        days == IF synced THEN ListDays(list, Day(clock), fetch.d.at) ELSE <<>>
    IN /\ fetch.at = "sort"
       /\ data' = [fetch.d EXCEPT !.days = days, !.names = Names(Len(days), Time)]
       /\ fetch' = Idle
       /\ UNCHANGED <<clock, synced, settings, link, since, asked, asking, spent>>

-----------------------------------------------------------------------------
(* The pages and the rest of the device.                                   *)

\* requestRefresh(): it looks whether it may, and then raises the flag.
MayAsk ==
    /\ ~asking /\ spent.asked < MaxAsked
    /\ settings.on /\ link /\ since /= "minute"
    /\ asking' = TRUE /\ spent' = [spent EXCEPT !.asked = @ + 1]
    /\ UNCHANGED <<clock, synced, settings, link, since, asked, fetch, data>>

Asks ==
    /\ asking /\ asking' = FALSE /\ asked' = TRUE
    /\ UNCHANGED <<clock, synced, settings, link, since, fetch, data, spent>>

\* The settings are saved while the export task is anywhere in its fetch.
Saved ==
    /\ settings' \in {[settings EXCEPT !.on = ~@], [settings EXCEPT !.daily = ~@], [settings EXCEPT !.week = ~@],
                     [settings EXCEPT !.provider = IF @ = "owm" THEN "open-meteo" ELSE "owm"]}
    /\ Trouble
    /\ UNCHANGED <<clock, synced, link, since, asked, asking, fetch, data>>

LinkChanges ==
    /\ link' = ~link
    /\ (IF link THEN Trouble ELSE UNCHANGED spent)
    /\ UNCHANGED <<clock, synced, settings, since, asked, asking, fetch, data>>

Synced ==
    /\ ~synced /\ synced' = TRUE
    /\ UNCHANGED <<clock, settings, link, since, asked, asking, fetch, data, spent>>

\* A minute, or the rest of the interval, which is less than three hours.
Older == CASE since = "minute" -> "interval" [] since = "interval" -> "due" [] OTHER -> since

Minutes ==
    /\ since \in {"minute", "interval"} /\ since' = Older
    /\ \/ UNCHANGED <<clock, spent>>
       \/ Moves(1)
    /\ UNCHANGED <<synced, settings, link, asked, asking, fetch, data>>

\* Hours and days: no fetch lasts that long.
Hours ==
    /\ fetch.at = "no"
    /\ \E d \in Passing : Moves(d)
    /\ since' = IF since = "never" THEN since ELSE "due"
    /\ UNCHANGED <<synced, settings, link, asked, asking, fetch, data>>

ForecastNext ==
    \/ Tick \/ Answers \/ Fails \/ OpenMeteo \/ Current \/ Outlook
    \/ MayAsk \/ Asks \/ Saved \/ LinkChanges \/ Synced \/ Minutes \/ Hours

ForecastInit ==
    /\ clock = DawnOfTime /\ synced \in BOOLEAN
    /\ settings \in [on : {TRUE}, provider : {"open-meteo", "owm"}, daily : {FALSE}, week : {TRUE}]
    /\ link = TRUE /\ since = "never"
    /\ asked = FALSE /\ asking = FALSE
    /\ fetch = Idle /\ data = NoData
    /\ spent = [asked |-> 0, troubles |-> 0, moves |-> 0]

-----------------------------------------------------------------------------
(* The week strip.                                                         *)

\* Fault: a forecast of any age that names today.
FreshAlways == data.valid /\ data.at /= 0

\* The forecast may be shown as that of the coming days.
Fresh == data.valid /\ data.at /= 0 /\ Time >= data.at /\ Time - data.at <= Stale

Has(i) == i \in DOMAIN data.days /\ data.days[i] /= Nothing

\* kdWeekFcStart(): where today is in the days, 0 for the calendar. It is the
\* second once a forecast fetched before midnight is read after it.
Start ==
    LET today == {i \in 1..2 : Has(i) /\ data.names[i] = Day(Time) % 7} IN
    IF settings.week /\ Fresh /\ Time >= DawnOfTime /\ today /= {}
    THEN CHOOSE i \in today : \A j \in today : i <= j
    ELSE 0

\* appendWeekFc(): tomorrow and the six days after it.
Cell(k) ==
    LET i == Start + k IN
    IF i <= DAYS_N /\ Has(i) THEN [name |-> data.names[i], of |-> data.days[i]]
    ELSE [name |-> (Day(Time) + k) % 7, of |-> Nothing]

-----------------------------------------------------------------------------
(* Properties.                                                             *)

\* What the strip shows for a day, and the name over it, are that day's: in a
\* forecast read after the midnight it was fetched before, in one of last week
\* on the same weekday, with days the provider left out, and after a fetch
\* whose settings were changed under it. Only an Open-Meteo answer that was on
\* its way over midnight is a day out.
StripTellsItsDay ==
    Start > 0 /\ ~data.across =>
        \A k \in 1..WEEK_N : /\ Cell(k).of \in {Day(Time) + k, Nothing}
                             /\ Cell(k).name = (Day(Time) + k) % 7

\* The same of every fetch.
StripNeverADayOut ==
    Start > 0 => \A k \in 1..WEEK_N : Cell(k).of \in {Day(Time) + k, Nothing}

\* A fetch starts within a minute of another only when two requests crossed it.
MinuteApart == [][Tick => since /= "minute"]_forecastVars

\* What a page waits for ends, unless the module cannot fetch.
Able == settings.on /\ link

PendingEnds == asked \/ fetch.at /= "no" ~> (~asked /\ fetch.at = "no") \/ ~Able
=============================================================================
