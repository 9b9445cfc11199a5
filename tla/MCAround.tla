------------------------------ MODULE MCAround ------------------------------
(***************************************************************************)
(* Small instances of what shares no state with the rest of the collector: *)
(* the upload tool, the Kindle's page, its settings and its forecast, and   *)
(* the enclosure heater.  The initial state picks one of Parts and the      *)
(* variables of the others stand still.                                    *)
(***************************************************************************)
EXTENDS Heater, Naturals, Sequences, TLC

CONSTANT Parts

VARIABLES part,
          job, gui, mgr, killer, run, child, tree, dev, depNode, done,              \* Deploy
          skin, places, page, gone,                                                 \* KindlePage
          clock, synced, settings, link, since, askedFor, asking, fetch, data, spent, \* Forecast
          look, bin, slotCard, zones, tracked, saving, settled, owed, count         \* KindleSettings

-----------------------------------------------------------------------------
(* The upload tool: what is run, and what goes wrong.                       *)

Job(s, bare, guard, crash, wipe, stubborn, chosen, watch, n, stops) ==
    [steps |-> s, bare |-> bare, guard |-> guard, crash |-> crash, wipe |-> wipe, stubborn |-> stubborn,
     chosen |-> chosen, prior |-> IF stops THEN "old" ELSE "none", watch |-> watch, troubles |-> n, stops |-> stops]
Jobs ==
    {Job({1, 5, 13, 8}, TRUE, TRUE, FALSE, FALSE, FALSE, FALSE, FALSE, 2, TRUE),
     Job({1, 5, 13, 8}, FALSE, TRUE, TRUE, TRUE, FALSE, FALSE, FALSE, 1, TRUE),
     Job({5, 13}, FALSE, FALSE, TRUE, FALSE, FALSE, TRUE, FALSE, 1, TRUE),
     Job({3, 5, 6, 7, 9}, FALSE, TRUE, FALSE, FALSE, TRUE, FALSE, FALSE, 1, TRUE),
     Job({1, 6, 9}, TRUE, TRUE, FALSE, FALSE, FALSE, FALSE, FALSE, 1, TRUE),
     Job({11, 12}, FALSE, TRUE, FALSE, FALSE, FALSE, FALSE, FALSE, 1, TRUE),
     Job({11, 14}, FALSE, TRUE, FALSE, FALSE, FALSE, FALSE, TRUE, 2, TRUE),
     Job({14}, FALSE, TRUE, FALSE, FALSE, FALSE, TRUE, FALSE, 1, TRUE),
     Job({13, 14}, FALSE, TRUE, FALSE, FALSE, FALSE, FALSE, FALSE, 0, FALSE)}
Deploying == INSTANCE Deploy WITH node <- depNode

-----------------------------------------------------------------------------
(* The Kindle's page.                                                      *)

Figure(ints, decs, minus) == [have |-> TRUE, ints |-> ints, decs |-> decs, minus |-> minus]
Place(metric, trend, ints, decs) ==
    [metric |-> metric, trend |-> trend, decs |-> decs, text |-> Figure(ints, decs, FALSE)]
Skin == [chart |-> TRUE, week |-> TRUE, clock |-> TRUE, big |-> TRUE, grid |-> TRUE, inside |-> TRUE,
         tendency |-> TRUE, land |-> FALSE, wall |-> FALSE, html |-> FALSE, sub |-> TRUE, inColOk |-> TRUE,
         outPct |-> 100, inPct |-> 100, layout |-> "auto", apMode |-> FALSE, forecast |-> "fresh"]
Usual == [hero |-> Place("temperature", FALSE, 2, 1), big |-> Place("humidity", FALSE, 2, 0),
          g1 |-> Place("pressure", TRUE, 4, 0), g2 |-> Place("dew_point", FALSE, 1, 1),
          in1 |-> Place("temperature", FALSE, 2, 1), in2 |-> Place("humidity", FALSE, 2, 0),
          in3 |-> Place("aqi", FALSE, 2, 0)]
Pages == {Skin, [Skin EXCEPT !.html = TRUE, !.chart = FALSE], [Skin EXCEPT !.land = TRUE],
          [Skin EXCEPT !.land = TRUE, !.html = TRUE], [Skin EXCEPT !.wall = TRUE]}
WallPages == {[Skin EXCEPT !.wall = TRUE, !.html = TRUE]}
Figures == {[have |-> FALSE], Figure(1, 1, TRUE), Figure(2, 1, TRUE), Figure(3, 0, FALSE), Figure(4, 0, FALSE)}
Switches == {<<"chart", FALSE>>, <<"week", FALSE>>, <<"clock", FALSE>>, <<"forecast", "stale">>, <<"inside", FALSE>>}
Drawing == INSTANCE KindlePage WITH
    Setups <- {[skin |-> s, places |-> Usual] : s \in IF "wall" \in Parts THEN WallPages ELSE Pages},
    MaxEdits <- 1, MaxReadings <- 1

-----------------------------------------------------------------------------
(* The forecast: the clock is set on a Saturday evening.                     *)

Forecasting == INSTANCE Forecast WITH
    DawnOfTime <- 142, Passing <- {2, 53}, MaxMoves <- 2, MaxAsked <- 1, MaxTroubles <- 1, asked <- askedFor

-----------------------------------------------------------------------------
(* The page's settings: an older device's, one with everything chosen, one    *)
(* whose file does not parse, one whose file says nothing of places.         *)

OldLook ==
    [outdoor |-> "", indoor |-> "", show |-> 255, page |-> 0, web |-> 0, chartA |-> 0, chartB |-> 0,
     refresh |-> 0, follow |-> 255, clockOff |-> 0, rotation |-> 0, pageRot |-> 0, sync |-> 0, week |-> 0,
     rules |-> 0, size |-> 0]
NewLook ==
    [outdoor |-> "bme", indoor |-> "", show |-> 255, page |-> 1, web |-> 1, chartA |-> 3, chartB |-> 255,
     refresh |-> 900, follow |-> 0, clockOff |-> 1, rotation |-> 2, pageRot |-> 2, sync |-> 255, week |-> 18,
     rules |-> 38, size |-> 66]
Says(sensor, metric) == [sensor |-> sensor, metric |-> metric]
CardOf(fat, file) == [fat |-> fat, main |-> file, new |-> [kind |-> "nothing"]]
Homes ==
    {[look |-> OldLook, card |-> CardOf(FALSE, [kind |-> "nothing"])],
     [look |-> NewLook, card |-> CardOf(TRUE, [kind |-> "slots",
                                  slots |-> <<Says("a", "x"), Says("", "y"), Says("b", "z")>>])],
     [look |-> [OldLook EXCEPT !.rotation = 3, !.page = 1], card |-> CardOf(TRUE, [kind |-> "bad"])],
     [look |-> OldLook, card |-> CardOf(FALSE, [kind |-> "neither"])]}
Layouts ==
    {[out |-> "", in |-> "hall",
      zones |-> [hero |-> [sensor |-> "a", metric |-> "co2", decimals |-> 0, flags |-> 128],
                 g2 |-> Says("b", "lux"), g7 |-> Says("b", "lux")]],
     [out |-> "", in |-> "",
      zones |-> [g1 |-> [sensor |-> "b", metric |-> "pressure", flags |-> 10, decimals |-> 300, label |-> "P"],
                 g2 |-> [sensor |-> "b", metric |-> "uva", flags |-> 130, ink |-> 9],
                 in2 |-> [sensor |-> "c", metric |-> "", ink |-> 2],
                 in3 |-> [sensor |-> "c", metric |-> "rain", ink |-> 2, decimals |-> -1, flags |-> 128]]]}
Looks ==
    {[rotation |-> 90, page_rotation |-> 0], [web |-> 1, page |-> 1], [chartA |-> 3, chartB |-> 11],
     [page_rotation |-> -1, rotation |-> 180, clock_sync |-> 0],
     [show |-> 31, out_size |-> 75, rule_style |-> 2, clock |-> 0, follow |-> 300, week_forecast |-> 1],
     [outdoor |-> "b", chartA |-> 12, rotation |-> 45, refresh |-> -5], [page |-> 1, clock_sync |-> 61]}
Choosing == INSTANCE KindleSettings WITH
    MaxEdits <- 2, MaxTroubles <- 1, card <- slotCard, places <- zones

-----------------------------------------------------------------------------

deploy    == <<job, gui, mgr, killer, run, child, tree, dev, depNode, done>>
drawn     == <<skin, places, page, gone>>
forecast  == <<clock, synced, settings, link, since, askedFor, asking, fetch, data, spent>>
choices   == <<look, bin, slotCard, zones, tracked, saving, settled, owed, count>>
heater    == vars
all       == <<part, deploy, drawn, forecast, choices, heater>>

Still == 0
AroundInit ==
    /\ part \in IF "wall" \in Parts THEN {"page"} ELSE Parts
    /\ IF part = "deploy" THEN Deploying!DeployInit
       ELSE /\ mgr = [cancelled |-> FALSE] /\ run = [at |-> "over"]
            /\ job = Still /\ gui = Still /\ killer = Still /\ child = Still /\ tree = Still /\ dev = Still
            /\ depNode = Still /\ done = Still
    /\ IF part = "page" THEN Drawing!PageInit
       ELSE skin = Still /\ places = Still /\ page = Still /\ gone = Still
    /\ IF part = "forecast" THEN Forecasting!ForecastInit
       ELSE /\ clock = Still /\ synced = Still /\ settings = Still /\ link = Still /\ since = Still
            /\ askedFor = Still /\ asking = Still /\ fetch = Still /\ data = Still /\ spent = Still
    /\ IF part = "choices" THEN Choosing!PlacesInit
       ELSE /\ look = Still /\ bin = Still /\ slotCard = Still /\ zones = Still /\ tracked = Still
            /\ saving = Still /\ settled = Still /\ owed = Still /\ count = Still
    /\ IF part = "heater" THEN Init
       ELSE /\ pc = [a \in Actors |-> "gone"] /\ latch = FALSE /\ on = {} /\ probe = Still
            /\ enabled = Still /\ pin = Still /\ attached = Still /\ owned = Still /\ reconfigure = Still
            /\ heating = Still /\ fault = Still /\ lock = Still /\ restarting = Still /\ running = Still
            /\ ledc = Still /\ driven = Still

\* Each part moves alone.
AroundNext ==
    \/ part = "deploy" /\ Deploying!DeployNext
       /\ UNCHANGED <<part, drawn, forecast, choices, heater>>
    \/ part = "page" /\ Drawing!PageNext
       /\ UNCHANGED <<part, deploy, forecast, choices, heater>>
    \/ part = "forecast" /\ Forecasting!ForecastNext
       /\ UNCHANGED <<part, deploy, drawn, choices, heater>>
    \/ part = "choices" /\ Choosing!PlacesNext
       /\ UNCHANGED <<part, deploy, drawn, forecast, heater>>
    \/ part = "heater" /\ Next
       /\ UNCHANGED <<part, deploy, drawn, forecast, choices>>

\* The fairness of the two parts that promise something.  Outside its part the
\* heater's tasks are at an end.
Goes(A) == part = "deploy" /\ A
AroundFairness ==
    /\ WF_deploy(Goes(Deploying!Worker)) /\ WF_deploy(Goes(Deploying!Works))
    /\ WF_deploy(Goes(Deploying!Exits)) /\ WF_deploy(Goes(Deploying!Restarts))
    /\ WF_deploy(Goes(Deploying!StopLater)) /\ WF_deploy(Goes(Deploying!CancelFlag))
    /\ WF_deploy(Goes(Deploying!CancelLooks)) /\ WF_deploy(Goes(Deploying!CancelEnds))
    /\ Fairness
AroundSpec == AroundInit /\ [][AroundNext]_all /\ AroundFairness

-----------------------------------------------------------------------------
(* The properties, each stated in its module.                              *)

\* Deploy: STOP ends a run; new pages never stand on an older firmware.
StopEnds == Deploying!StopEnds
NewPagesNewFirmware == part = "deploy" => Deploying!NewPagesNewFirmware

\* KindlePage: blocks do not overlap; the page stands still.
BlocksApart == part = "page" => Drawing!BlocksApart
StandsStill == [][part = "page" => Drawing!Steady]_all

\* Forecast: a cell of the strip tells its own day.
StripTellsItsDay == part = "forecast" => Forecasting!StripTellsItsDay

\* KindleSettings: the layout survives, the chart's lines are kept, saving what
\* is there changes nothing.
LayoutSurvives == part = "choices" => Choosing!LayoutSurvives
LinesTracked == part = "choices" => Choosing!LinesTracked
SavesUnchanged == part = "choices" => Choosing!SavesUnchanged
=============================================================================
