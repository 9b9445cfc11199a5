\* The parts around the collector and the heater, each by itself.
CONSTANTS
    Parts = {"deploy", "page", "forecast", "choices", "heater"}
    Absent = Absent
    Pins = {p1, flashPin}
    Usable = {p1}
    FirstPin = p1
    Temps = {0, 6, 8}
    Targets = {2, 7}
    Half = 1
    MaxTemp = 8
    ClearMargin = 3
    AttachFails = TRUE
SPECIFICATION AroundSpec
INVARIANTS BlocksApart StripTellsItsDay LayoutSurvives OffWhileLatched
PROPERTIES StopEnds DeadProbeCools
CHECK_DEADLOCK FALSE
