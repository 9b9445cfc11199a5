\* One node with a backlog longer than the queue behind it; either side restarts.
CONSTANTS
    wifi = wifi  esp = esp  temp = temp  hum = hum
    Nothing = Nothing
    Senders = {wifi}
    WifiNodes = {wifi}
    Listened = {wifi}
    Metrics = {temp}
    Report <- OneMetric
    MaxEntries = 2
    MaxHistory = 2
    Capacity = 3
    BatchReadings = 2
    BatchesPerCycle = 1
    LiveAge = 0
    DrainRoom = 1
    TrimMost = 1
    UnreadableReplies = FALSE
    MaxClock = 2
    MaxEsp = 0
    MaxCrash = 1
SPECIFICATION FairSpec
INVARIANTS NoOvertaking
PROPERTIES KeepsPromise BacklogDrains
CHECK_DEADLOCK FALSE
