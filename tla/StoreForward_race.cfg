\* One WiFi node behind, and an ESP-NOW node without a sensor that writes the same queue and claims slots.
CONSTANTS
    wifi = wifi  esp = esp  temp = temp  hum = hum
    Nothing = Nothing
    Senders = {wifi, esp}
    WifiNodes = {wifi}
    Listened = {wifi}
    Metrics = {temp, hum}
    Report <- OneMetric
    MaxEntries = 2
    MaxHistory = 2
    Capacity = 2
    BatchReadings = 2
    BatchesPerCycle = 1
    LiveAge = 0
    DrainRoom = 1
    TrimMost = 0
    UnreadableReplies = TRUE
    MaxClock = 2
    MaxEsp = 2
    MaxCrash = 0
SPECIFICATION Spec
INVARIANTS OvershootBounded NothingVanishes
CHECK_DEADLOCK FALSE
