\* The reload of a stored platform, which the architecture document promises.
CONSTANTS
    Parts = {"sensors"}
    Lives <- MCLives
    LogBatch = 2
    MaxFlows = 3
    MaxBoots = 2
    MaxEdits = 3
    MaxTroubles = 2
    Reqs <- MCReqs
    Kinds <- MCKinds
    Pieces = 2
    Series = {a, b}
    Hours = 3
    HourLen = 4
    Backfill = 2
    Duration = 2
    Toasts = 1
    Days <- MCDays
    MaxReadings = 3
    MaxMishaps = 1
    HealthHours = 3
    HealthHour = 4
    SensorJumps = {3, 9}
    SensorsUntil = 13
    Packages <- MCPackages
    Factory <- MCFactory
    Readers = {r1}
    Uploads = {u1}
    MaxUploads = 0
    MaxOffers = 0
    MaxMisses = 0
    MaxCuts = 0
    Nodes <- MCNodes
    Legacy <- MCLegacy
    PortalChanges <- MCPortalChanges
    PageChanges <- MCPageChanges
    MaxSaves = 2
    MaxLosses = 1
    RevMod = 16
    Setups <- MCSetups
    Buffer = 1
    MaxEdges = 2
    Plans <- MCPlans
    PoolBytes = 70
    FrameBytes = 60
    OldestAge = 7
    DayLen = 2
    HistoryCap = 4
    MinPoints = 3
    DocSizes = {0, 1, 200, 1023, 1024, 1025}
    ImgSizes = {0, 200, 1310720, 1310721}
    OldSamples <- MCOldSamples
SPECIFICATION FairSpec
INVARIANTS PlatformApplied
CHECK_DEADLOCK FALSE
