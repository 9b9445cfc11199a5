\* Parts of the collector that share nothing, each by itself.
CONSTANTS
    Parts = {"boot", "settings", "uploads", "readings", "sensors", "package", "documents", "node", "radio"}
    Lives <- MCLives
    LogBatch = 2
    MaxFlows = 3
    MaxBoots = 2
    MaxEdits = 3
    MaxTroubles = 2
    Reqs <- MCReqs
    Kinds <- MCKinds
    Pieces = 2
    Series = {a, b}
    Hours = 3
    HourLen = 4
    Backfill = 2
    Duration = 2
    Toasts = 1
    Days <- MCDays
    MaxReadings = 3
    MaxMishaps = 1
    HealthHours = 3
    HealthHour = 4
    SensorJumps = {3, 9}
    SensorsUntil = 13
    Packages <- MCPackages
    Factory <- MCFactory
    Readers = {r1}
    Uploads = {u1, u2}
    MaxUploads = 2
    MaxOffers = 2
    MaxMisses = 1
    MaxCuts = 1
    Nodes <- MCNodes
    Legacy <- MCLegacy
    PortalChanges <- MCPortalChanges
    PageChanges <- MCPageChanges
    MaxSaves = 2
    MaxLosses = 1
    RevMod = 16
    Setups <- MCSetups
    Buffer = 1
    MaxEdges = 2
    Plans <- MCPlans
    PoolBytes = 70
    FrameBytes = 60
    OldestAge = 7
    DayLen = 2
    HistoryCap = 4
    MinPoints = 3
    DocSizes = {0, 1, 200, 1023, 1024, 1025}
    ImgSizes = {0, 200, 1310720, 1310721}
    OldSamples <- MCOldSamples
SPECIFICATION FairSpec
INVARIANTS SecretsKept RunsWhatWasSaid DustIsWarm StampedAsTaken EstimateExact RowsKept AnsweredSurvives OkMeansStored HoursExact HeldItsDuration HealthExact NeverUnasked
PROPERTIES BadUpdateUndone EveryReaderSettles
CHECK_DEADLOCK FALSE
