\* Two exporters of one table with more keys than slots, one of them with a
\* spool that has room for one record: every answer of the servers, a failing
\* file system and a reset of each kind.
CONSTANTS
    Nothing = Nothing
    ExporterCount = 2
    Spooling = {1}
    Readings <- TwoKeys
    Takes <- TwoTakes
    LatestSlots = 1
    SpoolBatch = 1
    MaxSpool = 1
    MaxRetries = 1
    UnconfirmedSpoolAfter = 2
    ReadFailsMax = 2
    Resets = {"panic", "power", "format"}
    MaxResets = 1
SPECIFICATION FairSpec
INVARIANTS NothingForgotten
PROPERTIES Delivers
