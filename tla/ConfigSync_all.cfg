\* Both instances; the constants are those of "agree".
CONSTANTS
    Nothing = Nothing
    Bad = Bad
    RevMod = 16
    Nets = {"home", "away", "moved"}
    Sensors = {1, 2}
    Lives = {1, 2}
    Seed <- MCSeed
    Refuses <- MCRefuses
    Discovered <- MCDiscovered
    RollbackAfter = 2
    DiscoverAfter = 1
    PostsPerCycle = 1
    FlushPosts = 0
    MaxCuts = 1
    Reach = {"home"}
    WebEdits <- MCEditsAll
    PageEdits <- MCPageEdits
    FirstFiles <- MCSynced
    FlashFails = FALSE
    Bound <- MCBoundAgree
SPECIFICATION MCSpec
INVARIANTS OneConfigPerRev WayBack
PROPERTIES MCConverges
