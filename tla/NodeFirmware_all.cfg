SPECIFICATION Spec
CONSTANTS
    n1 = n1 n2 = n2
    old = old good = good better = better deaf = deaf crash = crash noload = noload corrupt = corrupt big = big
    Nodes = {n1, n2}
    Images = {old, good, better, deaf, crash, noload, corrupt, big}
    Factory = old
    None = None
    AttemptMax = 5
    Deaf = {deaf} Crashing = {crash} Corrupt = {corrupt} Unloadable = {noload} TooBig = {big}
    Size = 3 Win = 2 MaxBoots = 3 MaxMissed = 3 MaxMisses = 2 Chunks = 2
    FwScenarios <- Scens
INVARIANTS DoneMeansRan
PROPERTIES ComesBack
CHECK_DEADLOCK FALSE
