\* Two nodes, two slots, six sequence numbers.
CONSTANTS
    None = None
    Always = 99
    n1 = n1
    n2 = n2
    x1 = x1
    Nodes = {n1, n2}
    Strangers = {x1}
    Ids = {1, 2}
    Wrap = 6
    PoolSize = 2
    FrameCap = 1
    RingRoom = 2
    RescanFails = 2
    Spacing = 2
    Budgets <- Scenarios
SPECIFICATION LinkSpec
INVARIANTS ReadingInCustody StoredOnce
PROPERTIES Drains
CHECK_DEADLOCK FALSE
