SPECIFICATION WorkersSpec
CONSTANTS
    w1 = w1
    w2 = w2
    f1 = f1
    Workers = {w1, w2}
    Feeds = {f1}
    MaxMessages = 2
    PrepTime = 1
    HandleTimeout = 2
    FinalizeTimeout = 1
    Grace = 4
    MaxMishaps = 1
    Free = Free
    Elsewhere = Elsewhere
    Orphan = Orphan
CHECK_DEADLOCK FALSE
INVARIANTS
    WorkersInv
PROPERTIES
    WorkersSettle
