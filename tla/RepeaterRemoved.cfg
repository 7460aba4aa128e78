SPECIFICATION MCSpec
CONSTANTS
    Idents = {1, 2, 3}
    CronIdents = {3}
    Starts <- PastAndFuture
    Intervals = {2, 3}
    Crons <- SomeAndNever
    Slots = {g1, g2}
    MaxTime = 4
    MaxCalls = 3
SYMMETRY Symmetry
CHECK_DEADLOCK FALSE
INVARIANTS
    RemovedStaysRemoved
