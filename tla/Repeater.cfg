SPECIFICATION MCFairSpec
CONSTANTS
    Idents = {1, 3}
    CronIdents = {3}
    Starts <- PastAndFuture
    Intervals = {2, 3}
    Crons <- SomeAndNever
    Slots = {g1, g2}
    MaxTime = 4
    MaxCalls = 4
CHECK_DEADLOCK FALSE
INVARIANTS
    OncePerDeadline
    NeverLost
    CountsRight
PROPERTIES
    ImplementsScheduler
    DueRuns
