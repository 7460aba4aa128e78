SPECIFICATION MCSpec
CONSTANTS
    Messages = {1}
    Channels = {"a"}
    ChannelOf <- OneMessage
    Malformed = {}
    Workers = {w1, w2}
    Tokens = {1, 2, 3, 4}
    MaxAge = 0
    Slack = 3
    MinLease = 2
    PendingRetention = 3
    DedupeDuration = 4
    FailedRetention = 4
    CleanupBatchSize = 1
    HandleTimeout = 1
    Skew = 1
    TxLag = 0
    Punctual = FALSE
    PrepBound = 0
    MaxTime = 4
    MaxFaults = 1
    LastFault = 4
    Timestamps = {1}
    MaxDelay = 0
    Redelivered = {1}
    MaxInsertTime = 0
SYMMETRY WorkerSymmetry
CHECK_DEADLOCK FALSE
INVARIANTS
    HandledAtMostOnce
    OnlyStaleDropped
PROPERTIES
    FinishedIsFinal
