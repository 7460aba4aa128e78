SPECIFICATION MCFairSpec
CONSTANTS
    Messages = {1, 2, 3}
    Channels = {"a"}
    ChannelOf <- OneChannel
    Malformed = {3}
    Workers = {w1, w2}
    Tokens = {1, 2, 3, 4}
    MaxAge = 1
    Slack = 2
    MinLease = 3
    PendingRetention = 4
    DedupeDuration = 6
    FailedRetention = 6
    CleanupBatchSize = 1
    HandleTimeout = 1
    Skew = 0
    TxLag = 1
    Punctual = TRUE
    PrepBound = 1
    MaxTime = 5
    MaxFaults = 1
    LastFault = 2
    Timestamps = {1, 2}
    MaxDelay = 0
    Redelivered = {}
    MaxInsertTime = 0
CHECK_DEADLOCK FALSE
INVARIANTS
    LeaseInv
    ChannelExclusive
PROPERTIES
    LiveLeaseRespected
    QueuedIsSettled
