SPECIFICATION TestSpec
CONSTANTS
    Messages = {1, 2, 3}
    Channels = {"a", "b"}
    ChannelOf <- TwoChannels
    Malformed = {}
    Workers = {w1, w2}
    Tokens = {1, 2, 3, 4, 5}
    MaxAge = 1
    Slack = 1
    MinLease = 2
    PendingRetention = 4
    DedupeDuration = 2
    FailedRetention = 3
    CleanupBatchSize = 1
    HandleTimeout = 1
    Skew = 0
    TxLag = 0
    Punctual = FALSE
    PrepBound = 0
    MaxTime = 3
    MaxFaults = 1
    LastFault = 2
    Timestamps = {0, 1, 2, 3, 4, 5}
    MaxDelay = 0
    Redelivered = {}
    MaxInsertTime = 0
CHECK_DEADLOCK FALSE
INVARIANTS
    OldestClaimed
