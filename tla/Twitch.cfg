SPECIFICATION MCSpec
CONSTANTS
    ch1 = ch1
    b1 = b1
    Channels = {ch1}
    Bots = {b1}
    NoBot = NoBot
    None = None
    Ids = {1, 2, 3, 4}
    Leftovers <- MCLeftovers
    Page = 2
    Limit = 4
    MaxVersion = 2
    MaxFaults = 2
    MaxRunners = 4
    MaxDrops = 3
    Accounts = {a1, a2}
    Hosts = {h1, h2}
    Requests = {q1, q2}
    NoToken = NoToken
    MaxLogins = 2
    MaxCalls = 3
    MaxFailures = 1
    Moderators = {m1, m2}
    Rooms = {k1}
    Updaters = {u1, u2}
    NoUpdater = NoUpdater
    MaxTime = 5
    CallRooms = {k1, k2}
    OwnRoom = k2
    Bot = Bot
    Unlocked = Unlocked
    NotRead = NotRead
    Commands = {"+b", "warn", "game"}
    MaxMessages = 2
    MaxExpiries = 1
    MaxTrouble = 1
CHECK_DEADLOCK FALSE
INVARIANTS
    SyncInv
    LoginsInv
    ModeratedAsListed
    CallsInv
PROPERTIES
    SettlesAsWanted
    ServesShard
    TokensSettle
