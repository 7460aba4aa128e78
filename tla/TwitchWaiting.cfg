SPECIFICATION MCSpec
CONSTANTS
    ch1 = ch1
    b1 = b1
    Channels = {ch1}
    Bots = {b1}
    NoBot = NoBot
    None = None
    Ids = {1, 2, 3, 4}
    Leftovers <- NoLeftovers
    Page = 2
    Limit = 4
    MaxVersion = 0
    MaxFaults = 1
    MaxRunners = 2
    MaxDrops = 0
    Accounts = {a1, a2}
    Hosts = {h1, h2}
    Requests = {q1, q2}
    NoToken = NoToken
    MaxLogins = 0
    MaxCalls = 0
    MaxFailures = 0
    Moderators = {m1, m2}
    Rooms = {k1}
    Updaters = {u1, u2}
    NoUpdater = NoUpdater
    MaxTime = 1
    CallRooms = {k1, k2}
    OwnRoom = k2
    Bot = Bot
    Unlocked = Unlocked
    NotRead = NotRead
    Commands = {"+b", "warn", "game"}
    MaxMessages = 0
    MaxExpiries = 0
    MaxTrouble = 0
CHECK_DEADLOCK FALSE
PROPERTIES
    DueSyncsBegin
