SPECIFICATION MCSpec
CONSTANTS
    p1 = p1
    p2 = p2
    r1 = r1
    r2 = r2
    b1 = b1
    b2 = b2
    Procs = {p1, p2}
    Rooms = {r1, r2}
    Bots = {b1, b2}
    Uses = {1, 2}
    Starts <- MCStarts
    NoRow = NoRow
    None = None
    c1 = c1
    c2 = c2
    l1 = l1
    Char = {"(", "_", ")", "a"}
    MaxInput = 6
    Pieces <- MCPieces
    Exact <- MCExact
    Prefix <- MCPrefix
    CommandNames = {c1, c2}
    ListNames = {l1}
    Texts <- MCTexts
    Params <- MCParams
    Letters = {"a", "b"}
    MaxHost = 4
    MaxPath = 4
    ChatRooms = {r1, r2}
    Nowhere = Nowhere
    Words <- MCWords
    NoEntry = NoEntry
    Definitions <- MCDefinitions
    Builtins <- MCBuiltins
    ModerationWords = {"b"}
    Disabled = {"urban"}
    ChannelPrefix <- MCChannelPrefix
    ShouldModerate <- MCShouldModerate
    Mode <- MCMode
    RollLevel = 2
    Chats <- MCChats
    Lines <- MCImpLines
    MaxChats = 2
CHECK_DEADLOCK FALSE
INVARIANTS
    MessagesInv
    AnsweringInv
    MatchInv
PROPERTIES
    OneBotPerChannel
    HandlingEnds
