SPECIFICATION MCSpec
CONSTANTS
    mod = mod
    owner = owner
    root = root
    chA = chA
    chB = chB
    n1 = n1
    n2 = n2
    safe = safe
    purge = purge
    q1 = q1
    q2 = q2
    hi = hi
    bye = bye
    v1 = v1
    u1 = u1
    u2 = u2
    Parts = {"commands", "quotes", "replies", "values", "uses", "timed", "raffle"}
    Channels = {chA, chB}
    Names = {n1, n2}
    Reserved = {}
    Texts = {safe, purge}
    Entries = {safe}
    Dangerous = {purge}
    Users = {mod, root}
    UserLevel <- MCUserLevel
    Levels = {2, 5}
    RowIds = {1, 2}
    MaxItems = 1
    MaxCount = 1
    MaxRuns = 1
    NoRow = NoRow
    Sayings = {q1, q2}
    MaxNumber = 3
    Messages = {hi, bye}
    Triggers <- MCTriggers
    Answers = 3
    ReplyCooldown = 2
    MaxTime = 1
    Variables = {v1}
    Steps <- MCSteps
    Half = 8
    Text = Text
    Unset = Unset
    Members = {u1}
    Entrants = {u1, u2}
    MaxClock = 5
    DefaultCooldown = 1
    ChannelCooldown = 2
    NoCooldown = NoCooldown
    RollCooldown = 0
    HighlightTime = 3
    ConfirmTime = 2
    PermitTime = 3
    FirstWarning = 1
    NextWarning = 3
    MaxCalls = 3
CHECK_DEADLOCK FALSE
SYMMETRY MCSymmetry
VIEW MCView
INVARIANTS
    CommandsInv
    NumberedInv
    ChannelStateInv
PROPERTIES
    ChangesAreAllowed
    StepsAreSmall
    ImplementsLiveState
