SPECIFICATION MCSpec
CONSTANTS
    owner = owner
    sub = sub
    viewer = viewer
    Nobody = Nobody
    pat = pat
    site = site
    other = other
    word = word
    Users = {owner, sub}
    Badge <- MCBadge
    Admins = {}
    SuperAdmins = {}
    Patterns = {pat}
    Permits <- MCPermits
    Phrases = {word}
    Messages <- MCMessages
    Counts = {0, 1}
    MaxChanges = 2
    FirstWarning = 1
    NextWarning = 2
    PermitTime = 1
    Original = Original
    Copy = Copy
    CommandNames = {}
    Values = {v1}
    DefaultValue = DefaultValue
    Missing = Missing
    Nothing = Nothing
    Failed = Failed
    MaxEdits = 0
CHECK_DEADLOCK FALSE
VIEW MCView
INVARIANTS
    CustomLevelsReclassify
PROPERTIES
    TimeoutsEnd
