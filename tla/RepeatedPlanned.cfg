SPECIFICATION FairSpec
CONSTANTS
    r1 = r1
    c1 = c1
    p1 = p1
    p2 = p2
    h1 = h1
    h2 = h2
    g1 = g1
    g2 = g2
    Nobody = Nobody
    Idents = {r1}
    CronIdents = {}
    Starts = {0, 1, 2, 3}
    Intervals = {2}
    Crons = {}
    Slots = {g1, g2}
    Processes = {p1, p2}
    Handlers = {h1}
    ProcOf <- MCProcOf
    MessageDiff = 1
    CronGap = 1
    HandleTime = 1
    Ops = {"use", "add", "delete", "cmdLeave"}
    Faults = {"crash"}
    MaxFaults = 1
    MaxTime = 3
    MaxCount = 3
CHECK_DEADLOCK FALSE
INVARIANTS
    EnabledIsPlanned
PROPERTIES
    JobsEnd
