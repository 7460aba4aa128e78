SPECIFICATION MCSpec
CONSTANTS
    r1 = r1
    c1 = c1
    p1 = p1
    p2 = p2
    h1 = h1
    h2 = h2
    g1 = g1
    g2 = g2
    Nobody = Nobody
    Idents = {c1}
    CronIdents = {c1}
    Starts = {0}
    Intervals = {2, 3}
    Crons <- EveryTwo
    Slots = {g1}
    Processes = {p1}
    Handlers = {h1}
    ProcOf <- MCProcOf
    MessageDiff = 1
    CronGap = 1
    HandleTime = 1
    Ops = {"add"}
    Faults = {}
    MaxFaults = 0
    MaxTime = 4
    MaxCount = 3
INVARIANT EnabledIsPlanned
CHECK_DEADLOCK FALSE
