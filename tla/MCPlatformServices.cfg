SPECIFICATION MCSpec
CONSTANTS
    t1 = t1
    t2 = t2
    c1 = c1
    c2 = c2
    m1 = m1
    m2 = m2
    a1 = a1
    a2 = a2
    a3 = a3
    a4 = a4
    b1 = b1
    b2 = b2
    s1 = s1
    s2 = s2
    p1 = p1
    p2 = p2
    l1 = l1
    l2 = l2
    Devices = {a1, a2, a3}
    MaxDevices = 1
    CapFaults = 1
    Tasks = {t1, t2}
    Relay = {t1}
    TaskChats <- MCTaskChats
    Sessions = {s1, s2}
    Sweeper = s2
    MaxTasks = 2
    MaxEntries = 5
    MaxTurns = 2
    MaxIdle = 1
    MaxFires = 1
    MaxLoads = 2
    BoardFaults = 1
    TrigMessages = {m1, m2}
    TrigChats = {c1}
    TrigChatOf <- MCTrigChatOf
    Firsts = {m1}
    MaxLeft = 1
    MaxAuto = 1
    TrigQuota = 2
    MaxAttempts = 2
    TrigChanges = 2
    TrigFaults = 1
    Hitters = {a1, a2}
    Spenders = {b1, b2}
    Weight <- MCWeight
    MaxHits = 1
    Window = 2
    MaxTicks = 4
    MaxLosses = 1
    Sliders = {a1, a2, a3, a4}
    ServerOf <- MCServerOf
    Ahead <- MCAhead
    SlideLimit = 2
    SlideWindow = 2
    Seqs = 3
    SlideTicks = 4
    Minters = {a1, s1, s2}
    ProcOf <- MCProcOf
    MachineOf <- MCMachineOf
    Service = {p2}
    SeqSpace = 2
    MaxMillis = 1
    MaxIds = 3
    ClockSteps = 1
    Restarts = 1
    Phones = {p1, p2}
    Names = {m1, m2, m3}
    Tails = {m3}
    Start <- MCStart
    Logins = {l1, l2}
    PhoneOf <- MCPhoneOf
    Renames = {r1, r2}
    MaxChanges = 1
    ChangeDays = 1
    GraceDays = 1
    Tries = 2
    LastDay = 2
    Clients = {c1, c2}
    Asks = {a1, a2, a3}
    MaxTokens = 5
    SessionFaults = 1
    Turns = {t1, t2}
    Ids = {1, 2, 3}
    Spans = {{1, 2, 3}, {2, 3}}
    MaxFetch = 2
    PageRows = 1
    ConfirmTtl = 0
    Minutes = 1
    MaxCounts = 1
    MaxMoves = 1
    Files = {f1, f2}
    Commits = {k1, k2, k3}
    Removals = {r1}
    MaxDocs = 1
    KnowFaults = 1
    OwnChat = c2
    ToolRuns = {c1, c2}
    ToolChats = {c1, p1}
    ToolGroups = {c1}
    WakeKeys = {k1, k2}
    WakeFlags = {k2}
    OwnerLimits <- MCOwnerLimits
    ToolChanges = 2
INVARIANTS LimitsHold TasksHold TriggersHold IdsHold AccountsHold ToolsHold
CHECK_DEADLOCK FALSE
