SPECIFICATION FairSpec
CONSTANTS
    w1 = w1
    w2 = w2
    c1 = c1
    m1 = m1
    Workers <- TwoWorkers
    Clients <- OneClient
    Msgs <- OneMsg
    Media <- OneMsg
    MaxPending = 1
    MaxAttempts = 2
    MinLead = 1
    Backoff = 1
    MaxTime = 1
    MaxFaults = 2
    MaxCrashes = 1
INVARIANTS RefireNeedsFault StatusHolds
PROPERTIES TerminalStopsFiring PendingIsSettled
CHECK_DEADLOCK FALSE
