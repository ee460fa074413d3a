SPECIFICATION FairSpec
CONSTANTS
    w1 = w1
    w2 = w2
    a = a
    m = m
    x = x
    Workers <- MCWorkers
    Payloads <- TextAndRejected
    Oversized <- None
    Media <- Rejected
    Uncaptioned <- Rejected
    MaxIds = 3
    MaxMoves = 1
    Batch = 2
    MaxLen = 4
    MaxEntries = 2
    MaxFaults = 0
    MaxCrashes = 1
    SlowHandlers = FALSE
PROPERTIES ImplementsAtLeastOnce EveryEntrySettles
CHECK_DEADLOCK FALSE
