SPECIFICATION FairSpec
CONSTANTS
    w1 = w1
    w2 = w2
    p1 = p1
    Workers <- MCWorkers
    Pollers <- MCPollers
    MaxMessages = 2
    MaxInstructions = 0
    MaxEntries = 3
    MaxTrips = 2
    MaxFaults = 0
PROPERTIES NoStaleReply EveryMessageSettled
CHECK_DEADLOCK FALSE
