SPECIFICATION FairSpec
CONSTANTS
    w1 = w1
    w2 = w2
    p1 = p1
    Workers <- MCWorkers
    Payloads <- MCPayloads
    Batch = 2
    MaxLen = 2
    MaxEntries = 3
    MaxFaults = 1
    MaxCrashes = 1
    SlowHandlers = TRUE
INVARIANTS RedeliveryIsPaidFor
PROPERTIES ImplementsAtLeastOnce EveryEntryServed
CHECK_DEADLOCK FALSE
