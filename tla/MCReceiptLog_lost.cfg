SPECIFICATION Spec
CONSTANTS
    w1 = w1
    w2 = w2
    k1 = k1
    k2 = k2
    Workers <- MCWorkers
    Payloads <- MCPayloads
    Keys <- MCKeys
    Refused <- MCRefused
    Hiding <- MCHiding
    MaxUpTo = 2
    Batch = 2
    MaxLen = 1
    MaxEntries = 2
    MaxFaults = 0
    MaxCrashes = 1
    SlowHandlers = TRUE
INVARIANTS MovedIsLogged
CHECK_DEADLOCK FALSE
