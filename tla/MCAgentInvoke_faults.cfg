SPECIFICATION Spec
CONSTANTS
    w1 = w1
    w2 = w2
    p1 = p1
    Workers <- MCWorkers
    Pollers <- MCPollers
    MaxMessages = 1
    MaxInstructions = 1
    MaxEntries = 3
    MaxTrips = 1
    MaxFaults = 1
INVARIANTS OneTurn NothingForgotten
CHECK_DEADLOCK FALSE
SYMMETRY WorkerSymmetry
