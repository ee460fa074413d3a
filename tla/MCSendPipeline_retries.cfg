SPECIFICATION Spec
CONSTANTS
    w1 = w1
    w2 = w2
    a = a
    m = m
    x = x
    Workers <- MCWorkers
    Payloads <- OneMedia
    Oversized <- None
    Media <- OneMedia
    Uncaptioned <- None
    MaxIds = 2
    MaxMoves = 0
    Batch = 2
    MaxLen = 4
    MaxEntries = 2
    MaxFaults = 1
    MaxCrashes = 1
    SlowHandlers = TRUE
SYMMETRY WorkerSymmetry
INVARIANTS AckedIsSettled IdsNameCommittedRows DuplicateNeedsTakeOver BlobRefsCoverRows
CHECK_DEADLOCK FALSE
