SPECIFICATION MCSpec
CONSTANTS
    BlobMessages = {m1, m2}
    UploadKinds = {image, file}
    Purgers = {p1}
    NoKind = none
    Users = {u1, u2}
    Founders = {u1, u2}
    Kinds = {delivered}
    Sessions = {s1, s2}
    NoUser = none
    MaxMessages = 2
    Guesses = {2}
    Messages = {m1, m2}
    Notices = {}
    Skew = 1
    PageSize = 1
    MaxHour = 2
    MaxEdits = 1
    Requests = {q1, q2, q3}
    Creator = u1
    Initial = {u2, u4}
    Others = {}
    Ghosts = {u4}
    MaxCrashes = 1
    Callers = {q1, q2, q3}
    First = u1
    Second = u2
    Strangers = {u2}
    MaxLeaves = 2
    MaxBreaks = 1
    Listed = {1, 2, 3}
    ListLimit = 2
    Toggles = {q1, q2}
    MaxStamp = 3
    ListFaults = 1
    Changes = {q1, q2}
    Photos = {k1, k2}
    Titles = {t1, t2}
    ProfileFaults = 1
    Streams = {q1, q2, q3}
    LockTtl = 2
    MaxRun = 1
    MaxRows = 1
    Matches = 2
    StreamTicks = 3
    StreamFaults = 1
    Texts = {x1, x2, x3}
    Unfit = {x2}
    Flushes = {f1}
    Drains = {d1}
    FlushSize = 3
    ChunkSize = 2
    MaxTries = 2
    DrainRounds = 2
    QueueFaults = 2
    PartRows = {r1, r2}
    LastPeriod = 3
    Precreate = 1
    BatchRows = 1
    Retention = 1
    MaxStops = 1
INVARIANTS TicksHold MediaHolds HistoryHolds ChatsHold ViewsHold  TablesHold
PROPERTY WatermarkForward
CHECK_DEADLOCK FALSE
