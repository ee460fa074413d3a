SPECIFICATION MCSpec
CONSTANTS
    s1 = s1
    c1 = c1
    c2 = c2
    u1 = u1
    h1 = h1
    t1 = t1
    t2 = t2
    Servers <- MCServers
    Conns <- MCConns
    Users = {u1}
    Chats = {h1}
    UserOf <- MCUserOf
    QueueCap = 1
    Budgets <- MCBudgets
    Devices <- MCConns
    Watchers = {s1}
    Budget = 1
    Tasks = {t1, t2}
    Relay = {}
    TaskChats <- MCTaskChats
    Sessions = {s1, s2}
    Sweeper = s2
    MaxTasks = 2
    MaxEntries = 3
    MaxTurns = 1
    MaxIdle = 2
    MaxFires = 1
    MaxLoads = 1
    BoardFaults = 1
INVARIANTS RoutesHold OneGoalPerChat
PROPERTIES AddedIsServed WatcherConverges TaskCloses
CHECK_DEADLOCK FALSE
