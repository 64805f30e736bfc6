SPECIFICATION FairSpec
CONSTANTS
    o1 = o1
    o2 = o2
    w1 = w1
    w2 = w2
    h1 = h1
    h2 = h2
    c1 = c1
    c2 = c2
    NoOne = NoOne
    Orders <- OneOrder
    Workers <- TwoWorkers
    Handlers <- OneHandler
    Chats <- OneChat
    MaxAttempts = 2
    MaxCrashes = 1
    MaxFaults = 1
    MaxRequeues = 1
    MaxReconnects = 0
    MaxSlow = 0
PROPERTIES
    PaidOrderSettles
    PendingTicketResolves
CHECK_DEADLOCK FALSE
