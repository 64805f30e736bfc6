SPECIFICATION Spec
CONSTANTS
    o1 = o1
    o2 = o2
    w1 = w1
    w2 = w2
    h1 = h1
    h2 = h2
    c1 = c1
    c2 = c2
    NoOne = NoOne
    Orders <- OneOrder
    Workers <- TwoWorkers
    Handlers <- TwoHandlers
    Chats <- TwoChats
    MaxAttempts = 2
    MaxCrashes = 1
    MaxFaults = 1
    MaxRequeues = 1
    MaxReconnects = 2
    MaxSlow = 1
SYMMETRY Symmetry
CONSTRAINT OneKindOfTrouble
INVARIANTS
    ClaimExclusive
    EarlierTicketsFailed
    SentTicketShown
    DoneFromItsMessage
    SentJobDelivered
PROPERTIES
    DoneIsFinal
CHECK_DEADLOCK FALSE
