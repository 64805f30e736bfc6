SPECIFICATION FairSpec
CONSTANTS
    Requests = {r1, r2}
    Admins = {a1, a2}
    Cashiers = {k1, k2}
    Stalls = {s1, s2}
    Keys = {key1}
    Bodies = {b1, b2}
    None = None
    MaxFaults = 1
INVARIANTS
    OneOrderPerKey
    AnswersAreOwnOrders
    AssignmentsSerialized
    AuditChain
PROPERTIES
    OrderInAssignedStall
    EveryoneAnswered
CONSTRAINT FewAtOnce
CHECK_DEADLOCK FALSE
