CONSTANTS
    None = None
    Cashiers = {c1}
    Devices = {d1, d2}
    Stalls = {s1, s2}
    Sockets = {k1}
    MaxSessions = 2
    MaxEdits = 1
    MaxMoves = 1
SPECIFICATION Spec
SYMMETRY Symmetry
INVARIANTS
    CredentialsCurrent
    TokensStayOnTerminal
    StaleSocketsAreLate
PROPERTIES
    RefusedForGood
CHECK_DEADLOCK FALSE
