CONSTANTS
    s1 = s1
    s2 = s2
    None = None
    Stalls <- TwoStalls
    Groups = {g1}
    Links = {l1, l2}
    Starts = {r1, r2}
    Tickets = {k1, k2}
    Taps = {h1}
    Cooks = {u1}
    StallOf <- AllOfFirst
    MaxChanges = 2
    MaxFailures = 1
SPECIFICATION Spec
SYMMETRY Symmetry
INVARIANTS
    TicketsFollowMigration
PROPERTIES
    SpentLinksStayOut
    ImplementsDirectory
CHECK_DEADLOCK FALSE
