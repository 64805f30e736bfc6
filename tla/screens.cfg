SPECIFICATION ManagementSpec
CONSTANTS
    c1 = c1
    c2 = c2
    s1 = s1
    s2 = s2
    p1 = p1
    p2 = p2
    u1 = u1
    u2 = u2
    Rosters <- MCRosters
    Menus <- MCMenus
    Categories = {c1, c2}
    Products = {p1, p2}
    StallIds = {s1, s2}
    Requests = {r1, r2}
    Updates <- MCUpdates
    MaxEvents = 2
    Touched = {p1}
    Changes <- MCChanges
    Views = {"none", "menu", "reports", "stalls", "users"}
    Ranges = {"today", "week"}
    Searches = {"", "tea"}
    LedgerPages = {1, 2}
    Nothing = Nothing
    People = {u1, u2}
    Terminals = {d1}
    Edits <- MCEdits
PROPERTIES
    LeavesRestAlone
    ScreensSettle
CHECK_DEADLOCK FALSE
