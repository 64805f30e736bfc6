CONSTANTS
    Tabs = {t1, t2}
    Browsers <- MCBrowsers
SPECIFICATION Spec
SYMMETRY Symmetry
INVARIANTS
    OneLiveToken
    ReuseEndsFamily
    NoFalseAlarm
    LogoutEndsSession
    LoadingWaits
PROPERTIES
    PendingLogoutHolds
CHECK_DEADLOCK FALSE
