CONSTANTS
    b1 = b1
    b2 = b2
    Empty = Empty
    Baskets = {b1, b2}
    PatientUser = TRUE
    MaxKeys = 2
    MaxLoads = 3
    MaxFailed = 0
    MaxLost = 2
    MaxRefreshes = 1
    MaxEdits = 2
SPECIFICATION Spec
SYMMETRY Symmetry
INVARIANTS
    OneOrderPerSale
    OnePaidPerSale
    PaidIsRemembered
    CartSurvives
CHECK_DEADLOCK FALSE
