SPECIFICATION SalesSpec
CONSTANTS
    o1 = o1
    o2 = o2
    Orders = {o1, o2}
    MinRate = 1000
    MaxRate = 10000
    OfferedRates <- MCOfferedRates
    UsdTotals <- MCUsdTotals
    KhrTotals <- MCKhrTotals
    UsdTenders <- MCUsdTenders
    KhrTenders <- MCKhrTenders
    Stalls = {s1, s2}
    Offset <- MCOffset
    Moments <- MCMoments
    CustomDays <- MCCustomDays
    PageSize = 1
SYMMETRY Symmetry
CONSTRAINT OneQuestion
INVARIANTS
    RielChangeExact
    DollarChangeNearest
    ReportTellsSales
PROPERTIES
    SettledOnce
CHECK_DEADLOCK FALSE
