SPECIFICATION FairSpec
CONSTANTS
    d1 = d1
    d2 = d2
    p1 = p1
    p2 = p2
    None = None
    Handlers = {p1, p2}
    Disclaimers = {d1}
    Capacity = 2
    AutoReconnect = TRUE
    SkipBpqApp = FALSE
    Budget <- BudgetClaims
CHECK_DEADLOCK FALSE
PROPERTY TimeOutTearsDownLink
