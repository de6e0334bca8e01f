SPECIFICATION Spec
CONSTANTS
    d1 = d1
    d2 = d2
    p1 = p1
    p2 = p2
    None = None
    Handlers = {p1, p2}
    Disclaimers = {d1, d2}
    Capacity = 2
    AutoReconnect = TRUE
    SkipBpqApp = FALSE
    Budget <- BudgetReconnect
SYMMETRY Symmetry
CHECK_DEADLOCK FALSE
INVARIANT AgreeIsConsented
INVARIANT NoStuckReconnecting
INVARIANT QuietAfterAbort
INVARIANT NoReplayInSession
