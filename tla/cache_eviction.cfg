SPECIFICATION Spec
CONSTANTS
    t1 = t1
    t2 = t2
    u1 = u1
    u2 = u2
    u3 = u3
    e1 = e1
    e2 = e2
    None = None
    Tabs = {t1}
    Urls = {u1, u2, u3}
    Etags = {e1, e2}
    SizeOf <- MCSizeOf
    Headers <- EvictionHeaders
    DefaultAge = 1
    MaxMaxAge = 3
    Caps = {2, 4}
    MaxTtl = 1
    MaxTime = 1
    DiskFaults = TRUE
    ClockFaults = FALSE
SYMMETRY Symmetry
PROPERTY InsertRestoresCap
PROPERTY EvictsLeastRecent
