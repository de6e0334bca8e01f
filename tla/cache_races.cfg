SPECIFICATION Spec
CONSTANTS
    t1 = t1
    t2 = t2
    u1 = u1
    u2 = u2
    u3 = u3
    e1 = e1
    e2 = e2
    None = None
    Tabs = {t1, t2}
    Urls = {u1}
    Etags = {e1, e2}
    SizeOf <- MCSizeOf
    Headers <- RaceHeaders
    DefaultAge = 1
    MaxMaxAge = 3
    Caps = {2}
    MaxTtl = 2
    MaxTime = 3
    DiskFaults = FALSE
    ClockFaults = TRUE
SYMMETRY Symmetry
INVARIANT TypeOK
PROPERTY FreshMeansConfirmed
