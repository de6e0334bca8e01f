SPECIFICATION Spec
CONSTANTS
    c1 = c1
    c2 = c2
    c3 = c3
    c4 = c4
    a1 = a1
    a2 = a2
    None = None
    Conns = {c1, c2, c3, c4}
    IPs = {a1, a2}
    MaxConnections = 3
    MaxPerIp = 2
SYMMETRY Symmetry
INVARIANT TypeOK
INVARIANT CountExact
INVARIANT PeersExact
INVARIANT CapsHold
PROPERTY RefusedForCause
PROPERTY ImplementsAdmission
