SPECIFICATION FairSpec
CONSTANTS
    None = None
    OkWait = 1
    ConnectWait = 2
    CloseWait = 2
    RecvWait = 1
    MaxDrain = 2
    Setups = 2
    MaxOps = 3
    MaxChatter = 1
CHECK_DEADLOCK FALSE
INVARIANT TypeOK
INVARIANT SetupConfirmed
INVARIANT OwnConnected
PROPERTY OperationsEnd
