SPECIFICATION FairSpec
CONSTANTS
    c1 = c1
    c2 = c2
    DMR = DMR
    DSTAR = DSTAR
    Idle = Idle
    NoMode = NoMode
    NoConn = NoConn
    Conn <- MCConn
    Mode <- MCMode
    Buffered <- MCBuffered
    PendingMax = 1
    TxqMax = 2
    StartAt = 1
    MaxFaults = 1
    HostRestarts = TRUE
INVARIANTS
    OnlyOwnersFrames
    OwnerHasItsMode
    RestsBetweenCalls
PROPERTY StrayTxEnds
