SPECIFICATION FairSpec
CONSTANTS
    c1 = c1
    c2 = c2
    c3 = c3
    DMR = DMR
    YSF = YSF
    NoMode = NoMode
    NoConn = NoConn
    Conn <- MCPair
    Mode <- MCMode
    Wants <- MCPairWants
    MaxClients = 1
    FrameStream = TRUE
    Overlap = TRUE
    ThreadsFail = TRUE
INVARIANT NoOrphanSlot
PROPERTY EverySocketCloses
