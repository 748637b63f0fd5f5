SPECIFICATION Spec
CONSTANTS
    c1 = c1
    c2 = c2
    c3 = c3
    DMR = DMR
    YSF = YSF
    NoMode = NoMode
    NoConn = NoConn
    Conn <- MCConn
    Mode <- MCMode
    Wants <- MCWants
    MaxClients = 2
    FrameStream = FALSE
    Overlap = FALSE
    ThreadsFail = FALSE
INVARIANTS
    TypeOK
    OneServicePerMode
    ServedModeIsOn
    NoGhostMode
