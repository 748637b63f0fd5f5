SPECIFICATION FairSpec
CONSTANTS
    TxFrames = 3
    NibbleMax = 3
    MIN_FREE = 2
    REQ_FIFO = 2
    LineMax = 2
    SampMax = 2
    WaitMax = 1
    ReplyMax = 1
INVARIANTS
    NeverOverfilled
PROPERTY StallEnds
