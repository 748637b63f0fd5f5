SPECIFICATION FairSpec
CONSTANTS
    RX_FRAMES = 2
    SAMPLES_PER_FRAME = 2
    TX_TIMING_REFRESH = 2
    Word = 32
    Start <- MCStart
    MaxTicks = 7
    MaxDownlinks = 2
INVARIANTS
    StreamIsWhole
    ReportsAreRight
    DownlinkIsReported
PROPERTY ReportGetsOut
