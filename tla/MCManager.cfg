SPECIFICATION FairSpec
CONSTANTS
    Asks <- MCAsks
    Listed <- MCListed
    PowerListed <- MCPowerListed
    BatchMax = 2
    MaxFaults = 1
    CrashMayHappen = TRUE
    DbMayFail = TRUE
INVARIANTS
    PowerRepeatsOnlyByLoss
PROPERTIES
    ExpiredIsNeverRun
    InOrder
    ReportedStateIsStored
    EveryRequestAnswered
