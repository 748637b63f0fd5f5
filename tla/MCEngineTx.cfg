SPECIFICATION FairSpec
CONSTANTS
    TX_BUF_SAMPLES = 8
    SAMPLES_PER_FRAME = 3
    TX_PRIME_SAMPLES = 4
    TX_CYCLE_SAMPLES = 3
    TagMax = 9
INVARIANTS
    PttFollowsState
    NoSampleLost
PROPERTIES
    StallKeepsCycle
    HostGonePttOff
