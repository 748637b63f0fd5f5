SPECIFICATION FairSpec
CONSTANTS
    s1 = s1
    s2 = s2
    Svc <- MCSvc
    Idle = Idle
    OutMax = 2
    BufMax = 2
    MaxCalls = 2
    MaxCrashes = 1
INVARIANTS
    StatusAgrees
PROPERTIES
    OnlyOwnerTransmits
    RadioIsGivenBack
CONSTRAINT Followed
CHECK_DEADLOCK FALSE
