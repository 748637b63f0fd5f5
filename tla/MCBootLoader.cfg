SPECIFICATION FairSpec
CONSTANTS
    LastBlock = 3
    PageBlocks = 2
    MaxFaults = 4
CHECK_DEADLOCK FALSE
INVARIANTS
    TypeOK
    StartsWholeImage
PROPERTIES
    MarkedBeforeTouched
    UpdateGetsThrough
