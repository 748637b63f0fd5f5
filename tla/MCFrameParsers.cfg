SPECIFICATION ParserFairSpec
CONSTANTS
    Start = 8
    Short = 3
    Long = 7
    Other <- MCOther
    Samp = 6
    Cmd = 5
    Unknown = 0
    Filler <- MCFiller
    MaxFrames = 3
    MaxLosses = 2
    Backlog = 9
INVARIANTS
    InStepIsExact
    DamageIsLocal
    TimelineIsKept
PROPERTY HostReadsOn
CHECK_DEADLOCK FALSE
