SPECIFICATION GatewayFairSpec
CONSTANTS
    MaxStreams = 2
    MaxLocal = 1
    MaxLosses = 2
    MaxRestarts = 1
    InboxMax = 2
    BufMax = 1
INVARIANTS
    CallsAgree
    RunningIsKnown
PROPERTY LoggedInAgain
