CONSTANTS
    WakeRate = 2
    HkRate = 3
    MsgLimit = 2
    NavDepth = 6
    BridgeDepth = 3
    RxSize = 2
    MaxBehind = 2
SPECIFICATION FairSpec
INVARIANTS TypeOK
PROPERTIES BurstSparesCommands CommandsGetThrough
CHECK_DEADLOCK FALSE
