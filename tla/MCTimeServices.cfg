CONSTANTS
    Res = 2
    Wrap = 20
    MetWrap = 5
    StartFly = 2
    LatchFly = 3
    PipeDepth = 3
    NewMETs = {5}
    MaxLate = 3
    MaxCmds = 1
SPECIFICATION FairSpec
INVARIANTS TypeOK NoWrapAround
PROPERTIES METJumpBounded CommandedFlywheelFree FlywheelEnds
CHECK_DEADLOCK FALSE
