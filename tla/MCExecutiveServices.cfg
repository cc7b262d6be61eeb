SPECIFICATION FairSpec
CONSTANTS
    Names = {A, B}
    Files = {f1, f2}
    NoFile = NoFile
    Initial = {A}
    InitialFile = f1
    MaxApps = 2
    MaxTasks = 2
    ScanRate = 2
    KillTimeout = 1
    MaxElapsed = 2
    MaxCmds = 2
    Parents = {A}
    PollOutlastsCreate = TRUE
INVARIANTS TypeOK  OneInstance  ResourcesReleased
PROPERTIES LifecycleRefined RequestCarriedOut
CHECK_DEADLOCK FALSE
