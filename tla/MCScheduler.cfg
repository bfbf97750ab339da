SPECIFICATION Spec
CONSTANTS
    Controllers = {c1, c2}
    Builtin = FALSE
    RunOnStartup = TRUE
    PidReuse = FALSE
    MaxRuns = 0
    Budget = 0
    HistoryLimit = 2
    MaxFires = 1
    MaxObjs = 4
    MaxGenerations = 2
    MaxEdits = 1
    MaxBoots = 2
INVARIANTS
    RunsCounted
    LockHasLiveOwner
PROPERTIES
    PinKept
VIEW View
CHECK_DEADLOCK FALSE
