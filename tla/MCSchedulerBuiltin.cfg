SPECIFICATION FairSpec
CONSTANTS
    Controllers = {c1}
    Builtin = TRUE
    RunOnStartup = TRUE
    PidReuse = TRUE
    MaxRuns = 0
    Budget = 1
    HistoryLimit = 2
    MaxFires = 2
    MaxObjs = 4
    MaxGenerations = 1
    MaxEdits = 1
    MaxBoots = 2
INVARIANTS
    OneFireWhileStored
PROPERTIES
    EveryFireEnds
CHECK_DEADLOCK FALSE
