SPECIFICATION FairSpec
CONSTANTS
    Absent = Absent
    p1 = p1
    p2 = p2
    Procs = {p1, p2}
    MaxUpdates = 2
    MaxCrashes = 2
INVARIANTS
    MutualExclusion
    NoLostUpdate
    HolderKeepsLock
PROPERTIES
    EveryUpdateEnds
CHECK_DEADLOCK FALSE
