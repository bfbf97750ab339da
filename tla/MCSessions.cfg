SPECIFICATION Spec
CONSTANTS
    Calls = {c1, c2}
    Flushers = {f1, f2}
    MaxFaults = 1
    MaxCrashes = 1
    Children = {k1, k2, k3}
    Foreground = {k3}
    Continued = {k1}
    Cap = 1
    SlotCallers = {d1, d2, d3}
    NoOwner = NoOwner
    TheMap = TheMap
INVARIANTS
    FlushedOnce
    RunsWithinCap
    StoppedMeansStopped
    NoOpenClash
PROPERTIES
    NoticeKept
    SettleEnds
    SlotsDrain
    CallsEnd
CHECK_DEADLOCK FALSE
