SPECIFICATION RunsSpec
CONSTANTS
    Children = {k1}
    Foreground = {}
    Continued = {}
    Cap = 1
INVARIANT StopReachesRun
CHECK_DEADLOCK FALSE
