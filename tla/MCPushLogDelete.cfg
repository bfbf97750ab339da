SPECIFICATION FairSpec
CONSTANTS
    c1 = c1
    c2 = c2
    Callers = {c1}
    Capacity = 2
    Keep = 2
    MaxFrames = 3
    MaxRestarts = 1
    MaxCrashes = 1
    MaxFaults = 1
    MaxDisposals = 0
    MaxDeletes = 1
CHECK_DEADLOCK FALSE
INVARIANTS
    NoResurrection
PROPERTIES
    HydrateAnswers
