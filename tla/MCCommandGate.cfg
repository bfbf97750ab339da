SPECIFICATION FairSpec
CONSTANTS
    k1 = k1
    k2 = k2
    p1 = p1
    p2 = p2
    s1 = s1
    none = none
    Keys = {k1, k2}
    Prints = {p1, p2}
    Sessions = {s1}
    NoTurn = none
    TurnOf <- MixedTurns
    Limit = 1
    Ttl = 2
    MaxRuns = 3
    MaxTime = 2
    MaxRestarts = 1
INVARIANTS
    OneTurnPerSession
    BusyOnlyWhileRunning
    NoReexecutionInFlight
PROPERTIES
    RecordsDrain
