SPECIFICATION FairSpec
CONSTANTS
    w1 = w1
    w2 = w2
    c1 = c1
    c2 = c2
    e1 = e1
    e2 = e2
    e3 = e3
    none = none
    None = none
    Cwds = {w1, w2}
    Callers = {c1, c2}
    Entries = {e1, e2, e3}
    MaxRemovals = 2
    MaxStops = 3
INVARIANTS
    OneRuntimePerWorkspace
    NothingSurvivesStop
PROPERTIES
    EnsureAnswered
