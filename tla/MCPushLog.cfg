SPECIFICATION Spec
CONSTANTS
    c1 = c1
    c2 = c2
    Callers = {c1}
    Capacity = 2
    Keep = 2
    MaxFrames = 5
    MaxRestarts = 1
    MaxCrashes = 2
    MaxFaults = 1
    MaxDisposals = 1
    MaxDeletes = 1
CONSTRAINT Unbroken
CHECK_DEADLOCK FALSE
INVARIANTS
    TailHoldsRing
    ReplayHasNoHoles
    SeqNeverReused
PROPERTIES
    ImplementsStream
