SPECIFICATION Spec
CONSTANTS
    Capacity = 2
    SnapshotTries = 2
    SnapshotRetries = 1
    MaxFrames = 5
    MaxMissed = 1
    MaxFailures = 1
    MaxRestarts = 1
    MaxOpens = 1
    root = root
    child = child
    Config = Config
    Sessions = {root, child}
    Commands = {cmd}
    Asks = {a1, a2}
    Root <- Tree
    MaxEdits = 1
    QuietMs = 2
    MaxWaitMs = 4
    MaxDownload = 3
    MaxMessages = 3
    MaxTime = 5
    MaxRequests = 3
INVARIANTS
    ViewIsStream
    DeliveredInOrder
    PromptIsLive
PROPERTIES
    ChainDrains
    OnlyGranted
    AskAnswered
    NoneLost
    ConnectingEnds
CHECK_DEADLOCK FALSE
