\* The retirement floor is 3 (2 in the code), so that a merge and an archive
\* fit into one plan of so few topics.
SPECIFICATION DreamSpec
CONSTANTS
    t1 = t1
    t2 = t2
    t3 = t3
    t4 = t4
    Topics = {t1, t2, t3, t4}
    InitialTopics <- ThreeTopics
    StaleTopics = {t3}
    Replies <- Answers
    MinTopics = 2
    RetirementFloor = 3
    MaxPlans = 2
    MaxEdits = 2
    MaxDreamCrashes = 1
INVARIANT LaterEditWins
PROPERTY UndoRestores
CHECK_DEADLOCK FALSE
