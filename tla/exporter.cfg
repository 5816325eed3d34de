SPECIFICATION PodFairSpec
CONSTANTS
    Exports = {b1, b2}
    Starters = {s1, s2}
    Pollers = {g1}
    Buffer = 1
    HasStorage = TRUE
    CallErrors = TRUE
    Crashes = TRUE
    Requests = {s1, s2, g1}
    Pods = {here, there}
    Here = here
    Roaming = {s1}
    Limit = 1
    MaxFaults = 1
    Restarts = TRUE
INVARIANTS
    TypeOK
    InOnePlace
    DoneIsStored
    PollIsHonest
    RateTypeOK
    PassedWithinLimit
PROPERTIES
    QueueSpec
    RefusalEnds
CHECK_DEADLOCK FALSE
