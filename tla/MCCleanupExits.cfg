CONSTANTS
    c1 = c1
    c2 = c2
    c3 = c3
    None = None
    Containers <- MCContainers
    MaxFaults = 0
SPECIFICATION FairSpec
INVARIANTS
    ClearNeverFails
CHECK_DEADLOCK FALSE
