CONSTANTS
    c1 = c1
    c2 = c2
    c3 = c3
    None = None
    Containers <- MCContainers
    MaxFaults = 2
SPECIFICATION FairSpec
INVARIANTS
    TypeOK
    ClearedMeansClean
    ListCoversRunning
PROPERTIES
    EventuallyCleared
\* Clear returns once: the system stops.
CHECK_DEADLOCK FALSE
