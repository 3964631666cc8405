CONSTANTS
    LastDay = 2
    BuildingRows = {4, 7}
    MinBuildings = 6
    MaxBuildings = 8
    Slots = 2
    MaxFaults = 1
SPECIFICATION Spec
INVARIANTS
    TypeOK
    InputsOfThisRun
    TablesExist
    PublishedPassed
    SucceedsOnce
    FaultFreeFailures
    NeverStuck
\* No run follows that of the last day.
CHECK_DEADLOCK FALSE
