CONSTANTS
    LastDay = 4
    Releases = {1, 2, 4}
    Files = 2
    MaxFaults = 1
SPECIFICATION FairSpec
INVARIANTS
    TypeOK
    SensorFailureIsFinal
    NextDayDecides
    WaitIsBounded
PROPERTIES
    UploadedIsSynced
\* The last run ends, or a run waits for one that has failed.
CHECK_DEADLOCK FALSE
