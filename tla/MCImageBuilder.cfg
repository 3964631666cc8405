CONSTANTS
    MayFail = TRUE
    sedona = sedona
    minio = minio
    prefect = prefect
    Images <- MCImages
    Tagged <- MCTagged
SPECIFICATION FairSpec
INVARIANTS
    TypeOK
    FailedBuildBlocksReady
    OnlyRacesMaskErrors
PROPERTIES
    KeepsBoard
    BuildReturns
\* Build returns once: the system stops.
CHECK_DEADLOCK FALSE
