CONSTANTS
    MayFail = TRUE
    sedona = sedona
    minio = minio
    None = None
    Images <- MCImages
    Containers <- MCImages
    Checked <- MCChecked
    Terminals <- MCTerminals
    WebUI <- MCWebUI
SPECIFICATION FairSpec
INVARIANTS
    TypeOK
    FailedRunBlocksReady
    TerminalIsHealthy
    OnlyFailuresLeaveCreated
    UrlBeforeStatus
PROPERTIES
    KeepsBoard
    RunReturns
\* RunContainers returns once: the system stops.
CHECK_DEADLOCK FALSE
