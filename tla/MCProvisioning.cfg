CONSTANTS
    sedona = sedona
    minio = minio
    prefect = prefect
    old1 = old1
    None = None
    Images = {sedona, minio}
    Tagged = {sedona, minio}
    Checked = {}
    Terminals = {minio}
    WebUI = {sedona}
    Old = {old1}
    MayFail = TRUE
    MaxFaults = 1
SPECIFICATION Spec
INVARIANTS
    TypeOK
    CleanSlate
    WatchedWhileBuilding
PROPERTIES
    FailureHoldsWait
    ReportsProgress
    HandsOver
\* The command ends, or waits with no goroutine left to act.
CHECK_DEADLOCK FALSE
