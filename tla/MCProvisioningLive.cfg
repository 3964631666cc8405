CONSTANTS
    sedona = sedona
    minio = minio
    prefect = prefect
    old1 = old1
    None = None
    Images = {sedona, minio}
    Tagged = {sedona, minio}
    Checked = {}
    Terminals = {}
    WebUI = {sedona}
    Old = {}
    MayFail = TRUE
    MaxFaults = 0
SPECIFICATION FairSpec
PROPERTIES
    BuildErrorExits
    StuckOnlyByLostFailure
\* The command ends, or waits with no goroutine left to act.
CHECK_DEADLOCK FALSE
